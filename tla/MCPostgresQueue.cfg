CONSTANTS
    j1 = j1
    j2 = j2
    j3 = j3
    w1 = w1
    w2 = w2
    NoWorker = NoWorker
    Jobs <- MCJobs
    Workers <- MCWorkers
SPECIFICATION PgSpec
INVARIANTS
    RowsConsistent
    SelectedRowIsStillPending
PROPERTIES
    ImplementsJobQueue
