SPECIFICATION Spec
CONSTANTS
    t1 = t1
    t2 = t2
    Threads <- MCThreads
    None = None
    Relations <- MCRelations
    MaxCalls = 4
    MaxFaults = 2
SYMMETRY Symmetry
INVARIANTS
    SnapshotIdIsOwn
    RecordsAreDurable
PROPERTIES
    FailedWriteLeavesTable
CHECK_DEADLOCK FALSE
