CONSTANTS
    j1 = j1
    j2 = j2
    w1 = w1
    w2 = w2
    s1 = s1
    s2 = s2
    NoWorker = NoWorker
    NoJob = NoJob
    Jobs <- TwoJobs
    Workers <- TwoWorkers
    Schedulers <- OneScheduler
    Url <- AllOfOne
    MaxFaults = 2
SPECIFICATION FairSpec
INVARIANTS
    AwaitedJobInQueue
PROPERTIES
    RecordFinal
    ImplementsJobQueue
    EveryFutureResolved
CHECK_DEADLOCK FALSE
