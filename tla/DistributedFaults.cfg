CONSTANTS
    j1 = j1
    j2 = j2
    w1 = w1
    w2 = w2
    NoWorker = NoWorker
    NoJob = NoJob
    Jobs <- TwoJobs
    Workers <- TwoWorkers
    Faults <- AllFaults
    MaxFaults = 1
SPECIFICATION FairSpec
INVARIANTS
    TypeOK
    NoLostJob
    NoLostFuture
    LevelBarrier
    ActiveCountExact
PROPERTIES
    OutcomeFinal
    AwaitedJobNotRequeued
    RecordFinal
    ImplementsTickContract
    EveryJobRecorded
CHECK_DEADLOCK FALSE
