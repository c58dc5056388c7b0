CONSTANTS
    j1 = j1
    j2 = j2
    w1 = w1
    w2 = w2
    NoWorker = NoWorker
    NoJob = NoJob
    Jobs <- OneJob
    Workers <- TwoWorkers
    Faults <- OnlyCrash
    MaxFaults = 1
SPECIFICATION FairSpec
PROPERTIES
    Reclaimed
CHECK_DEADLOCK FALSE
