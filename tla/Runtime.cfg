SPECIFICATION Spec
CONSTANTS
    Considered = {"refresh", "incremental", "appended"}
    Pipelines <- MCPipelines
    Parts = {1, 2}
    MaxPartitions = 2
    Distributed = FALSE
    MaxTicks = 3
    MaxFaults = 1
    MaxOps = 1
INVARIANTS
    FreshAfterTick
    ReplayReproduces
    LostRunsAreRedone
    NoRowTwice
    PartitionsComplete
    DryRunTellsTruth
PROPERTY
    GcKeepsWhatIsRead
CHECK_DEADLOCK FALSE
