SPECIFICATION S3Spec
CONSTANTS
    Workers <- MCWorkers
    Commands <- MCCommands
    MaxRuns = 3
    MaxOpens = 4
    MaxFailures = 1
INVARIANT
    SchedulerSeesHistory
CHECK_DEADLOCK FALSE
