SPECIFICATION ScheduleSpec
CONSTANTS
    Unit = 3
    Minutes = 3
    Hours = 2
    Schedules <- MCSchedules
    MaxTime = 24
    MaxFailures = 1
INVARIANTS
    SucceedsOncePerMinute
    RestsForInterval
CHECK_DEADLOCK FALSE
