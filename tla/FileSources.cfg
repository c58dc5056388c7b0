SPECIFICATION Spec
CONSTANTS
    Sources <- MCSources
    Files = {1, 2, 3}
    Pattern <- MCPattern
    Keepers = {"a", "b"}
    MaxEdits = 3
    MaxTicks = 3
    MaxFaults = 1
INVARIANTS
    NoChangeLost
CHECK_DEADLOCK FALSE
