SPECIFICATION Spec
CONSTANTS
    N = 3
    a = a
    b = b
    c = c
    Tables <- MCTables
INVARIANTS
    LevelsFollowEdges
    LevelsAreTight
    CycleErrorIsRight
CHECK_DEADLOCK FALSE
