SPECIFICATION Spec
CONSTANTS
    Pages = {p1, p2}
    Positions <- MCPositions
    Duration = 10
    MaxPresses = 1
    MaxLost = 1
    MaxNet = 2
INVARIANTS
    NoStaleWrite
PROPERTIES
    StalePageCatchesUp
CHECK_DEADLOCK FALSE
