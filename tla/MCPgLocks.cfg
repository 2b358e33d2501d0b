SPECIFICATION PgSpec
CONSTANTS
    p1 = p1
    p2 = p2
    s1 = s1
    s2 = s2
    NULL = NULL
    Callers <- MCCallers
    Sessions <- MCSessions
    DriverTimeouts <- Statements
    Modes <- AllModes
    MaxCalls = 2
SYMMETRY MCSymmetry
CHECK_DEADLOCK FALSE
INVARIANTS
    PgInv
    PlanFollowed
