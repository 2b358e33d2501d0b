SPECIFICATION RenewalSpec
CONSTANTS
    c1 = c1
    c2 = c2
    NULL = NULL
    BAD = BAD
    Calls <- MCCalls
    Ttl = 3
    renewEveryMs = 2
    safetyMarginMs = 2
    Distortions <- AllDistortions
    ClockFaults <- AllClockFaults
    MaxClock = 8
    Horizon = 7
SYMMETRY CallSymmetry
CHECK_DEADLOCK FALSE
INVARIANTS
    RenewalInv
    SequentialNeverRegresses
PROPERTIES
    NoRevival
