SPECIFICATION WaitSpec
CONSTANTS
    Holders = {a, b}
    NULL = NULL
    RequestIds = {1, 2}
    Ttls = {2}
    MaxTtl = 2
    MaxMinted = 1
    Horizon = 2
    RetryInterval = 1
    WaitTimeout = 1
    MaxRequest = 2
    FiduciaTtl = 2
    FiduciaWait = 2
    BeamCallers = {c, d}
    BeamTtl = 1
    MaxSequence = 2
    MaxEpoch = 1
    MaxOrphans = 0
    BeamRequests = 1
    BeamHorizon = 2
CHECK_DEADLOCK FALSE
INVARIANTS
    EndedLeavesNothing
PROPERTIES
    WaitingEnds
