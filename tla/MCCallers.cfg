INIT CallersInit
NEXT CallersNext
SYMMETRY CallerSymmetry
CONSTANTS
    Holders = {a, b}
    NULL = NULL
    RequestIds = {1, 2}
    Ttls = {0, 2}
    MaxTtl = 2
    MaxMinted = 2
    Horizon = 4
    RetryInterval = 1
    WaitTimeout = 1
    MaxRequest = 2
    BeamCallers = {a, b}
    BeamTtl = 1
    MaxSequence = 2
    MaxEpoch = 2
    BeamRequests = 1
    MaxOrphans = 1
    BeamHorizon = 2
CHECK_DEADLOCK FALSE
INVARIANTS
    RpcInv
    BeamInv
PROPERTIES
    FreshWhenReturned
