INIT AdaptersInit
NEXT AdaptersNext
CONSTANTS
    k1 = k1
    k2 = k2
    n1 = n1
    n2 = n2
    n3 = n3
    None = None
    CORRUPT = CORRUPT
    Clients <- MCClients
    Nodes <- MCNodes
    Ttl = 2
    RetryInterval = 1
    WaitTimeout = 1
    Ceiling <- MCCeiling
    InitialFences <- Boundaries
    MaxAcquire = 2
    MaxOrphans = 1
    Horizon = 4
    MaxToken = 3
    MaxAttempt = 2
    RedisHorizon = 4
SYMMETRY MCSymmetry
CHECK_DEADLOCK FALSE
INVARIANTS
    HeldIsCurrentOrOlder
    LiveGrantIsNewest
PROPERTIES
    ScriptSteps
    RedisImplementsLease
