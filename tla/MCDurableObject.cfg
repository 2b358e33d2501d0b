SPECIFICATION DurableSpec
CONSTANTS
    Holders = {h1, h2}
    RequestIds = {r1, r2}
    NULL = NULL
    Ttls = {0, 1, 2}
    MaxTtl = 2
    MaxMinted = 3
    Horizon = 5
    Envs <- MCEnvs
    Bodies <- MCBodies
    Framings <- MCFramings
    MaxBody = 3
    BoundaryTtl = 2
    Characters = {"o", "p", "x", "/"}
CHECK_DEADLOCK FALSE
INVARIANTS
    AuthorityTypeOK
    ActiveLeaseIsNewest
    BoundarySound
PROPERTIES
    AbandonedLeaseCleared
    ImplementsLease
