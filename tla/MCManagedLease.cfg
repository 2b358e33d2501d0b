SPECIFICATION MCSpec
SYMMETRY ClientSymmetry
CONSTANTS
    Holders = {a, b}
    NULL = NULL
    RequestIds = {1, 2}
    Ttls = {2}
    MaxTtl = 2
    MaxMinted = 2
    Horizon = 4
    Ttl = 2
    RetryInterval = 1
    WaitTimeout = 1
    MaxRequest = 2
    MaxOrphans = 1
    Malformed = Malformed
    Payloads = {p}
INVARIANTS
    BeliefInv
    SuccessesExclusive
PROPERTIES
    FreshWhenExposed
    AcceptedInGrantOrder
