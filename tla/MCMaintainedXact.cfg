SPECIFICATION MaintainedSpec
CONSTANTS
    Callers = {a, b}
    MaxToken = 2
    MaxPolls = 1
    MAX_PERIODIC_RENEWALS = 2
    MAX_CONTENTION_RETRIES = 2
    NULL = NULL
CHECK_DEADLOCK FALSE
INVARIANTS
    CommitsInTokenOrder
    NoCommitAfterLoss
    PoolIsClean
    OracleAsserts
PROPERTIES
    ReleasedOnce
    CallsEnd
    LockReclaimed
