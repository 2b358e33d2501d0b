SPECIFICATION Spec
CONSTANTS
    Procs = {a, b}
    Recoverers = {r1, r2}
    Inspectors = {}
    MaxOwners = 2
    MaxTries = 0
    NULL = NULL
INVARIANT ClaimsExpectedOwner
CHECK_DEADLOCK FALSE
