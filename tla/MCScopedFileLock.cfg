SPECIFICATION CastSpec
CONSTANTS
    a = a
    b = b
    r1 = r1
    r2 = r2
    i = i
    Procs <- MCProcs
    Recoverers <- MCRecoverers
    Inspectors <- MCInspectors
    MaxOwners = 2
    MaxTries = 1
    NULL = NULL
CHECK_DEADLOCK FALSE
INVARIANTS
    FileInv
    RecoveredOnce
    ScopedInv
PROPERTIES
    FileCallsEnd
