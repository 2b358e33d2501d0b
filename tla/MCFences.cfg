SPECIFICATION FencesSpec
CONSTANTS
    Sessions = {s1, s2}
    FenceTokens = {1, 2}
    OperationIds = {"op1", "op2"}
    Payloads = {"p1", "p2"}
    Malformed = Malformed
    NULL = NULL
    BAD = BAD
    Texts <- MCTexts
    TokenLimit <- MCTokenLimit
    Defects <- MCDefects
    CorruptPairs <- MCCorruptPairs
    OracleClients = {a, b}
    Values = {1, 2}
    MaxTime = 5
    MaxFence = 4
    TTL = 2
CHECK_DEADLOCK FALSE
INVARIANTS
    SqlInv
    MirrorsDecideAlike
PROPERTIES
    ImplementsFenceStore
    TransactionsEnd
    RedisFenceImplementsStore
    OracleRefines
