------------------------------ MODULE MCFences ------------------------------
(***************************************************************************)
(* TLC instance of the three fences of the repository: the PostgreSQL      *)
(* function, the Redis script, and the executable model the ports are      *)
(* compared with.  A resource is protected by one of them, chosen in the   *)
(* initial state; the others stay as they start.                           *)
(***************************************************************************)
EXTENDS FencingSql

CONSTANTS
    Texts, TokenLimit, Defects, CorruptPairs, BAD, \* RedisFence
    OracleClients, Values, MaxTime, MaxFence, TTL  \* FencingOracle

MCTexts == UNION {[1..n -> {0, 1, 2, 9}] : n \in 0..2} \cup {<<1, 0, 0>>, <<0, 0, 1>>, BAD}
MCTokenLimit == <<1, 2>>
MCDefects == {"too_long"}

Sound(t) ==
    [fencing_token |-> t, operation_id |-> "op1", payload_sha256 |-> "p1", holder |-> NULL, lease_id |-> NULL]

RedisFields == DOMAIN Sound(NULL)

\* Wrong types, an orphan value, a missing value, a damaged token or field, a
\* partial hash and one with too many fields.
MCCorruptPairs ==
    {<<BAD, NULL>>, <<NULL, BAD>>, <<Sound(<<1>>), BAD>>, <<NULL, "p1">>, <<Sound(<<1>>), NULL>>,
     <<Sound(<<0, 1>>), "p1">>, <<Sound(BAD), "p1">>,
     <<[Sound(<<1>>) EXCEPT !.operation_id = "too_long"], "p1">>,
     <<[f \in {"fencing_token", "operation_id"} |-> Sound(<<1>>)[f]], "p1">>,
     <<[f \in RedisFields \cup {"note"} |-> IF f = "note" THEN NULL ELSE Sound(<<1>>)[f]], "p1">>}

VARIABLES
    store,        \* "postgres", "redis" or "oracle"
    hash, string, \* RedisFence's keys
    oracle        \* FencingOracle's state

Script == INSTANCE RedisFence WITH MaxToken <- TokenLimit, value <- string
Oracle == INSTANCE FencingOracle WITH Clients <- OracleClients, s <- oracle

\* Bounds of the exploration; null is no client, number or watermark.
ASSUME OracleAssumption ==
    /\ MaxTime \in Nat /\ MaxFence \in Nat /\ TTL \in Nat \ {0}
    /\ NULL \notin OracleClients /\ NULL \notin Nat
    /\ {NULL, Malformed} \cap Oracle!Store!FencedWrites = {}

\* What arrives as a token is digits or BAD; the limit is a canonical token; a
\* damaged pair is one the script refuses; null and BAD are no contents.
ASSUME ScriptAssumption ==
    /\ NULL \notin Texts /\ Texts \ {BAD} \subseteq Seq(0..9)
    /\ TokenLimit \in Seq(0..9) /\ TokenLimit # <<>> /\ (TokenLimit[1] = 0 => Len(TokenLimit) = 1)
    /\ Defects \cap (OperationIds \cup Payloads \cup {NULL}) = {}
    /\ {NULL, BAD} \cap Payloads = {}
    /\ {NULL, BAD} \cap {Script!HSet(r) : r \in Script!Requests} = {}
    /\ {NULL, Malformed} \cap Script!Fence!FencedWrites = {}
    /\ \A p \in CorruptPairs : Script!Damaged(p[1], p[2])

FencesInit ==
    /\ store \in {"postgres", "redis", "oracle"}
    /\ Init /\ (row = NULL \/ store = "postgres")
    /\ Script!RedisFenceInit /\ (<<hash, string>> = <<NULL, NULL>> \/ store = "redis")
    /\ oracle = Oracle!initialState

FencesNext ==
    \/ store = "postgres" /\ Next /\ UNCHANGED <<store, hash, string, oracle>>
    \/ store = "redis" /\ Script!RedisFenceNext /\ UNCHANGED <<store, sqlVars, oracle>>
    \/ store = "oracle" /\ Oracle!step(Oracle!expire(oracle)) /\ UNCHANGED <<store, sqlVars, hash, string>>

FencesSpec == FencesInit /\ [][FencesNext]_<<store, sqlVars, hash, string, oracle>> /\ Fairness

\* The Redis script and the helpers of fence.ts decide alike.
MirrorsDecideAlike == store = "redis" => Script!MirrorsDecideAlike

\* The Redis script implements the atomic fence.
RedisFenceImplementsStore == Script!RedisFenceImplementsStore

\* The executable model refines lease and store (formal/model.mjs).
OracleRefines == Oracle!OracleRefines
=============================================================================
