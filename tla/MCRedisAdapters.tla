--------------------------- MODULE MCRedisAdapters --------------------------
(***************************************************************************)
(* TLC instance of the two adapters that lease from Redis: one server with *)
(* scripts, or a quorum of servers with a token authority.  A deployment   *)
(* uses one of them, chosen in the initial state; the other one stays as   *)
(* it starts.                                                              *)
(***************************************************************************)
EXTENDS FencedRedlock, Sequences, TLC

CONSTANTS
    Ceiling, InitialFences, MaxAcquire, MaxOrphans, CORRUPT, RedisHorizon, \* RedisLease
    k1, k2, n1, n2, n3

MCClients == {k1, k2}
MCNodes == {n1, n2, n3}
MCCeiling == <<1, 0, 0>>
Boundaries == {None, CORRUPT, <<0, 9, 9>>}
MCSymmetry == Permutations(MCClients) \cup Permutations(MCNodes)

VARIABLES
    adapter,                                        \* "redis" or "redlock"
    redisLock, fence, time, caller, orphans, origin \* RedisLease's variables

Redis == INSTANCE RedisLease WITH
    Horizon <- RedisHorizon, lock <- redisLock, now <- time, client <- caller, NULL <- None

\* The limit is a canonical token, the counter starts absent, corrupt or as
\* digits, and null and corrupt are no contents.
ASSUME RedisAssumption ==
    /\ Redis!Options
    /\ Ceiling \in Seq(0..9) /\ Ceiling # <<>> /\ (Ceiling[1] = 0 => Len(Ceiling) = 1)
    /\ InitialFences \ {None, CORRUPT} \subseteq Seq(0..9) \ {<<>>}
    /\ None # CORRUPT /\ None \notin Clients /\ None \notin Int
    /\ {None, CORRUPT} \cap Seq(0..9) = {}
    /\ {None, CORRUPT} \cap [holder : Clients, token : Seq(0..9), expires : Nat] = {}
    /\ None \notin [op : {"acquire", "renew", "release"}, holder : Clients, token : Seq(0..9) \cup {None}]

AdaptersInit ==
    /\ adapter \in {"redis", "redlock"}
    /\ Redis!RedisInit /\ (adapter = "redlock" => fence = None)
    /\ RedlockInit

AdaptersNext ==
    \/ adapter = "redis" /\ Redis!RedisNext /\ UNCHANGED <<adapter, vars>>
    \/ adapter = "redlock" /\ RedlockNext /\ UNCHANGED <<adapter, redisLock, fence, time, caller, orphans, origin>>

\* While a client holds a grant, Redis keeps that grant or a newer one (upstash-redis.ts).
HeldIsCurrentOrOlder == Redis!HeldIsCurrentOrOlder

\* What a script may change (upstash-redis.ts).
ScriptSteps == Redis!ScriptSteps

\* The scripts implement the lease every caller is written against.
RedisImplementsLease == Redis!RedisImplementsLease
=============================================================================
