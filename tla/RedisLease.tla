------------------------------ MODULE RedisLease ----------------------------
(***************************************************************************)
(* The Redis lease authority (the three EVAL scripts of upstash-redis.ts,  *)
(* also in managed/redis) and its clients (UpstashRedisLease).  A script   *)
(* is one atomic action.  The lock key carries a PTTL and is gone when it  *)
(* has run out; the fence key is a decimal string incremented digit by     *)
(* digit.  A request whose caller saw a transport error may still arrive.  *)
(***************************************************************************)
EXTENDS DecimalText, FiniteSets

CONSTANTS
    Clients,       \* holders; a client passes its own name as opts.holder
    Ttl, RetryInterval, WaitTimeout, \* opts
    Ceiling,       \* MAX_FENCING_TOKEN, as digits
    InitialFences, \* contents of the fence key at the start
    MaxAcquire,    \* bound: logical acquisitions per client
    MaxOrphans,    \* bound: abandoned requests still on their way
    Horizon,       \* bound: time stops there
    NULL, CORRUPT

\* validateTtl rejects other TTLs; the rest are the other options and bounds.
Options ==
    /\ Ttl \in Nat \ {0} /\ RetryInterval \in Nat /\ WaitTimeout \in Nat
    /\ MaxAcquire \in Nat /\ MaxOrphans \in Nat /\ Horizon \in Nat

VARIABLES
    lock,      \* the lock hash with its expiry, CORRUPT, or NULL
    fence,     \* the fence string: digits, NULL when absent, or CORRUPT
    now,
    client,    \* per client: pc, the request sent or the response, its grant,
               \* timers, and the ordinal of its logical acquisition
    orphans,   \* requests whose caller gave up
    origin     \* history: the counter at the start

redisVars == <<lock, fence>>
vars == <<redisVars, now, client, orphans, origin>>

-----------------------------------------------------------------------------
(* Decimal strings.                                                        *)

\* string.gsub(current, '^0+', ''), then '0' for the empty string.
StripZeros(ds) ==
    LET nonzero == {i \in 1..Len(ds) : ds[i] # 0}
    IN  IF nonzero = {} THEN <<0>>
        ELSE SubSeq(ds, CHOOSE i \in nonzero : \A j \in nonzero : i <= j, Len(ds))

\* The carry after n digits, from the right.
Carry(ds) ==
    LET c[n \in 0..Len(ds)] ==
            IF n = 0 THEN 1 ELSE IF ds[Len(ds) + 1 - n] + c[n - 1] >= 10 THEN 1 ELSE 0
    IN  c

Increment(ds) ==
    LET sum(i) == ds[i] + Carry(ds)[Len(ds) - i]
        next == [i \in 1..Len(ds) |-> IF sum(i) >= 10 THEN sum(i) - 10 ELSE sum(i)]
    IN  IF Carry(ds)[Len(ds)] = 1 THEN <<1>> \o next ELSE next

Exhausted(t) == Len(t) > Len(Ceiling) \/ (Len(t) = Len(Ceiling) /\ LexGreater(t, Ceiling))

-----------------------------------------------------------------------------
(* The scripts.  Each answers from the state it finds.                     *)

Present == lock # NULL /\ (lock # CORRUPT => now < lock.expires)
Live == Present /\ lock # CORRUPT
NextToken == Increment(StripZeros(IF fence = NULL THEN <<0>> ELSE fence))

CanMint == fence # CORRUPT /\ ~Exhausted(NextToken)

\* Mutant: a replayed acquire resets the TTL.
AcquireScriptExtends(b) ==
    \/ /\ Present
       /\ lock' = IF Live /\ lock.holder = b.holder THEN [lock EXCEPT !.expires = now + Ttl] ELSE lock
       /\ UNCHANGED fence
    \/ /\ ~Present
       /\ ~CanMint
       /\ UNCHANGED redisVars
    \/ /\ ~Present
       /\ CanMint
       /\ fence' = NextToken
       /\ lock' = [holder |-> b.holder, token |-> NextToken, expires |-> now + Ttl]

\* Mutant: the lock key is written without asking whether it exists.
AcquireScriptOverwrites(b) ==
    /\ CanMint
    /\ fence' = NextToken
    /\ lock' = [holder |-> b.holder, token |-> NextToken, expires |-> now + Ttl]

\* Mutant: a new lease after the old one ran out keeps the counter.
AcquireScriptReuses(b) ==
    \/ /\ Present
       /\ UNCHANGED redisVars
    \/ /\ ~Present /\ lock # NULL
       /\ lock' = [lock EXCEPT !.holder = b.holder, !.expires = now + Ttl]
       /\ UNCHANGED fence
    \/ /\ ~Present /\ lock = NULL /\ CanMint
       /\ fence' = NextToken
       /\ lock' = [holder |-> b.holder, token |-> NextToken, expires |-> now + Ttl]

AcquireScript(b) ==
    \/ /\ Present
       /\ UNCHANGED redisVars
    \/ /\ ~Present
       /\ ~CanMint
       /\ UNCHANGED redisVars
    \/ /\ ~Present
       /\ CanMint
       /\ fence' = NextToken
       /\ lock' = [holder |-> b.holder, token |-> NextToken, expires |-> now + Ttl]

AcquireAnswer(b) ==
    CASE Present /\ ~Live -> [kind |-> "error"]
      [] Live /\ lock.holder = b.holder ->
            [kind |-> "replayed", token |-> lock.token, pttl |-> lock.expires - now]
      [] Live /\ lock.holder # b.holder -> [kind |-> "refused"]
      [] ~Present /\ ~CanMint -> [kind |-> "error"]
      [] OTHER -> [kind |-> "granted", token |-> NextToken, pttl |-> Ttl]

Matches(b) == Live /\ lock.holder = b.holder /\ lock.token = b.token

RenewScript(b) ==
    /\ lock' = IF Matches(b) THEN [lock EXCEPT !.expires = now + Ttl] ELSE lock
    /\ UNCHANGED fence

RenewAnswer(b) ==
    IF Matches(b) THEN [kind |-> "renewed", pttl |-> Ttl] ELSE [kind |-> "refused"]

ReleaseScript(b) ==
    /\ lock' = IF Matches(b) THEN NULL ELSE lock
    /\ UNCHANGED fence

ReleaseAnswer(b) == [kind |-> IF Matches(b) THEN "released" ELSE "refused"]

Run(b) ==
    \/ b.op = "acquire" /\ AcquireScript(b)
    \/ b.op = "renew" /\ RenewScript(b)
    \/ b.op = "release" /\ ReleaseScript(b)

Answer(b) ==
    CASE b.op = "acquire" -> AcquireAnswer(b)
      [] b.op = "renew" -> RenewAnswer(b)
      [] b.op = "release" -> ReleaseAnswer(b)

\* The expiry of the longest grant stays inside the horizon.
InHorizon == now + Ttl <= Horizon

-----------------------------------------------------------------------------
(* #command: the request travels, the script runs, the answer travels.     *)

Body(op, c, t) == [op |-> op, holder |-> c, token |-> t]

At(pc, n) ==
    [pc |-> pc, request |-> NULL, response |-> NULL, grant |-> NULL,
     started |-> 0, wait |-> FALSE, wakeAt |-> 0, nth |-> n]

\* The client goes on at pc: it sends b, or settles (b = NULL).
Goes(c, pc, b, g) ==
    client' = [client EXCEPT ![c] = [@ EXCEPT !.pc = pc, !.request = b, !.response = NULL, !.grant = g]]

Serve(c) ==
    /\ client[c].request # NULL
    /\ InHorizon
    /\ Run(client[c].request)
    /\ client' = [client EXCEPT ![c].response = Answer(client[c].request), ![c].request = NULL]
    /\ UNCHANGED <<now, orphans, origin>>

ServeOrphan(b) ==
    /\ InHorizon
    /\ Run(b)
    /\ orphans' = orphans \ {b}
    /\ UNCHANGED <<now, client, origin>>

\* fetch rejects, the status is bad or the body is malformed: `transport`.
\* The request may be lost, may have run, or may run later.  The caller of
\* a renewal still has its grant, to renew or release again; a release that
\* failed is not tried again (on its way, it may run any time later).
TransportError(c) ==
    /\ client[c].pc \in {"acquiring", "recovering", "renewing", "releasing"}
    /\ \/ orphans' = orphans
       \/ /\ client[c].request # NULL
          /\ Cardinality(orphans) < MaxOrphans
          /\ orphans' = orphans \cup {client[c].request}
    /\ \/ client[c].pc = "renewing" /\ Goes(c, "held", NULL, client[c].grant)
       \/ /\ client[c].pc # "renewing"
          /\ client' = [client EXCEPT ![c] = At(IF @.pc = "releasing" THEN "idle" ELSE "failed", @.nth)]
    /\ UNCHANGED <<redisVars, now, origin>>

-----------------------------------------------------------------------------
(* acquire: after a failure the caller may retry the same logical          *)
(* acquisition; otherwise it is a new one.                                 *)

StartAcquire(c) ==
    /\ client[c].pc \in {"idle", "failed"}
    /\ \E w \in BOOLEAN, n \in {client[c].nth, client[c].nth + 1} :
        /\ client[c].pc = "idle" => n = client[c].nth + 1
        /\ n <= MaxAcquire
        /\ client' = [client EXCEPT ![c] =
               [At("acquiring", n) EXCEPT !.request = Body("acquire", c, NULL),
                                          !.wait = w, !.started = IF w THEN now ELSE 0]]
    /\ UNCHANGED <<redisVars, now, orphans, origin>>

\* leaseExpiresMs is the time the answer arrives plus the PTTL it carries.
GrantOf(r) == [token |-> r.token, expires |-> now + r.pttl]

AcquireAnswered(c) ==
    LET k == client[c]
        r == k.response
        timedOut == now - k.started + RetryInterval > WaitTimeout
    IN  /\ k.pc = "acquiring" /\ r # NULL
        /\ \/ /\ r.kind = "error"
              /\ client' = [client EXCEPT ![c] = At("failed", k.nth)]
           \/ /\ r.kind = "granted"
              /\ client' = [client EXCEPT ![c] = [At("held", k.nth) EXCEPT !.grant = GrantOf(r)]]
           \/ /\ r.kind = "replayed"
              /\ Goes(c, "recovering", Body("renew", c, r.token), GrantOf(r))
           \/ /\ r.kind = "refused"
              /\ ~k.wait \/ timedOut
              /\ client' = [client EXCEPT ![c] = At("failed", k.nth)]
           \/ /\ r.kind = "refused"
              /\ k.wait /\ ~timedOut
              /\ client' = [client EXCEPT ![c] =
                     [@ EXCEPT !.pc = "sleeping", !.response = NULL, !.wakeAt = now + RetryInterval]]
    /\ UNCHANGED <<redisVars, now, orphans, origin>>

Wake(c) ==
    /\ client[c].pc = "sleeping" /\ client[c].wakeAt <= now
    /\ Goes(c, "acquiring", Body("acquire", c, NULL), NULL)
    /\ UNCHANGED <<redisVars, now, orphans, origin>>

StartRenew(c) ==
    /\ client[c].pc = "held"
    /\ Goes(c, "renewing", Body("renew", c, client[c].grant.token), client[c].grant)
    /\ UNCHANGED <<redisVars, now, orphans, origin>>

RenewAnswered(c) ==
    LET k == client[c]
    IN  /\ k.pc \in {"recovering", "renewing"} /\ k.response # NULL
        /\ client' = [client EXCEPT ![c] =
               IF k.response.kind = "renewed"
               THEN [At("held", k.nth) EXCEPT
                        !.grant = [k.grant EXCEPT !.expires = now + k.response.pttl]]
               ELSE At("failed", k.nth)]
    /\ UNCHANGED <<redisVars, now, orphans, origin>>

StartRelease(c) ==
    /\ client[c].pc = "held"
    /\ Goes(c, "releasing", Body("release", c, client[c].grant.token), NULL)
    /\ UNCHANGED <<redisVars, now, orphans, origin>>

ReleaseAnswered(c) ==
    /\ client[c].pc = "releasing" /\ client[c].response # NULL
    /\ client' = [client EXCEPT ![c] = At("idle", @.nth)]
    /\ UNCHANGED <<redisVars, now, orphans, origin>>

\* Redis drops an expired key.
Tick ==
    /\ now < Horizon
    /\ now' = now + 1
    /\ UNCHANGED <<redisVars, client, orphans, origin>>

-----------------------------------------------------------------------------
RedisInit ==
    /\ fence \in InitialFences
    /\ lock \in {NULL} \cup (IF fence = CORRUPT THEN {CORRUPT} ELSE {})
    /\ origin = IF fence \in {NULL, CORRUPT} THEN 0 ELSE Value(fence)
    /\ now = 0
    /\ client = [c \in Clients |-> At("idle", 0)]
    /\ orphans = {}

RedisNext ==
    \/ \E c \in Clients : \/ Serve(c) \/ TransportError(c) \/ StartAcquire(c) \/ AcquireAnswered(c)
                          \/ Wake(c) \/ StartRenew(c) \/ RenewAnswered(c)
                          \/ StartRelease(c) \/ ReleaseAnswered(c)
    \/ \E b \in orphans : ServeOrphan(b)
    \/ Tick

RedisSpec == RedisInit /\ [][RedisNext]_vars

-----------------------------------------------------------------------------
(* Properties.                                                             *)

\* The fence key only ever holds a canonical decimal no larger than the
\* ceiling, except what was there before the first grant, and each grant moves
\* it by one: the carry loop and the comparison by length and text are
\* arithmetic.
FenceCountsByOne ==
    [][fence' # fence =>
          /\ Value(fence') = (IF fence = NULL THEN 0 ELSE Value(fence)) + 1
          /\ Head(fence') # 0
          /\ Value(fence') <= Value(Ceiling)]_vars

\* While a client holds a grant, the lease Redis keeps is that very grant or
\* one with a larger token: no delayed renewal, release or duplicate acquire
\* lets an older token act for a newer one.
HeldIsCurrentOrOlder ==
    \A c \in Clients : (client[c].pc = "held" /\ Live) =>
        \/ lock.holder = c /\ lock.token = client[c].grant.token
        \/ Value(client[c].grant.token) < Value(lock.token)

\* Only a renewal that names the token extends a lease: an acquire replayed to
\* its own holder, however late or often it arrives, leaves the expiry alone.
OnlyRenewalExtends ==
    [][(Live /\ lock' # NULL /\ lock'.token = lock.token /\ lock'.expires # lock.expires) =>
          \E b \in orphans \cup {client[c].request : c \in Clients} :
              b # NULL /\ b.op = "renew" /\ b.token = lock.token]_vars

\* What a script may change.
ScriptSteps == FenceCountsByOne /\ OnlyRenewalExtends

\* What callers rely on.
Abs == INSTANCE AbstractLease WITH
    Owners <- Clients,
    owner  <- IF Live THEN lock.holder ELSE NULL,
    active <- IF Live THEN Value(lock.token) - origin ELSE NULL,
    minted <- IF fence \in {NULL, CORRUPT} THEN 0 ELSE Value(fence) - origin

\* The Redis scripts implement the lease every caller is written against.
RedisImplementsLease == Abs!LeaseSpec
=============================================================================
