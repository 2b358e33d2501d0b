---------------------------- MODULE ManagedLease ----------------------------
(***************************************************************************)
(* Clients of the Durable Object authority doing fenced work under a       *)
(* lease: withLease (lease.ts) over CloudflareDurableObjectLease           *)
(* (cloudflare-do.ts), the authority (LeaseAuthority) and a fenced         *)
(* datastore (FenceStore).                                                 *)
(*                                                                         *)
(* A call is a request travelling to the authority and a response          *)
(* travelling back.  When fetch rejects, the client throws `transport` and *)
(* the request may still arrive later, or never: it becomes an orphan.  A  *)
(* client may crash anywhere and starts again under the same holder name.  *)
(* A caller that failed before it sent a release may try again with the    *)
(* same request id (the same logical acquisition, possibly already         *)
(* committed); any later acquisition uses a new request id.  A fenced      *)
(* write may arrive late and more than once.                               *)
(***************************************************************************)
EXTENDS LeaseAuthority, FiniteSets

CONSTANTS
    Ttl,           \* opts.ttlMs
    RetryInterval, \* opts.retryIntervalMs
    WaitTimeout,   \* opts.waitTimeoutMs
    MaxRequest,    \* bound: logical acquisitions per client
    MaxOrphans,    \* bound: abandoned requests on their way; further ones are lost
    Payloads,      \* payload digests of guarded writes
    Malformed      \* see FenceStore; the datastore here starts empty

ASSUME TimingAssumption ==
    /\ Ttl \in Ttls /\ Ttl > 0 /\ Ttl <= MaxTtl
    /\ RetryInterval \in Nat /\ WaitTimeout \in Nat
    /\ MaxRequest \in Nat /\ MaxOrphans \in Nat /\ 1..MaxRequest \subseteq RequestIds

VARIABLES
    pc,       \* where each client is in withLease
    request,  \* the call a client awaits, still on its way, or NULL
    response, \* the answer to that call, or NULL
    orphans,  \* requests whose caller gave up, still on their way
    grant,    \* the LeaseGrant a client holds, or NULL
    rid,      \* requestId of the current logical acquisition
    wait,     \* acquire's `wait` argument
    started,  \* when the current acquire started
    wakeAt,   \* when a sleeping client polls again
    workOk,   \* whether work succeeded
    writes,   \* fenced writes sent to the datastore, and the grant's ordinal
    watermark, state, \* the fenced datastore
    mints,    \* history: number of grants the authority made
    accepted, \* history: ordinal of the grant whose write was accepted last
    rivals,   \* history: clients whose work overlapped with this client's
    beaten    \* history: clients overlapped by a withLease call that succeeded

Clients == Holders

Store == INSTANCE FenceStore WITH FenceTokens <- Tokens, OperationIds <- Clients

storeVars == <<watermark, state, accepted>>
timerVars == <<wait, started, wakeAt>>
rivalry == <<rivals, beaten>>
clientVars == <<pc, request, response, grant, rid, timerVars, workOk>>
vars == <<authorityVars, clientVars, orphans, writes, storeVars, mints, rivalry>>

-----------------------------------------------------------------------------
(* Messages, and the authority's answer read off the row its handler sees. *)

Body(op, c, r, t) == [op |-> op, holder |-> c, request |-> r, token |-> t]

NoGrant == [token |-> NULL, expires |-> NULL, nth |-> NULL]
Reply(kind, g) == [kind |-> kind, grant |-> g]

Bodies ==
    [op : {"acquire", "renew", "release"}, holder : Clients, request : 1..MaxRequest \cup {NULL}, token : Tokens \cup {NULL}]
Grants == [token : Tokens, expires : Nat, nth : Nat]
Replies ==
    [kind : {"granted", "replayed", "refused", "exhausted", "renewed", "released"},
     grant : [token : Tokens \cup {NULL}, expires : Nat \cup {NULL}, nth : Nat \cup {NULL}]]

\* NULL and Malformed are no records, and differ.
ASSUME RecordsAssumption ==
    /\ NULL # Malformed
    /\ NULL \notin Bodies /\ NULL \notin Grants /\ NULL \notin Replies
    /\ NULL \notin Store!FencedWrites /\ Malformed \notin Store!FencedWrites

AcquireAnswer(b) ==
    CASE Replays(b.holder, b.request) ->
            Reply("replayed", [token |-> token, expires |-> expires_ms, nth |-> mints])
      [] Live /\ ~Replays(b.holder, b.request) -> Reply("refused", NoGrant)
      [] ~Live /\ next_token + 1 > MaxMinted -> Reply("exhausted", NoGrant)
      [] OTHER ->
            Reply("granted", [token |-> next_token + 1, expires |-> now + Ttl, nth |-> mints + 1])

RenewAnswer(b) ==
    IF Owns(b.holder, b.token)
    THEN Reply("renewed", [token |-> b.token, expires |-> now + Ttl, nth |-> NULL])
    ELSE Reply("refused", NoGrant)

ReleaseAnswer(b) ==
    IF ~Expired /\ holder = b.holder /\ token = b.token
    THEN Reply("released", NoGrant)
    ELSE Reply("refused", NoGrant)

Answer(b) ==
    CASE b.op = "acquire" -> AcquireAnswer(b)
      [] b.op = "renew" -> RenewAnswer(b)
      [] b.op = "release" -> ReleaseAnswer(b)

Handle(b) ==
    /\ \/ b.op = "acquire" /\ Acquire(b.holder, b.request, Ttl)
       \/ b.op = "renew" /\ Renew(b.holder, b.token, Ttl)
       \/ b.op = "release" /\ Release(b.holder, b.token)
    /\ mints' = IF b.op = "acquire" /\ Answer(b).kind = "granted" THEN mints + 1 ELSE mints

-----------------------------------------------------------------------------
Init ==
    /\ AuthorityInit
    /\ watermark = NULL /\ state = NULL
    /\ pc = [c \in Clients |-> "idle"]
    /\ request = [c \in Clients |-> NULL]
    /\ response = [c \in Clients |-> NULL]
    /\ orphans = {}
    /\ grant = [c \in Clients |-> NULL]
    /\ rid = [c \in Clients |-> 0]
    /\ wait = [c \in Clients |-> FALSE]
    /\ started = [c \in Clients |-> 0]
    /\ wakeAt = [c \in Clients |-> 0]
    /\ workOk = [c \in Clients |-> FALSE]
    /\ writes = {}
    /\ mints = 0
    /\ accepted = 0
    /\ rivals = [c \in Clients |-> {}]
    /\ beaten = {}

(* Delivery.                                                               *)

ServeCall(c) ==
    /\ request[c] # NULL
    /\ Handle(request[c])
    /\ response' = [response EXCEPT ![c] = Answer(request[c])]
    /\ request' = [request EXCEPT ![c] = NULL]
    /\ UNCHANGED <<pc, grant, rid, timerVars, workOk, orphans, writes, storeVars, rivalry>>

ServeOrphan(b) ==
    /\ Handle(b)
    /\ orphans' = orphans \ {b}
    /\ UNCHANGED <<clientVars, writes, storeVars, rivalry>>

DeliverWrite(w) ==
    /\ Store!FencedWrite(w.write)
    /\ accepted' = IF Store!evaluateFence(watermark, w.write) = "advanced" THEN w.nth ELSE accepted
    /\ UNCHANGED <<authorityVars, clientVars, orphans, writes, mints, rivalry>>

-----------------------------------------------------------------------------
(* The client.  Goto ends one asynchronous step: the next call, if any, is *)
(* sent in the same turn.                                                  *)

Working(c) == pc[c] \in {"held", "renew", "lost"}

Goto(c, label, call) ==
    /\ pc' = [pc EXCEPT ![c] = label]
    /\ request' = [request EXCEPT ![c] = call]
    /\ response' = [response EXCEPT ![c] = NULL]

Answered(c, label, kind) == pc[c] = label /\ response[c] # NULL /\ response[c].kind = kind

\* acquire returns g and withLease starts work.
Expose(c, g) ==
    /\ Goto(c, "held", NULL)
    /\ grant' = [grant EXCEPT ![c] = g]
    /\ wait' = [wait EXCEPT ![c] = FALSE]
    /\ started' = [started EXCEPT ![c] = 0]
    /\ wakeAt' = [wakeAt EXCEPT ![c] = 0]
    /\ rivals' = [d \in Clients |->
            IF d = c THEN {e \in Clients \ {c} : Working(e)}
                     ELSE IF Working(d) THEN rivals[d] \cup {c} ELSE rivals[d]]
    /\ UNCHANGED <<authorityVars, rid, workOk, orphans, writes, storeVars, mints, beaten>>

\* withLease returns or throws.  Only success matters to the others.
End(c, label, succeeded) ==
    /\ Goto(c, label, NULL)
    /\ grant' = [grant EXCEPT ![c] = NULL]
    /\ wait' = [wait EXCEPT ![c] = FALSE]
    /\ started' = [started EXCEPT ![c] = 0]
    /\ wakeAt' = [wakeAt EXCEPT ![c] = 0]
    /\ workOk' = [workOk EXCEPT ![c] = FALSE]
    /\ beaten' = (beaten \cup {d \in Clients : succeeded /\ c \in rivals[d]}) \ {c}
    /\ rivals' = [d \in Clients |-> IF d = c THEN {} ELSE rivals[d] \ {c}]
    /\ UNCHANGED <<authorityVars, rid, writes, storeVars, mints>>

StartAcquire(c, r, w) ==
    /\ \/ pc[c] \in {"idle", "retry"} /\ r = rid[c] + 1
       \/ pc[c] = "retry" /\ r = rid[c]
    /\ r <= MaxRequest
    /\ Goto(c, "acquire", Body("acquire", c, r, NULL))
    /\ rid' = [rid EXCEPT ![c] = r]
    /\ wait' = [wait EXCEPT ![c] = w]
    /\ started' = [started EXCEPT ![c] = now]
    /\ UNCHANGED <<authorityVars, grant, wakeAt, workOk, orphans, writes, storeVars, mints, rivalry>>

Granted(c) ==
    /\ Answered(c, "acquire", "granted")
    /\ Expose(c, response[c].grant)

\* Mutant: a replayed grant is exposed as it is.
ReplayedExposed(c) ==
    /\ Answered(c, "acquire", "replayed")
    /\ Expose(c, response[c].grant)

\* A replayed grant is renewed, token-bound, before it is exposed.
Replayed(c) ==
    /\ Answered(c, "acquire", "replayed")
    /\ grant' = [grant EXCEPT ![c] = response[c].grant]
    /\ Goto(c, "replay", Body("renew", c, NULL, response[c].grant.token))
    /\ UNCHANGED <<authorityVars, rid, timerVars, workOk, orphans, writes, storeVars, mints, rivalry>>

ReplayRenewed(c) ==
    /\ Answered(c, "replay", "renewed")
    /\ Expose(c, [grant[c] EXCEPT !.expires = response[c].grant.expires])

WaitedOut(c) == (now - started[c]) + RetryInterval > WaitTimeout

\* contention (!wait), timeout, lost_lease on the replay, HTTP 503: acquire
\* throws and withLease with it; no lease was exposed, none is released.
AcquireThrows(c) ==
    /\ \/ Answered(c, "acquire", "refused") /\ (~wait[c] \/ WaitedOut(c))
       \/ Answered(c, "acquire", "exhausted")
       \/ Answered(c, "replay", "refused")
    /\ End(c, "retry", FALSE)
    /\ UNCHANGED orphans

Sleep(c) ==
    /\ Answered(c, "acquire", "refused")
    /\ wait[c] /\ ~WaitedOut(c)
    /\ Goto(c, "sleep", NULL)
    /\ wakeAt' = [wakeAt EXCEPT ![c] = now + RetryInterval]
    /\ UNCHANGED <<authorityVars, grant, rid, wait, started, workOk, orphans, writes, storeVars, mints, rivalry>>

Wake(c) ==
    /\ pc[c] = "sleep"
    /\ now >= wakeAt[c]
    /\ Goto(c, "acquire", Body("acquire", c, rid[c], NULL))
    /\ UNCHANGED <<authorityVars, grant, rid, timerVars, workOk, orphans, writes, storeVars, mints, rivalry>>

-----------------------------------------------------------------------------
(* Work: renewals and fenced writes while the grant is held.               *)

SendWrite(c, p) ==
    /\ pc[c] \in {"held", "renew"}
    /\ writes' = writes \cup
         {[write |-> [fencingToken |-> grant[c].token, operationId |-> c, payloadSha256 |-> p],
           nth |-> grant[c].nth]}
    /\ UNCHANGED <<authorityVars, clientVars, orphans, storeVars, mints, rivalry>>

StartRenew(c) ==
    /\ pc[c] = "held"
    /\ Goto(c, "renew", Body("renew", c, NULL, grant[c].token))
    /\ UNCHANGED <<authorityVars, grant, rid, timerVars, workOk, orphans, writes, storeVars, mints, rivalry>>

Renewed(c) ==
    /\ Answered(c, "renew", "renewed")
    /\ Goto(c, "held", NULL)
    /\ grant' = [grant EXCEPT ![c].expires = response[c].grant.expires]
    /\ UNCHANGED <<authorityVars, rid, timerVars, workOk, orphans, writes, storeVars, mints, rivalry>>

RenewalRefused(c) ==
    /\ Answered(c, "renew", "refused")
    /\ Goto(c, "lost", NULL)
    /\ UNCHANGED <<authorityVars, grant, rid, timerVars, workOk, orphans, writes, storeVars, mints, rivalry>>

EndWork(c, ok) ==
    /\ pc[c] = "held" \/ (pc[c] = "lost" /\ ~ok)
    /\ Goto(c, "release", Body("release", c, NULL, grant[c].token))
    /\ workOk' = [workOk EXCEPT ![c] = ok]
    /\ UNCHANGED <<authorityVars, grant, rid, timerVars, orphans, writes, storeVars, mints, rivalry>>

\* Mutant: the boolean release() returns is ignored.
SettledIgnoresFalse(c) ==
    /\ pc[c] = "release" /\ response[c] # NULL
    /\ End(c, "idle", workOk[c])
    /\ UNCHANGED orphans

\* settle: a release that matched no grant is lost_lease, whatever work did.
Settled(c) ==
    /\ pc[c] = "release" /\ response[c] # NULL
    /\ End(c, "idle", response[c].kind = "released" /\ workOk[c])
    /\ UNCHANGED orphans

-----------------------------------------------------------------------------
(* Failures.                                                               *)

Abandoned(c) ==
    IF request[c] = NULL \/ Cardinality(orphans) >= MaxOrphans
    THEN orphans
    ELSE orphans \cup {request[c]}

\* The awaited fetch rejects.  A failed renewal leaves work with its grant;
\* any other failed call ends withLease with `transport`.
TransportFails(c) ==
    /\ request[c] # NULL \/ response[c] # NULL
    /\ orphans' = Abandoned(c)
    /\ \/ /\ pc[c] = "renew"
          /\ Goto(c, "held", NULL)
          /\ UNCHANGED <<authorityVars, grant, rid, timerVars, workOk, writes, storeVars, mints, rivalry>>
       \/ pc[c] \in {"acquire", "replay"} /\ End(c, "retry", FALSE)
       \/ pc[c] = "release" /\ End(c, "idle", FALSE)

Crash(c) ==
    /\ pc[c] \notin {"idle", "retry"}
    /\ orphans' = Abandoned(c)
    /\ End(c, IF pc[c] = "release" THEN "idle" ELSE "retry", FALSE)

AuthorityAlone ==
    /\ AlarmDue \/ AlarmRepeated \/ Tick
    /\ UNCHANGED <<clientVars, orphans, writes, storeVars, mints, rivalry>>

ClientStep(c) ==
    \/ \E r \in 1..MaxRequest, w \in BOOLEAN : StartAcquire(c, r, w)
    \/ Granted(c) \/ Replayed(c) \/ ReplayRenewed(c)
    \/ AcquireThrows(c) \/ Sleep(c) \/ Wake(c)
    \/ \E p \in Payloads : SendWrite(c, p)
    \/ StartRenew(c) \/ Renewed(c) \/ RenewalRefused(c)
    \/ \E ok \in BOOLEAN : EndWork(c, ok)
    \/ Settled(c)

Next ==
    \/ \E c \in Clients : ServeCall(c) \/ ClientStep(c) \/ TransportFails(c) \/ Crash(c)
    \/ \E b \in orphans : ServeOrphan(b)
    \/ \E w \in writes : DeliverWrite(w)
    \/ AuthorityAlone

Spec == Init /\ [][Next]_vars

-----------------------------------------------------------------------------
(* Properties.                                                             *)

TypeOK ==
    /\ AuthorityTypeOK
    /\ pc \in [Clients -> {"idle", "retry", "acquire", "replay", "sleep", "held", "renew", "lost", "release"}]
    /\ request \in [Clients -> Bodies \cup {NULL}]
    /\ response \in [Clients -> Replies \cup {NULL}]
    /\ grant \in [Clients -> Grants \cup {NULL}]
    /\ orphans \subseteq Bodies
    /\ rid \in [Clients -> 0..MaxRequest]
    /\ wait \in [Clients -> BOOLEAN] /\ started \in [Clients -> Nat] /\ wakeAt \in [Clients -> Nat]
    /\ workOk \in [Clients -> BOOLEAN]
    /\ writes \subseteq [write : Store!FencedWrites, nth : Nat]
    /\ watermark \in Store!FencedWrites \cup {NULL} /\ state \in Payloads \cup {NULL}
    /\ mints \in Nat /\ accepted \in 0..mints
    /\ rivals \in [Clients -> SUBSET Clients] /\ beaten \subseteq Clients

Believes(c) == Working(c) /\ grant[c].expires > now

\* While a client works under a grant whose leaseExpiresMs has not passed, the
\* authority still keeps that very lease for it: no late, orphaned or repeated
\* message of any client takes it away early.
BeliefIsAuthority ==
    \A c \in Clients : Believes(c) =>
        holder = c /\ token = grant[c].token /\ expires_ms >= grant[c].expires

\* Two withLease calls that both report success never worked at the same time:
\* a call about to return its value overlapped no call that already did.
SuccessesExclusive ==
    \A c \in Clients :
        Answered(c, "release", "released") /\ workOk[c] => c \notin beaten

\* A grant handed to work is good for a full TTL counted from some moment of
\* the acquire call itself, also when a lost response had to be replayed.
FreshWhenExposed ==
    [][\A c \in Clients :
          (pc[c] \in {"acquire", "replay"} /\ pc'[c] = "held")
              => grant'[c].expires >= started[c] + Ttl]_vars

\* The datastore accepts writes in the order in which the authority granted
\* their leases: a paused holder that resumes after a newer holder's write was
\* accepted cannot overwrite it.
AcceptedInGrantOrder == [][accepted' # accepted => accepted' > accepted]_vars

\* The client's state is well formed and what it believes of its lease is true.
BeliefInv == TypeOK /\ BeliefIsAuthority
=============================================================================
