--------------------------- MODULE BeamScaleLease ---------------------------
(***************************************************************************)
(* BeamScaleCriticalSectionLease (beamscale-critical-section.ts): a lease  *)
(* client that keeps the full authority token (owner epoch and sequence    *)
(* here; the runtime epoch behaves like the owner epoch) in a registry of  *)
(* its own, shows callers only the sequence, and repeats an acquire once,  *)
(* under the same request id, when the first try failed in transport.      *)
(*                                                                         *)
(* The BeamScale service is external.  It replays the grant of a live      *)
(* request id, and a failover of its owner either keeps a lease's token or *)
(* stamps it with the new epoch.  A request whose caller gave up may still *)
(* arrive later.                                                           *)
(***************************************************************************)
EXTENDS Integers, FiniteSets

CONSTANTS
    Clients,
    Ttl, RetryInterval, WaitTimeout, \* opts
    MaxSequence, \* the largest sequence the service can mint
    MaxEpoch,    \* bound: owner failovers
    MaxRequest,  \* bound: logical acquisitions per client
    MaxOrphans,  \* bound: abandoned requests on their way; further ones are lost
    Horizon,     \* bound: time stops there; no acquire starts too late to time out
    NULL

VARIABLES
    lease,    \* the service's lease, or NULL
    sequence, \* the last sequence minted
    epoch,    \* the service's owner epoch
    now,
    request,  \* the request a client awaits, or NULL
    response, \* its answer, or NULL
    orphans,  \* abandoned requests on their way
    registry, \* #tokens: the epoch of the full token kept for a sequence, 0 if none
    client    \* per client: where its call is, the grant it was given

service == <<lease, sequence, epoch, now>>
net == <<request, response, orphans>>
vars == <<service, net, registry, client>>

\* What the service keeps, is sent and answers.
Leases == [holder : Clients, rid : Nat, seq : 1..MaxSequence, epoch : Nat \ {0}, expires : Nat]

Messages == [op : {"acquire", "renew", "release"}, holder : Clients, rid : Nat, seq : 0..MaxSequence, epoch : Nat]

Replies == [kind : {"ok", "busy", "exhausted", "stale"}, epoch : Nat, seq : 0..MaxSequence, expires : Nat]

-----------------------------------------------------------------------------
(* The service                                                             *)

Live == lease # NULL => now < lease.expires
Held == lease # NULL /\ Live
Owns(m) == Held /\ lease.holder = m.holder /\ lease.seq = m.seq

Reply(kind, e, s, x) == [kind |-> kind, epoch |-> e, seq |-> s, expires |-> x]
Refusal(kind) == Reply(kind, 0, 0, 0)

\* The answer goes to client c, or nowhere (NULL).
Respond(c, a) == response' = IF c = NULL THEN response ELSE [response EXCEPT ![c] = a]

\* The service's step on m.
Serves(m, c) ==
    \/ /\ m.op = "acquire" /\ Held /\ lease.holder = m.holder /\ lease.rid = m.rid
       /\ Respond(c, Reply("ok", lease.epoch, lease.seq, lease.expires))
       /\ UNCHANGED service
    \/ /\ m.op = "acquire" /\ Held /\ ~(lease.holder = m.holder /\ lease.rid = m.rid)
       /\ Respond(c, Refusal("busy")) /\ UNCHANGED service
    \/ /\ m.op = "acquire" /\ ~Held /\ sequence = MaxSequence
       /\ Respond(c, Refusal("exhausted")) /\ UNCHANGED service
    \/ /\ m.op = "acquire" /\ ~Held /\ sequence < MaxSequence
       /\ sequence' = sequence + 1
       /\ lease' = [holder |-> m.holder, rid |-> m.rid, seq |-> sequence + 1, epoch |-> epoch, expires |-> now + Ttl]
       /\ Respond(c, Reply("ok", epoch, sequence + 1, now + Ttl))
       /\ UNCHANGED <<epoch, now>>
    \/ /\ m.op # "acquire" /\ ~(Owns(m) /\ lease.epoch = m.epoch)
       /\ Respond(c, Refusal("stale")) /\ UNCHANGED service
    \/ /\ m.op = "renew" /\ Owns(m)   \* another epoch may be refused or replaced
       /\ lease' = [lease EXCEPT !.expires = now + Ttl]
       /\ Respond(c, Reply("ok", lease.epoch, lease.seq, now + Ttl))
       /\ UNCHANGED <<sequence, epoch, now>>
    \/ /\ m.op = "release" /\ Owns(m) /\ lease.epoch = m.epoch
       /\ lease' = NULL
       /\ Respond(c, Refusal("ok")) /\ UNCHANGED <<sequence, epoch, now>>

Serve(c) ==
    /\ request[c] # NULL
    /\ Serves(request[c], c)
    /\ request' = [request EXCEPT ![c] = NULL]
    /\ UNCHANGED <<orphans, registry, client>>

ServeOrphan(m) ==
    /\ orphans' = orphans \ {m}
    /\ Serves(m, NULL)
    /\ UNCHANGED <<request, registry, client>>

Failover ==
    /\ epoch < MaxEpoch
    /\ epoch' = epoch + 1
    /\ lease' \in {lease, IF lease = NULL THEN NULL ELSE [lease EXCEPT !.epoch = epoch + 1]}
    /\ UNCHANGED <<sequence, now, net, registry, client>>

Tick ==
    /\ now < Horizon
    /\ now' = now + 1
    /\ UNCHANGED <<lease, sequence, epoch, net, registry, client>>

-----------------------------------------------------------------------------
(* The client                                                              *)

Idle(n, outcome) == [pc |-> "idle", rid |-> n, wait |-> FALSE, started |-> 0, wakeAt |-> 0, retries |-> 0,
                     seq |-> 0, expires |-> 0, outcome |-> outcome]

Becomes(c, k) == client' = [client EXCEPT ![c] = k]
Message(c, op, k) == [op |-> op, holder |-> c, rid |-> k.rid, seq |-> k.seq, epoch |-> IF k.seq = 0 THEN 0 ELSE registry[c][k.seq]]

Post(c, op, k) ==
    /\ request' = [request EXCEPT ![c] = Message(c, op, k)]
    /\ response' = [response EXCEPT ![c] = NULL]
    /\ Becomes(c, k)

\* The answer is consumed.
Done(c, k) ==
    /\ response' = [response EXCEPT ![c] = NULL]
    /\ UNCHANGED <<request, orphans>>
    /\ Becomes(c, k)

\* Nothing is awaited any more.
Ends(c, k) ==
    /\ request' = [request EXCEPT ![c] = NULL]
    /\ response' = [response EXCEPT ![c] = NULL]
    /\ Becomes(c, k)

\* A transport failure: the request was lost, its answer was, or it is still
\* on its way.
Abandon(c, rest) ==
    /\ request[c] # NULL \/ response[c] # NULL
    /\ \/ UNCHANGED orphans
       \/ /\ request[c] # NULL /\ Cardinality(orphans) < MaxOrphans
          /\ orphans' = orphans \cup {request[c]}
    /\ rest

\* A retry of the same logical acquisition keeps the request id, unless a
\* release has been sent for it.
Start(c) ==
    LET k == client[c] IN
    /\ k.pc = "idle" /\ now + WaitTimeout <= Horizon
    /\ \E r \in {k.rid, k.rid + 1}, w \in BOOLEAN :
        /\ r = k.rid => k.outcome \in {"transport", "crashed"}
        /\ r <= MaxRequest
        /\ Post(c, "acquire", [Idle(r, "none") EXCEPT !.pc = "acquiring", !.wait = w, !.started = now])
    /\ UNCHANGED <<service, orphans, registry>>

\* A first transport error is retried under the same request id.  A second one
\* ends acquire, and so does, at any time, a body that cannot be read, a grant
\* that is malformed and any other status.
AcquireFails(c) ==
    LET k == client[c] IN
    /\ k.pc = "acquiring"
    /\ Abandon(c, \/ k.retries = 0 /\ Post(c, "acquire", [k EXCEPT !.retries = 1])
                  \/ Ends(c, Idle(k.rid, "transport")))
    /\ UNCHANGED <<service, registry>>

\* A grant: #remember keeps the full token under its sequence.
Granted(c) ==
    LET k == client[c] a == response[c] IN
    /\ k.pc = "acquiring" /\ a # NULL /\ a.kind = "ok"
    /\ registry' = [registry EXCEPT ![c][a.seq] = a.epoch]
    /\ Done(c, [k EXCEPT !.pc = "held", !.seq = a.seq, !.expires = a.expires])
    /\ UNCHANGED service

\* Mutant: a busy answer is polled again whatever the wait budget.
AcquireRefusedNoBudget(c) ==
    LET k == client[c] a == response[c] IN
    /\ k.pc = "acquiring" /\ a # NULL /\ a.kind # "ok"
    /\ CASE a.kind = "exhausted" -> Done(c, Idle(k.rid, "invalid_plan"))
         [] a.kind = "busy" /\ ~k.wait -> Done(c, Idle(k.rid, "contention"))
         [] OTHER -> Done(c, [k EXCEPT !.pc = "sleeping", !.wakeAt = now + RetryInterval])
    /\ UNCHANGED <<service, registry>>

AcquireRefused(c) ==
    LET k == client[c]
        a == response[c]
        waited == now - k.started
        late == waited >= WaitTimeout \/ waited + RetryInterval > WaitTimeout
    IN  /\ k.pc = "acquiring" /\ a # NULL /\ a.kind # "ok"
        /\ CASE a.kind = "exhausted" -> Done(c, Idle(k.rid, "invalid_plan"))
             [] a.kind = "busy" /\ ~k.wait -> Done(c, Idle(k.rid, "contention"))
             [] a.kind = "busy" /\ k.wait /\ late -> Done(c, Idle(k.rid, "timeout"))
             [] OTHER -> Done(c, [k EXCEPT !.pc = "sleeping", !.wakeAt = now + RetryInterval])
        /\ UNCHANGED <<service, registry>>

Wake(c) ==
    /\ client[c].pc = "sleeping" /\ client[c].wakeAt <= now
    /\ Post(c, "acquire", [client[c] EXCEPT !.pc = "acquiring", !.wakeAt = 0])
    /\ UNCHANGED <<service, orphans, registry>>

\* renew and release look the full token up; without it they throw lost_lease
\* and send nothing.
Renew(c) ==
    /\ client[c].pc = "held" /\ registry[c][client[c].seq] # 0
    /\ Post(c, "renew", [client[c] EXCEPT !.pc = "renewing"])
    /\ UNCHANGED <<service, orphans, registry>>

Forgotten(c) == [registry EXCEPT ![c][client[c].seq] = 0]

\* Mutant: the new expiry is counted from the arrival of the answer.
RenewAnsweredFromArrival(c) ==
    LET k == client[c] a == response[c] IN
    /\ k.pc = "renewing" /\ a # NULL
    /\ \/ /\ a.kind = "ok" /\ a.seq = k.seq /\ a.epoch = registry[c][k.seq]
          /\ Done(c, [k EXCEPT !.pc = "held", !.expires = now + Ttl])
          /\ UNCHANGED registry
       \/ /\ ~(a.kind = "ok" /\ a.seq = k.seq /\ a.epoch = registry[c][k.seq])
          /\ registry' = Forgotten(c)
          /\ Done(c, Idle(k.rid, "lost_lease"))
    /\ UNCHANGED service

\* A refusal and a changed token are both the loss of the lease.
RenewAnswered(c) ==
    LET k == client[c] a == response[c] IN
    /\ k.pc = "renewing" /\ a # NULL
    /\ \/ /\ a.kind = "ok" /\ a.seq = k.seq /\ a.epoch = registry[c][k.seq]
          /\ Done(c, [k EXCEPT !.pc = "held", !.expires = a.expires])
          /\ UNCHANGED registry
       \/ /\ ~(a.kind = "ok" /\ a.seq = k.seq /\ a.epoch = registry[c][k.seq])
          /\ registry' = Forgotten(c)
          /\ Done(c, Idle(k.rid, "lost_lease"))
    /\ UNCHANGED service

\* The grant is kept: ownership is unknown.
RenewFails(c) ==
    /\ client[c].pc = "renewing"
    /\ Abandon(c, Ends(c, [client[c] EXCEPT !.pc = "held"]))
    /\ UNCHANGED <<service, registry>>

Release(c) ==
    /\ client[c].pc \in {"held", "unreleased"} /\ registry[c][client[c].seq] # 0
    /\ Post(c, "release", [client[c] EXCEPT !.pc = "releasing"])
    /\ UNCHANGED <<service, orphans, registry>>

\* True when it was freed, false when it was not held any more.
ReleaseAnswered(c) ==
    /\ client[c].pc = "releasing" /\ response[c] # NULL
    /\ registry' = Forgotten(c)
    /\ Done(c, Idle(client[c].rid, "released"))
    /\ UNCHANGED service

ReleaseFails(c) ==
    /\ client[c].pc = "releasing"
    /\ Abandon(c, Ends(c, [client[c] EXCEPT !.pc = "unreleased"]))
    /\ UNCHANGED <<service, registry>>

\* The process dies: the registry dies with it, requests under way do not.
Crash(c) ==
    LET k == client[c] IN
    /\ k.pc # "idle"
    /\ \/ UNCHANGED orphans
       \/ /\ request[c] # NULL /\ Cardinality(orphans) < MaxOrphans
          /\ orphans' = orphans \cup {request[c]}
    /\ registry' = [registry EXCEPT ![c] = [s \in 1..MaxSequence |-> 0]]
    /\ Ends(c, Idle(k.rid, IF k.pc \in {"releasing", "unreleased"} THEN "gone" ELSE "crashed"))
    /\ UNCHANGED service

-----------------------------------------------------------------------------
BeamInit ==
    /\ lease = NULL /\ sequence = 0 /\ epoch = 1 /\ now = 0
    /\ request = [c \in Clients |-> NULL] /\ response = [c \in Clients |-> NULL] /\ orphans = {}
    /\ registry = [c \in Clients |-> [s \in 1..MaxSequence |-> 0]]
    /\ client = [c \in Clients |-> Idle(0, "none")]

AcquireStep(c) == AcquireFails(c) \/ Granted(c) \/ AcquireRefused(c) \/ Wake(c)

BeamNext ==
    \/ \E c \in Clients :
        \/ Start(c) \/ Serve(c) \/ AcquireStep(c)
        \/ Renew(c) \/ RenewAnswered(c) \/ RenewFails(c)
        \/ Release(c) \/ ReleaseAnswered(c) \/ ReleaseFails(c) \/ Crash(c)
    \/ \E m \in orphans : ServeOrphan(m)
    \/ Failover \/ Tick

\* The service answers or the request fails, an answer is taken up, a timer
\* fires and time goes on.
BeamSpec ==
    /\ BeamInit /\ [][BeamNext]_vars
    /\ \A c \in Clients : WF_vars(Serve(c)) /\ WF_vars(AcquireStep(c))
    /\ WF_vars(Tick)

-----------------------------------------------------------------------------
(* Properties.                                                             *)

\* Before the expiry its caller was told, the service holds exactly that
\* grant: repeated acquires, late requests, a failover, half-answered renewals
\* and an owner's crash do not end it.
HeldIsCurrent ==
    \A c \in Clients :
        (client[c].pc \in {"held", "renewing"} /\ now < client[c].expires) =>
            Held /\ lease.holder = c /\ lease.seq = client[c].seq

\* Until a release is answered the full token stays in the registry: a
\* release that failed in transport can be tried again, even though callers
\* only ever see the sequence.
Releasable ==
    \A c \in Clients :
        client[c].pc \in {"held", "renewing", "releasing", "unreleased"} => registry[c][client[c].seq] # 0

\* A grant is the service's until its expiry and releasable until released.
BeamInv == HeldIsCurrent /\ Releasable

\* Every acquire ends, however often the network fails.
AcquireEnds ==
    \A c \in Clients : (client[c].pc \in {"acquiring", "sleeping"}) ~> (client[c].pc \notin {"acquiring", "sleeping"})
=============================================================================
