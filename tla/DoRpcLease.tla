----------------------------- MODULE DoRpcLease -----------------------------
(***************************************************************************)
(* CloudflareDurableObjectRpcLease (cloudflare-do-rpc.ts): callers inside  *)
(* Workers that reach the Durable Object authority (LeaseAuthority) by     *)
(* native RPC.  Refusals are typed values, a fault of the RPC is an        *)
(* exception: it becomes `transport`, and the call it belonged to may      *)
(* still be executed later.                                                *)
(*                                                                         *)
(* An acquisition names a new request id, or after a failed one the same   *)
(* id again.  Options are per call: a ttl may be one the authority         *)
(* refuses.                                                                *)
(***************************************************************************)
EXTENDS LeaseAuthority

CONSTANTS
    RetryInterval, \* opts.retryIntervalMs
    WaitTimeout,   \* opts.waitTimeoutMs
    MaxRequest     \* bound: request ids generated

ASSUME BudgetAssumption ==
    /\ RetryInterval \in Nat \ {0} /\ WaitTimeout \in Nat
    /\ MaxRequest \in Nat /\ 1..MaxRequest \subseteq RequestIds

VARIABLES
    pc,      \* "idle", "held", or the method's await: acquire, replay, sleep, renew, release
    call,    \* the RPC a caller awaits, or NULL
    answer,  \* its result, or NULL
    late,    \* a call its caller gave up on that may still be executed, or NULL
    grant,   \* the LeaseGrant a caller holds, or NULL
    opts,    \* [request, ttl, wait, started, fresh] of the acquire under way or last ended
    wakeAt,  \* when a sleeping acquire polls again
    failure, \* the kind the last acquire threw, or NULL
    requests, \* request ids generated so far (generateRequestId: all distinct)
    lost     \* history: <<caller, token>> reported lost_lease

Callers == Holders

rpcVars == <<pc, call, answer, late, grant, opts, wakeAt, failure, requests, lost>>
vars == <<authorityVars, rpcVars>>

Init ==
    /\ AuthorityInit
    /\ pc = [c \in Callers |-> "idle"]
    /\ call = [c \in Callers |-> NULL]
    /\ answer = [c \in Callers |-> NULL]
    /\ late = NULL
    /\ grant = [c \in Callers |-> NULL]
    /\ opts = [c \in Callers |-> [request |-> 0, ttl |-> 0, wait |-> FALSE, started |-> 0, fresh |-> TRUE]]
    /\ wakeAt = [c \in Callers |-> 0]
    /\ failure = [c \in Callers |-> NULL]
    /\ requests = 0
    /\ lost = {}

-----------------------------------------------------------------------------
(* The typed methods of the stub.                                          *)

Rpc(op, c, r, ttl, t) == [op |-> op, holder |-> c, request |-> r, ttl |-> ttl, token |-> t]

Result(kind, t, e) == [kind |-> kind, token |-> t, expires |-> e]

AcquireResult(b) ==
    CASE ~ValidTtl(b.ttl) -> Result("invalid_ttl", NULL, NULL)
      [] ValidTtl(b.ttl) /\ Replays(b.holder, b.request) -> Result("replayed", token, expires_ms)
      [] ValidTtl(b.ttl) /\ Live /\ ~Replays(b.holder, b.request) -> Result("refused", NULL, NULL)
      [] ValidTtl(b.ttl) /\ ~Live /\ next_token + 1 > MaxMinted -> Result("exhausted", NULL, NULL)
      [] OTHER -> Result("granted", next_token + 1, now + b.ttl)

RenewResult(b) ==
    CASE ~ValidTtl(b.ttl) -> Result("invalid_ttl", NULL, NULL)
      [] ValidTtl(b.ttl) /\ Owns(b.holder, b.token) -> Result("renewed", b.token, now + b.ttl)
      [] OTHER -> Result("refused", NULL, NULL)

ReleaseResult(b) ==
    Result(IF ~Expired /\ holder = b.holder /\ token = b.token THEN "released" ELSE "refused", NULL, NULL)

\* The requests the stub takes, its results, the grants and the failures.
Rpcs ==
    [op : {"acquire"}, holder : Callers, request : 1..MaxRequest, ttl : Ttls, token : {NULL}]
    \cup [op : {"renew"}, holder : Callers, request : {NULL}, ttl : Ttls, token : Tokens]
    \cup [op : {"release"}, holder : Callers, request : {NULL}, ttl : {NULL}, token : Tokens]

Results ==
    [kind : {"invalid_ttl", "replayed", "refused", "exhausted", "granted", "renewed", "released"},
     token : Tokens \cup {NULL}, expires : Nat \cup {NULL}]

LeaseGrants == [token : Tokens, expires : Nat]

Failures == {"invalid_plan", "transport", "contention", "timeout", "lost_lease"}

\* NULL is told apart from all of them.
ASSUME RecordsAssumption ==
    NULL \notin Rpcs /\ NULL \notin Results /\ NULL \notin LeaseGrants /\ NULL \notin Failures

Execute(b) ==
    \/ b.op = "acquire" /\ Acquire(b.holder, b.request, b.ttl)
    \/ b.op = "renew" /\ Renew(b.holder, b.token, b.ttl)
    \/ b.op = "release" /\ Release(b.holder, b.token)

Serve(c) ==
    /\ call[c] # NULL
    /\ Execute(call[c])
    /\ answer' = [answer EXCEPT ![c] =
            CASE call[c].op = "acquire" -> AcquireResult(call[c])
              [] call[c].op = "renew" -> RenewResult(call[c])
              [] call[c].op = "release" -> ReleaseResult(call[c])]
    /\ call' = [call EXCEPT ![c] = NULL]
    /\ UNCHANGED <<pc, late, grant, opts, wakeAt, failure, requests, lost>>

ServeLate ==
    /\ late # NULL
    /\ Execute(late)
    /\ late' = NULL
    /\ UNCHANGED <<pc, call, answer, grant, opts, wakeAt, failure, requests, lost>>

-----------------------------------------------------------------------------
(* The adapter.  Send awaits the next RPC; Finish ends the method and      *)
(* forgets its locals.                                                     *)

Answered(c, label, kinds) == pc[c] = label /\ answer[c] # NULL /\ answer[c].kind \in kinds

Send(c, label, rpc) ==
    /\ pc' = [pc EXCEPT ![c] = label]
    /\ call' = [call EXCEPT ![c] = rpc]
    /\ answer' = [answer EXCEPT ![c] = NULL]

Finish(c, how, g) ==
    /\ Send(c, IF g = NULL THEN "idle" ELSE "held", NULL)
    /\ failure' = [failure EXCEPT ![c] = IF pc[c] \in {"acquire", "replay"} /\ g = NULL THEN how ELSE NULL]
    /\ grant' = [grant EXCEPT ![c] = g]
    /\ lost' = IF how = "lost_lease" THEN lost \cup {<<c, grant[c].token>>} ELSE lost
    /\ wakeAt' = [wakeAt EXCEPT ![c] = 0]
    /\ opts' = [opts EXCEPT ![c].wait = FALSE, ![c].started = 0, ![c].ttl = 0]
    /\ UNCHANGED <<authorityVars, requests>>

StartAcquire(c, r, ttl, wait) ==
    /\ pc[c] = "idle"
    /\ r = requests + 1 \/ (r = opts[c].request /\ failure[c] # NULL)
    /\ requests' = IF r > requests THEN r ELSE requests
    /\ now + WaitTimeout <= Horizon  \* bound: the budget ends before the clock does
    /\ LET o == [request |-> r, ttl |-> ttl, wait |-> wait, started |-> now, fresh |-> r # opts[c].request]
       IN  /\ opts' = [opts EXCEPT ![c] = o]
           /\ Send(c, "acquire", Rpc("acquire", c, r, ttl, NULL))
    /\ failure' = [failure EXCEPT ![c] = NULL]
    /\ UNCHANGED <<authorityVars, late, grant, wakeAt, lost>>

Granted(c) ==
    /\ Answered(c, "acquire", {"granted"})
    /\ Finish(c, "granted", [token |-> answer[c].token, expires |-> answer[c].expires])
    /\ UNCHANGED late

\* Mutant: a replayed grant is returned as it is.
ReplayedReturned(c) ==
    /\ Answered(c, "acquire", {"replayed"})
    /\ Finish(c, "granted", [token |-> answer[c].token, expires |-> answer[c].expires])
    /\ UNCHANGED late

Replayed(c) ==
    /\ Answered(c, "acquire", {"replayed"})
    /\ grant' = [grant EXCEPT ![c] = [token |-> answer[c].token, expires |-> answer[c].expires]]
    /\ Send(c, "replay", Rpc("renew", c, NULL, opts[c].ttl, answer[c].token))
    /\ UNCHANGED <<authorityVars, late, opts, wakeAt, failure, requests, lost>>

WaitedOut(c) == (now - opts[c].started) + RetryInterval > WaitTimeout

\* authorityError; a refusal ends the acquire unless it may wait.
AcquireThrows(c) ==
    /\ \/ Answered(c, "acquire", {"invalid_ttl"}) /\ Finish(c, "invalid_plan", NULL)
       \/ Answered(c, "acquire", {"exhausted"}) /\ Finish(c, "transport", NULL)
       \/ Answered(c, "acquire", {"refused"}) /\ ~opts[c].wait /\ Finish(c, "contention", NULL)
       \/ /\ Answered(c, "acquire", {"refused"})
          /\ opts[c].wait /\ WaitedOut(c)
          /\ Finish(c, "timeout", NULL)
    /\ UNCHANGED late

Sleep(c) ==
    /\ Answered(c, "acquire", {"refused"})
    /\ opts[c].wait /\ ~WaitedOut(c)
    /\ Send(c, "sleep", NULL)
    /\ wakeAt' = [wakeAt EXCEPT ![c] = now + RetryInterval]
    /\ UNCHANGED <<authorityVars, late, grant, opts, failure, requests, lost>>

Wake(c) ==
    /\ pc[c] = "sleep"
    /\ now >= wakeAt[c]
    /\ Send(c, "acquire", Rpc("acquire", c, opts[c].request, opts[c].ttl, NULL))
    /\ UNCHANGED <<authorityVars, late, grant, opts, wakeAt, failure, requests, lost>>

StartRenew(c, ttl) ==
    /\ pc[c] = "held"
    /\ Send(c, "renew", Rpc("renew", c, NULL, ttl, grant[c].token))
    /\ UNCHANGED <<authorityVars, late, grant, opts, wakeAt, failure, requests, lost>>

\* renew, called by the holder or by acquire for a replayed grant.
RenewEnds(c) ==
    /\ pc[c] \in {"renew", "replay"}
    /\ \/ /\ Answered(c, pc[c], {"renewed"})
          /\ Finish(c, "granted", [grant[c] EXCEPT !.expires = answer[c].expires])
       \/ Answered(c, pc[c], {"refused"}) /\ Finish(c, "lost_lease", NULL)
       \/ Answered(c, pc[c], {"invalid_ttl"}) /\ Finish(c, "invalid_plan", grant[c])
    /\ UNCHANGED late

StartRelease(c) ==
    /\ pc[c] = "held"
    /\ Send(c, "release", Rpc("release", c, NULL, NULL, grant[c].token))
    /\ UNCHANGED <<authorityVars, late, grant, opts, wakeAt, failure, requests, lost>>

ReleaseEnds(c) ==
    /\ \/ Answered(c, "release", {"released"}) /\ Finish(c, "released", NULL)
       \/ Answered(c, "release", {"refused"}) /\ Finish(c, "not_released", NULL)
    /\ UNCHANGED late

\* Bound: one abandoned call is followed at a time, a further one is lost.
Abandon(c) == late' = IF late = NULL THEN call[c] ELSE late

\* Mutant: an acquire that may wait polls again after a fault.
RpcFailsPollsAgain(c) ==
    /\ call[c] # NULL \/ answer[c] # NULL
    /\ Abandon(c)
    /\ IF pc[c] = "acquire" /\ opts[c].wait
       THEN /\ Send(c, "acquire", Rpc("acquire", c, opts[c].request, opts[c].ttl, NULL))
            /\ UNCHANGED <<authorityVars, grant, opts, wakeAt, failure, requests, lost>>
       ELSE Finish(c, "transport", IF pc[c] = "renew" THEN grant[c] ELSE NULL)

\* #call throws, or the answer is malformed: `transport`.  A holder whose
\* renewal failed that way still has its grant.
RpcFails(c) ==
    /\ call[c] # NULL \/ answer[c] # NULL
    /\ Abandon(c)
    /\ Finish(c, "transport", IF pc[c] = "renew" THEN grant[c] ELSE NULL)

-----------------------------------------------------------------------------
MethodStep(c) ==
    \/ Granted(c) \/ Replayed(c) \/ AcquireThrows(c) \/ Sleep(c) \/ Wake(c)
    \/ RenewEnds(c) \/ ReleaseEnds(c)

Next ==
    \/ \E c \in Callers :
        \/ \E r \in 1..MaxRequest, ttl \in Ttls, wait \in BOOLEAN : StartAcquire(c, r, ttl, wait)
        \/ \E ttl \in Ttls : StartRenew(c, ttl)
        \/ StartRelease(c) \/ MethodStep(c) \/ Serve(c) \/ RpcFails(c)
    \/ ServeLate
    \/ (AlarmDue \/ AlarmRepeated \/ Tick) /\ UNCHANGED rpcVars

\* An awaited RPC settles, one way or the other, a microtask with an answer
\* runs, and the clock advances.
Fairness ==
    /\ \A c \in Callers : WF_vars(MethodStep(c)) /\ WF_vars(Serve(c) \/ RpcFails(c))
    /\ WF_vars(Tick /\ UNCHANGED rpcVars)

Spec == Init /\ [][Next]_vars /\ Fairness

-----------------------------------------------------------------------------
(* Properties.                                                             *)

Definite == {"contention", "timeout", "invalid_plan"}

\* A definite failure of an acquisition under a new request id is one: nothing
\* of it is left at the authority and none of its calls is still on the way.
\* (Only a fault leaves that open, and a fault is never reported as busy.)
DefiniteLeavesNothing ==
    \A c \in Callers :
        (failure[c] \in Definite /\ opts[c].fresh) =>
            /\ ~(holder = c /\ request_id = opts[c].request)
            /\ late # NULL => ~(late.op = "acquire" /\ late.request = opts[c].request)

\* A grant acquire returns is good for its full TTL counted from a moment of
\* that call, also when the authority only replayed an earlier one.
FreshWhenReturned ==
    [][\A c \in Callers :
          (pc[c] \in {"acquire", "replay"} /\ pc'[c] = "held")
              => grant'[c].expires >= opts[c].started + opts[c].ttl]_vars

\* lost_lease is final: a token a caller was told it lost is never live for it
\* again, whatever calls are still on the way.
LostStaysLost == \A p \in lost : ~(Live /\ holder = p[1] /\ token = p[2])

\* Every method ends: an acquire polls within its budget, under contention
\* that never lets up too.
MethodsEnd == \A c \in Callers : pc[c] \notin {"idle", "held"} ~> pc[c] \in {"idle", "held"}

\* What acquire, renew and release say of a failure is true and stays true.
RpcInv == DefiniteLeavesNothing /\ LostStaysLost
=============================================================================
