---------------------------- MODULE Callers_proofs --------------------------
(***************************************************************************)
(* What the RPC client tells its callers is true at the authority, for any *)
(* number of callers, request ids, tokens and TTLs; what the BeamScale     *)
(* client believes is so there; and an acquire at Fiducia that has ended   *)
(* without a lock leaves nothing at the node.                              *)
(*                                                                         *)
(* The argument for RPC.  A refused renewal is answered when the authority *)
(* no longer has the lease for its caller, and then never has it again     *)
(* (Dead): tokens do not return and an expired row is not revived.  A call *)
(* that was abandoned is one whose acquisition failed with `transport`, so *)
(* a definite failure under a new request id has no call on its way, and   *)
(* the authority has never seen that id granted (Unseen).                  *)
(***************************************************************************)
EXTENDS MCAcquireEnds, LeaseAuthority_proofs, SequenceTheorems

-----------------------------------------------------------------------------
(* The inductive invariant.                                                *)

Labels == {"idle", "held", "acquire", "replay", "sleep", "renew", "release"}

RpcTypeOK ==
    /\ pc \in [Callers -> Labels]
    /\ call \in [Callers -> Rpcs \cup {NULL}]
    /\ answer \in [Callers -> Results \cup {NULL}]
    /\ late \in Rpcs \cup {NULL}
    /\ grant \in [Callers -> LeaseGrants \cup {NULL}]
    /\ opts \in [Callers -> [request : 0..MaxRequest, ttl : Nat, wait : BOOLEAN, started : Nat, fresh : BOOLEAN]]
    /\ wakeAt \in [Callers -> Nat]
    /\ failure \in [Callers -> Failures \cup {NULL}]
    /\ requests \in 0..MaxRequest
    /\ lost \subseteq Callers \X Tokens

\* The authority has minted t and c does not have it any more.
Dead(c, t) == t <= next_token /\ ~(Live /\ holder = c /\ token = t)

Named(c, r) == holder = c /\ request_id = r

\* An acquire under way: what it asks for, and what an answer says.
Acquiring(c) ==
    /\ opts[c].request # 0 /\ opts[c].started <= now
    /\ opts[c].ttl \in Ttls
    /\ pc[c] = "acquire" =>
        /\ call[c] # NULL => call[c] = Rpc("acquire", c, opts[c].request, opts[c].ttl, NULL)
        /\ answer[c] # NULL /\ answer[c].kind \in {"granted", "replayed"} =>
            /\ answer[c].token \in Tokens /\ answer[c].token <= next_token
            /\ answer[c].expires \in Nat /\ ValidTtl(opts[c].ttl)
        /\ answer[c] # NULL /\ answer[c].kind = "granted" => answer[c].expires >= opts[c].started + opts[c].ttl

\* A renewal under way, of a grant the authority made.
Renewing(c) ==
    /\ call[c] # NULL => call[c].op = "renew" /\ call[c].token = grant[c].token
    /\ answer[c] # NULL /\ answer[c].kind = "refused" => Dead(c, grant[c].token)
    /\ answer[c] # NULL /\ answer[c].kind = "renewed" => answer[c].expires \in Nat

\* The renewal that makes a replayed grant fresh.
Replaying(c) ==
    /\ opts[c].started <= now /\ opts[c].ttl \in Ttls /\ ValidTtl(opts[c].ttl)
    /\ call[c] # NULL => call[c].ttl = opts[c].ttl
    /\ answer[c] # NULL => answer[c].kind # "invalid_ttl"
    /\ answer[c] # NULL /\ answer[c].kind = "renewed" => answer[c].expires >= opts[c].started + opts[c].ttl

\* An acquisition under a new request id that is under way or failed definitely.
Clear(c) == opts[c].fresh /\ (pc[c] \in {"acquire", "sleep"} \/ failure[c] \in Definite)

\* Nothing of an acquisition under a new request id is at the authority or on its
\* way, unless it was granted.
Unseen(c) ==
    /\ late # NULL => ~(late.op = "acquire" /\ late.request = opts[c].request)
    /\ ~(pc[c] = "acquire" /\ answer[c] # NULL /\ answer[c].kind = "granted") => ~Named(c, opts[c].request)

CallerOK(c) ==
    /\ opts[c].request <= requests
    /\ failure[c] # NULL => pc[c] = "idle"
    /\ pc[c] \in {"idle", "held", "sleep"} => call[c] = NULL /\ answer[c] = NULL
    /\ call[c] # NULL => call[c].holder = c /\ answer[c] = NULL
    /\ pc[c] \in {"acquire", "sleep"} => Acquiring(c)
    /\ pc[c] \in {"held", "renew", "replay", "release"} => grant[c] # NULL /\ grant[c].token <= next_token
    /\ pc[c] \in {"renew", "replay"} => Renewing(c)
    /\ pc[c] = "replay" => Replaying(c)
    /\ pc[c] = "release" /\ call[c] # NULL => call[c].op = "release"
    /\ Clear(c) => Unseen(c)

\* Request ids are used by one caller each, and nothing names one not yet generated.
Generated ==
    /\ \A c, d \in Callers : opts[c].request = opts[d].request => c = d \/ opts[c].request = 0
    /\ holder # NULL => request_id \in 1..requests
    /\ late # NULL /\ late.op = "acquire" => late.request <= requests

AllLost == \A p \in lost : Dead(p[1], p[2])

RpcIInv == Inv /\ RpcTypeOK /\ (\A c \in Callers : CallerOK(c)) /\ Generated /\ AllLost

-----------------------------------------------------------------------------
(* What a step of the authority can do to the callers.                     *)

\* A call the object executes, in time or late, is a step of the authority.
LEMMA ExecuteIsNext ==
    ASSUME NEW b \in Rpcs, Execute(b)
    PROVE  AuthorityNext
<1> USE BudgetAssumption DEF Rpcs, Callers
<1>1. CASE b.op = "acquire" /\ Acquire(b.holder, b.request, b.ttl)
  <2>1. b.holder \in Holders /\ b.request \in RequestIds /\ b.ttl \in Ttls
    BY <1>1
  <2> QED BY <1>1, <2>1 DEF AuthorityNext
<1>2. CASE b.op = "renew" /\ Renew(b.holder, b.token, b.ttl)
  <2>1. b.holder \in Holders /\ b.token \in Tokens /\ b.ttl \in Ttls
    BY <1>2
  <2> QED BY <1>2, <2>1 DEF AuthorityNext
<1>3. CASE b.op = "release" /\ Release(b.holder, b.token)
  <2>1. b.holder \in Holders /\ b.token \in Tokens
    BY <1>3
  <2> QED BY <1>3, <2>1 DEF AuthorityNext
<1> QED BY <1>1, <1>2, <1>3 DEF Execute

\* A lease that is not live for a caller never is again: its token does not
\* return, and nothing extends an expired row.
LEMMA DeadStays ==
    ASSUME Inv, [AuthorityNext]_authorityVars
    PROVE  /\ next_token <= next_token' /\ now <= now'
           /\ \A c \in Callers, t \in Tokens : Dead(c, t) => Dead(c, t)'
<1> USE NumbersAssumption, HoldersAssumption, NullAssumption DEF Inv, AuthorityTypeOK, Tokens, Callers
<1>1. ASSUME NEW h \in Holders, NEW r \in RequestIds \cup {NULL}, NEW ttl \in Ttls, Acquire(h, r, ttl)
      PROVE  \/ UNCHANGED <<holder, token, expires_ms, next_token, now>>
             \/ ~Live /\ next_token' = next_token + 1 /\ token' = next_token + 1 /\ now' = now
  BY <1>1 DEF Acquire, AcquireRejected, AcquireRefused, AcquireReplayed, AcquireExhausted, AcquireGranted, lease
<1>2. ASSUME NEW h \in Holders, NEW t \in Tokens, NEW ttl \in Ttls, Renew(h, t, ttl)
      PROVE  /\ UNCHANGED <<next_token, now>>
             /\ holder' = NULL \/ UNCHANGED <<holder, token, expires_ms>> \/ (UNCHANGED <<holder, token>> /\ Live)
  BY <1>2 DEF Renew, Owns, clearLease, lease, Live
<1>3. ASSUME NEW h \in Holders, NEW t \in Tokens, Release(h, t)
      PROVE  UNCHANGED <<next_token, now>> /\ (holder' = NULL \/ UNCHANGED <<holder, token, expires_ms>>)
  BY <1>3 DEF Release, clearLease, lease
<1>4. ASSUME AlarmDue \/ AlarmRepeated
      PROVE  UNCHANGED <<next_token, now>> /\ (holder' = NULL \/ UNCHANGED <<holder, token, expires_ms>>)
  BY <1>4 DEF AlarmDue, AlarmRepeated, AlarmHandler, clearLease, lease
<1>5. CASE \/ UNCHANGED <<holder, token, expires_ms, next_token, now>>
           \/ ~Live /\ next_token' = next_token + 1 /\ token' = next_token + 1 /\ now' = now
  BY <1>5 DEF Dead, Live
<1>6. CASE /\ UNCHANGED <<next_token, now>>
           /\ holder' = NULL \/ UNCHANGED <<holder, token, expires_ms>> \/ (UNCHANGED <<holder, token>> /\ Live)
  BY <1>6 DEF Dead, Live
<1>7. CASE Tick
  BY <1>7 DEF Tick, lease, Dead, Live
<1>8. CASE UNCHANGED authorityVars
  BY <1>8 DEF authorityVars, Dead, Live
<1> QED BY <1>1, <1>2, <1>3, <1>4, <1>5, <1>6, <1>7, <1>8 DEF AuthorityNext

\* Only an acquire puts a holder and a request id in the row, its own.
LEMMA NamedByAcquire ==
    ASSUME Inv, NEW b \in Rpcs, Execute(b), NEW c \in Callers, NEW r \in Nat, Named(c, r)'
    PROVE  Named(c, r) \/ (b.op = "acquire" /\ b.holder = c /\ b.request = r)
<1> USE HoldersAssumption, NullAssumption DEF Named, Callers, lease, clearLease
<1>1. CASE b.op = "acquire" /\ Acquire(b.holder, b.request, b.ttl)
  BY <1>1 DEF Acquire, AcquireRejected, AcquireRefused, AcquireReplayed, AcquireExhausted, AcquireGranted, Replays
<1>2. CASE b.op = "renew" /\ Renew(b.holder, b.token, b.ttl)
  BY <1>2 DEF Renew
<1>3. CASE b.op = "release" /\ Release(b.holder, b.token)
  BY <1>3 DEF Release
<1> QED BY <1>1, <1>2, <1>3 DEF Execute

\* The row never names a request id that was not generated.
LEMMA RequestInRow ==
    ASSUME NEW b \in Rpcs, Execute(b)
    PROVE  holder' = NULL \/ UNCHANGED <<holder, request_id>> \/ (b.op = "acquire" /\ request_id' = b.request)
<1> USE DEF lease, clearLease
<1>1. CASE b.op = "acquire" /\ Acquire(b.holder, b.request, b.ttl)
  BY <1>1 DEF Acquire, AcquireRejected, AcquireRefused, AcquireReplayed, AcquireExhausted, AcquireGranted
<1>2. CASE b.op = "renew" /\ Renew(b.holder, b.token, b.ttl)
  BY <1>2 DEF Renew
<1>3. CASE b.op = "release" /\ Release(b.holder, b.token)
  BY <1>3 DEF Release
<1> QED BY <1>1, <1>2, <1>3 DEF Execute

\* An alarm and the clock name nobody.
LEMMA QuietRow ==
    ASSUME AlarmDue \/ AlarmRepeated \/ Tick
    PROVE  (holder' = NULL /\ request_id' = NULL) \/ UNCHANGED <<holder, request_id>>
  BY DEF AlarmDue, AlarmRepeated, AlarmHandler, Tick, clearLease, lease

-----------------------------------------------------------------------------
(* Frames.                                                                 *)

\* The state of a caller is as it was.
Same(d) ==
    /\ pc'[d] = pc[d] /\ call'[d] = call[d] /\ answer'[d] = answer[d] /\ grant'[d] = grant[d]
    /\ opts'[d] = opts[d] /\ failure'[d] = failure[d]

\* A caller that does nothing is not disturbed by a step that lets time and the
\* counters go on, brings no dead lease back and does not name its request.
LEMMA Undisturbed ==
    ASSUME RpcIInv, NEW d \in Callers, Same(d),
           requests <= requests', requests' \in Nat,
           next_token <= next_token', next_token' \in Nat, now <= now', now' \in Nat,
           \A t \in Tokens : Dead(d, t) => Dead(d, t)',
           Clear(d) => (Named(d, opts[d].request)' => Named(d, opts[d].request)),
           late' # NULL /\ late'.op = "acquire" /\ late'.request = opts[d].request =>
               late # NULL /\ late.op = "acquire" /\ late.request = opts[d].request
    PROVE  CallerOK(d)'
<1> USE NumbersAssumption DEF Same
<1>1. PICK o : o = opts[d]
  OBVIOUS
<1>2. /\ o.request \in Nat /\ o.ttl \in Nat /\ o.started \in Nat /\ requests \in Nat /\ next_token \in Nat /\ now \in Nat
      /\ grant[d] # NULL => grant[d].token \in Tokens /\ grant[d].token \in Nat
      /\ answer[d] # NULL => answer[d].token \in Nat \cup {NULL}
  BY <1>1 DEF RpcIInv, RpcTypeOK, Inv, AuthorityTypeOK, LeaseGrants, Results, Tokens
<1>3. CallerOK(d)
  BY DEF RpcIInv
<1>4. ASSUME Acquiring(d) PROVE Acquiring(d)'
  BY <1>1, <1>2, <1>4 DEF Acquiring, Tokens, ValidTtl
<1>5. ASSUME Renewing(d), grant[d] # NULL PROVE Renewing(d)'
  BY <1>1, <1>2, <1>5 DEF Renewing
<1>6. ASSUME Replaying(d) PROVE Replaying(d)'
  BY <1>1, <1>2, <1>6 DEF Replaying, ValidTtl
<1>7. ASSUME Clear(d), Unseen(d) PROVE Unseen(d)'
  BY <1>7 DEF Unseen
<1> QED BY <1>1, <1>2, <1>3, <1>4, <1>5, <1>6, <1>7 DEF CallerOK, Clear

Only(c) == \A d \in Callers : d # c => Same(d)

\* What the caller with an acquire on its way asks for.
LEMMA OwnRequest ==
    ASSUME RpcIInv, NEW c \in Callers, call[c] # NULL, call[c].op = "acquire"
    PROVE  pc[c] = "acquire" /\ call[c].holder = c /\ call[c].request = opts[c].request /\ opts[c].request # 0
<1>1. CallerOK(c) /\ pc[c] \in Labels
  BY DEF RpcIInv, RpcTypeOK
<1>2. pc[c] = "acquire"
  BY <1>1 DEF CallerOK, Renewing, Labels
<1> QED BY <1>1, <1>2 DEF CallerOK, Acquiring, Rpc

\* A step of one caller that leaves the authority alone.
LEMMA CallerMoves ==
    ASSUME RpcIInv, NEW c \in Callers, Only(c), UNCHANGED authorityVars, RpcTypeOK', CallerOK(c)',
           late' = late \/ late' = call[c],
           \/ UNCHANGED requests /\ opts'[c].request = opts[c].request
           \/ requests' = requests + 1 /\ opts'[c].request = requests + 1,
           \A p \in lost' : p \in lost \/ Dead(p[1], p[2])
    PROVE  RpcIInv'
<1>1. /\ requests \in Nat /\ requests' \in Nat /\ requests <= requests'
      /\ \A d \in Callers : opts[d].request \in Nat /\ opts[d].request <= requests
  BY DEF RpcIInv, RpcTypeOK, CallerOK
<1>2. \A a, t : Dead(a, t)' <=> Dead(a, t)
  BY DEF authorityVars, Dead, Live
<1>3. ASSUME NEW d \in Callers, d # c PROVE CallerOK(d)'
  <2>1. Same(d)
    BY <1>3 DEF Only
  <2>2. UNCHANGED <<next_token, now>> /\ next_token \in Nat /\ now \in Nat
    BY NumbersAssumption DEF authorityVars, RpcIInv, Inv, AuthorityTypeOK
  <2>3. Named(d, opts[d].request)' => Named(d, opts[d].request)
    BY <2>1 DEF Named, authorityVars, Same
  <2>4. ASSUME late' # NULL, late'.op = "acquire", late'.request = opts[d].request, late' # late PROVE FALSE
    <3>1. call[c] # NULL /\ call[c].op = "acquire" /\ call[c].request = opts[d].request
      BY <2>4
    <3>2. opts[c].request = opts[d].request /\ opts[c].request # 0
      BY <3>1, OwnRequest
    <3> QED BY <1>3, <3>2 DEF RpcIInv, Generated
  <2> QED BY <1>1, <1>2, <2>1, <2>2, <2>3, <2>4, Undisturbed
<1>4. \A d \in Callers : CallerOK(d)'
  BY <1>3
<1>5. Generated'
  <2>1. \A d \in Callers : d # c => opts'[d].request = opts[d].request
    BY DEF Only, Same
  <2>2. \A a, d \in Callers : opts'[a].request = opts'[d].request => a = d \/ opts'[a].request = 0
    BY <1>1, <2>1 DEF RpcIInv, Generated
  <2>3. holder' # NULL => request_id' \in 1..requests'
    BY <1>1 DEF authorityVars, RpcIInv, Generated
  <2>4. late' # NULL /\ late'.op = "acquire" => late'.request <= requests'
    <3>1. CASE late' = late
      <4>1. late # NULL /\ late.op = "acquire" => late.request \in Nat
        BY DEF RpcIInv, RpcTypeOK, Rpcs
      <4> QED BY <1>1, <3>1, <4>1 DEF RpcIInv, Generated
    <3>2. CASE late' = call[c]
      BY <1>1, <3>2, OwnRequest
    <3> QED BY <3>1, <3>2
  <2> QED BY <2>2, <2>3, <2>4 DEF Generated
<1>6. AllLost'
  BY <1>2 DEF RpcIInv, AllLost
<1>7. Inv'
  BY DEF RpcIInv, Inv, authorityVars, AuthorityTypeOK, ActiveLeaseIsNewest
<1> QED BY <1>4, <1>5, <1>6, <1>7 DEF RpcIInv

\* A step of the authority, told to nobody or to c only.
LEMMA AuthorityMoves ==
    ASSUME RpcIInv, [AuthorityNext]_authorityVars, RpcTypeOK', UNCHANGED <<requests, lost, opts>>,
           late' = late \/ late' = NULL,
           holder' = NULL \/ UNCHANGED <<holder, request_id>> \/ request_id' \in 1..requests,
           \A d \in Callers : \/ Same(d) /\ (Clear(d) => (Named(d, opts[d].request)' => Named(d, opts[d].request)))
                             \/ CallerOK(d)'
    PROVE  RpcIInv'
<1>1. /\ Inv' /\ next_token <= next_token' /\ now <= now'
      /\ \A c \in Callers, t \in Tokens : Dead(c, t) => Dead(c, t)'
  BY DeadStays, NextInv DEF RpcIInv
<1>2. /\ requests \in Nat /\ next_token \in Nat /\ now \in Nat /\ next_token' \in Nat /\ now' \in Nat
  BY <1>1, NumbersAssumption DEF RpcIInv, RpcTypeOK, Inv, AuthorityTypeOK
<1>3. \A d \in Callers : CallerOK(d)'
  BY <1>1, <1>2, Undisturbed
<1>4. Generated'
  BY DEF RpcIInv, Generated
<1>5. AllLost'
  <2>1. \A p \in lost : p[1] \in Callers /\ p[2] \in Tokens
    BY DEF RpcIInv, RpcTypeOK
  <2> QED BY <1>1, <2>1 DEF RpcIInv, AllLost
<1> QED BY <1>1, <1>3, <1>4, <1>5 DEF RpcIInv

-----------------------------------------------------------------------------
(* The authority's steps.                                                  *)

\* What each RPC carries.
LEMMA RpcFields ==
    ASSUME NEW b \in Rpcs
    PROVE  /\ b.op \in {"acquire", "renew", "release"} /\ b.holder \in Callers
           /\ b.op = "acquire" => b.request \in 1..MaxRequest /\ b.ttl \in Ttls
           /\ b.op = "renew" => b.token \in Tokens /\ b.ttl \in Ttls
           /\ b.op = "release" => b.token \in Tokens
  BY DEF Rpcs

\* Types of the row, and the token of an active lease.
LEMMA RowFields ==
    ASSUME Inv
    PROVE  /\ now \in Nat /\ next_token \in Nat /\ token \in Tokens \cup {NULL} /\ expires_ms \in Nat \cup {NULL}
           /\ holder # NULL => token \in Tokens /\ token <= next_token
  BY NumbersAssumption DEF Inv, AuthorityTypeOK, ActiveLeaseIsNewest, Tokens

\* The answer to an acquire, beside what the authority does.
LEMMA AcquireServed ==
    ASSUME RpcIInv, NEW c \in Callers, NEW b \in Rpcs, b.op = "acquire", b.holder = c, Execute(b)
    PROVE  LET a == AcquireResult(b) IN
           /\ a \in Results
           /\ a.kind \in {"granted", "replayed"} =>
                a.token \in Tokens /\ a.token <= next_token' /\ a.expires \in Nat /\ ValidTtl(b.ttl)
           /\ a.kind = "granted" => a.expires = now + b.ttl
           /\ a.kind # "granted" => (Named(c, b.request)' => Named(c, b.request))
<1> USE NumbersAssumption, HoldersAssumption, NullAssumption DEF Result, Results, Tokens
<1>1. /\ b.ttl \in Nat /\ b.request \in Nat /\ c # NULL /\ now \in Nat
      /\ token \in Tokens \cup {NULL} /\ expires_ms \in Nat \cup {NULL} /\ next_token \in Nat
      /\ holder # NULL => token \in Tokens /\ token <= next_token /\ request_id # NULL
  <2>1. holder # NULL => request_id \in Nat
    BY DEF RpcIInv, Generated
  <2>2. b.ttl \in Ttls /\ b.request \in Nat
    BY RpcFields
  <2> QED BY <2>1, <2>2, RowFields DEF RpcIInv, Callers
<1>2. Acquire(c, b.request, b.ttl)
  BY DEF Execute
<1>3. CASE ~ValidTtl(b.ttl)
  <2>1. AcquireResult(b) = Result("invalid_ttl", NULL, NULL)
    BY <1>3 DEF AcquireResult
  <2>2. UNCHANGED <<holder, request_id>>
    BY <1>2, <1>3 DEF Acquire, AcquireRejected, lease
  <2> QED BY <2>1, <2>2 DEF Named
<1>4. CASE ValidTtl(b.ttl) /\ Replays(c, b.request)
  <2>1. Live /\ holder = c /\ expires_ms \in Nat
    BY <1>1, <1>4 DEF Replays, Live
  <2>2. AcquireResult(b) = Result("replayed", token, expires_ms)
    BY <1>4, <2>1 DEF AcquireResult
  <2>3. UNCHANGED <<next_token, holder, request_id>>
    BY <1>1, <1>2, <1>4, <2>1 DEF Acquire, AcquireRejected, AcquireRefused, AcquireReplayed, AcquireExhausted, AcquireGranted, lease
  <2> QED BY <1>1, <1>4, <2>1, <2>2, <2>3 DEF Named
<1>5. CASE ValidTtl(b.ttl) /\ Live /\ ~Replays(c, b.request)
  <2>1. AcquireResult(b) = Result("refused", NULL, NULL)
    BY <1>5 DEF AcquireResult
  <2>2. UNCHANGED <<holder, request_id>>
    BY <1>2, <1>5 DEF Acquire, AcquireRejected, AcquireRefused, AcquireReplayed, AcquireExhausted, AcquireGranted, lease
  <2> QED BY <2>1, <2>2 DEF Named
<1>6. CASE ValidTtl(b.ttl) /\ ~Live /\ next_token + 1 > MaxMinted
  <2>1. AcquireResult(b) = Result("exhausted", NULL, NULL)
    BY <1>6 DEF AcquireResult, Replays
  <2>2. UNCHANGED <<holder, request_id>>
    BY <1>1, <1>2, <1>6 DEF Acquire, AcquireRejected, AcquireRefused, AcquireReplayed, AcquireExhausted, AcquireGranted, lease, Replays
  <2> QED BY <2>1, <2>2 DEF Named
<1>7. CASE ValidTtl(b.ttl) /\ ~Live /\ ~(next_token + 1 > MaxMinted)
  <2>1. AcquireResult(b) = Result("granted", next_token + 1, now + b.ttl)
    BY <1>7 DEF AcquireResult, Replays
  <2>2. next_token' = next_token + 1 /\ next_token + 1 \in Tokens
    BY <1>1, <1>2, <1>7 DEF Acquire, AcquireRejected, AcquireRefused, AcquireReplayed, AcquireExhausted, AcquireGranted, Replays
  <2> QED BY <1>1, <1>7, <2>1, <2>2
<1> QED BY <1>3, <1>4, <1>5, <1>6, <1>7

\* The answer to a renewal: a refusal means that the lease is gone for good.
LEMMA RenewServed ==
    ASSUME RpcIInv, NEW c \in Callers, NEW b \in Rpcs, b.op = "renew", b.holder = c, b.token <= next_token, Execute(b)
    PROVE  LET a == RenewResult(b) IN
           /\ a \in Results /\ a.kind \in {"invalid_ttl", "renewed", "refused"}
           /\ a.kind = "invalid_ttl" => ~ValidTtl(b.ttl)
           /\ a.kind = "renewed" => a.expires = now + b.ttl
           /\ a.kind = "refused" => Dead(c, b.token)'
<1> USE NumbersAssumption, HoldersAssumption, NullAssumption DEF Result, Results, Tokens
<1>1. b.ttl \in Nat /\ b.token \in Tokens /\ now \in Nat
  BY RpcFields, RowFields DEF RpcIInv
<1>2. CASE ~ValidTtl(b.ttl)
  BY <1>2 DEF RenewResult
<1>3. CASE ValidTtl(b.ttl) /\ Owns(c, b.token)
  BY <1>1, <1>3 DEF RenewResult
<1>4. CASE ValidTtl(b.ttl) /\ ~Owns(c, b.token)
  <2>1. RenewResult(b) = Result("refused", NULL, NULL)
    BY <1>4 DEF RenewResult
  <2>2. Dead(c, b.token)
    BY <1>4 DEF Dead, Owns, Live
  <2>3. Dead(c, b.token)'
    BY <1>1, <2>2, DeadStays, ExecuteIsNext DEF RpcIInv
  <2> QED BY <2>1, <2>3
<1> QED BY <1>2, <1>3, <1>4

\* An alarm or the clock.
LEMMA QuietKeeps ==
    ASSUME RpcIInv, AlarmDue \/ AlarmRepeated \/ Tick, UNCHANGED rpcVars
    PROVE  RpcIInv'
<1>1. RpcTypeOK'
  BY DEF RpcIInv, RpcTypeOK, rpcVars
<1>2. \A d \in Callers : Same(d) /\ (Named(d, opts[d].request)' => Named(d, opts[d].request))
  BY QuietRow, HoldersAssumption DEF Same, rpcVars, Named, Callers
<1> QED BY <1>1, <1>2, QuietRow, AuthorityMoves DEF rpcVars, AuthorityNext

\* A call whose caller gave up is executed: nobody is told, and it names a
\* request of its own caller.
LEMMA ServeLateKeeps ==
    ASSUME RpcIInv, ServeLate
    PROVE  RpcIInv'
<1>1. late \in Rpcs /\ late # NULL
  BY DEF RpcIInv, RpcTypeOK, ServeLate
<1>2. AuthorityNext /\ Execute(late)
  BY <1>1, ExecuteIsNext DEF ServeLate
<1>3. RpcTypeOK'
  BY DEF RpcIInv, RpcTypeOK, ServeLate
<1>4. holder' = NULL \/ UNCHANGED <<holder, request_id>> \/ request_id' \in 1..requests
  <2>1. late.op = "acquire" => late.request \in 1..requests
    <3>1. late.op = "acquire" => late.request \in Nat /\ late.request >= 1 /\ late.request <= requests
      BY <1>1 DEF Rpcs, RpcIInv, Generated
    <3> QED BY <3>1 DEF RpcIInv, RpcTypeOK
  <2> QED BY <1>1, <1>2, <2>1, RequestInRow
<1>5. ASSUME NEW d \in Callers, Clear(d), Named(d, opts[d].request)' PROVE Named(d, opts[d].request)
  <2>1. PICK r \in Nat : r = opts[d].request
    BY DEF RpcIInv, RpcTypeOK
  <2>2. Named(d, r)'
    BY <1>5, <2>1 DEF Named, ServeLate
  <2>3. ~(late.op = "acquire" /\ late.request = r)
    BY <1>1, <1>5, <2>1 DEF RpcIInv, CallerOK, Unseen
  <2> QED BY <1>1, <1>2, <2>1, <2>2, <2>3, NamedByAcquire DEF RpcIInv
<1>6. \A d \in Callers : Same(d)
  BY DEF Same, ServeLate
<1> QED BY <1>2, <1>3, <1>4, <1>5, <1>6, AuthorityMoves DEF ServeLate

\* The authority serves the call a caller awaits.
LEMMA ServeKeeps ==
    ASSUME RpcIInv, NEW c \in Callers, Serve(c)
    PROVE  RpcIInv'
<1> USE NumbersAssumption
<1>1. PICK b \in Rpcs : b = call[c]
  BY DEF RpcIInv, RpcTypeOK, Serve
<1>2. /\ b # NULL /\ Execute(b) /\ call'[c] = NULL
      /\ UNCHANGED <<pc, late, grant, opts, wakeAt, failure, requests, lost>>
      /\ call' = [call EXCEPT ![c] = NULL]
  BY <1>1 DEF Serve, RpcIInv, RpcTypeOK
<1>3. AuthorityNext /\ CallerOK(c)
  BY <1>2, ExecuteIsNext DEF RpcIInv
<1>4. /\ Inv' /\ next_token <= next_token' /\ now <= now' /\ next_token \in Nat /\ now \in Nat
      /\ next_token' \in Nat /\ now' \in Nat
  <2>1. Inv' /\ next_token <= next_token' /\ now <= now'
    BY <1>3, DeadStays, NextInv DEF RpcIInv
  <2> QED BY <2>1 DEF RpcIInv, Inv, AuthorityTypeOK
<1>5. PICK a : /\ a = CASE b.op = "acquire" -> AcquireResult(b)
                        [] b.op = "renew" -> RenewResult(b)
                        [] b.op = "release" -> ReleaseResult(b)
              /\ answer' = [answer EXCEPT ![c] = a]
  BY <1>1 DEF Serve
<1>6. PICK o : o = opts[c] /\ o.request \in Nat /\ o.started \in Nat /\ o.ttl \in Nat
  BY DEF RpcIInv, RpcTypeOK
<1>7. b.holder = c /\ pc[c] \in {"acquire", "renew", "replay", "release"}
  BY <1>1, <1>2, <1>3 DEF CallerOK, RpcIInv, RpcTypeOK, Labels
<1>8. /\ b.op = "acquire" => b.request = o.request
      /\ pc[c] = "acquire" => b = Rpc("acquire", c, o.request, o.ttl, NULL)
      /\ pc[c] = "acquire" <=> b.op = "acquire"
      /\ pc[c] \in {"renew", "replay"} => b.op = "renew" /\ b.token = grant[c].token /\ b.token <= next_token
      /\ pc[c] = "replay" => b.ttl = o.ttl
      /\ pc[c] = "release" => b.op = "release"
  BY <1>1, <1>2, <1>3, <1>6, <1>7, OwnRequest DEF CallerOK, Acquiring, Renewing, Replaying, Rpc
<1>9. a \in Results /\ answer'[c] = a
  <2>1. CASE b.op = "acquire"
    BY <1>2, <1>5, <1>7, <2>1, AcquireServed DEF RpcIInv, RpcTypeOK
  <2>2. CASE b.op = "renew"
    BY <1>2, <1>5, <1>7, <1>8, <2>2, RenewServed DEF RpcIInv, RpcTypeOK
  <2>3. CASE b.op = "release"
    BY <1>5, <2>3 DEF ReleaseResult, Result, Results, RpcIInv, RpcTypeOK
  <2> QED BY <2>1, <2>2, <2>3 DEF Rpcs
<1>10. RpcTypeOK'
  BY <1>2, <1>5, <1>9 DEF RpcIInv, RpcTypeOK
<1>11. CallerOK(c)'
  <2>1. ASSUME pc[c] = "acquire" PROVE Acquiring(c)' /\ (Clear(c)' => Unseen(c)')
    <3>1. b.op = "acquire" /\ b.request = o.request /\ b.ttl = o.ttl /\ a = AcquireResult(b)
      BY <1>5, <1>8, <2>1 DEF Rpc
    <3>2. /\ a.kind \in {"granted", "replayed"} =>
                a.token \in Tokens /\ a.token <= next_token' /\ a.expires \in Nat /\ ValidTtl(o.ttl)
          /\ a.kind = "granted" => a.expires = now + o.ttl
          /\ a.kind # "granted" => (Named(c, o.request)' => Named(c, o.request))
      BY <1>2, <1>7, <3>1, AcquireServed DEF Named
    <3>3. Acquiring(c) /\ opts'[c] = o /\ pc'[c] = "acquire"
      BY <1>2, <1>3, <1>6, <2>1 DEF CallerOK
    <3>4. Acquiring(c)'
      BY <1>2, <1>4, <1>6, <1>9, <3>2, <3>3 DEF Acquiring, ValidTtl
    <3>5. Clear(c)' => Unseen(c)
      BY <1>2, <1>3 DEF Clear, CallerOK
    <3>6. answer[c] = NULL
      BY <1>1, <1>2, <1>3 DEF CallerOK
    <3>7. ASSUME Clear(c)' PROVE Unseen(c)'
      <4>1. Unseen(c) /\ ~Named(c, o.request)
        BY <1>6, <3>5, <3>6, <3>7 DEF Unseen
      <4>2. Named(c, opts[c].request)' <=> Named(c, o.request)'
        BY <3>3 DEF Named
      <4>3. late' = late /\ opts'[c].request = opts[c].request
        BY <1>2
      <4> QED BY <1>9, <3>2, <3>3, <4>1, <4>2, <4>3, RecordsAssumption DEF Unseen
    <3> QED BY <3>4, <3>7
  <2>2. ASSUME pc[c] \in {"renew", "replay"} PROVE Renewing(c)' /\ (pc[c] = "replay" => Replaying(c)')
    <3>1. b.op = "renew" /\ a = RenewResult(b)
      BY <1>5, <1>8, <2>2
    <3>2. /\ a.kind = "invalid_ttl" => ~ValidTtl(b.ttl)
          /\ a.kind = "renewed" => a.expires = now + b.ttl
          /\ a.kind = "refused" => Dead(c, grant[c].token)'
      BY <1>2, <1>7, <1>8, <2>2, <3>1, RenewServed DEF Dead
    <3>3. b.ttl \in Nat
      BY <3>1 DEF Rpcs
    <3>4. Renewing(c)'
      BY <1>2, <1>4, <1>9, <3>2, <3>3 DEF Renewing
    <3>5. ASSUME pc[c] = "replay" PROVE Replaying(c)'
      <4>1. Replaying(c) /\ b.ttl = o.ttl /\ opts'[c] = o
        BY <1>2, <1>3, <1>6, <1>8, <3>5 DEF CallerOK
      <4> QED BY <1>2, <1>4, <1>6, <1>9, <3>2, <4>1 DEF Replaying, ValidTtl
    <3> QED BY <3>4, <3>5
  <2>3. pc[c] # "acquire" => ~Clear(c)'
    <3>1. failure'[c] = failure[c] /\ pc'[c] = pc[c] /\ NULL \notin Definite
      BY <1>2, RecordsAssumption DEF Failures, Definite
    <3>2. failure[c] = NULL
      BY <1>3, <1>7 DEF CallerOK
    <3> QED BY <1>7, <3>1, <3>2 DEF Clear
  <2>4. UNCHANGED <<requests, failure, grant, opts, pc>> /\ call'[c] = NULL
    BY <1>2
  <2>5. grant[c] # NULL => grant[c].token \in Nat
    BY DEF RpcIInv, RpcTypeOK, LeaseGrants, Tokens
  <2> QED BY <1>3, <1>4, <1>7, <2>1, <2>2, <2>3, <2>4, <2>5 DEF CallerOK
<1>12. ASSUME NEW d \in Callers, d # c
       PROVE  Same(d) /\ (Clear(d) => (Named(d, opts[d].request)' => Named(d, opts[d].request)))
  <2>1. Same(d)
    BY <1>2, <1>5, <1>12 DEF Same, RpcIInv, RpcTypeOK
  <2>2. PICK r \in Nat : r = opts[d].request
    BY DEF RpcIInv, RpcTypeOK
  <2>3. Named(d, r)' => Named(d, r)
    BY <1>2, <1>7, <1>12, NamedByAcquire DEF RpcIInv
  <2> QED BY <1>2, <2>1, <2>2, <2>3 DEF Named
<1>13. holder' = NULL \/ UNCHANGED <<holder, request_id>> \/ request_id' \in 1..requests
  <2>1. b.op = "acquire" => b.request \in 1..requests
    <3>1. b.op = "acquire" => b.request \in Nat /\ b.request >= 1 /\ b.request <= requests
      BY <1>3, <1>6, <1>8 DEF Rpcs, CallerOK
    <3> QED BY <3>1 DEF RpcIInv, RpcTypeOK
  <2> QED BY <1>2, <2>1, RequestInRow
<1> QED BY <1>2, <1>3, <1>10, <1>11, <1>12, <1>13, AuthorityMoves

-----------------------------------------------------------------------------
(* The callers' steps.                                                     *)

\* A caller goes to its next await.
LEMMA SendKeeps ==
    ASSUME RpcIInv, NEW c \in Callers, NEW label \in Labels, NEW rpc \in Rpcs \cup {NULL},
           NEW g \in LeaseGrants \cup {NULL}, Send(c, label, rpc), grant' = [grant EXCEPT ![c] = g],
           UNCHANGED <<authorityVars, late, opts, failure, requests, lost>>, wakeAt' \in [Callers -> Nat],
           CallerOK(c)'
    PROVE  RpcIInv'
<1>1. RpcTypeOK'
  BY DEF RpcIInv, RpcTypeOK, Send
<1>2. Only(c)
  BY DEF RpcIInv, RpcTypeOK, Send, Only, Same
<1> QED BY <1>1, <1>2, CallerMoves DEF RpcIInv, RpcTypeOK

\* A caller as it awaits an answer, holds or sleeps.
LEMMA Sends ==
    ASSUME RpcIInv, NEW c \in Callers, NEW label, NEW rpc, Send(c, label, rpc), UNCHANGED authorityVars
    PROVE  /\ pc'[c] = label /\ call'[c] = rpc /\ answer'[c] = NULL
           /\ next_token' = next_token /\ now' = now
           /\ next_token \in Nat /\ now \in Nat
           /\ opts[c].request \in Nat /\ opts[c].started \in Nat /\ opts[c].ttl \in Nat
           /\ NULL \notin Definite
           /\ CallerOK(c)
  BY RowFields, RecordsAssumption
  DEF Send, RpcIInv, RpcTypeOK, authorityVars, Failures, Definite

\* A replayed grant is kept as a local and renewed before it is returned: acquire
\* knows its TTL is one the authority accepts.
LEMMA ReplayedKeeps ==
    ASSUME RpcIInv, NEW c \in Callers, Replayed(c)
    PROVE  RpcIInv'
<1> USE RecordsAssumption
<1>1. PICK g : g = [token |-> answer[c].token, expires |-> answer[c].expires]
  OBVIOUS
<1>2. PICK rpc : rpc = Rpc("renew", c, NULL, opts[c].ttl, answer[c].token)
  OBVIOUS
<1>3. /\ pc[c] = "acquire" /\ answer[c] # NULL /\ answer[c].kind = "replayed"
      /\ grant' = [grant EXCEPT ![c] = g] /\ Send(c, "replay", rpc)
      /\ UNCHANGED <<authorityVars, late, opts, wakeAt, failure, requests, lost>>
  BY <1>1, <1>2 DEF Replayed, Answered
<1>4. CallerOK(c) /\ Acquiring(c)
  BY <1>3 DEF RpcIInv, CallerOK
<1>5. /\ g.token \in Tokens /\ g.token <= next_token /\ g \in LeaseGrants
      /\ opts[c].ttl \in Ttls /\ ValidTtl(opts[c].ttl) /\ opts[c].started <= now
  BY <1>1, <1>3, <1>4 DEF Acquiring, LeaseGrants
<1>6. rpc \in Rpcs /\ rpc.op = "renew" /\ rpc.holder = c /\ rpc.token = g.token /\ rpc.ttl = opts[c].ttl
  BY <1>1, <1>2, <1>5 DEF Rpc, Rpcs
<1>7. /\ pc'[c] = "replay" /\ call'[c] = rpc /\ answer'[c] = NULL /\ grant'[c] = g /\ g # NULL
      /\ UNCHANGED <<next_token, now, requests>> /\ opts'[c] = opts[c] /\ failure'[c] = NULL /\ NULL \notin Definite
  <2>1. grant'[c] = g /\ g # NULL
    BY <1>3, <1>5 DEF RpcIInv, RpcTypeOK
  <2>2. failure[c] = NULL
    BY <1>3, <1>4 DEF CallerOK
  <2> QED BY <1>3, <2>1, <2>2, Sends
<1>8. CallerOK(c)'
  <2>1. Renewing(c)'
    BY <1>6, <1>7 DEF Renewing
  <2>2. Replaying(c)'
    BY <1>5, <1>6, <1>7 DEF Replaying, ValidTtl
  <2>3. ~Clear(c)'
    BY <1>7 DEF Clear
  <2> QED BY <1>4, <1>5, <1>6, <1>7, <2>1, <2>2, <2>3 DEF CallerOK
<1> QED BY <1>3, <1>5, <1>6, <1>8, SendKeeps DEF Labels, RpcIInv, RpcTypeOK

\* A refused acquire sleeps: nothing of it is at the authority.
LEMMA SleepKeeps ==
    ASSUME RpcIInv, NEW c \in Callers, Sleep(c)
    PROVE  RpcIInv'
<1>1. /\ pc[c] = "acquire" /\ answer[c] # NULL /\ answer[c].kind = "refused"
      /\ Send(c, "sleep", NULL) /\ wakeAt' = [wakeAt EXCEPT ![c] = now + RetryInterval]
      /\ UNCHANGED <<authorityVars, late, grant, opts, failure, requests, lost>>
  BY DEF Sleep, Answered
<1>2. CallerOK(c) /\ Acquiring(c) /\ failure[c] = NULL
  BY <1>1 DEF RpcIInv, CallerOK
<1>3. /\ pc'[c] = "sleep" /\ call'[c] = NULL /\ answer'[c] = NULL
      /\ UNCHANGED <<next_token, now, requests, late, opts, failure, holder, request_id>>
  BY <1>1, Sends DEF authorityVars
<1>4. CallerOK(c)'
  <2>1. Acquiring(c)'
    BY <1>2, <1>3 DEF Acquiring
  <2>2. Clear(c)' => Unseen(c)'
    BY <1>1, <1>2, <1>3 DEF Clear, Unseen, Named, CallerOK
  <2> QED BY <1>2, <1>3, <2>1, <2>2 DEF CallerOK
<1>5. wakeAt' \in [Callers -> Nat] /\ grant' = [grant EXCEPT ![c] = grant[c]]
  BY <1>1, RowFields, BudgetAssumption DEF RpcIInv, RpcTypeOK
<1> QED BY <1>1, <1>4, <1>5, SendKeeps DEF Labels, RpcIInv, RpcTypeOK

\* It polls again, with the request id and the TTL it began with.
LEMMA WakeKeeps ==
    ASSUME RpcIInv, NEW c \in Callers, Wake(c)
    PROVE  RpcIInv'
<1>1. PICK rpc : rpc = Rpc("acquire", c, opts[c].request, opts[c].ttl, NULL)
  OBVIOUS
<1>2. /\ pc[c] = "sleep" /\ Send(c, "acquire", rpc)
      /\ UNCHANGED <<authorityVars, late, grant, opts, wakeAt, failure, requests, lost>>
  BY <1>1 DEF Wake
<1>3. CallerOK(c) /\ Acquiring(c) /\ failure[c] = NULL
  BY <1>2 DEF RpcIInv, CallerOK
<1>4. rpc \in Rpcs /\ rpc.holder = c
  BY <1>1, <1>3 DEF Rpc, Rpcs, Acquiring, RpcIInv, RpcTypeOK
<1>5. /\ pc'[c] = "acquire" /\ call'[c] = rpc /\ answer'[c] = NULL
      /\ UNCHANGED <<next_token, now, requests, late, opts, failure, holder, request_id>>
  BY <1>2, Sends DEF authorityVars
<1>6. CallerOK(c)'
  <2>1. Acquiring(c)'
    BY <1>1, <1>3, <1>5 DEF Acquiring
  <2>2. Clear(c)' => Unseen(c)'
    BY <1>2, <1>3, <1>5 DEF Clear, Unseen, Named, CallerOK
  <2> QED BY <1>3, <1>4, <1>5, <2>1, <2>2 DEF CallerOK
<1>7. grant' = [grant EXCEPT ![c] = grant[c]]
  BY <1>2 DEF RpcIInv, RpcTypeOK
<1> QED BY <1>2, <1>4, <1>6, <1>7, SendKeeps DEF Labels, RpcIInv, RpcTypeOK

\* A holder sends a renewal or a release of its grant.
LEMMA HolderSends ==
    ASSUME RpcIInv, NEW c \in Callers, pc[c] = "held", NEW label \in {"renew", "release"}, NEW rpc \in Rpcs,
           rpc.op = label, rpc.holder = c, rpc.token = grant[c].token, Send(c, label, rpc),
           UNCHANGED <<authorityVars, late, grant, opts, wakeAt, failure, requests, lost>>
    PROVE  RpcIInv'
<1>1. CallerOK(c) /\ failure[c] = NULL
  BY DEF RpcIInv, CallerOK
<1>2. /\ pc'[c] = label /\ call'[c] = rpc /\ answer'[c] = NULL /\ NULL \notin Definite
      /\ UNCHANGED <<next_token, now, requests, late, opts, failure, grant>>
  BY Sends
<1>3. CallerOK(c)'
  BY <1>1, <1>2 DEF CallerOK, Renewing, Clear
<1>4. grant' = [grant EXCEPT ![c] = grant[c]]
  BY DEF RpcIInv, RpcTypeOK
<1>5. /\ label \in Labels /\ rpc \in Rpcs \cup {NULL} /\ grant[c] \in LeaseGrants \cup {NULL}
      /\ wakeAt' \in [Callers -> Nat] /\ UNCHANGED <<authorityVars, late, opts, failure, requests, lost>>
  BY DEF Labels, RpcIInv, RpcTypeOK
<1> QED BY <1>3, <1>4, <1>5, SendKeeps

\* A caller that holds, renews or releases has a grant the authority minted.
LEMMA HeldToken ==
    ASSUME RpcIInv, NEW c \in Callers, pc[c] \in {"held", "renew", "replay", "release"}
    PROVE  grant[c] \in LeaseGrants /\ grant[c].token \in Tokens /\ grant[c].token <= next_token
  BY DEF RpcIInv, RpcTypeOK, CallerOK, LeaseGrants

\* A holder renews.
LEMMA StartRenewKeeps ==
    ASSUME RpcIInv, NEW c \in Callers, NEW ttl \in Ttls, StartRenew(c, ttl)
    PROVE  RpcIInv'
<1>1. PICK rpc : rpc = Rpc("renew", c, NULL, ttl, grant[c].token)
  OBVIOUS
<1>2. rpc \in Rpcs /\ rpc.op = "renew" /\ rpc.holder = c /\ rpc.token = grant[c].token
  BY <1>1, HeldToken DEF Rpc, Rpcs, StartRenew
<1>3. /\ pc[c] = "held" /\ Send(c, "renew", rpc) /\ rpc \in Rpcs /\ "renew" \in {"renew", "release"}
      /\ UNCHANGED <<authorityVars, late, grant, opts, wakeAt, failure, requests, lost>>
  BY <1>1, <1>2 DEF StartRenew
<1> QED BY <1>2, <1>3, HolderSends

\* A holder releases.
LEMMA StartReleaseKeeps ==
    ASSUME RpcIInv, NEW c \in Callers, StartRelease(c)
    PROVE  RpcIInv'
<1>1. PICK rpc : rpc = Rpc("release", c, NULL, NULL, grant[c].token)
  OBVIOUS
<1>2. rpc \in Rpcs /\ rpc.op = "release" /\ rpc.holder = c /\ rpc.token = grant[c].token
  BY <1>1, HeldToken DEF Rpc, Rpcs, StartRelease
<1>3. /\ pc[c] = "held" /\ Send(c, "release", rpc) /\ rpc \in Rpcs /\ "release" \in {"renew", "release"}
      /\ UNCHANGED <<authorityVars, late, grant, opts, wakeAt, failure, requests, lost>>
  BY <1>1, <1>2 DEF StartRelease
<1> QED BY <1>2, <1>3, HolderSends

\* A method ends.  A loss it reports is real, a grant it returns was minted, and
\* a definite failure comes from an acquire that was answered.
LEMMA FinishKeeps ==
    ASSUME RpcIInv, NEW c \in Callers, NEW how, NEW g \in LeaseGrants \cup {NULL}, Finish(c, how, g),
           late' = late \/ late' = call[c],
           g # NULL => g.token <= next_token,
           how = "lost_lease" => pc[c] \in {"renew", "replay"} /\ Dead(c, grant[c].token),
           pc[c] \in {"acquire", "replay"} /\ g = NULL => how \in Failures,
           pc[c] \in {"acquire", "replay"} /\ g = NULL /\ how \in Definite =>
               /\ pc[c] = "acquire" /\ late' = late
               /\ answer[c].kind # "granted"
    PROVE  RpcIInv'
<1> USE RecordsAssumption
<1>1. PICK label : label = IF g = NULL THEN "idle" ELSE "held"
  OBVIOUS
<1>2. /\ Send(c, label, NULL) /\ UNCHANGED authorityVars /\ UNCHANGED requests
      /\ grant' = [grant EXCEPT ![c] = g] /\ wakeAt' = [wakeAt EXCEPT ![c] = 0]
      /\ failure' = [failure EXCEPT ![c] = IF pc[c] \in {"acquire", "replay"} /\ g = NULL THEN how ELSE NULL]
      /\ lost' = IF how = "lost_lease" THEN lost \cup {<<c, grant[c].token>>} ELSE lost
      /\ opts' = [opts EXCEPT ![c].wait = FALSE, ![c].started = 0, ![c].ttl = 0]
  BY <1>1 DEF Finish
<1>3. PICK f \in Failures \cup {NULL} :
        /\ f = IF pc[c] \in {"acquire", "replay"} /\ g = NULL THEN how ELSE NULL
        /\ failure' = [failure EXCEPT ![c] = f] /\ failure'[c] = f
  BY <1>2 DEF RpcIInv, RpcTypeOK
<1>4. PICK o : o = opts[c] /\ o \in [request : 0..MaxRequest, ttl : Nat, wait : BOOLEAN, started : Nat, fresh : BOOLEAN]
  BY DEF RpcIInv, RpcTypeOK
<1>5. PICK n : n = [o EXCEPT !.wait = FALSE, !.started = 0, !.ttl = 0]
  OBVIOUS
<1>6. /\ n \in [request : 0..MaxRequest, ttl : Nat, wait : BOOLEAN, started : Nat, fresh : BOOLEAN]
      /\ n.request = o.request /\ n.fresh = o.fresh
  BY <1>4, <1>5
<1>7. opts' = [opts EXCEPT ![c] = n] /\ opts'[c] = n
  BY <1>2, <1>4, <1>5 DEF RpcIInv, RpcTypeOK
<1>8. RpcTypeOK'
  <2>1. how = "lost_lease" => <<c, grant[c].token>> \in Callers \X Tokens
    BY HeldToken
  <2>2. late' \in Rpcs \cup {NULL}
    BY DEF RpcIInv, RpcTypeOK
  <2> QED BY <1>1, <1>2, <1>3, <1>6, <1>7, <2>1, <2>2 DEF RpcIInv, RpcTypeOK, Send, Labels
<1>9. Only(c)
  BY <1>2, <1>3, <1>7 DEF RpcIInv, RpcTypeOK, Send, Only, Same
<1>10. CallerOK(c)'
  <2>1. /\ pc'[c] = label /\ call'[c] = NULL /\ answer'[c] = NULL /\ grant'[c] = g
        /\ UNCHANGED <<next_token, now, requests, holder, request_id>> /\ CallerOK(c) /\ NULL \notin Definite
    BY <1>2, Sends DEF RpcIInv, RpcTypeOK, authorityVars
  <2>2. label = "held" => f = NULL
    BY <1>1, <1>3
  <2>3. ASSUME Clear(c)' PROVE Unseen(c)'
    <3>1. f \in Definite /\ o.fresh
      BY <1>1, <1>3, <1>6, <1>7, <2>1, <2>3 DEF Clear
    <3>2. pc[c] = "acquire" /\ late' = late /\ answer[c].kind # "granted"
      BY <1>3, <2>1, <3>1
    <3>3. Unseen(c)
      BY <1>4, <2>1, <3>1, <3>2 DEF CallerOK, Clear
    <3> QED BY <1>4, <1>6, <1>7, <2>1, <3>2, <3>3 DEF Unseen, Named
  <2> QED BY <1>1, <1>3, <1>4, <1>6, <1>7, <2>1, <2>2, <2>3 DEF CallerOK
<1>11. \A p \in lost' : p \in lost \/ Dead(p[1], p[2])
  BY <1>2
<1> QED BY <1>2, <1>4, <1>6, <1>7, <1>8, <1>9, <1>10, <1>11, CallerMoves

\* acquire returns a new grant.
LEMMA GrantedKeeps ==
    ASSUME RpcIInv, NEW c \in Callers, Granted(c)
    PROVE  RpcIInv'
<1> USE RecordsAssumption
<1>1. PICK g : g = [token |-> answer[c].token, expires |-> answer[c].expires]
  OBVIOUS
<1>2. pc[c] = "acquire" /\ answer[c] # NULL /\ answer[c].kind = "granted" /\ Finish(c, "granted", g) /\ late' = late
  BY <1>1 DEF Granted, Answered
<1>3. g \in LeaseGrants /\ g # NULL /\ g.token <= next_token
  BY <1>1, <1>2 DEF RpcIInv, CallerOK, Acquiring, LeaseGrants
<1> QED BY <1>2, <1>3, FinishKeeps

\* acquire throws what it was answered.
LEMMA AcquireThrowsKeeps ==
    ASSUME RpcIInv, NEW c \in Callers, AcquireThrows(c)
    PROVE  RpcIInv'
<1>1. PICK how \in {"invalid_plan", "transport", "contention", "timeout"} :
        /\ Finish(c, how, NULL) /\ pc[c] = "acquire" /\ late' = late
        /\ answer[c].kind \in {"invalid_ttl", "exhausted", "refused"}
  BY DEF AcquireThrows, Answered
<1> QED BY <1>1, FinishKeeps DEF Failures

\* renew ends: extended, lost (and then Dead at the authority), or the TTL refused.
LEMMA RenewEndsKeeps ==
    ASSUME RpcIInv, NEW c \in Callers, RenewEnds(c)
    PROVE  RpcIInv'
<1> USE RecordsAssumption
<1>1. /\ pc[c] \in {"renew", "replay"} /\ late' = late /\ answer[c] # NULL
      /\ CallerOK(c) /\ Renewing(c) /\ grant[c] \in LeaseGrants /\ grant[c].token <= next_token
  BY HeldToken DEF RenewEnds, Answered, RpcIInv, CallerOK
<1>2. CASE answer[c].kind = "renewed" /\ Finish(c, "granted", [grant[c] EXCEPT !.expires = answer[c].expires])
  <2>1. PICK g : g = [grant[c] EXCEPT !.expires = answer[c].expires]
    OBVIOUS
  <2>2. g \in LeaseGrants /\ g # NULL /\ g.token <= next_token
    BY <1>1, <1>2, <2>1 DEF LeaseGrants, Renewing
  <2> QED BY <1>1, <1>2, <2>1, <2>2, FinishKeeps
<1>3. CASE answer[c].kind = "refused" /\ Finish(c, "lost_lease", NULL)
  <2>1. Dead(c, grant[c].token)
    BY <1>1, <1>3 DEF Renewing
  <2> QED BY <1>1, <1>3, <2>1, FinishKeeps DEF Failures, Definite
<1>4. CASE Finish(c, "invalid_plan", grant[c])
  BY <1>1, <1>4, FinishKeeps
<1> QED BY <1>1, <1>2, <1>3, <1>4 DEF RenewEnds, Answered

\* release ends: its result is no failure of an acquire.
LEMMA ReleaseEndsKeeps ==
    ASSUME RpcIInv, NEW c \in Callers, ReleaseEnds(c)
    PROVE  RpcIInv'
<1>1. PICK how \in {"released", "not_released"} : Finish(c, how, NULL) /\ pc[c] = "release" /\ late' = late
  BY DEF ReleaseEnds, Answered
<1> QED BY <1>1, FinishKeeps

\* A fault: the call may still be executed, so nothing definite is said.
LEMMA RpcFailsKeeps ==
    ASSUME RpcIInv, NEW c \in Callers, RpcFails(c)
    PROVE  RpcIInv'
<1>1. late' = late \/ late' = call[c]
  BY DEF RpcFails, Abandon
<1>2. PICK g : g = IF pc[c] = "renew" THEN grant[c] ELSE NULL
  OBVIOUS
<1>3. g \in LeaseGrants \cup {NULL} /\ (g # NULL => g.token <= next_token) /\ Finish(c, "transport", g)
  BY <1>2, HeldToken DEF RpcFails
<1> QED BY <1>1, <1>3, FinishKeeps DEF Failures, Definite

\* An acquire starts: under an id nobody has seen, or a failed one's again.
LEMMA StartAcquireKeeps ==
    ASSUME RpcIInv, NEW c \in Callers, NEW r \in 1..MaxRequest, NEW ttl \in Ttls, NEW wait \in BOOLEAN,
           StartAcquire(c, r, ttl, wait)
    PROVE  RpcIInv'
<1> USE RecordsAssumption, NumbersAssumption, BudgetAssumption
<1> DEFINE Options == [request : 0..MaxRequest, ttl : Nat, wait : BOOLEAN, started : Nat, fresh : BOOLEAN]
<1>1. PICK rpc : rpc = Rpc("acquire", c, r, ttl, NULL)
  OBVIOUS
<1>2. PICK n : n = [request |-> r, ttl |-> ttl, wait |-> wait, started |-> now, fresh |-> r # opts[c].request]
  OBVIOUS
<1>3. /\ pc[c] = "idle"
      /\ r = requests + 1 \/ (r = opts[c].request /\ failure[c] # NULL)
      /\ requests' = IF r > requests THEN r ELSE requests
      /\ opts' = [opts EXCEPT ![c] = n] /\ Send(c, "acquire", rpc)
      /\ failure' = [failure EXCEPT ![c] = NULL]
      /\ UNCHANGED <<authorityVars, late, grant, wakeAt, lost>>
  BY <1>1, <1>2 DEF StartAcquire
<1>4. /\ requests \in 0..MaxRequest /\ opts[c].request \in Nat /\ opts[c].request <= requests
      /\ now \in Nat /\ ttl \in Nat /\ r \in Nat /\ r # 0
  BY RowFields DEF RpcIInv, RpcTypeOK, CallerOK
<1>5. /\ requests' \in 0..MaxRequest
      /\ \/ r = requests + 1 /\ requests' = requests + 1
         \/ r = opts[c].request /\ requests' = requests
  BY <1>3, <1>4
<1>6. n \in Options /\ n.request = r /\ n.ttl = ttl /\ n.started = now /\ (n.fresh <=> r # opts[c].request)
  <2>1. PICK f : f = (r # opts[c].request)
    OBVIOUS
  <2>2. f \in BOOLEAN /\ (f <=> r # opts[c].request)
    BY <2>1, Zenon
  <2>3. n = [request |-> r, ttl |-> ttl, wait |-> wait, started |-> now, fresh |-> f]
    BY <1>2, <2>1, Zenon
  <2>4. n \in Options /\ n.request = r /\ n.ttl = ttl /\ n.started = now /\ n.fresh = f
    BY <1>4, <2>2, <2>3
  <2> QED BY <2>1, <2>4, Zenon
<1>7. rpc \in Rpcs /\ rpc.holder = c
  BY <1>1 DEF Rpc, Rpcs
<1>8. RpcTypeOK'
  BY <1>3, <1>5, <1>6, <1>7 DEF RpcIInv, RpcTypeOK, Send, Labels
<1>9. Only(c)
  BY <1>3 DEF RpcIInv, RpcTypeOK, Send, Only, Same
<1>10. /\ pc'[c] = "acquire" /\ call'[c] = rpc /\ answer'[c] = NULL /\ opts'[c] = n /\ failure'[c] = NULL
       /\ UNCHANGED <<next_token, now, holder, request_id, late>>
  BY <1>3, Sends DEF RpcIInv, RpcTypeOK, authorityVars
<1>11. CallerOK(c)'
  <2>1. Acquiring(c)'
    BY <1>1, <1>4, <1>6, <1>10 DEF Acquiring
  <2>2. ASSUME Clear(c)' PROVE Unseen(c)'
    <3>1. n.fresh
      BY <1>10, <2>2 DEF Clear
    <3>2. r = requests + 1
      BY <1>5, <1>6, <3>1
    <3>3. ~(holder = c /\ request_id = r)
      BY <1>4, <3>2, HoldersAssumption DEF RpcIInv, Generated, Callers
    <3>4. late # NULL => ~(late.op = "acquire" /\ late.request = r)
      BY <1>4, <3>2 DEF RpcIInv, Generated
    <3> QED BY <1>6, <1>10, <3>3, <3>4 DEF Unseen, Named
  <2> QED BY <1>3, <1>4, <1>5, <1>6, <1>7, <1>10, <2>1, <2>2 DEF CallerOK
<1>12. \/ UNCHANGED requests /\ opts'[c].request = opts[c].request
       \/ requests' = requests + 1 /\ opts'[c].request = requests + 1
  BY <1>5, <1>6, <1>10
<1> QED BY <1>3, <1>8, <1>9, <1>11, <1>12, CallerMoves

\* Nobody has called and the row is empty.
LEMMA RpcStarts == Init => RpcIInv
<1> SUFFICES ASSUME Init PROVE RpcIInv
  OBVIOUS
<1> USE RecordsAssumption, BudgetAssumption
<1>1. Inv
  BY InitInv DEF Init
<1>2. RpcTypeOK
  BY DEF Init, RpcTypeOK, Labels
<1>3. \A c \in Callers : CallerOK(c)
  <2> SUFFICES ASSUME NEW c \in Callers PROVE CallerOK(c)
    OBVIOUS
  <2>1. /\ pc[c] = "idle" /\ call[c] = NULL /\ answer[c] = NULL /\ failure[c] = NULL
        /\ opts[c].request = 0 /\ requests = 0 /\ NULL \notin Definite
    BY DEF Init, Failures, Definite
  <2> QED BY <2>1 DEF CallerOK, Clear
<1>4. Generated /\ AllLost
  BY DEF Init, AuthorityInit, Generated, AllLost
<1> QED BY <1>1, <1>2, <1>3, <1>4 DEF RpcIInv

\* Every step of callers and authority preserves the invariant.
LEMMA RpcSteps == RpcIInv /\ [Next]_vars => RpcIInv'
<1> SUFFICES ASSUME RpcIInv, [Next]_vars PROVE RpcIInv'
  OBVIOUS
<1>1. ASSUME NEW c \in Callers, NEW r \in 1..MaxRequest, NEW ttl \in Ttls, NEW wait \in BOOLEAN,
             StartAcquire(c, r, ttl, wait)
      PROVE  RpcIInv'
  BY <1>1, StartAcquireKeeps
<1>2. ASSUME NEW c \in Callers, NEW ttl \in Ttls, StartRenew(c, ttl) PROVE RpcIInv'
  BY <1>2, StartRenewKeeps
<1>3. ASSUME NEW c \in Callers, StartRelease(c) PROVE RpcIInv'
  BY <1>3, StartReleaseKeeps
<1>4. ASSUME NEW c \in Callers, MethodStep(c) PROVE RpcIInv'
  BY <1>4, GrantedKeeps, ReplayedKeeps, AcquireThrowsKeeps, SleepKeeps, WakeKeeps, RenewEndsKeeps, ReleaseEndsKeeps
  DEF MethodStep
<1>5. ASSUME NEW c \in Callers, Serve(c) PROVE RpcIInv'
  BY <1>5, ServeKeeps
<1>6. ASSUME NEW c \in Callers, RpcFails(c) PROVE RpcIInv'
  BY <1>6, RpcFailsKeeps
<1>7. CASE ServeLate
  BY <1>7, ServeLateKeeps
<1>8. CASE (AlarmDue \/ AlarmRepeated \/ Tick) /\ UNCHANGED rpcVars
  BY <1>8, QuietKeeps
<1>9. CASE UNCHANGED vars
  <2>1. UNCHANGED authorityVars /\ UNCHANGED rpcVars
    BY <1>9 DEF vars
  <2>2. RpcTypeOK'
    BY <2>1 DEF RpcIInv, RpcTypeOK, rpcVars
  <2>3. \A d \in Callers : Same(d) /\ (Named(d, opts[d].request)' => Named(d, opts[d].request))
    BY <2>1 DEF Same, rpcVars, Named, authorityVars
  <2> QED BY <2>1, <2>2, <2>3, AuthorityMoves DEF rpcVars, authorityVars
<1> QED BY <1>1, <1>2, <1>3, <1>4, <1>5, <1>6, <1>7, <1>8, <1>9 DEF Next

\* The invariant of the RPC client: types, what every await may rely on, and that
\* nothing of a definitely failed acquisition is left.
THEOREM RpcInvariant == Spec => []RpcIInv
<1> QED BY RpcStarts, RpcSteps, PTL DEF Spec

\* acquire's definite failures (contention, timeout, invalid_plan) leave nothing at
\* the authority or on its way, and lost_lease is final, whatever is executed late.
THEOREM RpcTellsTruth == Spec => []RpcInv
<1>1. RpcIInv => RpcInv
  <2> SUFFICES ASSUME RpcIInv PROVE RpcInv
    OBVIOUS
  <2>1. LostStaysLost
    BY DEF LostStaysLost, RpcIInv, AllLost, Dead
  <2>2. ASSUME NEW c \in Callers, failure[c] \in Definite, opts[c].fresh
        PROVE  /\ ~(holder = c /\ request_id = opts[c].request)
               /\ late # NULL => ~(late.op = "acquire" /\ late.request = opts[c].request)
    <3>1. CallerOK(c) /\ failure[c] # NULL
      BY <2>2, RecordsAssumption DEF RpcIInv, Failures, Definite
    <3>2. Unseen(c) /\ pc[c] = "idle"
      BY <2>2, <3>1 DEF CallerOK, Clear
    <3> QED BY <3>2 DEF Unseen, Named
  <2> QED BY <2>1, <2>2 DEF RpcInv, DefiniteLeavesNothing
<1> QED BY <1>1, RpcInvariant, PTL

ReturnStep ==
    \A c \in Callers :
        (pc[c] \in {"acquire", "replay"} /\ pc'[c] = "held")
            => grant'[c].expires >= opts[c].started + opts[c].ttl

\* acquire returns a grant that lasts its TTL from a moment of that call: a
\* replayed one is renewed first.
THEOREM ReturnedFresh == Spec => FreshWhenReturned
<1>1. RpcIInv /\ [Next]_vars => [ReturnStep]_vars
  <2> SUFFICES ASSUME RpcIInv, Next, NEW c \in Callers, pc[c] \in {"acquire", "replay"}, pc'[c] = "held"
               PROVE  grant'[c].expires >= opts[c].started + opts[c].ttl
    BY DEF ReturnStep
  <2> USE RecordsAssumption
  <2>1. CallerOK(c) /\ pc \in [Callers -> Labels] /\ grant \in [Callers -> LeaseGrants \cup {NULL}]
    BY DEF RpcIInv, RpcTypeOK
  <2>2. ASSUME NEW d \in Callers, Granted(d) PROVE grant'[c].expires >= opts[c].started + opts[c].ttl
    <3>1. d = c
      BY <2>1, <2>2 DEF Granted, Finish, Send
    <3>2. /\ pc[c] = "acquire" /\ answer[c] # NULL /\ answer[c].kind = "granted"
          /\ grant'[c] = [token |-> answer[c].token, expires |-> answer[c].expires]
      BY <2>1, <2>2, <3>1 DEF Granted, Answered, Finish
    <3> QED BY <2>1, <3>2 DEF CallerOK, Acquiring
  <2>3. ASSUME NEW d \in Callers, RenewEnds(d) PROVE grant'[c].expires >= opts[c].started + opts[c].ttl
    <3>1. d = c
      BY <2>1, <2>3 DEF RenewEnds, Finish, Send
    <3>2. pc[c] = "replay" /\ Replaying(c) /\ answer[c] # NULL
      BY <2>1, <2>3, <3>1 DEF RenewEnds, Answered, CallerOK
    <3>3. answer[c].kind = "renewed" /\ Finish(c, "granted", [grant[c] EXCEPT !.expires = answer[c].expires])
      BY <2>1, <2>3, <3>1, <3>2 DEF RenewEnds, Answered, Replaying, Finish, Send
    <3>4. grant[c] \in LeaseGrants
      BY <3>2, HeldToken
    <3>5. grant'[c] = [grant[c] EXCEPT !.expires = answer[c].expires]
      BY <2>1, <3>3 DEF Finish
    <3> QED BY <3>2, <3>3, <3>4, <3>5 DEF LeaseGrants, Replaying
  <2>4. ASSUME NEW d \in Callers, RpcFails(d) PROVE FALSE
    BY <2>1, <2>4 DEF RpcFails, Finish, Send
  <2>5. ASSUME NEW d \in Callers, Replayed(d) \/ Sleep(d) \/ Wake(d) PROVE FALSE
    BY <2>1, <2>5 DEF Replayed, Sleep, Wake, Send
  <2>6. ASSUME NEW d \in Callers, AcquireThrows(d) \/ ReleaseEnds(d) PROVE FALSE
    BY <2>1, <2>6 DEF AcquireThrows, ReleaseEnds, Finish, Send
  <2>7. ASSUME NEW d \in Callers, NEW r \in 1..MaxRequest, NEW ttl \in Ttls, NEW wait \in BOOLEAN,
               StartAcquire(d, r, ttl, wait)
        PROVE  FALSE
    BY <2>1, <2>7 DEF StartAcquire, Send
  <2>8. ASSUME NEW d \in Callers, Serve(d) \/ StartRelease(d) \/ \E ttl \in Ttls : StartRenew(d, ttl) PROVE FALSE
    BY <2>1, <2>8 DEF Serve, StartRelease, StartRenew, Send
  <2>9. CASE ServeLate \/ UNCHANGED rpcVars
    BY <2>9 DEF ServeLate, rpcVars
  <2> QED BY <2>2, <2>3, <2>4, <2>5, <2>6, <2>7, <2>8, <2>9 DEF Next, MethodStep
<1> QED BY <1>1, RpcInvariant, PTL DEF Spec, FreshWhenReturned, ReturnStep

-----------------------------------------------------------------------------
(* BeamScale.  The inductive invariant.  A message carries the request id  *)
(* of the acquisition it belongs to, and a lease the one it was made for:  *)
(* a release under way is of an acquisition its client is done with, so no *)
(* release, however late, ends a lease somebody holds.                     *)

BeamClients ==
    [pc : {"idle", "acquiring", "sleeping", "held", "renewing", "releasing", "unreleased"}, rid : Nat, wait : BOOLEAN,
     started : Nat, wakeAt : Nat, retries : Nat, seq : 0..MaxSequence, expires : Nat,
     outcome : {"none", "transport", "invalid_plan", "contention", "timeout", "lost_lease", "released", "gone", "crashed"}]

Registries == [1..MaxSequence -> Nat]

BeamServiceOK ==
    /\ service \in Beam!Leases \cup {NULL}
    /\ sequence \in 0..MaxSequence /\ epoch \in Nat \ {0} /\ time \in Nat
    /\ service # NULL => service.expires <= time + BeamTtl /\ service.seq <= sequence

BeamTypeOK ==
    /\ request \in [BeamCallers -> Beam!Messages \cup {NULL}]
    /\ response \in [BeamCallers -> Beam!Replies \cup {NULL}]
    /\ orphans \subseteq Beam!Messages
    /\ registry \in [BeamCallers -> Registries]
    /\ client \in [BeamCallers -> BeamClients]

\* The sequence s was minted for the acquisition r of c.
MintedFor(c, r, s) ==
    s \in 1..sequence /\ (service # NULL /\ service.seq = s => service.holder = c /\ service.rid = r)

\* It was, and c was told that it lasts until x.
Told(c, r, s, x) ==
    /\ MintedFor(c, r, s)
    /\ time < x => service # NULL /\ service.seq = s /\ x <= service.expires

\* A client whose acquisition has been released, or ended otherwise for good.
Over(k) == k.pc \in {"releasing", "unreleased"} \/ (k.pc = "idle" /\ k.outcome \notin {"transport", "crashed"})

\* What client c, its request, its answer and its registry have to do with the
\* service.
ClientOK(c, k, q, a, g) ==
    /\ q # NULL => q.holder = c /\ q.rid = k.rid /\ a = NULL
    /\ k.pc \in {"idle", "sleeping", "held", "unreleased"} => q = NULL /\ a = NULL
    /\ k.pc = "acquiring" => (q # NULL => q.op = "acquire")
    /\ k.pc = "renewing" => (q # NULL => q.op = "renew" /\ q.seq = k.seq)
    /\ k.pc = "releasing" => (q # NULL => q.op = "release" /\ q.seq = k.seq)
    /\ k.pc \in {"held", "renewing", "releasing", "unreleased"} => MintedFor(c, k.rid, k.seq) /\ g[k.seq] # 0
    /\ k.pc \in {"held", "renewing"} => Told(c, k.rid, k.seq, k.expires)
    /\ (k.pc = "acquiring" /\ a # NULL /\ a.kind = "ok") => Told(c, k.rid, a.seq, a.expires) /\ a.epoch # 0
    /\ (k.pc = "renewing" /\ a # NULL /\ a.kind = "ok") => Told(c, k.rid, k.seq, a.expires)

Sane(c) == ClientOK(c, client[c], request[c], response[c], registry[c])

OrphanOK(m) ==
    m.op = "release" =>
        /\ MintedFor(m.holder, m.rid, m.seq)
        /\ m.rid <= client[m.holder].rid
        /\ m.rid = client[m.holder].rid => Over(client[m.holder])

BeamIInv ==
    /\ BeamServiceOK /\ BeamTypeOK
    /\ \A c \in BeamCallers : Sane(c)
    /\ \A m \in orphans : OrphanOK(m)

-----------------------------------------------------------------------------
(* The service's steps.                                                    *)

\* The service serves m: what was minted and told stays so, unless m releases it;
\* an answer tells the client what is so.
LEMMA BeamServes ==
    ASSUME BeamServiceOK, NEW m \in Beam!Messages, NEW c \in BeamCallers \cup {NULL}, Beam!Serves(m, c),
           response \in [BeamCallers -> Beam!Replies \cup {NULL}]
    PROVE  /\ BeamServiceOK'
           /\ \A d, r, s : MintedFor(d, r, s) => MintedFor(d, r, s)'
           /\ \A d, r, s : \A x \in Nat :
                Told(d, r, s, x) =>
                    Told(d, r, s, x)' \/ (m.op = "release" /\ m.holder = d /\ m.seq = s /\ service.seq = s /\ service # NULL)
           /\ c = NULL => UNCHANGED response
           /\ c # NULL => \E a \in Beam!Replies :
                /\ response' = [response EXCEPT ![c] = a]
                /\ m.op = "acquire" /\ a.kind = "ok" => Told(m.holder, m.rid, a.seq, a.expires)' /\ a.epoch # 0
                /\ m.op = "renew" /\ a.kind = "ok" /\ MintedFor(m.holder, m.rid, m.seq)
                     => Told(m.holder, m.rid, m.seq, a.expires)'
<1> USE BeamAssumption
<1> DEFINE Stays == /\ BeamServiceOK'
                    /\ \A d, r, s : MintedFor(d, r, s) => MintedFor(d, r, s)'
                    /\ \A d, r, s : \A x \in Nat : Told(d, r, s, x) => Told(d, r, s, x)'
<1> DEFINE Answers(a) == response' = IF c = NULL THEN response ELSE [response EXCEPT ![c] = a]
<1>1. ASSUME UNCHANGED <<service, sequence, epoch, time>> PROVE Stays
  BY <1>1 DEF BeamServiceOK, MintedFor, Told
<1>2. ASSUME m.op = "acquire", Beam!Held, service.holder = m.holder, service.rid = m.rid,
             Answers(Beam!Reply("ok", service.epoch, service.seq, service.expires)),
             UNCHANGED <<service, sequence, epoch, time>>
      PROVE  Stays /\ \E a \in Beam!Replies : Answers(a) /\ Told(m.holder, m.rid, a.seq, a.expires)' /\ a.epoch # 0
  <2>1. PICK a : a = Beam!Reply("ok", service.epoch, service.seq, service.expires)
    OBVIOUS
  <2>2. a \in Beam!Replies /\ a.seq = service.seq /\ a.expires = service.expires /\ a.epoch = service.epoch
    BY <1>2, <2>1 DEF Beam!Reply, Beam!Replies, Beam!Held, BeamServiceOK, Beam!Leases
  <2>3. Told(m.holder, m.rid, a.seq, a.expires) /\ a.epoch # 0
    BY <1>2, <2>2 DEF Beam!Held, BeamServiceOK, Beam!Leases, Told, MintedFor
  <2>4. Told(m.holder, m.rid, a.seq, a.expires)'
    BY <1>2, <2>3 DEF Told, MintedFor
  <2> QED BY <1>1, <1>2, <2>1, <2>2, <2>3, <2>4
<1>3. ASSUME NEW kind \in {"busy", "exhausted", "stale", "ok"},
             Answers(Beam!Refusal(kind))
      PROVE  \E a \in Beam!Replies : Answers(a) /\ a.kind = kind
  <2>1. PICK a : a = Beam!Refusal(kind)
    OBVIOUS
  <2>2. a \in Beam!Replies /\ a.kind = kind
    BY <2>1 DEF Beam!Refusal, Beam!Reply, Beam!Replies
  <2> QED BY <1>3, <2>1, <2>2
<1>4. ASSUME m.op = "acquire", ~Beam!Held, sequence < MaxSequence, sequence' = sequence + 1,
             service' = [holder |-> m.holder, rid |-> m.rid, seq |-> sequence + 1, epoch |-> epoch, expires |-> time + BeamTtl],
             Answers(Beam!Reply("ok", epoch, sequence + 1, time + BeamTtl)), UNCHANGED <<epoch, time>>
      PROVE  Stays /\ \E a \in Beam!Replies : Answers(a) /\ Told(m.holder, m.rid, a.seq, a.expires)' /\ a.epoch # 0
  <2>1. PICK a : a = Beam!Reply("ok", epoch, sequence + 1, time + BeamTtl)
    OBVIOUS
  <2>2. PICK l : l = [holder |-> m.holder, rid |-> m.rid, seq |-> sequence + 1, epoch |-> epoch, expires |-> time + BeamTtl]
    OBVIOUS
  <2>3. /\ a \in Beam!Replies /\ a.seq = sequence + 1 /\ a.expires = time + BeamTtl /\ a.epoch = epoch
        /\ sequence \in Nat /\ time \in Nat /\ epoch # 0
    BY <1>4, <2>1 DEF Beam!Reply, Beam!Replies, BeamServiceOK
  <2>4. /\ l \in Beam!Leases /\ l # NULL /\ l.seq = sequence + 1 /\ l.expires = time + BeamTtl
        /\ l.holder = m.holder /\ l.rid = m.rid
    BY <1>4, <2>2 DEF Beam!Leases, Beam!Messages, BeamServiceOK
  <2>5. service' = l
    BY <1>4, <2>2
  <2>6. BeamServiceOK'
    BY <1>4, <2>3, <2>4, <2>5 DEF BeamServiceOK
  <2>7. \A d, r, s : MintedFor(d, r, s) => MintedFor(d, r, s)' /\ s # sequence + 1
    BY <1>4, <2>3, <2>4, <2>5 DEF MintedFor
  <2>8. \A d, r, s : \A x \in Nat : Told(d, r, s, x) => Told(d, r, s, x)'
    <3> SUFFICES ASSUME NEW d, NEW r, NEW s, NEW x \in Nat, Told(d, r, s, x) PROVE Told(d, r, s, x)'
      OBVIOUS
    <3>1. ~(time < x)
      BY <1>4, <2>3 DEF Told, Beam!Held, Beam!Live, BeamServiceOK, Beam!Leases
    <3> QED BY <1>4, <2>7, <3>1 DEF Told
  <2>9. Told(m.holder, m.rid, a.seq, a.expires)'
    BY <1>4, <2>3, <2>4, <2>5 DEF Told, MintedFor
  <2> QED BY <1>4, <2>1, <2>3, <2>6, <2>7, <2>8, <2>9
<1>5. ASSUME m.op = "renew", Beam!Owns(m), service' = [service EXCEPT !.expires = time + BeamTtl],
             Answers(Beam!Reply("ok", service.epoch, service.seq, time + BeamTtl)), UNCHANGED <<sequence, epoch, time>>
      PROVE  Stays /\ \E a \in Beam!Replies : Answers(a) /\ (MintedFor(m.holder, m.rid, m.seq)
                                                            => Told(m.holder, m.rid, m.seq, a.expires)')
  <2>1. PICK a : a = Beam!Reply("ok", service.epoch, service.seq, time + BeamTtl)
    OBVIOUS
  <2>2. PICK l : l = [service EXCEPT !.expires = time + BeamTtl]
    OBVIOUS
  <2>3. /\ service # NULL /\ service \in Beam!Leases /\ service.holder = m.holder /\ service.seq = m.seq /\ time \in Nat
        /\ service.expires <= time + BeamTtl /\ service.seq <= sequence
    BY <1>5 DEF Beam!Owns, Beam!Held, BeamServiceOK
  <2>4. a \in Beam!Replies /\ a.expires = time + BeamTtl
    BY <2>1, <2>3 DEF Beam!Reply, Beam!Replies, Beam!Leases
  <2>5. /\ l \in Beam!Leases /\ l # NULL /\ l.expires = time + BeamTtl
        /\ l.seq = service.seq /\ l.holder = service.holder /\ l.rid = service.rid
    BY <2>2, <2>3 DEF Beam!Leases
  <2>6. service' = l
    BY <1>5, <2>2
  <2>7. BeamServiceOK'
    BY <1>5, <2>3, <2>5, <2>6 DEF BeamServiceOK
  <2>8. \A d, r, s : MintedFor(d, r, s) => MintedFor(d, r, s)'
    BY <1>5, <2>3, <2>5, <2>6 DEF MintedFor
  <2>9. \A d, r, s : \A x \in Nat : Told(d, r, s, x) => Told(d, r, s, x)'
    BY <1>5, <2>3, <2>5, <2>6, <2>8 DEF Told, Beam!Leases
  <2>10. MintedFor(m.holder, m.rid, m.seq) => Told(m.holder, m.rid, m.seq, a.expires)'
    BY <1>5, <2>3, <2>4, <2>5, <2>6, <2>8 DEF Told
  <2> QED BY <1>5, <2>1, <2>4, <2>7, <2>8, <2>9, <2>10
<1>6. ASSUME m.op = "release", Beam!Owns(m), service' = NULL, UNCHANGED <<sequence, epoch, time>>
      PROVE  /\ BeamServiceOK'
             /\ \A d, r, s : MintedFor(d, r, s) => MintedFor(d, r, s)'
             /\ \A d, r, s : \A x \in Nat :
                  Told(d, r, s, x) => Told(d, r, s, x)' \/ (m.holder = d /\ m.seq = s /\ service.seq = s /\ service # NULL)
  <2>1. service # NULL /\ service.holder = m.holder /\ service.seq = m.seq
    BY <1>6 DEF Beam!Owns, Beam!Held
  <2> QED BY <1>6, <2>1 DEF BeamServiceOK, MintedFor, Told
<1>7. CASE \E kind \in {"busy", "exhausted", "stale"} : Answers(Beam!Refusal(kind)) /\ UNCHANGED <<service, sequence, epoch, time>>
  <2>1. PICK a \in Beam!Replies : Answers(a) /\ a.kind # "ok"
    BY <1>3, <1>7
  <2>2. Stays
    BY <1>1, <1>7
  <2> QED BY <2>1, <2>2
<1>8. CASE m.op = "release" /\ Beam!Owns(m) /\ service' = NULL /\ Answers(Beam!Refusal("ok")) /\ UNCHANGED <<sequence, epoch, time>>
  <2>1. PICK a \in Beam!Replies : Answers(a)
    BY <1>3, <1>8
  <2> QED BY <1>6, <1>8, <2>1
<1>9. CASE /\ m.op = "acquire" /\ Beam!Held /\ service.holder = m.holder /\ service.rid = m.rid
           /\ Answers(Beam!Reply("ok", service.epoch, service.seq, service.expires))
           /\ UNCHANGED <<service, sequence, epoch, time>>
  BY <1>2, <1>9
<1>10. CASE /\ m.op = "acquire" /\ ~Beam!Held /\ sequence < MaxSequence /\ sequence' = sequence + 1
            /\ service' = [holder |-> m.holder, rid |-> m.rid, seq |-> sequence + 1, epoch |-> epoch, expires |-> time + BeamTtl]
            /\ Answers(Beam!Reply("ok", epoch, sequence + 1, time + BeamTtl)) /\ UNCHANGED <<epoch, time>>
  BY <1>4, <1>10
<1>11. CASE /\ m.op = "renew" /\ Beam!Owns(m) /\ service' = [service EXCEPT !.expires = time + BeamTtl]
            /\ Answers(Beam!Reply("ok", service.epoch, service.seq, time + BeamTtl)) /\ UNCHANGED <<sequence, epoch, time>>
  BY <1>5, <1>11
<1> QED
  BY <1>7, <1>8, <1>9, <1>10, <1>11, Zenon DEF Beam!Serves, Beam!Respond, Beam!service

\* A client that is not part of a step: it stays right when what was minted for it
\* stays so, and what it was told, unless it is done with its acquisition.
LEMMA StaysSane ==
    ASSUME BeamIInv, NEW d \in BeamCallers,
           client'[d] = client[d], request'[d] = request[d], response'[d] = response[d], registry'[d] = registry[d],
           \A r, s : MintedFor(d, r, s) => MintedFor(d, r, s)',
           \A r, s : \A x \in Nat : Told(d, r, s, x) /\ r = client[d].rid /\ ~Over(client[d]) => Told(d, r, s, x)'
    PROVE  Sane(d)'
<1> USE BeamAssumption
<1>1. PICK k : k = client[d]
  OBVIOUS
<1>2. PICK q : q = request[d]
  OBVIOUS
<1>3. PICK b : b = response[d]
  OBVIOUS
<1>4. PICK g : g = registry[d]
  OBVIOUS
<1>5. client'[d] = k /\ request'[d] = q /\ response'[d] = b /\ registry'[d] = g
  BY <1>1, <1>2, <1>3, <1>4
<1>6. /\ ClientOK(d, k, q, b, g)
      /\ k.expires \in Nat /\ (b # NULL => b.expires \in Nat)
  BY <1>1, <1>2, <1>3, <1>4 DEF Sane, BeamIInv, BeamTypeOK, BeamClients, Beam!Replies
<1>7. k.pc \in {"acquiring", "held", "renewing"} => ~Over(k)
  BY DEF Over
<1>8. k.pc \in {"acquiring", "held", "renewing"} =>
        \A s : \A x \in Nat : Told(d, k.rid, s, x) => Told(d, k.rid, s, x)'
  BY <1>1, <1>7
<1>9. ClientOK(d, k, q, b, g)'
  BY <1>6, <1>8 DEF ClientOK
<1> QED BY <1>5, <1>9 DEF Sane

\* A call is served: its client learns what is so, and nobody's lease is ended
\* but the one its client is releasing.
LEMMA BeamServeKeeps ==
    ASSUME BeamIInv, NEW c \in BeamCallers, Beam!Serve(c)
    PROVE  BeamIInv'
<1> USE BeamAssumption
<1>1. PICK m : m = request[c]
  OBVIOUS
<1>2. /\ m # NULL /\ m \in Beam!Messages /\ Beam!Serves(m, c)
      /\ request' = [request EXCEPT ![c] = NULL] /\ UNCHANGED <<orphans, registry, client>>
      /\ response \in [BeamCallers -> Beam!Replies \cup {NULL}] /\ BeamServiceOK /\ c # NULL
  BY <1>1 DEF Beam!Serve, BeamIInv, BeamTypeOK
<1>3. /\ BeamServiceOK'
      /\ \A d, r, s : MintedFor(d, r, s) => MintedFor(d, r, s)'
      /\ \A d, r, s : \A x \in Nat :
           Told(d, r, s, x) =>
               Told(d, r, s, x)' \/ (m.op = "release" /\ m.holder = d /\ m.seq = s /\ service.seq = s /\ service # NULL)
      /\ \E a \in Beam!Replies :
           /\ response' = [response EXCEPT ![c] = a]
           /\ m.op = "acquire" /\ a.kind = "ok" => Told(m.holder, m.rid, a.seq, a.expires)' /\ a.epoch # 0
           /\ m.op = "renew" /\ a.kind = "ok" /\ MintedFor(m.holder, m.rid, m.seq)
                => Told(m.holder, m.rid, m.seq, a.expires)'
  BY <1>2, BeamServes
<1>4. PICK a \in Beam!Replies :
        /\ response' = [response EXCEPT ![c] = a]
        /\ m.op = "acquire" /\ a.kind = "ok" => Told(m.holder, m.rid, a.seq, a.expires)' /\ a.epoch # 0
        /\ m.op = "renew" /\ a.kind = "ok" /\ MintedFor(m.holder, m.rid, m.seq)
             => Told(m.holder, m.rid, m.seq, a.expires)'
  BY <1>3
<1>5. BeamTypeOK'
  BY <1>2, <1>4 DEF BeamIInv, BeamTypeOK
<1>6. Sane(c) /\ m.holder = c /\ m.rid = client[c].rid
  BY <1>1, <1>2 DEF BeamIInv, Sane, ClientOK
<1>7. request'[c] = NULL /\ response'[c] = a /\ client'[c] = client[c] /\ registry'[c] = registry[c]
  BY <1>2, <1>4 DEF BeamIInv, BeamTypeOK
<1>8. Sane(c)'
  <2>1. PICK k : k = client[c]
    OBVIOUS
  <2>2. PICK g : g = registry[c]
    OBVIOUS
  <2>3. ClientOK(c, k, m, NULL, g) /\ m.rid = k.rid /\ k \in BeamClients
    BY <1>1, <1>2, <1>6, <2>1, <2>2 DEF Sane, ClientOK, BeamIInv, BeamTypeOK
  <2>4. k.pc \in {"acquiring", "renewing", "releasing"}
    BY <1>2, <2>3 DEF ClientOK, BeamClients
  <2>5. k.pc = "acquiring" => m.op = "acquire"
    BY <1>2, <2>3 DEF ClientOK
  <2>6. k.pc = "renewing" =>
          /\ MintedFor(c, k.rid, k.seq)' /\ Told(c, k.rid, k.seq, k.expires)' /\ g[k.seq] # 0
          /\ a.kind = "ok" => Told(c, k.rid, k.seq, a.expires)'
    <3> SUFFICES ASSUME k.pc = "renewing"
                 PROVE  /\ MintedFor(c, k.rid, k.seq)' /\ Told(c, k.rid, k.seq, k.expires)' /\ g[k.seq] # 0
                        /\ a.kind = "ok" => Told(c, k.rid, k.seq, a.expires)'
      OBVIOUS
    <3>1. /\ MintedFor(c, k.rid, k.seq) /\ Told(c, k.rid, k.seq, k.expires) /\ g[k.seq] # 0
          /\ m.op = "renew" /\ m.seq = k.seq /\ k.expires \in Nat
      BY <1>2, <2>3 DEF ClientOK, BeamClients
    <3>2. MintedFor(c, k.rid, k.seq)' /\ Told(c, k.rid, k.seq, k.expires)'
      BY <1>3, <3>1
    <3>3. a.kind = "ok" => Told(c, k.rid, k.seq, a.expires)'
      BY <1>4, <1>6, <2>3, <3>1
    <3> QED BY <3>1, <3>2, <3>3
  <2>7. k.pc = "releasing" => MintedFor(c, k.rid, k.seq)' /\ g[k.seq] # 0
    BY <1>3, <2>3 DEF ClientOK
  <2>8. k.pc = "acquiring" /\ a.kind = "ok" => Told(c, k.rid, a.seq, a.expires)' /\ a.epoch # 0
    BY <1>4, <1>6, <2>3, <2>5
  <2>9. ClientOK(c, k, NULL, a, g)'
    BY <2>4, <2>6, <2>7, <2>8 DEF ClientOK
  <2> QED BY <1>7, <2>1, <2>2, <2>9 DEF Sane
<1>9. ASSUME NEW d \in BeamCallers, d # c PROVE Sane(d)'
  <2>1. client'[d] = client[d] /\ request'[d] = request[d] /\ response'[d] = response[d] /\ registry'[d] = registry[d]
    BY <1>2, <1>4, <1>9 DEF BeamIInv, BeamTypeOK
  <2>2. \A r, s : \A x \in Nat : Told(d, r, s, x) => Told(d, r, s, x)'
    BY <1>3, <1>6, <1>9
  <2> QED BY <1>3, <2>1, <2>2, StaysSane
<1>10. \A n \in orphans' : OrphanOK(n)'
  BY <1>2, <1>3 DEF BeamIInv, OrphanOK
<1> QED BY <1>3, <1>5, <1>8, <1>9, <1>10 DEF BeamIInv

\* A request that was given up on is served: it can only release what its client
\* is done with.
LEMMA BeamServeOrphanKeeps ==
    ASSUME BeamIInv, NEW m \in orphans, Beam!ServeOrphan(m)
    PROVE  BeamIInv'
<1> USE BeamAssumption
<1>1. /\ m \in Beam!Messages /\ Beam!Serves(m, NULL) /\ NULL \in BeamCallers \cup {NULL}
      /\ orphans' = orphans \ {m} /\ UNCHANGED <<request, registry, client>>
      /\ response \in [BeamCallers -> Beam!Replies \cup {NULL}] /\ BeamServiceOK
  BY DEF Beam!ServeOrphan, BeamIInv, BeamTypeOK
<1>2. /\ BeamServiceOK' /\ UNCHANGED response
      /\ \A d, r, s : MintedFor(d, r, s) => MintedFor(d, r, s)'
      /\ \A d, r, s : \A x \in Nat :
           Told(d, r, s, x) =>
               Told(d, r, s, x)' \/ (m.op = "release" /\ m.holder = d /\ m.seq = s /\ service.seq = s /\ service # NULL)
  BY <1>1, BeamServes
<1>3. BeamTypeOK'
  BY <1>1, <1>2 DEF BeamIInv, BeamTypeOK
<1>4. ASSUME NEW d \in BeamCallers PROVE Sane(d)'
  <2>1. client'[d] = client[d] /\ request'[d] = request[d] /\ response'[d] = response[d] /\ registry'[d] = registry[d]
    BY <1>1, <1>2
  <2>2. m.op = "release" =>
          MintedFor(m.holder, m.rid, m.seq) /\ (m.holder = d /\ m.rid = client[d].rid => Over(client[d]))
    BY DEF BeamIInv, OrphanOK
  <2>3. ASSUME NEW r, NEW s, NEW x \in Nat, Told(d, r, s, x), r = client[d].rid, ~Over(client[d]), ~Told(d, r, s, x)'
        PROVE  FALSE
    <3>1. m.op = "release" /\ m.holder = d /\ m.seq = s /\ service.seq = s /\ service # NULL
      BY <1>2, <2>3
    <3>2. m.rid = r
      BY <2>2, <2>3, <3>1 DEF Told, MintedFor
    <3> QED BY <2>2, <2>3, <3>1, <3>2
  <2> QED BY <1>2, <2>1, <2>3, StaysSane
<1>5. \A n \in orphans' : OrphanOK(n)'
  BY <1>1, <1>2 DEF BeamIInv, OrphanOK
<1> QED BY <1>2, <1>3, <1>4, <1>5 DEF BeamIInv

\* A failover keeps every lease, and time only ends what it should.
LEMMA BeamServiceMoves ==
    ASSUME BeamIInv, Beam!Failover \/ Beam!Tick
    PROVE  BeamIInv'
<1> USE BeamAssumption
<1>1. UNCHANGED <<sequence, request, response, orphans, registry, client>>
  BY DEF Beam!Failover, Beam!Tick, Beam!net
<1>2. BeamServiceOK' /\ time \in Nat /\ time <= time' /\ time' \in Nat
      /\ (service' = NULL <=> service = NULL)
      /\ (service # NULL => /\ service'.holder = service.holder /\ service'.rid = service.rid
                            /\ service'.seq = service.seq /\ service'.expires = service.expires)
  <2>1. CASE Beam!Tick
    BY <2>1 DEF Beam!Tick, BeamIInv, BeamServiceOK, Beam!Leases
  <2>2. CASE Beam!Failover
    <3>1. PICK l : l = [service EXCEPT !.epoch = epoch + 1]
      OBVIOUS
    <3>2. /\ epoch' = epoch + 1 /\ UNCHANGED <<sequence, time>>
          /\ service' = service \/ (service # NULL /\ service' = l)
      BY <2>2, <3>1 DEF Beam!Failover
    <3>3. service # NULL =>
            /\ l \in Beam!Leases /\ l.holder = service.holder /\ l.rid = service.rid
            /\ l.seq = service.seq /\ l.expires = service.expires
      BY <3>1 DEF BeamIInv, BeamServiceOK, Beam!Leases
    <3> QED BY <3>2, <3>3 DEF BeamIInv, BeamServiceOK
  <2> QED BY <2>1, <2>2
<1>3. \A d, r, s : MintedFor(d, r, s) => MintedFor(d, r, s)'
  BY <1>1, <1>2 DEF MintedFor
<1>4. \A d, r, s : \A x \in Nat : Told(d, r, s, x) => Told(d, r, s, x)'
  BY <1>2, <1>3 DEF Told
<1>5. BeamTypeOK'
  BY <1>1 DEF BeamIInv, BeamTypeOK
<1>6. ASSUME NEW d \in BeamCallers PROVE Sane(d)'
  <2>1. client'[d] = client[d] /\ request'[d] = request[d] /\ response'[d] = response[d] /\ registry'[d] = registry[d]
    BY <1>1
  <2> QED BY <1>3, <1>4, <2>1, StaysSane
<1>7. \A n \in orphans' : OrphanOK(n)'
  BY <1>1, <1>3 DEF BeamIInv, OrphanOK
<1> QED BY <1>2, <1>5, <1>6, <1>7 DEF BeamIInv

-----------------------------------------------------------------------------
(* The clients' steps.                                                     *)

\* A step of client c that leaves the service alone: what is to be shown of it is
\* about c, and that an acquisition that is over stays so.
LEMMA BeamClientMoves ==
    ASSUME BeamIInv, NEW c \in BeamCallers, UNCHANGED <<service, sequence, epoch, time>>,
           NEW k \in BeamClients, NEW q \in Beam!Messages \cup {NULL}, NEW a \in Beam!Replies \cup {NULL},
           NEW g \in Registries,
           client' = [client EXCEPT ![c] = k], request' = [request EXCEPT ![c] = q],
           response' = [response EXCEPT ![c] = a], registry' = [registry EXCEPT ![c] = g],
           orphans' = orphans \/ (request[c] # NULL /\ orphans' = orphans \cup {request[c]}),
           ClientOK(c, k, q, a, g),
           k.rid >= client[c].rid,
           k.rid = client[c].rid /\ Over(client[c]) => Over(k)
    PROVE  BeamIInv'
<1> USE BeamAssumption
<1>1. BeamServiceOK'
  BY DEF BeamIInv, BeamServiceOK
<1>2. BeamTypeOK'
  BY DEF BeamIInv, BeamTypeOK
<1>3. /\ \A d, r, s : MintedFor(d, r, s) => MintedFor(d, r, s)'
      /\ \A d, r, s, x : Told(d, r, s, x) => Told(d, r, s, x)'
  BY DEF MintedFor, Told
<1>4. client'[c] = k /\ request'[c] = q /\ response'[c] = a /\ registry'[c] = g
  BY DEF BeamIInv, BeamTypeOK
<1>5. Sane(c)'
  <2>1. ClientOK(c, k, q, a, g)'
    BY <1>3 DEF ClientOK
  <2> QED BY <1>4, <2>1 DEF Sane
<1>6. ASSUME NEW d \in BeamCallers, d # c PROVE Sane(d)'
  <2>1. client'[d] = client[d] /\ request'[d] = request[d] /\ response'[d] = response[d] /\ registry'[d] = registry[d]
    BY <1>6 DEF BeamIInv, BeamTypeOK
  <2> QED BY <1>3, <2>1, StaysSane
<1>7. ASSUME NEW n \in Beam!Messages, OrphanOK(n) PROVE OrphanOK(n)'
  <2>1. CASE n.holder = c
    <3>1. client[c].rid \in Nat /\ k.rid \in Nat /\ n.rid \in Nat
      BY DEF BeamIInv, BeamTypeOK, BeamClients, Beam!Messages
    <3> QED BY <1>3, <1>4, <1>7, <2>1, <3>1 DEF OrphanOK
  <2>2. CASE n.holder # c
    <3>1. client'[n.holder] = client[n.holder]
      BY <2>2 DEF BeamIInv, BeamTypeOK
    <3> QED BY <1>3, <1>7, <3>1 DEF OrphanOK
  <2> QED BY <2>1, <2>2
<1>8. ASSUME request[c] # NULL PROVE request[c] \in Beam!Messages /\ OrphanOK(request[c])
  <2>1. PICK n : n = request[c]
    OBVIOUS
  <2>2. n \in Beam!Messages /\ n.holder = c /\ n.rid = client[c].rid /\ client[c] \in BeamClients
    BY <1>8, <2>1 DEF BeamIInv, BeamTypeOK, Sane, ClientOK
  <2>3. n.op = "release" => client[c].pc = "releasing" /\ n.seq = client[c].seq /\ MintedFor(c, client[c].rid, client[c].seq)
    BY <1>8, <2>1, <2>2 DEF BeamIInv, Sane, ClientOK, BeamClients
  <2>4. client[c].rid \in Nat
    BY <2>2 DEF BeamClients
  <2> QED BY <2>1, <2>2, <2>3, <2>4 DEF OrphanOK, Over
<1>9. \A n \in orphans' : OrphanOK(n)'
  BY <1>7, <1>8 DEF BeamIInv, BeamTypeOK
<1> QED BY <1>1, <1>2, <1>5, <1>6, <1>9 DEF BeamIInv

\* What the invariant says of one client.
LEMMA BeamClient ==
    ASSUME BeamIInv, NEW c \in BeamCallers
    PROVE  /\ client[c] \in BeamClients /\ request[c] \in Beam!Messages \cup {NULL}
           /\ response[c] \in Beam!Replies \cup {NULL} /\ registry[c] \in Registries
           /\ ClientOK(c, client[c], request[c], response[c], registry[c])
           /\ time \in Nat /\ sequence \in 0..MaxSequence
           /\ request = [request EXCEPT ![c] = request[c]] /\ registry = [registry EXCEPT ![c] = registry[c]]
  BY DEF BeamIInv, BeamTypeOK, BeamServiceOK, Sane

\* A message a client posts.
LEMMA BeamPosts ==
    ASSUME BeamIInv, NEW c \in BeamCallers, NEW op \in {"acquire", "renew", "release"}, NEW k \in BeamClients
    PROVE  /\ Beam!Message(c, op, k) \in Beam!Messages
           /\ Beam!Message(c, op, k).op = op /\ Beam!Message(c, op, k).holder = c
           /\ Beam!Message(c, op, k).rid = k.rid /\ Beam!Message(c, op, k).seq = k.seq
<1>1. k.seq # 0 => registry[c][k.seq] \in Nat
  BY BeamAssumption DEF BeamIInv, BeamTypeOK, BeamClients, Registries
<1> QED BY <1>1 DEF Beam!Message, Beam!Messages, BeamClients

\* An idle client, for whatever reason.
LEMMA BeamIdles ==
    ASSUME NEW n \in Nat,
           NEW o \in {"none", "transport", "invalid_plan", "contention", "timeout", "lost_lease", "released", "gone", "crashed"}
    PROVE  /\ Beam!Idle(n, o) \in BeamClients /\ Beam!Idle(n, o).pc = "idle"
           /\ Beam!Idle(n, o).rid = n /\ Beam!Idle(n, o).outcome = o
  BY BeamAssumption DEF Beam!Idle, BeamClients

\* A client posts a call, of an acquisition it goes on with or of a new one.
LEMMA BeamPostKeeps ==
    ASSUME BeamIInv, NEW c \in BeamCallers, NEW k \in BeamClients, NEW op \in {"acquire", "renew", "release"},
           Beam!Post(c, op, k), UNCHANGED <<service, sequence, epoch, time, registry>>,
           orphans' = orphans \/ (request[c] # NULL /\ orphans' = orphans \cup {request[c]}),
           \/ op = "acquire" /\ k.pc = "acquiring" /\ ~Over(client[c]) /\ k.rid = client[c].rid
           \/ op = "acquire" /\ k.pc = "acquiring" /\ k.rid = client[c].rid + 1
           \/ /\ op = "renew" /\ k.pc = "renewing" /\ client[c].pc = "held"
              /\ k.rid = client[c].rid /\ k.seq = client[c].seq /\ k.expires = client[c].expires
           \/ /\ op = "release" /\ k.pc = "releasing" /\ client[c].pc \in {"held", "unreleased"}
              /\ k.rid = client[c].rid /\ k.seq = client[c].seq
    PROVE  BeamIInv'
<1> USE BeamAssumption
<1>1. PICK m : m = Beam!Message(c, op, k)
  OBVIOUS
<1>2. m \in Beam!Messages /\ m.op = op /\ m.holder = c /\ m.rid = k.rid /\ m.seq = k.seq
  BY <1>1, BeamPosts
<1>3. /\ client' = [client EXCEPT ![c] = k] /\ request' = [request EXCEPT ![c] = m]
      /\ response' = [response EXCEPT ![c] = NULL] /\ registry' = [registry EXCEPT ![c] = registry[c]]
  BY <1>1, BeamClient DEF Beam!Post, Beam!Becomes
<1>4. client[c].rid \in Nat /\ k.rid \in Nat /\ registry[c] \in Registries
  BY BeamClient DEF BeamClients
<1>5. k.rid >= client[c].rid /\ (k.rid = client[c].rid /\ Over(client[c]) => Over(k))
  BY <1>4 DEF Over
<1>6. ClientOK(c, k, m, NULL, registry[c])
  BY <1>2, BeamClient DEF ClientOK
<1>7. m \in Beam!Messages \cup {NULL} /\ NULL \in Beam!Replies \cup {NULL}
  BY <1>2
<1> QED BY <1>3, <1>4, <1>5, <1>6, <1>7, BeamClientMoves

\* A client's call ends without a lease.
LEMMA BeamEndKeeps ==
    ASSUME BeamIInv, NEW c \in BeamCallers, NEW k \in BeamClients, NEW g \in Registries,
           client' = [client EXCEPT ![c] = k], request' = [request EXCEPT ![c] = NULL],
           response' = [response EXCEPT ![c] = NULL], registry' = [registry EXCEPT ![c] = g],
           UNCHANGED <<service, sequence, epoch, time>>,
           orphans' = orphans \/ (request[c] # NULL /\ orphans' = orphans \cup {request[c]}),
           k.rid = client[c].rid, k.pc \in {"idle", "sleeping"}, Over(client[c]) => Over(k)
    PROVE  BeamIInv'
<1> USE BeamAssumption
<1>1. client[c].rid \in Nat
  BY BeamClient DEF BeamClients
<1>2. ClientOK(c, k, NULL, NULL, g) /\ k.rid >= client[c].rid
  BY <1>1 DEF ClientOK
<1>3. NULL \in Beam!Messages \cup {NULL} /\ NULL \in Beam!Replies \cup {NULL}
  OBVIOUS
<1> QED BY <1>2, <1>3, BeamClientMoves

\* acquire begins: a new acquisition, or one that failed or crashed before it was
\* released.
LEMMA BeamStartKeeps ==
    ASSUME BeamIInv, NEW c \in BeamCallers, Beam!Start(c)
    PROVE  BeamIInv'
<1>1. PICK r \in {client[c].rid, client[c].rid + 1}, w \in BOOLEAN :
        /\ r = client[c].rid => client[c].outcome \in {"transport", "crashed"}
        /\ Beam!Post(c, "acquire", [Beam!Idle(r, "none") EXCEPT !.pc = "acquiring", !.wait = w, !.started = time])
  BY DEF Beam!Start
<1>2. client[c].pc = "idle" /\ UNCHANGED <<service, sequence, epoch, time, registry, orphans>>
  BY DEF Beam!Start, Beam!service
<1>3. client[c].rid \in Nat /\ time \in Nat /\ r \in Nat
  BY <1>1, BeamClient DEF BeamClients
<1>4. PICK i : i = Beam!Idle(r, "none")
  OBVIOUS
<1>5. i \in BeamClients /\ i.rid = r
  BY <1>3, <1>4, BeamIdles
<1>6. PICK k : k = [i EXCEPT !.pc = "acquiring", !.wait = w, !.started = time]
  OBVIOUS
<1>7. k \in BeamClients /\ k.pc = "acquiring" /\ k.rid = r
  BY <1>3, <1>5, <1>6 DEF BeamClients
<1>8. Beam!Post(c, "acquire", k)
  BY <1>1, <1>4, <1>6
<1>9. r = client[c].rid => ~Over(client[c])
  BY <1>1, <1>2 DEF Over
<1> QED BY <1>1, <1>2, <1>7, <1>8, <1>9, BeamPostKeeps

\* A transport failure of an acquire: repeated once under its request id, or thrown.
LEMMA BeamAcquireFailsKeeps ==
    ASSUME BeamIInv, NEW c \in BeamCallers, Beam!AcquireFails(c)
    PROVE  BeamIInv'
<1>1. /\ client[c].pc = "acquiring" /\ UNCHANGED <<service, sequence, epoch, time, registry>>
      /\ orphans' = orphans \/ (request[c] # NULL /\ orphans' = orphans \cup {request[c]})
  BY DEF Beam!AcquireFails, Beam!Abandon, Beam!service
<1>2. client[c] \in BeamClients /\ client[c].rid \in Nat /\ registry[c] \in Registries /\ ~Over(client[c])
  BY <1>1, BeamClient DEF BeamClients, Over
<1>3. CASE Beam!Post(c, "acquire", [client[c] EXCEPT !.retries = 1])
  <2>1. PICK k : k = [client[c] EXCEPT !.retries = 1]
    OBVIOUS
  <2>2. k \in BeamClients /\ k.pc = "acquiring" /\ k.rid = client[c].rid
    BY <1>1, <1>2, <2>1 DEF BeamClients
  <2> QED BY <1>1, <1>2, <1>3, <2>1, <2>2, BeamPostKeeps
<1>4. CASE /\ request' = [request EXCEPT ![c] = NULL] /\ response' = [response EXCEPT ![c] = NULL]
           /\ Beam!Becomes(c, Beam!Idle(client[c].rid, "transport"))
  <2>1. PICK k : k = Beam!Idle(client[c].rid, "transport")
    OBVIOUS
  <2>2. k \in BeamClients /\ k.pc = "idle" /\ k.rid = client[c].rid
    BY <1>2, <2>1, BeamIdles
  <2>3. client' = [client EXCEPT ![c] = k] /\ registry' = [registry EXCEPT ![c] = registry[c]]
    BY <1>1, <1>4, <2>1, BeamClient DEF Beam!Becomes
  <2> QED BY <1>1, <1>2, <1>4, <2>2, <2>3, BeamEndKeeps
<1> QED BY <1>3, <1>4 DEF Beam!AcquireFails, Beam!Abandon, Beam!Ends

\* An answer is taken up.
LEMMA BeamTakesUp ==
    ASSUME BeamIInv, NEW c \in BeamCallers, response[c] # NULL, NEW k, Beam!Done(c, k)
    PROVE  /\ client' = [client EXCEPT ![c] = k] /\ request' = [request EXCEPT ![c] = NULL]
           /\ response' = [response EXCEPT ![c] = NULL] /\ UNCHANGED orphans
           /\ client[c].pc \in {"acquiring", "renewing", "releasing"}
<1>1. request[c] = NULL /\ client[c].pc \in {"acquiring", "renewing", "releasing"}
  BY BeamClient DEF ClientOK, BeamClients
<1> QED BY <1>1, BeamClient DEF Beam!Done, Beam!Becomes

\* A grant: the full token goes to the registry under its sequence.
LEMMA BeamGrantedKeeps ==
    ASSUME BeamIInv, NEW c \in BeamCallers, Beam!Granted(c)
    PROVE  BeamIInv'
<1> USE BeamAssumption
<1>1. PICK a : a = response[c]
  OBVIOUS
<1>2. PICK k : k = [client[c] EXCEPT !.pc = "held", !.seq = a.seq, !.expires = a.expires]
  OBVIOUS
<1>3. PICK g : g = [registry[c] EXCEPT ![a.seq] = a.epoch]
  OBVIOUS
<1>4. /\ client[c].pc = "acquiring" /\ a # NULL /\ a.kind = "ok" /\ response[c] # NULL
      /\ registry' = [registry EXCEPT ![c][a.seq] = a.epoch]
      /\ Beam!Done(c, k) /\ UNCHANGED <<service, sequence, epoch, time>>
  BY <1>1, <1>2 DEF Beam!Granted, Beam!service
<1>5. /\ a \in Beam!Replies /\ client[c] \in BeamClients /\ registry[c] \in Registries
      /\ Told(c, client[c].rid, a.seq, a.expires) /\ a.epoch # 0
  BY <1>1, <1>4, BeamClient DEF ClientOK
<1>6. a.seq \in 1..MaxSequence /\ a.seq \in 0..MaxSequence /\ a.expires \in Nat /\ a.epoch \in Nat
  BY <1>5, BeamClient DEF Told, MintedFor, Beam!Replies
<1>7. /\ k \in BeamClients /\ k.pc = "held" /\ k.rid = client[c].rid /\ k.seq = a.seq /\ k.expires = a.expires
      /\ k.rid \in Nat
  <2>1. PICK k1 : k1 = [client[c] EXCEPT !.pc = "held"]
    OBVIOUS
  <2>2. PICK k2 : k2 = [k1 EXCEPT !.seq = a.seq]
    OBVIOUS
  <2>3. k1 \in BeamClients /\ k1.pc = "held" /\ k1.rid = client[c].rid
    BY <1>5, <2>1 DEF BeamClients
  <2>4. k2 \in BeamClients /\ k2.pc = "held" /\ k2.rid = client[c].rid /\ k2.seq = a.seq
    BY <1>6, <2>2, <2>3 DEF BeamClients
  <2>5. k = [k2 EXCEPT !.expires = a.expires]
    BY <1>2, <2>1, <2>2
  <2> QED BY <1>6, <2>4, <2>5 DEF BeamClients
<1>8. g \in Registries /\ g[k.seq] = a.epoch
  BY <1>3, <1>5, <1>6, <1>7 DEF Registries
<1>9. registry' = [registry EXCEPT ![c] = g]
  BY <1>3, <1>4 DEF BeamIInv, BeamTypeOK
<1>10. /\ client' = [client EXCEPT ![c] = k] /\ request' = [request EXCEPT ![c] = NULL]
       /\ response' = [response EXCEPT ![c] = NULL] /\ UNCHANGED orphans
  BY <1>4, BeamTakesUp
<1>11. ClientOK(c, k, NULL, NULL, g)
  BY <1>5, <1>7, <1>8 DEF ClientOK, Told
<1>12. k.rid >= client[c].rid /\ ~Over(client[c])
  BY <1>4, <1>7 DEF Over
<1>13. NULL \in Beam!Messages \cup {NULL} /\ NULL \in Beam!Replies \cup {NULL}
  OBVIOUS
<1> QED BY <1>4, <1>7, <1>8, <1>9, <1>10, <1>11, <1>12, <1>13, BeamClientMoves

\* A refused acquire throws or sleeps.
LEMMA BeamRefusedKeeps ==
    ASSUME BeamIInv, NEW c \in BeamCallers, Beam!AcquireRefused(c)
    PROVE  BeamIInv'
<1>1. /\ client[c].pc = "acquiring" /\ response[c] # NULL /\ UNCHANGED <<service, sequence, epoch, time, registry>>
  BY DEF Beam!AcquireRefused, Beam!service
<1>2. /\ client[c] \in BeamClients /\ client[c].rid \in Nat /\ registry[c] \in Registries /\ ~Over(client[c])
      /\ time + RetryInterval \in Nat
  BY <1>1, BeamClient, BudgetAssumption DEF BeamClients, Over
<1>3. \/ \E o \in {"invalid_plan", "contention", "timeout"} : Beam!Done(c, Beam!Idle(client[c].rid, o))
      \/ Beam!Done(c, [client[c] EXCEPT !.pc = "sleeping", !.wakeAt = time + RetryInterval])
  BY Zenon DEF Beam!AcquireRefused
<1>4. PICK k : /\ Beam!Done(c, k) /\ k \in BeamClients /\ k.rid = client[c].rid /\ k.pc \in {"idle", "sleeping"}
  <2>1. ASSUME NEW o \in {"invalid_plan", "contention", "timeout"}, Beam!Done(c, Beam!Idle(client[c].rid, o))
        PROVE  \E k : Beam!Done(c, k) /\ k \in BeamClients /\ k.rid = client[c].rid /\ k.pc \in {"idle", "sleeping"}
    BY <1>2, <2>1, BeamIdles
  <2>2. CASE Beam!Done(c, [client[c] EXCEPT !.pc = "sleeping", !.wakeAt = time + RetryInterval])
    <3>1. PICK k : k = [client[c] EXCEPT !.pc = "sleeping", !.wakeAt = time + RetryInterval]
      OBVIOUS
    <3>2. k \in BeamClients /\ k.rid = client[c].rid /\ k.pc = "sleeping"
      BY <1>2, <3>1 DEF BeamClients
    <3> QED BY <2>2, <3>1, <3>2
  <2> QED BY <1>3, <2>1, <2>2
<1>5. /\ client' = [client EXCEPT ![c] = k] /\ request' = [request EXCEPT ![c] = NULL]
      /\ response' = [response EXCEPT ![c] = NULL] /\ UNCHANGED orphans
      /\ registry' = [registry EXCEPT ![c] = registry[c]]
  BY <1>1, <1>4, BeamTakesUp, BeamClient
<1> QED BY <1>1, <1>2, <1>4, <1>5, BeamEndKeeps

\* A sleeping acquire polls again; a holder renews or releases.
LEMMA BeamHolderPosts ==
    ASSUME BeamIInv, NEW c \in BeamCallers, Beam!Wake(c) \/ Beam!Renew(c) \/ Beam!Release(c)
    PROVE  BeamIInv'
<1>1. client[c] \in BeamClients
  BY BeamClient
<1>2. CASE Beam!Wake(c)
  <2>1. PICK k : k = [client[c] EXCEPT !.pc = "acquiring", !.wakeAt = 0]
    OBVIOUS
  <2>2. k \in BeamClients /\ k.pc = "acquiring" /\ k.rid = client[c].rid
    BY <1>1, <2>1 DEF BeamClients
  <2>3. /\ client[c].pc = "sleeping" /\ Beam!Post(c, "acquire", k)
        /\ UNCHANGED <<service, sequence, epoch, time, registry, orphans>>
    BY <1>2, <2>1 DEF Beam!Wake, Beam!service
  <2>4. ~Over(client[c])
    BY <2>3 DEF Over
  <2> QED BY <2>2, <2>3, <2>4, BeamPostKeeps
<1>3. CASE Beam!Renew(c)
  <2>1. PICK k : k = [client[c] EXCEPT !.pc = "renewing"]
    OBVIOUS
  <2>2. /\ k \in BeamClients /\ k.pc = "renewing"
        /\ k.rid = client[c].rid /\ k.seq = client[c].seq /\ k.expires = client[c].expires
    BY <1>1, <2>1 DEF BeamClients
  <2>3. /\ client[c].pc = "held" /\ Beam!Post(c, "renew", k)
        /\ UNCHANGED <<service, sequence, epoch, time, registry, orphans>>
    BY <1>3, <2>1 DEF Beam!Renew, Beam!service
  <2> QED BY <2>2, <2>3, BeamPostKeeps
<1>4. CASE Beam!Release(c)
  <2>1. PICK k : k = [client[c] EXCEPT !.pc = "releasing"]
    OBVIOUS
  <2>2. k \in BeamClients /\ k.pc = "releasing" /\ k.rid = client[c].rid /\ k.seq = client[c].seq
    BY <1>1, <2>1 DEF BeamClients
  <2>3. /\ client[c].pc \in {"held", "unreleased"} /\ Beam!Post(c, "release", k)
        /\ UNCHANGED <<service, sequence, epoch, time, registry, orphans>>
    BY <1>4, <2>1 DEF Beam!Release, Beam!service
  <2> QED BY <2>2, <2>3, BeamPostKeeps
<1> QED BY <1>2, <1>3, <1>4

\* A client that lost its lease or whose release was answered forgets the token.
LEMMA BeamForgets ==
    ASSUME BeamIInv, NEW c \in BeamCallers, NEW o \in {"lost_lease", "released"}, response[c] # NULL,
           registry' = Beam!Forgotten(c), Beam!Done(c, Beam!Idle(client[c].rid, o)),
           UNCHANGED <<service, sequence, epoch, time>>
    PROVE  BeamIInv'
<1>1. PICK k : k = Beam!Idle(client[c].rid, o)
  OBVIOUS
<1>2. k \in BeamClients /\ k.pc = "idle" /\ k.rid = client[c].rid /\ k.outcome = o
  BY <1>1, BeamIdles, BeamClient DEF BeamClients
<1>3. PICK g : g = [registry[c] EXCEPT ![client[c].seq] = 0]
  OBVIOUS
<1>4. g \in Registries
  BY <1>3, BeamClient DEF Registries
<1>5. registry' = [registry EXCEPT ![c] = g]
  BY <1>3 DEF Beam!Forgotten, BeamIInv, BeamTypeOK
<1>6. /\ client' = [client EXCEPT ![c] = k] /\ request' = [request EXCEPT ![c] = NULL]
      /\ response' = [response EXCEPT ![c] = NULL] /\ UNCHANGED orphans
  BY <1>1, BeamTakesUp
<1>7. Over(k)
  BY <1>2 DEF Over
<1> QED BY <1>2, <1>4, <1>5, <1>6, <1>7, BeamEndKeeps

\* A renewal is answered: the new expiry is the service's, or the lease is lost.
LEMMA BeamRenewedKeeps ==
    ASSUME BeamIInv, NEW c \in BeamCallers, Beam!RenewAnswered(c)
    PROVE  BeamIInv'
<1> USE BeamAssumption
<1>1. PICK a : a = response[c]
  OBVIOUS
<1>2. client[c].pc = "renewing" /\ a # NULL /\ response[c] # NULL /\ UNCHANGED <<service, sequence, epoch, time>>
  BY <1>1 DEF Beam!RenewAnswered, Beam!service
<1>3. CASE /\ a.kind = "ok" /\ UNCHANGED registry
           /\ Beam!Done(c, [client[c] EXCEPT !.pc = "held", !.expires = a.expires])
  <2>1. PICK k : k = [client[c] EXCEPT !.pc = "held", !.expires = a.expires]
    OBVIOUS
  <2>2. /\ client[c] \in BeamClients /\ a \in Beam!Replies /\ registry[c] \in Registries
        /\ Told(c, client[c].rid, client[c].seq, a.expires) /\ registry[c][client[c].seq] # 0
        /\ registry' = [registry EXCEPT ![c] = registry[c]]
    BY <1>1, <1>2, <1>3, BeamClient DEF ClientOK
  <2>3. /\ k \in BeamClients /\ k.pc = "held" /\ k.rid = client[c].rid /\ k.seq = client[c].seq
        /\ k.expires = a.expires /\ k.rid \in Nat
    BY <2>1, <2>2 DEF BeamClients, Beam!Replies
  <2>4. /\ client' = [client EXCEPT ![c] = k] /\ request' = [request EXCEPT ![c] = NULL]
        /\ response' = [response EXCEPT ![c] = NULL] /\ UNCHANGED orphans
    BY <1>2, <1>3, <2>1, BeamTakesUp
  <2>5. ClientOK(c, k, NULL, NULL, registry[c])
    BY <2>2, <2>3 DEF ClientOK, Told
  <2>6. k.rid >= client[c].rid /\ ~Over(client[c])
    BY <1>2, <2>3 DEF Over
  <2>7. NULL \in Beam!Messages \cup {NULL} /\ NULL \in Beam!Replies \cup {NULL}
    OBVIOUS
  <2> QED BY <1>2, <2>2, <2>3, <2>4, <2>5, <2>6, <2>7, BeamClientMoves
<1>4. CASE registry' = Beam!Forgotten(c) /\ Beam!Done(c, Beam!Idle(client[c].rid, "lost_lease"))
  BY <1>2, <1>4, BeamForgets
<1> QED BY <1>1, <1>3, <1>4 DEF Beam!RenewAnswered

\* A transport failure of a renewal or a release: the token is kept.
LEMMA BeamHolderFails ==
    ASSUME BeamIInv, NEW c \in BeamCallers, Beam!RenewFails(c) \/ Beam!ReleaseFails(c)
    PROVE  BeamIInv'
<1> USE BeamAssumption
<1>1. PICK p : p = IF client[c].pc = "renewing" THEN "held" ELSE "unreleased"
  OBVIOUS
<1>2. PICK k : k = [client[c] EXCEPT !.pc = p]
  OBVIOUS
<1>3. /\ \/ client[c].pc = "renewing" /\ p = "held"
         \/ client[c].pc = "releasing" /\ p = "unreleased"
      /\ client' = [client EXCEPT ![c] = k] /\ request' = [request EXCEPT ![c] = NULL]
      /\ response' = [response EXCEPT ![c] = NULL] /\ UNCHANGED <<service, sequence, epoch, time, registry>>
      /\ orphans' = orphans \/ (request[c] # NULL /\ orphans' = orphans \cup {request[c]})
  BY <1>1, <1>2 DEF Beam!RenewFails, Beam!ReleaseFails, Beam!Abandon, Beam!Ends, Beam!Becomes, Beam!service
<1>4. client[c] \in BeamClients /\ registry[c] \in Registries /\ registry' = [registry EXCEPT ![c] = registry[c]]
  BY <1>3, BeamClient
<1>5. /\ k \in BeamClients /\ k.pc = p /\ k.rid = client[c].rid /\ k.seq = client[c].seq
      /\ k.expires = client[c].expires /\ k.rid \in Nat
  BY <1>2, <1>3, <1>4 DEF BeamClients
<1>6. ClientOK(c, k, NULL, NULL, registry[c])
  BY <1>3, <1>5, BeamClient DEF ClientOK
<1>7. k.rid >= client[c].rid /\ (Over(client[c]) => Over(k))
  BY <1>3, <1>5 DEF Over
<1>8. NULL \in Beam!Messages \cup {NULL} /\ NULL \in Beam!Replies \cup {NULL}
  OBVIOUS
<1> QED BY <1>3, <1>4, <1>5, <1>6, <1>7, <1>8, BeamClientMoves

\* A crash: a client that was releasing does not come back to its acquisition.
LEMMA BeamCrashKeeps ==
    ASSUME BeamIInv, NEW c \in BeamCallers, Beam!Crash(c)
    PROVE  BeamIInv'
<1>1. PICK o \in {"gone", "crashed"} : o = IF client[c].pc \in {"releasing", "unreleased"} THEN "gone" ELSE "crashed"
  OBVIOUS
<1>2. PICK k : k = Beam!Idle(client[c].rid, o)
  OBVIOUS
<1>3. k \in BeamClients /\ k.pc = "idle" /\ k.rid = client[c].rid /\ k.outcome = o
  BY <1>2, BeamIdles, BeamClient DEF BeamClients
<1>4. PICK g : g = [s \in 1..MaxSequence |-> 0]
  OBVIOUS
<1>5. g \in Registries
  BY <1>4 DEF Registries
<1>6. /\ client[c].pc # "idle" /\ client' = [client EXCEPT ![c] = k] /\ request' = [request EXCEPT ![c] = NULL]
      /\ response' = [response EXCEPT ![c] = NULL] /\ registry' = [registry EXCEPT ![c] = g]
      /\ UNCHANGED <<service, sequence, epoch, time>>
      /\ orphans' = orphans \/ (request[c] # NULL /\ orphans' = orphans \cup {request[c]})
  BY <1>1, <1>2, <1>4 DEF Beam!Crash, Beam!Ends, Beam!Becomes, Beam!service
<1>7. Over(client[c]) => Over(k)
  BY <1>1, <1>3, <1>6 DEF Over
<1> QED BY <1>3, <1>5, <1>6, <1>7, BeamEndKeeps

-----------------------------------------------------------------------------
(* The theorem of the BeamScale client.                                    *)

\* Nobody has called.
LEMMA BeamStarts == Beam!BeamInit => BeamIInv
<1> SUFFICES ASSUME Beam!BeamInit PROVE BeamIInv
  OBVIOUS
<1> USE BeamAssumption
<1>1. BeamServiceOK
  BY DEF Beam!BeamInit, BeamServiceOK
<1>2. PICK i : i = Beam!Idle(0, "none")
  OBVIOUS
<1>3. i \in BeamClients /\ i.pc = "idle"
  BY <1>2, BeamIdles
<1>4. PICK g : g = [s \in 1..MaxSequence |-> 0]
  OBVIOUS
<1>5. g \in Registries
  BY <1>4 DEF Registries
<1>6. /\ request = [c \in BeamCallers |-> NULL] /\ response = [c \in BeamCallers |-> NULL] /\ orphans = {}
      /\ registry = [c \in BeamCallers |-> g] /\ client = [c \in BeamCallers |-> i]
  BY <1>2, <1>4 DEF Beam!BeamInit
<1>7. BeamTypeOK
  BY <1>3, <1>5, <1>6 DEF BeamTypeOK
<1>8. \A c \in BeamCallers : Sane(c)
  BY <1>3, <1>6 DEF Sane, ClientOK
<1> QED BY <1>1, <1>6, <1>7, <1>8 DEF BeamIInv

\* Every step keeps the invariant.
LEMMA BeamSteps == BeamIInv /\ [Beam!BeamNext]_(Beam!vars) => BeamIInv'
<1> SUFFICES ASSUME BeamIInv, [Beam!BeamNext]_(Beam!vars) PROVE BeamIInv'
  OBVIOUS
<1>1. ASSUME NEW c \in BeamCallers,
             \/ Beam!Start(c) \/ Beam!Serve(c) \/ Beam!AcquireStep(c)
             \/ Beam!Renew(c) \/ Beam!RenewAnswered(c) \/ Beam!RenewFails(c)
             \/ Beam!Release(c) \/ Beam!ReleaseAnswered(c) \/ Beam!ReleaseFails(c) \/ Beam!Crash(c)
      PROVE  BeamIInv'
  <2>1. CASE Beam!AcquireStep(c)
    BY <2>1, BeamAcquireFailsKeeps, BeamGrantedKeeps, BeamRefusedKeeps, BeamHolderPosts DEF Beam!AcquireStep
  <2>2. CASE Beam!ReleaseAnswered(c)
    <3>1. /\ response[c] # NULL /\ registry' = Beam!Forgotten(c) /\ Beam!Done(c, Beam!Idle(client[c].rid, "released"))
          /\ UNCHANGED <<service, sequence, epoch, time>> /\ "released" \in {"lost_lease", "released"}
      BY <2>2 DEF Beam!ReleaseAnswered, Beam!service
    <3> QED BY <3>1, BeamForgets
  <2> QED BY <1>1, <2>1, <2>2, BeamStartKeeps, BeamServeKeeps, BeamHolderPosts, BeamRenewedKeeps, BeamHolderFails,
             BeamCrashKeeps
<1>2. ASSUME NEW m \in orphans, Beam!ServeOrphan(m) PROVE BeamIInv'
  BY <1>2, BeamServeOrphanKeeps
<1>3. CASE Beam!Failover \/ Beam!Tick
  BY <1>3, BeamServiceMoves
<1>4. CASE UNCHANGED Beam!vars
  <2>1. UNCHANGED <<service, sequence, epoch, time, request, response, orphans, registry, client>>
    BY <1>4 DEF Beam!vars, Beam!service, Beam!net
  <2>2. BeamServiceOK' /\ BeamTypeOK'
    BY <2>1 DEF BeamIInv, BeamServiceOK, BeamTypeOK
  <2>3. \A d, r, s : /\ MintedFor(d, r, s) => MintedFor(d, r, s)'
                     /\ \A x : Told(d, r, s, x) => Told(d, r, s, x)'
    BY <2>1 DEF MintedFor, Told
  <2>4. ASSUME NEW d \in BeamCallers PROVE Sane(d)'
    BY <2>1, <2>3, StaysSane
  <2>5. \A n \in orphans' : OrphanOK(n)'
    BY <2>1, <2>3 DEF BeamIInv, OrphanOK
  <2> QED BY <2>2, <2>4, <2>5 DEF BeamIInv
<1> QED BY <1>1, <1>2, <1>3, <1>4 DEF Beam!BeamNext

\* A BeamScale grant is the service's until the expiry its holder was told, whatever
\* requests arrive late, and its full token stays in the registry until a release of
\* it was answered: for any number of clients, failovers and crashes.
THEOREM BeamCorrect == Beam!BeamSpec => []BeamInv
<1>1. BeamIInv => BeamInv
  <2> SUFFICES ASSUME BeamIInv PROVE BeamInv
    OBVIOUS
  <2>1. Beam!HeldIsCurrent
    <3> SUFFICES ASSUME NEW c \in BeamCallers, client[c].pc \in {"held", "renewing"}, time < client[c].expires
                 PROVE  Beam!Held /\ service.holder = c /\ service.seq = client[c].seq
      BY DEF Beam!HeldIsCurrent
    <3>1. Told(c, client[c].rid, client[c].seq, client[c].expires) /\ client[c].expires \in Nat /\ time \in Nat
      BY BeamClient DEF ClientOK, BeamClients
    <3> QED BY <3>1 DEF Told, MintedFor, Beam!Held, Beam!Live, BeamIInv, BeamServiceOK, Beam!Leases
  <2>2. Beam!Releasable
    BY BeamClient DEF Beam!Releasable, ClientOK
  <2> QED BY <2>1, <2>2 DEF BeamInv, Beam!BeamInv
<1> QED BY <1>1, BeamStarts, BeamSteps, PTL DEF Beam!BeamSpec

-----------------------------------------------------------------------------
(* Fiducia.  What the node has for a caller comes from its own acquires,   *)
(* and an acquire that may still arrive belongs to one that ended with     *)
(* `transport`.  Cancelling takes the caller from the queue, and the node  *)
(* says whether it had granted it before; the release that follows says    *)
(* whether the grant is gone.  Only after one of these answers is a        *)
(* timeout or a cancellation reported.                                     *)

\* A queue of holders, none of them in it twice.
Queues == {q \in Seq(Holders) : \A i, j \in 1..Len(q) : q[i] = q[j] => i = j}

\* A caller that leaves the queue is not in it any more, and the others are as before.
LEMMA LeavesQueue ==
    ASSUME NEW q \in Queues, NEW c \in Holders
    PROVE  /\ Fiducia!Without(q, c) \in Queues
           /\ ~Fiducia!Contains(Fiducia!Without(q, c), c)
           /\ \A d : Fiducia!Contains(Fiducia!Without(q, c), d) => Fiducia!Contains(q, d)
<1>1. CASE ~Fiducia!Contains(q, c)
  BY <1>1 DEF Fiducia!Without
<1>2. CASE Fiducia!Contains(q, c)
  <2>1. PICK k : k = CHOOSE i \in 1..Len(q) : q[i] = c
    OBVIOUS
  <2>2. k \in 1..Len(q) /\ q[k] = c
    BY <1>2, <2>1 DEF Fiducia!Contains
  <2>3. PICK r : r = Fiducia!Without(q, c)
    OBVIOUS
  <2>4. r = SubSeq(q, 1, k - 1) \o SubSeq(q, k + 1, Len(q))
    BY <1>2, <2>1, <2>3 DEF Fiducia!Without, Fiducia!RemoveAt
  <2>5. /\ r \in Seq(Holders) /\ Len(r) = Len(q) - 1
        /\ \A i \in 1..Len(r) : r[i] = IF i < k THEN q[i] ELSE q[i + 1]
    <3>1. PICK a, b : a = SubSeq(q, 1, k - 1) /\ b = SubSeq(q, k + 1, Len(q))
      OBVIOUS
    <3>2. q \in Seq(Holders) /\ Len(q) \in Nat
      BY DEF Queues
    <3>3. a \in Seq(Holders) /\ Len(a) = k - 1 /\ \A i \in 1..(k - 1) : a[i] = q[i]
      BY <2>2, <3>1, <3>2
    <3>4. b \in Seq(Holders) /\ Len(b) = Len(q) - k /\ \A i \in 1..(Len(q) - k) : b[i] = q[k + i]
      BY <2>2, <3>1, <3>2
    <3>5. r = a \o b
      BY <2>4, <3>1
    <3>6. /\ r \in Seq(Holders) /\ Len(r) = Len(a) + Len(b)
          /\ \A i \in 1..Len(r) : r[i] = IF i <= Len(a) THEN a[i] ELSE b[i - Len(a)]
      <4>1. /\ a \o b \in Seq(Holders) /\ Len(a \o b) = Len(a) + Len(b)
            /\ \A i \in 1..(Len(a) + Len(b)) : (a \o b)[i] = IF i <= Len(a) THEN a[i] ELSE b[i - Len(a)]
        BY <3>3, <3>4, ConcatProperties, Zenon
      <4> QED BY <3>5, <4>1, Zenon
    <3>7. Len(r) = Len(q) - 1
      BY <2>2, <3>2, <3>3, <3>4, <3>6
    <3>8. ASSUME NEW i \in 1..Len(r) PROVE r[i] = IF i < k THEN q[i] ELSE q[i + 1]
      <4>1. CASE i < k
        <5>1. i \in 1..(k - 1) /\ i <= Len(a)
          BY <2>2, <3>2, <3>3, <3>7, <4>1
        <5> QED BY <3>3, <3>6, <4>1, <5>1
      <4>2. CASE ~(i < k)
        <5>1. i - Len(a) \in 1..(Len(q) - k) /\ ~(i <= Len(a)) /\ k + (i - Len(a)) = i + 1
          BY <2>2, <3>2, <3>3, <3>7, <4>2
        <5>2. r[i] = b[i - Len(a)]
          BY <3>6, <5>1
        <5>3. b[i - Len(a)] = q[k + (i - Len(a))]
          BY <3>4, <5>1
        <5> QED BY <4>2, <5>1, <5>2, <5>3
      <4> QED BY <4>1, <4>2
    <3> QED BY <3>6, <3>7, <3>8
  <2>6. r \in Queues /\ \A i \in 1..Len(r) : r[i] # c /\ \E j \in 1..Len(q) : r[i] = q[j]
    <3>1. Len(q) \in Nat /\ Len(r) \in Nat /\ \A i, j \in 1..Len(q) : q[i] = q[j] => i = j
      BY <2>5 DEF Queues
    <3>2. \A i, j \in 1..Len(r) : r[i] = r[j] => i = j
      BY <2>2, <2>5, <3>1
    <3>3. \A i \in 1..Len(r) : r[i] # c
      BY <2>2, <2>5, <3>1
    <3>4. \A i \in 1..Len(r) : \E j \in 1..Len(q) : r[i] = q[j]
      <4> SUFFICES ASSUME NEW i \in 1..Len(r) PROVE \E j \in 1..Len(q) : r[i] = q[j]
        OBVIOUS
      <4>1. i \in 1..Len(q) /\ i + 1 \in 1..Len(q)
        BY <2>5, <3>1
      <4> QED BY <2>5, <4>1
    <3> QED BY <2>5, <3>2, <3>3, <3>4 DEF Queues
  <2> QED BY <2>3, <2>6 DEF Fiducia!Contains
<1> QED BY <1>1, <1>2

\* A caller that joins it.
LEMMA JoinsQueue ==
    ASSUME NEW q \in Queues, NEW c \in Holders, ~Fiducia!Contains(q, c)
    PROVE  /\ Append(q, c) \in Queues
           /\ \A d : Fiducia!Contains(Append(q, c), d) => d = c \/ Fiducia!Contains(q, d)
<1>1. PICK r : r = Append(q, c)
  OBVIOUS
<1>2. /\ r \in Seq(Holders) /\ Len(r) = Len(q) + 1
      /\ \A i \in 1..Len(r) : r[i] = IF i = Len(q) + 1 THEN c ELSE q[i]
  BY <1>1 DEF Queues
<1>3. r \in Queues
  BY <1>2 DEF Queues, Fiducia!Contains
<1>4. \A d : Fiducia!Contains(r, d) => d = c \/ Fiducia!Contains(q, d)
  BY <1>2 DEF Fiducia!Contains, Queues
<1> QED BY <1>1, <1>3, <1>4

\* The head of it is granted.
LEMMA HeadLeaves ==
    ASSUME NEW q \in Queues, q # <<>>
    PROVE  /\ Head(q) \in Holders /\ Tail(q) \in Queues /\ Fiducia!Contains(q, Head(q))
           /\ \A d : Fiducia!Contains(Tail(q), d) => Fiducia!Contains(q, d)
<1>1. PICK r : r = Tail(q)
  OBVIOUS
<1>2. /\ r \in Seq(Holders) /\ Len(r) = Len(q) - 1 /\ Len(q) > 0 /\ Head(q) = q[1]
      /\ \A i \in 1..Len(r) : r[i] = q[i + 1]
  BY <1>1 DEF Queues
<1>3. r \in Queues
  BY <1>2 DEF Queues
<1>4. \A d : Fiducia!Contains(r, d) => Fiducia!Contains(q, d)
  BY <1>2 DEF Fiducia!Contains, Queues
<1> QED BY <1>1, <1>2, <1>3, <1>4 DEF Fiducia!Contains, Queues

Queued(c) == Fiducia!Contains(queue, c)
Gone(c) == owner # c /\ ~Queued(c)

\* An acquisition that has not begun, or is surely over, has nothing at the node.
AcquisitionOK(c) ==
    /\ at[c] \in {"idle", "timeout", "cancelled"} => Gone(c)
    /\ at[c] = "cancelling" /\ reply[c] # NULL => ~Queued(c)
    /\ at[c] = "cancelling" /\ reply[c] = "cancelled" => Gone(c)
    /\ at[c] = "releasing_raced" => ~Queued(c)
    /\ at[c] = "releasing_raced" /\ reply[c] = "released" => Gone(c)
    /\ c \in travelling => at[c] = "transport"

FiduciaIInv ==
    /\ owner \in Holders \cup {NULL} /\ queue \in Queues
    /\ DOMAIN at = Holders /\ DOMAIN reply = Holders /\ travelling \subseteq Holders
    /\ at = [c \in Holders |-> at[c]] /\ reply = [c \in Holders |-> reply[c]]
    /\ \A c \in Holders : AcquisitionOK(c)

\* Nothing new at the node for a caller that the step does not concern.
LEMMA AcquisitionKept ==
    ASSUME NEW c, AcquisitionOK(c), at'[c] = at[c], reply'[c] = reply[c],
           c \in travelling' => c \in travelling,
           Queued(c)' => Queued(c), owner' = c => owner = c \/ Queued(c)
    PROVE  AcquisitionOK(c)'
  BY DEF AcquisitionOK, Gone

\* The node serves an acquire of c: it is granted or queued, nobody else is.
LEMMA FiduciaAcquireServed ==
    ASSUME FiduciaIInv, NEW c \in Holders, Fiducia!AcquireAtNode(c)
    PROVE  /\ owner' \in Holders \cup {NULL} /\ queue' \in Queues
           /\ \A d \in Holders \ {c} : (Queued(d)' => Queued(d)) /\ (owner' = d => owner = d)
<1>0. queue \in Queues /\ owner \in Holders \cup {NULL}
  BY DEF FiduciaIInv
<1>1. CASE owner' = c /\ queue' = Fiducia!Without(queue, c)
  <2>1. PICK q : q = queue
    OBVIOUS
  <2>2. q \in Queues /\ queue' = Fiducia!Without(q, c)
    BY <1>0, <1>1, <2>1 DEF Fiducia!Without, Fiducia!Contains
  <2>3. queue' \in Queues /\ \A d : Fiducia!Contains(queue', d) => Fiducia!Contains(queue, d)
    BY <2>1, <2>2, LeavesQueue
  <2> QED BY <1>1, <2>3 DEF Queued, Fiducia!Contains
<1>2. CASE owner' = owner /\ queue' = queue
  BY <1>0, <1>2 DEF Queued, Fiducia!Contains
<1>3. CASE owner' = owner /\ queue' = Append(queue, c) /\ ~Fiducia!Contains(queue, c)
  <2>1. queue' \in Queues /\ \A d : Fiducia!Contains(queue', d) => d = c \/ Fiducia!Contains(queue, d)
    BY <1>0, <1>3, JoinsQueue
  <2> QED BY <1>0, <1>3, <2>1 DEF Queued, Fiducia!Contains
<1> QED BY <1>1, <1>2, <1>3 DEF Fiducia!AcquireAtNode

\* A step of c: what is to be shown is about c.
LEMMA FiduciaCallerMoves ==
    ASSUME FiduciaIInv, NEW c \in Holders, NEW l, NEW r,
           at' = [at EXCEPT ![c] = l], reply' = [reply EXCEPT ![c] = r],
           owner' \in Holders \cup {NULL}, queue' \in Queues,
           \A d \in Holders \ {c} : (Queued(d)' => Queued(d)) /\ (owner' = d => owner = d),
           travelling' \subseteq travelling \cup {c},
           (at'[c] = l /\ reply'[c] = r) => AcquisitionOK(c)'
    PROVE  FiduciaIInv'
<1>1. at'[c] = l /\ reply'[c] = r /\ DOMAIN at' = Holders /\ DOMAIN reply' = Holders /\ travelling' \subseteq Holders
      /\ at' = [d \in Holders |-> at'[d]] /\ reply' = [d \in Holders |-> reply'[d]]
  BY DEF FiduciaIInv
<1>2. ASSUME NEW d \in Holders \ {c} PROVE AcquisitionOK(d)'
  <2>1. at'[d] = at[d] /\ reply'[d] = reply[d] /\ AcquisitionOK(d) /\ (d \in travelling' => d \in travelling)
    BY DEF FiduciaIInv
  <2> QED BY <2>1, AcquisitionKept
<1> QED BY <1>1, <1>2 DEF FiduciaIInv

\* A caller goes on without a call at the node.
LEMMA GoesOn ==
    ASSUME FiduciaIInv, NEW c \in Holders, NEW l, Fiducia!Goto(c, l), UNCHANGED <<owner, left, queue, travelling>>,
           l \in {"timeout", "cancelled"} => Gone(c),
           l = "releasing_raced" => ~Queued(c),
           l # "idle", c \notin travelling
    PROVE  FiduciaIInv'
<1>1. /\ at' = [at EXCEPT ![c] = l] /\ reply' = [reply EXCEPT ![c] = NULL]
      /\ owner' \in Holders \cup {NULL} /\ queue' \in Queues /\ travelling' \subseteq travelling \cup {c}
  BY DEF Fiducia!Goto, FiduciaIInv
<1>2. \A d \in Holders : (Queued(d)' <=> Queued(d)) /\ (owner' = d <=> owner = d)
  BY DEF Queued, Fiducia!Contains
<1>3. (at'[c] = l /\ reply'[c] = NULL) => AcquisitionOK(c)'
  <2>1. NULL # "cancelled" /\ NULL # "released"
    BY FiduciaAssumption DEF Fiducia!Answers
  <2> QED BY <1>2, <2>1 DEF AcquisitionOK, Gone
<1> QED BY <1>1, <1>2, <1>3, FiduciaCallerMoves

\* The node serves the call c awaits.
LEMMA FiduciaServeKeeps ==
    ASSUME FiduciaIInv, NEW c \in Holders, Fiducia!Serve(c)
    PROVE  FiduciaIInv'
<1>1. /\ at[c] \in {"acquiring", "cancelling", "releasing_raced", "renewing", "releasing"}
      /\ reply[c] = NULL /\ UNCHANGED <<at, travelling>>
      /\ reply' = [reply EXCEPT ![c] = Fiducia!Answer(c)]
  BY DEF Fiducia!Serve
<1>2. PICK l, r : l = at[c] /\ r = Fiducia!Answer(c)
  OBVIOUS
<1>3. at' = [at EXCEPT ![c] = l] /\ reply' = [reply EXCEPT ![c] = r] /\ travelling' \subseteq travelling \cup {c}
  BY <1>1, <1>2 DEF FiduciaIInv
<1>4. queue \in Queues /\ owner \in Holders \cup {NULL} /\ AcquisitionOK(c) /\ c \notin travelling' /\ NULL \notin Holders
  BY <1>1, HoldersAssumption DEF FiduciaIInv, AcquisitionOK
<1>5. CASE l = "acquiring"
  <2>1. Fiducia!AcquireAtNode(c)
    BY <1>2, <1>5 DEF Fiducia!Serve
  <2>2. (at'[c] = l /\ reply'[c] = r) => AcquisitionOK(c)'
    BY <1>4, <1>5 DEF AcquisitionOK
  <2> QED BY <1>3, <2>1, <2>2, FiduciaAcquireServed, FiduciaCallerMoves
<1>6. CASE l = "cancelling"
  <2>1. queue' = Fiducia!Without(queue, c) /\ owner' = owner
    BY <1>2, <1>6 DEF Fiducia!Serve, Fiducia!CancelAtNode
  <2>2. PICK q : q = Fiducia!Without(queue, c)
    OBVIOUS
  <2>3. q \in Queues /\ ~Fiducia!Contains(q, c) /\ \A d : Fiducia!Contains(q, d) => Fiducia!Contains(queue, d)
    BY <1>4, <2>2, LeavesQueue
  <2>4. queue' = q
    BY <2>1, <2>2
  <2>5. ~Queued(c)' /\ \A d \in Holders : (Queued(d)' => Queued(d)) /\ (owner' = d => owner = d)
    BY <2>1, <2>3, <2>4 DEF Queued, Fiducia!Contains
  <2>6. r = "cancelled" => owner # c
    BY <1>2, <1>6 DEF Fiducia!Answer
  <2>7. (at'[c] = l /\ reply'[c] = r) => AcquisitionOK(c)'
    BY <1>4, <1>6, <2>1, <2>5, <2>6 DEF AcquisitionOK, Gone
  <2>8. owner' \in Holders \cup {NULL} /\ queue' \in Queues
    BY <1>4, <2>1, <2>3, <2>4
  <2> QED BY <1>3, <2>5, <2>7, <2>8, FiduciaCallerMoves
<1>7. CASE l = "renewing"
  <2>1. UNCHANGED <<owner, queue>>
    BY <1>2, <1>7 DEF Fiducia!Serve
  <2>2. \A d \in Holders : (Queued(d)' => Queued(d)) /\ (owner' = d => owner = d)
    BY <2>1 DEF Queued, Fiducia!Contains
  <2>3. (at'[c] = l /\ reply'[c] = r) => AcquisitionOK(c)'
    BY <1>4, <1>7 DEF AcquisitionOK
  <2>4. owner' \in Holders \cup {NULL} /\ queue' \in Queues
    BY <1>4, <2>1
  <2> QED BY <1>3, <2>2, <2>3, <2>4, FiduciaCallerMoves
<1>8. CASE l \in {"releasing_raced", "releasing"}
  <2>1. queue' = queue /\ owner' = IF owner = c THEN NULL ELSE owner
    BY <1>2, <1>8 DEF Fiducia!Serve, Fiducia!ReleaseAtNode
  <2>2. \A d \in Holders : (Queued(d)' <=> Queued(d)) /\ (owner' = d => owner = d)
    BY <1>4, <2>1 DEF Queued, Fiducia!Contains
  <2>3. (at'[c] = l /\ reply'[c] = r) => AcquisitionOK(c)'
    BY <1>2, <1>4, <1>8, <2>1, <2>2 DEF AcquisitionOK, Gone
  <2>4. owner' \in Holders \cup {NULL} /\ queue' \in Queues
    BY <1>4, <2>1
  <2> QED BY <1>3, <2>2, <2>3, <2>4, FiduciaCallerMoves
<1> QED BY <1>1, <1>2, <1>5, <1>6, <1>7, <1>8

\* An acquire its caller gave up on arrives.
LEMMA FiduciaServeLateKeeps ==
    ASSUME FiduciaIInv, NEW c \in travelling, Fiducia!ServeLate(c)
    PROVE  FiduciaIInv'
<1>1. /\ c \in Holders /\ at[c] = "transport" /\ Fiducia!AcquireAtNode(c)
      /\ travelling' = travelling \ {c} /\ UNCHANGED <<at, reply>>
  BY DEF Fiducia!ServeLate, Fiducia!callerVars, FiduciaIInv, AcquisitionOK
<1>2. PICK l, r : l = at[c] /\ r = reply[c]
  OBVIOUS
<1>3. at' = [at EXCEPT ![c] = l] /\ reply' = [reply EXCEPT ![c] = r] /\ travelling' \subseteq travelling \cup {c}
  BY <1>1, <1>2 DEF FiduciaIInv
<1>4. (at'[c] = l /\ reply'[c] = r) => AcquisitionOK(c)'
  BY <1>1, <1>2 DEF AcquisitionOK
<1> QED BY <1>1, <1>3, <1>4, FiduciaAcquireServed, FiduciaCallerMoves

\* A call fails: the acquisition ends without a promise.
LEMMA PostFailsKeeps ==
    ASSUME FiduciaIInv, NEW c \in Holders, Fiducia!PostFails(c)
    PROVE  FiduciaIInv'
<1>1. /\ at' = [at EXCEPT ![c] = "transport"] /\ reply' = [reply EXCEPT ![c] = NULL]
      /\ UNCHANGED <<owner, queue>> /\ travelling' \subseteq travelling \cup {c}
  BY DEF Fiducia!PostFails, Fiducia!Goto, Fiducia!nodeVars
<1>2. \A d \in Holders : (Queued(d)' => Queued(d)) /\ (owner' = d => owner = d)
  BY <1>1 DEF Queued, Fiducia!Contains
<1>3. (at'[c] = "transport" /\ reply'[c] = NULL) => AcquisitionOK(c)'
  BY DEF AcquisitionOK
<1>4. owner' \in Holders \cup {NULL} /\ queue' \in Queues
  BY <1>1 DEF FiduciaIInv
<1> QED BY <1>1, <1>2, <1>3, <1>4, FiduciaCallerMoves

\* The caller goes on: it reports a timeout or a cancellation only when the node has answered
\* that there is nothing left.
LEMMA CallerStepKeeps ==
    ASSUME FiduciaIInv, NEW c \in Holders,
           \/ Fiducia!Start(c) \/ Fiducia!Answered(c) \/ Fiducia!Wake(c) \/ Fiducia!Renew(c) \/ Fiducia!Release(c)
    PROVE  FiduciaIInv'
<1> DEFINE Alone == UNCHANGED <<owner, left, queue, travelling>>
<1>1. AcquisitionOK(c)
  BY DEF FiduciaIInv
<1>2. CASE Fiducia!Start(c)
  <2>1. Alone /\ at[c] = "idle"
    BY <1>2 DEF Fiducia!Start, Fiducia!nodeVars
  <2>2. PICK l \in {"cancelled", "acquiring"} : Fiducia!Goto(c, l)
    BY <1>2 DEF Fiducia!Start
  <2>3. Gone(c) /\ c \notin travelling
    BY <1>1, <2>1 DEF AcquisitionOK
  <2> QED BY <2>1, <2>2, <2>3, GoesOn
<1>3. CASE Fiducia!CancelAnswered(c) \/ Fiducia!RacedReleased(c)
  <2>1. Alone /\ at[c] \in {"cancelling", "releasing_raced"} /\ c \notin travelling
    BY <1>1, <1>3 DEF Fiducia!CancelAnswered, Fiducia!RacedReleased, Fiducia!nodeVars, AcquisitionOK
  <2>2. PICK l \in {"cancelled", "timeout", "releasing_raced", "transport"} :
            /\ Fiducia!Goto(c, l)
            /\ l \in {"cancelled", "timeout"} => \/ at[c] = "cancelling" /\ reply[c] = "cancelled"
                                                 \/ at[c] = "releasing_raced" /\ reply[c] = "released"
            /\ l = "releasing_raced" => at[c] = "cancelling" /\ reply[c] = "raced"
    BY <1>3 DEF Fiducia!CancelAnswered, Fiducia!RacedReleased, Fiducia!Terminal
  <2>3. NULL # "raced"
    BY FiduciaAssumption DEF Fiducia!Answers
  <2>4. (l \in {"timeout", "cancelled"} => Gone(c)) /\ (l = "releasing_raced" => ~Queued(c))
    BY <1>1, <2>2, <2>3 DEF AcquisitionOK
  <2> QED BY <2>1, <2>2, <2>4, GoesOn
<1>4. CASE \/ Fiducia!AnsweredQueued(c) \/ Fiducia!AnsweredAcquired(c) \/ Fiducia!RenewAnswered(c)
           \/ Fiducia!ReleaseAnswered(c) \/ Fiducia!Wake(c) \/ Fiducia!Renew(c) \/ Fiducia!Release(c)
  <2>1. Alone /\ at[c] \in {"acquiring", "renewing", "releasing", "sleeping", "held"} /\ c \notin travelling
    BY <1>1, <1>4 DEF Fiducia!AnsweredQueued, Fiducia!AnsweredAcquired, Fiducia!RenewAnswered, Fiducia!ReleaseAnswered,
      Fiducia!Wake, Fiducia!Renew, Fiducia!Release, Fiducia!nodeVars, AcquisitionOK
  <2>2. PICK l \in {"contention", "cancelling", "sleeping", "held", "lost", "released", "acquiring", "renewing", "releasing"} :
            Fiducia!Goto(c, l)
    BY <1>4 DEF Fiducia!AnsweredQueued, Fiducia!AnsweredAcquired, Fiducia!RenewAnswered, Fiducia!ReleaseAnswered,
      Fiducia!Wake, Fiducia!Renew, Fiducia!Release
  <2> QED BY <2>1, <2>2, GoesOn
<1> QED BY <1>2, <1>3, <1>4 DEF Fiducia!Answered

\* Steps of nobody's call.
LEMMA NodeStepKeeps ==
    ASSUME FiduciaIInv, \/ Fiducia!Promote \/ Fiducia!Tick \/ (\E c \in Holders : Fiducia!Abort(c)) \/ UNCHANGED Fiducia!vars
    PROVE  FiduciaIInv'
<1>0. queue \in Queues /\ owner \in Holders \cup {NULL} /\ NULL \notin Holders
  BY HoldersAssumption DEF FiduciaIInv
<1>1. UNCHANGED <<at, reply, travelling>>
  BY DEF Fiducia!Promote, Fiducia!Tick, Fiducia!Abort, Fiducia!vars, Fiducia!callerVars
<1>2. /\ owner' \in Holders \cup {NULL} /\ queue' \in Queues
      /\ \A d \in Holders : (Queued(d)' => Queued(d)) /\ (owner' = d => owner = d \/ Queued(d))
  <2>1. CASE Fiducia!Promote
    <3>1. queue # <<>> /\ owner' = Head(queue) /\ queue' = Tail(queue)
      BY <2>1 DEF Fiducia!Promote
    <3>2. /\ Head(queue) \in Holders /\ Tail(queue) \in Queues /\ Fiducia!Contains(queue, Head(queue))
          /\ \A d : Fiducia!Contains(Tail(queue), d) => Fiducia!Contains(queue, d)
      BY <1>0, <3>1, HeadLeaves
    <3> QED BY <3>1, <3>2 DEF Queued, Fiducia!Contains
  <2>2. CASE queue' = queue /\ owner' \in {owner, NULL}
    BY <1>0, <2>2 DEF Queued, Fiducia!Contains
  <2> QED BY <2>1, <2>2 DEF Fiducia!Tick, Fiducia!Abort, Fiducia!vars, Fiducia!nodeVars
<1>3. ASSUME NEW d \in Holders PROVE AcquisitionOK(d)'
  <2>1. at'[d] = at[d] /\ reply'[d] = reply[d] /\ AcquisitionOK(d) /\ (d \in travelling' => d \in travelling)
    BY <1>1 DEF FiduciaIInv
  <2> QED BY <1>2, <2>1, AcquisitionKept
<1> QED BY <1>1, <1>2, <1>3 DEF FiduciaIInv

\* fiducia.ts: an acquire that has ended in a timeout or a cancellation is neither queued nor
\* granted at the node nor on its way there, for any number of callers, TTLs and budgets.
THEOREM FiduciaLeavesNothing == Fiducia!Spec => []EndedLeavesNothing
<1>1. Fiducia!Init => FiduciaIInv
  <2> SUFFICES ASSUME Fiducia!Init PROVE FiduciaIInv
    OBVIOUS
  <2>1. queue = <<>> /\ owner = NULL /\ travelling = {} /\ at = [c \in Holders |-> "idle"] /\ reply = [c \in Holders |-> NULL]
    BY DEF Fiducia!Init
  <2>2. queue \in Queues /\ \A c \in Holders : ~Queued(c)
    BY <2>1 DEF Queues, Queued, Fiducia!Contains
  <2>3. \A c \in Holders : AcquisitionOK(c)
    BY <2>1, <2>2, HoldersAssumption DEF AcquisitionOK, Gone
  <2> QED BY <2>1, <2>2, <2>3 DEF FiduciaIInv
<1>2. FiduciaIInv /\ [Fiducia!Next]_(Fiducia!vars) => FiduciaIInv'
  BY FiduciaServeKeeps, FiduciaServeLateKeeps, PostFailsKeeps, CallerStepKeeps, NodeStepKeeps DEF Fiducia!Next
<1>3. FiduciaIInv => EndedLeavesNothing
  BY DEF FiduciaIInv, AcquisitionOK, Gone, Queued, EndedLeavesNothing, Fiducia!EndedLeavesNothing
<1> QED BY <1>1, <1>2, <1>3, PTL DEF Fiducia!Spec

=============================================================================
