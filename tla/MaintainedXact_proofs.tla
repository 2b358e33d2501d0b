------------------------ MODULE MaintainedXact_proofs -----------------------
(***************************************************************************)
(* Transactions of withMaintainedXactLock commit in the order of their     *)
(* fencing tokens, for any number of callers and grants.                   *)
(*                                                                         *)
(* The argument: the advisory lock is held from before the final renewal   *)
(* until the server has ended the transaction (Guarded).  The renewal      *)
(* succeeds only for the newest grant, so at that moment every committed   *)
(* transaction is older (Decided); from then on nobody else can commit,    *)
(* whatever happens to the lease.                                          *)
(*                                                                         *)
(* The last section proves the assertions of the repository's executable   *)
(* model of one call (MaintainedOracle), for any bounds of its walk.       *)
(***************************************************************************)
EXTENDS MCMaintainedXact, TLAPS

\* Who has a grant: tokens are no larger than the counter, of one call each, and
\* a transaction exists only after the BEGIN of its call.
Granted ==
    /\ active # NULL => active = minted
    /\ \A c \in Callers : pc[c] # "idle" <=> token[c] # NULL
    /\ \A c \in Callers : token[c] # NULL => token[c] <= minted
    /\ \A c, d \in Callers : token[c] # NULL /\ token[c] = token[d] => c = d
    /\ \A t \in Tokens : txns[t] # "none" => t <= minted
    /\ \A c \in Callers : pc[c] = "begin" => txns[token[c]] = "none"

\* From work on, a transaction that can still commit has the advisory lock.
Guarded ==
    /\ \A c \in Callers :
        pc[c] \in {"work", "stop", "final", "confirmed"} /\ txns[token[c]] = "open" => pgLock = token[c]
    /\ \A t \in Tokens : txns[t] = "committing" => pgLock = t

\* The maintainer is off before the final renewal, and a failed one keeps its
\* call from COMMIT; before COMMIT is sent nothing is committed.
Stopped ==
    /\ \A c \in Callers :
        /\ pc[c] \in {"idle", "final", "confirmed", "commit"} => keeper[c] = "off"
        /\ pc[c] \in {"rollback", "release"} => keeper[c] \in {"off", "failed"}
    /\ \A c \in Callers :
        pc[c] \notin {"idle", "commit", "release"} =>
            txns[token[c]] \notin {"committing", "committed", "rolledback"}
    /\ NoCommitAfterLoss

\* The advisory lock belongs to an unfinished transaction, and a pooled
\* connection to a finished one.
Clean ==
    /\ pgLock # NULL => txns[pgLock] \in Pending
    /\ \A t \in pooled : txns[t] \in {"committed", "rolledback"}

\* What is committed is older than what may still commit.
Decided ==
    /\ \A c \in Callers, u \in Tokens :
        pc[c] = "confirmed" /\ txns[token[c]] = "open" /\ txns[u] = "committed" => u < token[c]
    /\ \A t, u \in Tokens :
        txns[t] = "committing" /\ txns[u] = "committed" => u < t

\* The history names committed transactions.
Recorded == \A i \in DOMAIN commits : txns[commits[i]] = "committed"

IInv == TypeOK /\ Granted /\ Guarded /\ Stopped /\ Clean /\ Decided /\ Recorded /\ CommitsInTokenOrder

\* Nothing is granted and nothing runs at first.
LEMMA InitIInv == Init => IInv
  BY BoundsAssumption, NullAssumption
  DEF Init, IInv, TypeOK, Granted, Guarded, Stopped, Clean, Decided, Recorded, CommitsInTokenOrder,
      NoCommitAfterLoss, Pending, Tokens, Authority!LeaseInit

-----------------------------------------------------------------------------
(* What keeps a part of the invariant, whoever takes the step.             *)

\* A token belongs to its call as long as the call is under way.
LEMMA GrantedKept ==
  ASSUME TypeOK, Granted, UNCHANGED <<active, minted, token>>,
         \A d \in Callers : (pc'[d] = "idle") <=> (pc[d] = "idle"),
         \A d \in Callers : pc'[d] = "begin" => pc[d] = "begin" /\ txns'[token[d]] = txns[token[d]],
         \A u \in Tokens : txns'[u] # "none" => txns[u] # "none" \/ u <= minted
  PROVE  Granted'
  BY DEF Granted

\* The advisory lock leaves no transaction that can still commit.
LEMMA GuardedKept ==
  ASSUME TypeOK, Granted, Guarded, UNCHANGED token,
         \A d \in Callers : pc'[d] \in {"work", "stop", "final", "confirmed"}
                              => pc[d] \in {"work", "stop", "final", "confirmed"},
         \A u \in Tokens : txns'[u] \in {"open", "committing"} => txns'[u] = txns[u] /\ (pgLock = u => pgLock' = u)
  PROVE  Guarded'
<1>1. \A d \in Callers : pc[d] # "idle" => token[d] \in Tokens
  BY DEF TypeOK, Granted
<1> QED BY <1>1 DEF Guarded

\* A turn of one caller before its COMMIT, which stops no maintainer.
LEMMA StoppedKept ==
  ASSUME TypeOK, Granted, Stopped, NEW c \in Callers, pc[c] \notin {"idle", "commit", "release"},
         pc'[c] \in {"lock", "lockSleep", "work", "stop", "unwind"},
         \A d \in Callers : d # c => pc'[d] = pc[d],
         UNCHANGED <<keeper, token>>,
         \A u \in Tokens : txns'[u] = txns[u] \/ txns'[u] \in {"open", "failed"}
  PROVE  Stopped'
<1>1. \A d \in Callers : pc[d] # "idle" => token[d] \in Tokens
  BY DEF TypeOK, Granted
<1>2. \A d \in Callers : pc'[d] \notin {"idle", "commit", "release"} => pc[d] \notin {"idle", "commit", "release"}
  OBVIOUS
<1>3. \A d \in Callers : pc'[d] \notin {"idle", "commit", "release"} =>
          txns'[token[d]] \notin {"committing", "committed", "rolledback"}
  BY <1>1, <1>2 DEF Stopped
<1>4. NoCommitAfterLoss'
  <2> SUFFICES ASSUME NEW d \in Callers, keeper[d] = "failed"
               PROVE  txns'[token[d]] \notin {"committing", "committed"}
    BY DEF NoCommitAfterLoss
  <2>1. pc[d] # "idle"
    BY DEF Stopped
  <2> QED BY <1>1, <2>1 DEF Stopped, NoCommitAfterLoss
<1> QED BY <1>3, <1>4 DEF Stopped

\* Nobody is confirmed anew, and nothing more is committed or about to be.
LEMMA DecidedKept ==
  ASSUME TypeOK, Granted, Decided, UNCHANGED token,
         \A d \in Callers : pc'[d] = "confirmed" => pc[d] = "confirmed",
         \A u \in Tokens : txns'[u] \in {"open", "committing", "committed"} => txns'[u] = txns[u]
  PROVE  Decided'
<1>1. \A d \in Callers : pc[d] = "confirmed" => token[d] \in Tokens
  BY DEF TypeOK, Granted
<1> QED BY <1>1 DEF Decided

\* What is committed stays so, and the history is not touched.
LEMMA RecordedKept ==
  ASSUME TypeOK, Recorded, UNCHANGED commits,
         \A u \in Tokens : txns[u] = "committed" => txns'[u] = "committed"
  PROVE  Recorded'
<1>1. \A i \in DOMAIN commits : commits[i] \in Tokens
  BY DEF TypeOK
<1> QED BY <1>1 DEF Recorded

-----------------------------------------------------------------------------
(* One lemma per action.                                                   *)

\* A new grant, with a token no transaction has.
LEMMA AcquireIInv ==
  ASSUME IInv, NEW c \in Callers, NEW wait \in BOOLEAN, Acquire(c, wait)
  PROVE  IInv'
<1> USE BoundsAssumption, NullAssumption
    DEF IInv, Tokens, Pending, leaseState, callState, serverState, Goto, Authority!Grant
<1>1. TypeOK'
  BY DEF Acquire, TypeOK
<1>2. Granted'
  BY DEF Acquire, TypeOK, Granted
<1>3. Guarded'
  BY DEF Acquire, TypeOK, Granted, Guarded
<1>4. Stopped'
  BY DEF Acquire, TypeOK, Granted, Stopped, NoCommitAfterLoss
<1>5. Decided'
  BY DEF Acquire, TypeOK, Granted, Guarded, Decided
<1>6. Clean' /\ Recorded' /\ CommitsInTokenOrder'
  BY DEF Acquire, TypeOK, Granted, Clean, Recorded, CommitsInTokenOrder
<1> QED BY <1>1, <1>2, <1>3, <1>4, <1>5, <1>6 DEF IInv

\* A grant that is given back at once.
LEMMA AcquireMismatchIInv ==
  ASSUME IInv, NEW c \in Callers, AcquireMismatch(c)
  PROVE  IInv'
<1> USE BoundsAssumption, NullAssumption
    DEF IInv, Tokens, Pending, leaseState, callState, serverState, Goto, Authority!Grant
<1>1. TypeOK'
  BY DEF AcquireMismatch, TypeOK
<1>2. Granted'
  BY DEF AcquireMismatch, TypeOK, Granted
<1>3. Guarded'
  BY DEF AcquireMismatch, TypeOK, Granted, Guarded
<1>4. Stopped'
  BY DEF AcquireMismatch, TypeOK, Granted, Stopped, NoCommitAfterLoss
<1>5. Decided'
  BY DEF AcquireMismatch, TypeOK, Granted, Guarded, Decided
<1>6. Clean' /\ Recorded' /\ CommitsInTokenOrder'
  BY DEF AcquireMismatch, TypeOK, Granted, Clean, Recorded, CommitsInTokenOrder
<1> QED BY <1>1, <1>2, <1>3, <1>4, <1>5, <1>6 DEF IInv

\* A grant nobody uses.
LEMMA AcquireMalformedIInv ==
  ASSUME IInv, NEW c \in Callers, AcquireMalformed(c)
  PROVE  IInv'
<1> USE BoundsAssumption, NullAssumption
    DEF IInv, Tokens, Pending, leaseState, callState, serverState, Authority!Grant
<1>1. TypeOK'
  BY DEF AcquireMalformed, TypeOK
<1>2. Granted'
  BY DEF AcquireMalformed, TypeOK, Granted
<1>3. Guarded' /\ Stopped' /\ Clean' /\ Decided' /\ Recorded' /\ CommitsInTokenOrder'
  BY DEF AcquireMalformed, TypeOK, Granted, Guarded, Stopped, NoCommitAfterLoss, Clean, Decided, Recorded, CommitsInTokenOrder
<1> QED BY <1>1, <1>2, <1>3 DEF IInv

\* BEGIN opens the transaction of a fresh token.
LEMMA BeginIInv ==
  ASSUME IInv, NEW c \in Callers, Begin(c)
  PROVE  IInv'
<1> USE BoundsAssumption, NullAssumption
    DEF IInv, Tokens, Pending, leaseState, callState, serverState, Goto, Fails
<1>1. token[c] \in Tokens /\ (\A d \in Callers : token[d] = token[c] => d = c)
  BY DEF Begin, TypeOK, Granted
<1>2. CASE txns' = [txns EXCEPT ![token[c]] = "open"]
  <2>1. TypeOK'
    BY <1>1, <1>2 DEF Begin, TypeOK
  <2>2. Granted'
    <3>1. \A u \in Tokens : txns'[u] # "none" => u = token[c] \/ txns[u] # "none"
      BY <1>1, <1>2 DEF TypeOK
    <3>2. \A d \in Callers : pc'[d] = "begin" => d # c /\ txns'[token[d]] = txns[token[d]]
      BY <1>1, <1>2 DEF Begin, TypeOK, Granted
    <3>3. token[c] <= minted
      BY <1>1 DEF Granted
    <3>4. /\ UNCHANGED <<active, minted, token>>
          /\ \A d \in Callers : ((pc'[d] = "idle") <=> (pc[d] = "idle")) /\ (pc'[d] = "begin" => pc[d] = "begin")
      BY DEF Begin, TypeOK
    <3> QED BY <3>1, <3>2, <3>3, <3>4, GrantedKept
  <2>3. /\ pc'[c] \in {"lock", "unwind"} /\ txns[token[c]] = "none" /\ txns'[token[c]] = "open"
        /\ \A d \in Callers : d # c => pc'[d] = pc[d]
        /\ UNCHANGED <<minted, active, keeper, token, pgLock, commits, pooled>>
        /\ \A u \in Tokens : u # token[c] => txns'[u] = txns[u]
    BY <1>1, <1>2 DEF Begin, TypeOK, Granted
  <2>4. \A d \in Callers : pc[d] # "idle" => token[d] \in Tokens /\ (d # c => token[d] # token[c])
    BY <1>1 DEF TypeOK, Granted
  <2>5. Guarded'
    BY <1>1, <2>3, <2>4 DEF Guarded
  <2>6. Stopped'
    BY <1>1, <2>3, <2>4 DEF Stopped, NoCommitAfterLoss
  <2>7. Clean'
    BY <1>1, <2>3 DEF TypeOK, Clean
  <2>8. Decided'
    BY <1>1, <2>3, <2>4 DEF Decided
  <2>9. Recorded'
    BY <1>1, <2>3, RecordedKept
  <2>10. CommitsInTokenOrder'
    BY <1>1, <1>2 DEF Begin, TypeOK, CommitsInTokenOrder
  <2> QED BY <2>1, <2>2, <2>5, <2>6, <2>7, <2>8, <2>9, <2>10 DEF IInv
<1>3. CASE UNCHANGED txns
  <2>1. TypeOK'
    BY <1>1, <1>3 DEF Begin, TypeOK
  <2>2. Granted'
    BY <1>1, <1>3 DEF Begin, TypeOK, Granted
  <2>3. Guarded'
    BY <1>1, <1>3 DEF Begin, TypeOK, Granted, Guarded
  <2>4. Stopped'
    <3>1. /\ pc[c] = "begin" /\ pc'[c] \in {"lock", "unwind"} /\ UNCHANGED <<keeper, token>>
          /\ \A d \in Callers : d # c => pc'[d] = pc[d]
      BY DEF Begin, TypeOK
    <3> QED BY <1>3, <3>1, StoppedKept
  <2>5. Decided'
    BY <1>1, <1>3 DEF Begin, TypeOK, Granted, Guarded, Decided
  <2>6. Clean' /\ Recorded' /\ CommitsInTokenOrder'
    BY <1>1, <1>3 DEF Begin, TypeOK, Granted, Clean, Recorded, CommitsInTokenOrder
  <2> QED BY <2>1, <2>2, <2>3, <2>4, <2>5, <2>6 DEF IInv
<1> QED BY <1>1, <1>2, <1>3 DEF Begin, TypeOK

\* The lock is taken by an open transaction, or not at all.
LEMMA TryLockIInv ==
  ASSUME IInv, NEW c \in Callers, TryLock(c)
  PROVE  IInv'
<1> USE BoundsAssumption, NullAssumption
    DEF IInv, Tokens, Pending, leaseState, callState, serverState, Goto, Fails
<1>1. token[c] \in Tokens /\ (\A d \in Callers : token[d] = token[c] => d = c)
  BY DEF TryLock, TypeOK, Granted
<1>2. CASE pgLock' = token[c] /\ pgLock = NULL /\ txns[token[c]] = "open" /\ UNCHANGED polls
  <2>1. TypeOK'
    BY <1>1, <1>2 DEF TryLock, TypeOK
  <2>2. Granted'
    BY <1>1, <1>2 DEF TryLock, TypeOK, Granted
  <2>3. Guarded'
    <3>1. \A d \in Callers : d # c => pc'[d] = pc[d]
      BY DEF TryLock, TypeOK
    <3>2. UNCHANGED <<txns, token>>
      BY DEF TryLock
    <3>3. ASSUME NEW d \in Callers, d # c, pc[d] \in {"work", "stop", "final", "confirmed"}
          PROVE  txns[token[d]] # "open"
      <4>1. token[d] # NULL
        BY <3>3 DEF Granted
      <4> QED BY <1>2, <3>3, <4>1 DEF Guarded
    <3>4. \A t \in Tokens : txns[t] # "committing"
      BY <1>2 DEF Guarded
    <3> QED BY <1>2, <3>1, <3>2, <3>3, <3>4 DEF Guarded
  <2>4. Stopped'
    <3>1. /\ pc[c] = "lock" /\ pc'[c] \in {"work", "lockSleep", "unwind"} /\ UNCHANGED <<keeper, token, txns>>
          /\ \A d \in Callers : d # c => pc'[d] = pc[d]
      BY DEF TryLock, TypeOK
    <3> QED BY <3>1, StoppedKept
  <2>5. Clean'
    BY <1>1, <1>2 DEF TryLock, TypeOK, Granted, Clean
  <2>6. Decided'
    BY <1>1, <1>2 DEF TryLock, TypeOK, Granted, Guarded, Decided
  <2>7. Recorded' /\ CommitsInTokenOrder'
    BY <1>1, <1>2 DEF TryLock, TypeOK, Recorded, CommitsInTokenOrder
  <2> QED BY <2>1, <2>2, <2>3, <2>4, <2>5, <2>6, <2>7 DEF IInv
<1>3. CASE polls' = [polls EXCEPT ![c] = @ - 1] /\ polls[c] > 0 /\ Goto(c, "lockSleep") /\ UNCHANGED pgLock
  <2>1. TypeOK'
    <3>1. polls' \in [Callers -> 0..MaxPolls]
      BY <1>3 DEF TypeOK
    <3> QED BY <1>3, <3>1 DEF TryLock, TypeOK
  <2>2. Granted'
    BY <1>1, <1>3 DEF TryLock, TypeOK, Granted
  <2>3. Guarded'
    BY <1>1, <1>3 DEF TryLock, TypeOK, Granted, Guarded
  <2>4. Stopped'
    <3>1. /\ pc[c] = "lock" /\ pc'[c] \in {"work", "lockSleep", "unwind"} /\ UNCHANGED <<keeper, token, txns>>
          /\ \A d \in Callers : d # c => pc'[d] = pc[d]
      BY DEF TryLock, TypeOK
    <3> QED BY <3>1, StoppedKept
  <2>5. Decided'
    BY <1>1, <1>3 DEF TryLock, TypeOK, Granted, Guarded, Decided
  <2>6. Clean' /\ Recorded' /\ CommitsInTokenOrder'
    BY <1>1, <1>3 DEF TryLock, TypeOK, Granted, Clean, Recorded, CommitsInTokenOrder
  <2> QED BY <2>1, <2>2, <2>3, <2>4, <2>5, <2>6 DEF IInv
<1>4. CASE Fails(c) /\ UNCHANGED <<pgLock, polls>>
  <2>1. TypeOK'
    BY <1>1, <1>4 DEF TryLock, TypeOK
  <2>2. Granted'
    BY <1>1, <1>4 DEF TryLock, TypeOK, Granted
  <2>3. Guarded'
    BY <1>1, <1>4 DEF TryLock, TypeOK, Granted, Guarded
  <2>4. Stopped'
    <3>1. /\ pc[c] = "lock" /\ pc'[c] \in {"work", "lockSleep", "unwind"} /\ UNCHANGED <<keeper, token, txns>>
          /\ \A d \in Callers : d # c => pc'[d] = pc[d]
      BY DEF TryLock, TypeOK
    <3> QED BY <3>1, StoppedKept
  <2>5. Decided'
    BY <1>1, <1>4 DEF TryLock, TypeOK, Granted, Guarded, Decided
  <2>6. Clean' /\ Recorded' /\ CommitsInTokenOrder'
    BY <1>1, <1>4 DEF TryLock, TypeOK, Granted, Clean, Recorded, CommitsInTokenOrder
  <2> QED BY <2>1, <2>2, <2>3, <2>4, <2>5, <2>6 DEF IInv
<1> QED BY <1>1, <1>2, <1>3, <1>4 DEF TryLock, TypeOK

\* Between two tries.
LEMMA LockSleepEndsIInv ==
  ASSUME IInv, NEW c \in Callers, LockSleepEnds(c)
  PROVE  IInv'
<1> USE BoundsAssumption, NullAssumption
    DEF IInv, Tokens, Pending, leaseState, callState, serverState, Goto, Fails
<1>1. TypeOK'
  BY DEF LockSleepEnds, TypeOK
<1>2. Granted'
  BY DEF LockSleepEnds, TypeOK, Granted
<1>3. Guarded'
  BY DEF LockSleepEnds, TypeOK, Granted, Guarded
<1>4. Stopped'
  <2>1. /\ pc[c] = "lockSleep" /\ pc'[c] \in {"lock", "unwind"} /\ UNCHANGED <<keeper, token, txns>>
        /\ \A d \in Callers : d # c => pc'[d] = pc[d]
    BY DEF LockSleepEnds, TypeOK
  <2> QED BY <2>1, StoppedKept
<1>5. Decided'
  BY DEF LockSleepEnds, TypeOK, Granted, Guarded, Decided
<1>6. Clean' /\ Recorded' /\ CommitsInTokenOrder'
  BY DEF LockSleepEnds, TypeOK, Granted, Clean, Recorded, CommitsInTokenOrder
<1> QED BY <1>1, <1>2, <1>3, <1>4, <1>5, <1>6 DEF IInv

\* Work changes at most the state of its own transaction.
LEMMA WorkEndsIInv ==
  ASSUME IInv, NEW c \in Callers, WorkEnds(c)
  PROVE  IInv'
<1> USE BoundsAssumption, NullAssumption
    DEF IInv, Tokens, Pending, leaseState, callState, serverState, Goto, Fails, FreeLock
<1>1. token[c] \in Tokens /\ (\A d \in Callers : token[d] = token[c] => d = c)
  BY DEF WorkEnds, TypeOK, Granted
<1>2. /\ pc[c] = "work" /\ pc'[c] \in {"stop", "unwind"}
      /\ \A d \in Callers : d # c => pc'[d] = pc[d]
      /\ UNCHANGED <<active, minted, owner, keeper, token, polls, commits, pooled, releases>>
  BY DEF WorkEnds, TypeOK
<1>3. CASE txns[token[c]] = "open" /\ txns' = [txns EXCEPT ![token[c]] = "failed"] /\ FreeLock(token[c])
  <2>1. TypeOK'
    BY <1>1, <1>3 DEF WorkEnds, TypeOK
  <2>2. /\ txns[token[c]] = "open" /\ txns'[token[c]] = "failed"
        /\ \A u \in Tokens : u # token[c] => txns'[u] = txns[u] /\ (pgLock = u => pgLock' = u)
    BY <1>1, <1>3 DEF TypeOK
  <2>3. \A d \in Callers : pc'[d] = "begin" => pc[d] = "begin" /\ txns'[token[d]] = txns[token[d]]
    <3>1. \A d \in Callers : pc[d] = "begin" => d # c /\ token[d] \in Tokens
      BY <1>2 DEF TypeOK, Granted
    <3> QED BY <1>1, <1>2, <2>2, <3>1
  <2>4. Granted'
    BY <1>2, <2>2, <2>3, GrantedKept
  <2>5. Guarded'
    BY <1>2, <2>2, GuardedKept
  <2>6. Stopped'
    BY <1>2, <2>2, StoppedKept
  <2>7. Clean'
    BY <1>1, <1>3 DEF WorkEnds, TypeOK, Granted, Clean
  <2>8. Decided'
    BY <1>2, <2>2, DecidedKept
  <2>9. Recorded'
    BY <1>2, <2>2, RecordedKept
  <2>10. CommitsInTokenOrder'
    BY <1>2 DEF CommitsInTokenOrder
  <2> QED BY <2>1, <2>4, <2>5, <2>6, <2>7, <2>8, <2>9, <2>10 DEF IInv
<1>4. CASE UNCHANGED <<txns, pgLock>>
  <2>1. TypeOK'
    BY <1>1, <1>4 DEF WorkEnds, TypeOK
  <2>2. Granted'
    BY <1>2, <1>4, GrantedKept
  <2>3. Guarded'
    BY <1>2, <1>4, GuardedKept
  <2>4. Stopped'
    BY <1>2, <1>4, StoppedKept
  <2>5. Decided'
    BY <1>2, <1>4, DecidedKept
  <2>6. Clean' /\ Recorded' /\ CommitsInTokenOrder'
    BY <1>2, <1>4 DEF Clean, Recorded, CommitsInTokenOrder
  <2> QED BY <2>1, <2>2, <2>3, <2>4, <2>5, <2>6 DEF IInv
<1> QED BY <1>3, <1>4 DEF WorkEnds

\* Only a call whose maintainer did not fail goes on to the final renewal.
LEMMA StopMaintainerIInv ==
  ASSUME IInv, NEW c \in Callers, StopMaintainer(c)
  PROVE  IInv'
<1> USE BoundsAssumption, NullAssumption
    DEF IInv, Tokens, Pending, leaseState, callState, serverState, Goto
<1>1. TypeOK'
  BY DEF StopMaintainer, TypeOK
<1>2. Granted'
  BY DEF StopMaintainer, TypeOK, Granted
<1>3. Guarded'
  BY DEF StopMaintainer, TypeOK, Granted, Guarded
<1>4. Stopped'
  BY DEF StopMaintainer, TypeOK, Granted, Stopped, NoCommitAfterLoss
<1>5. Decided'
  BY DEF StopMaintainer, TypeOK, Granted, Guarded, Decided
<1>6. Clean' /\ Recorded' /\ CommitsInTokenOrder'
  BY DEF StopMaintainer, TypeOK, Granted, Clean, Recorded, CommitsInTokenOrder
<1> QED BY <1>1, <1>2, <1>3, <1>4, <1>5, <1>6 DEF IInv

\* The renewal succeeds for the newest grant only, so every committed token is smaller.
LEMMA FinalRenewalIInv ==
  ASSUME IInv, NEW c \in Callers, FinalRenewal(c)
  PROVE  IInv'
<1> USE BoundsAssumption, NullAssumption
    DEF IInv, Tokens, Pending, leaseState, callState, serverState, Goto, Holds
<1>1. token[c] \in Tokens /\ (\A d \in Callers : token[d] = token[c] => d = c)
  BY DEF FinalRenewal, TypeOK, Granted
<1>2. CASE Holds(c) /\ Goto(c, "confirmed")
  <2>1. TypeOK'
    BY <1>1, <1>2 DEF FinalRenewal, TypeOK
  <2>2. Granted'
    BY <1>1, <1>2 DEF FinalRenewal, TypeOK, Granted
  <2>3. Guarded'
    BY <1>1, <1>2 DEF FinalRenewal, TypeOK, Granted, Guarded
  <2>4. Stopped'
    BY <1>1, <1>2 DEF FinalRenewal, TypeOK, Granted, Stopped, NoCommitAfterLoss
  <2>5. Decided'
    BY <1>1, <1>2 DEF FinalRenewal, TypeOK, Granted, Guarded, Decided, Stopped
  <2>6. Clean' /\ Recorded' /\ CommitsInTokenOrder'
    BY <1>1, <1>2 DEF FinalRenewal, TypeOK, Granted, Clean, Recorded, CommitsInTokenOrder
  <2> QED BY <2>1, <2>2, <2>3, <2>4, <2>5, <2>6 DEF IInv
<1>3. CASE Goto(c, "rollback")
  <2>1. TypeOK'
    BY <1>1, <1>3 DEF FinalRenewal, TypeOK
  <2>2. Granted'
    BY <1>1, <1>3 DEF FinalRenewal, TypeOK, Granted
  <2>3. Guarded'
    BY <1>1, <1>3 DEF FinalRenewal, TypeOK, Granted, Guarded
  <2>4. Stopped'
    BY <1>1, <1>3 DEF FinalRenewal, TypeOK, Granted, Stopped, NoCommitAfterLoss
  <2>5. Decided'
    BY <1>1, <1>3 DEF FinalRenewal, TypeOK, Granted, Guarded, Decided
  <2>6. Clean' /\ Recorded' /\ CommitsInTokenOrder'
    BY <1>1, <1>3 DEF FinalRenewal, TypeOK, Granted, Clean, Recorded, CommitsInTokenOrder
  <2> QED BY <2>1, <2>2, <2>3, <2>4, <2>5, <2>6 DEF IInv
<1> QED BY <1>1, <1>2, <1>3 DEF FinalRenewal, TypeOK

\* Rollback ends the transaction or leaves it to the server.
LEMMA RollbackXactIInv ==
  ASSUME IInv, NEW c \in Callers, RollbackXact(c)
  PROVE  IInv'
<1> USE BoundsAssumption, NullAssumption
    DEF IInv, Tokens, Pending, leaseState, callState, serverState, Goto, FreeLock
<1>1. token[c] \in Tokens /\ (\A d \in Callers : token[d] = token[c] => d = c)
  BY DEF RollbackXact, TypeOK, Granted
<1>2. CASE txns[token[c]] \in {"open", "failed"} /\ txns' = [txns EXCEPT ![token[c]] = "aborted"] /\ FreeLock(token[c])
  <2>1. TypeOK'
    BY <1>1, <1>2 DEF RollbackXact, TypeOK
  <2>2. Granted'
    BY <1>1, <1>2 DEF RollbackXact, TypeOK, Granted
  <2>3. Guarded'
    BY <1>1, <1>2 DEF RollbackXact, TypeOK, Granted, Guarded
  <2>4. Stopped'
    BY <1>1, <1>2 DEF RollbackXact, TypeOK, Granted, Stopped, NoCommitAfterLoss
  <2>5. Clean'
    BY <1>1, <1>2 DEF RollbackXact, TypeOK, Granted, Clean
  <2>6. Decided'
    <3>1. \A u \in Tokens : txns'[u] \in {"open", "committing", "committed"} => txns'[u] = txns[u]
      BY <1>1, <1>2 DEF TypeOK
    <3>2. UNCHANGED token /\ \A d \in Callers : pc'[d] = "confirmed" => pc[d] = "confirmed"
      BY DEF RollbackXact, TypeOK
    <3> QED BY <3>1, <3>2, DecidedKept
  <2>7. Recorded'
    <3>1. UNCHANGED commits /\ \A u \in Tokens : txns[u] = "committed" => txns'[u] = "committed"
      BY <1>1, <1>2 DEF RollbackXact, TypeOK
    <3> QED BY <3>1, RecordedKept
  <2>8. CommitsInTokenOrder'
    BY <1>1, <1>2 DEF RollbackXact, TypeOK, CommitsInTokenOrder
  <2> QED BY <2>1, <2>2, <2>3, <2>4, <2>5, <2>6, <2>7, <2>8 DEF IInv
<1>3. CASE UNCHANGED <<txns, pgLock>>
  <2>1. TypeOK'
    BY <1>1, <1>3 DEF RollbackXact, TypeOK
  <2>2. Granted'
    BY <1>1, <1>3 DEF RollbackXact, TypeOK, Granted
  <2>3. Guarded'
    BY <1>1, <1>3 DEF RollbackXact, TypeOK, Granted, Guarded
  <2>4. Stopped'
    BY <1>1, <1>3 DEF RollbackXact, TypeOK, Granted, Stopped, NoCommitAfterLoss
  <2>5. Decided'
    BY <1>1, <1>3 DEF RollbackXact, TypeOK, Granted, Guarded, Decided
  <2>6. Clean' /\ Recorded' /\ CommitsInTokenOrder'
    BY <1>1, <1>3 DEF RollbackXact, TypeOK, Granted, Clean, Recorded, CommitsInTokenOrder
  <2> QED BY <2>1, <2>2, <2>3, <2>4, <2>5, <2>6 DEF IInv
<1> QED BY <1>1, <1>2, <1>3 DEF RollbackXact, TypeOK

\* COMMIT is sent while the transaction has the advisory lock.
LEMMA SendCommitIInv ==
  ASSUME IInv, NEW c \in Callers, SendCommit(c)
  PROVE  IInv'
<1> USE BoundsAssumption, NullAssumption
    DEF IInv, Tokens, Pending, leaseState, callState, serverState, Goto, FreeLock
<1>1. token[c] \in Tokens /\ (\A d \in Callers : token[d] = token[c] => d = c)
  BY DEF SendCommit, TypeOK, Granted
<1>2. CASE txns[token[c]] = "failed" /\ txns' = [txns EXCEPT ![token[c]] = "rolledback"] /\ FreeLock(token[c])
  <2>1. TypeOK'
    BY <1>1, <1>2 DEF SendCommit, TypeOK
  <2>2. Granted'
    BY <1>1, <1>2 DEF SendCommit, TypeOK, Granted
  <2>3. Guarded'
    BY <1>1, <1>2 DEF SendCommit, TypeOK, Granted, Guarded
  <2>4. Stopped'
    BY <1>1, <1>2 DEF SendCommit, TypeOK, Granted, Stopped, NoCommitAfterLoss
  <2>5. Clean'
    BY <1>1, <1>2 DEF SendCommit, TypeOK, Granted, Clean
  <2>6. Decided'
    <3>1. \A u \in Tokens : txns'[u] \in {"open", "committing", "committed"} => txns'[u] = txns[u]
      BY <1>1, <1>2 DEF TypeOK
    <3>2. UNCHANGED token /\ \A d \in Callers : pc'[d] = "confirmed" => pc[d] = "confirmed"
      BY DEF SendCommit, TypeOK
    <3> QED BY <3>1, <3>2, DecidedKept
  <2>7. Recorded'
    <3>1. UNCHANGED commits /\ \A u \in Tokens : txns[u] = "committed" => txns'[u] = "committed"
      BY <1>1, <1>2 DEF SendCommit, TypeOK
    <3> QED BY <3>1, RecordedKept
  <2>8. CommitsInTokenOrder'
    BY <1>1, <1>2 DEF SendCommit, TypeOK, CommitsInTokenOrder
  <2> QED BY <2>1, <2>2, <2>3, <2>4, <2>5, <2>6, <2>7, <2>8 DEF IInv
<1>3. CASE txns[token[c]] = "open" /\ txns' = [txns EXCEPT ![token[c]] = "committing"] /\ UNCHANGED pgLock
  <2>1. TypeOK'
    BY <1>1, <1>3 DEF SendCommit, TypeOK
  <2>2. Granted'
    BY <1>1, <1>3 DEF SendCommit, TypeOK, Granted
  <2>3. Guarded'
    BY <1>1, <1>3 DEF SendCommit, TypeOK, Granted, Guarded
  <2>4. Stopped'
    BY <1>1, <1>3 DEF SendCommit, TypeOK, Granted, Stopped, NoCommitAfterLoss
  <2>5. Clean'
    BY <1>1, <1>3 DEF SendCommit, TypeOK, Granted, Clean
  <2>6. Decided'
    BY <1>1, <1>3, SMTT(20) DEF SendCommit, TypeOK, Granted, Guarded, Decided
  <2>7. Recorded'
    <3>1. UNCHANGED commits /\ \A u \in Tokens : txns[u] = "committed" => txns'[u] = "committed"
      BY <1>1, <1>3 DEF SendCommit, TypeOK
    <3> QED BY <3>1, RecordedKept
  <2>8. CommitsInTokenOrder'
    BY <1>1, <1>3 DEF SendCommit, TypeOK, CommitsInTokenOrder
  <2> QED BY <2>1, <2>2, <2>3, <2>4, <2>5, <2>6, <2>7, <2>8 DEF IInv
<1>4. CASE txns' = txns /\ txns[token[c]] \notin {"open", "failed"} /\ UNCHANGED pgLock
  <2>1. TypeOK'
    BY <1>1, <1>4 DEF SendCommit, TypeOK
  <2>2. Granted'
    BY <1>1, <1>4 DEF SendCommit, TypeOK, Granted
  <2>3. Guarded'
    BY <1>1, <1>4 DEF SendCommit, TypeOK, Granted, Guarded
  <2>4. Stopped'
    BY <1>1, <1>4 DEF SendCommit, TypeOK, Granted, Stopped, NoCommitAfterLoss
  <2>5. Decided'
    BY <1>1, <1>4 DEF SendCommit, TypeOK, Granted, Guarded, Decided
  <2>6. Clean' /\ Recorded' /\ CommitsInTokenOrder'
    BY <1>1, <1>4 DEF SendCommit, TypeOK, Granted, Clean, Recorded, CommitsInTokenOrder
  <2> QED BY <2>1, <2>2, <2>3, <2>4, <2>5, <2>6 DEF IInv
<1> QED BY <1>1, <1>2, <1>3, <1>4 DEF SendCommit, TypeOK

\* Only an ended transaction goes back to the pool.
LEMMA CommitAnsweredIInv ==
  ASSUME IInv, NEW c \in Callers, CommitAnswered(c)
  PROVE  IInv'
<1> USE BoundsAssumption, NullAssumption
    DEF IInv, Tokens, Pending, leaseState, callState, serverState, Goto
<1>1. token[c] \in Tokens /\ (\A d \in Callers : token[d] = token[c] => d = c)
  BY DEF CommitAnswered, TypeOK, Granted
<1>2. CASE pooled' = pooled \cup {token[c]} /\ txns[token[c]] \in {"committed", "rolledback"}
  <2>1. TypeOK'
    BY <1>1, <1>2 DEF CommitAnswered, TypeOK
  <2>2. Granted'
    BY <1>1, <1>2 DEF CommitAnswered, TypeOK, Granted
  <2>3. Guarded'
    BY <1>1, <1>2 DEF CommitAnswered, TypeOK, Granted, Guarded
  <2>4. Stopped'
    BY <1>1, <1>2 DEF CommitAnswered, TypeOK, Granted, Stopped, NoCommitAfterLoss
  <2>5. Clean'
    BY <1>1, <1>2 DEF CommitAnswered, TypeOK, Granted, Clean
  <2>6. Decided'
    BY <1>1, <1>2 DEF CommitAnswered, TypeOK, Granted, Guarded, Decided
  <2>7. Recorded' /\ CommitsInTokenOrder'
    BY <1>1, <1>2 DEF CommitAnswered, TypeOK, Recorded, CommitsInTokenOrder
  <2> QED BY <2>1, <2>2, <2>3, <2>4, <2>5, <2>6, <2>7 DEF IInv
<1>3. CASE UNCHANGED pooled
  <2>1. TypeOK'
    BY <1>1, <1>3 DEF CommitAnswered, TypeOK
  <2>2. Granted'
    BY <1>1, <1>3 DEF CommitAnswered, TypeOK, Granted
  <2>3. Guarded'
    BY <1>1, <1>3 DEF CommitAnswered, TypeOK, Granted, Guarded
  <2>4. Stopped'
    BY <1>1, <1>3 DEF CommitAnswered, TypeOK, Granted, Stopped, NoCommitAfterLoss
  <2>5. Decided'
    BY <1>1, <1>3 DEF CommitAnswered, TypeOK, Granted, Guarded, Decided
  <2>6. Clean' /\ Recorded' /\ CommitsInTokenOrder'
    BY <1>1, <1>3 DEF CommitAnswered, TypeOK, Granted, Clean, Recorded, CommitsInTokenOrder
  <2> QED BY <2>1, <2>2, <2>3, <2>4, <2>5, <2>6 DEF IInv
<1> QED BY <1>1, <1>2, <1>3 DEF CommitAnswered, TypeOK

\* A call that ends forgets its token.
LEMMA ReleaseLeaseIInv ==
  ASSUME IInv, NEW c \in Callers, ReleaseLease(c)
  PROVE  IInv'
<1> USE BoundsAssumption, NullAssumption
    DEF IInv, Tokens, Pending, leaseState, callState, serverState, Goto, Holds, Authority!Drop
<1>1. TypeOK'
  <2>1. token[c] \in Tokens
    BY DEF ReleaseLease, TypeOK, Granted
  <2>2. releases' \in [Tokens -> Nat]
    BY <2>1 DEF ReleaseLease, TypeOK
  <2>3. /\ owner' \in Callers \cup {NULL} /\ active' \in Tokens \cup {NULL}
        /\ minted' \in 0..MaxToken
    BY DEF ReleaseLease, TypeOK
  <2>4. /\ pc' = [pc EXCEPT ![c] = "idle"] /\ keeper' = [keeper EXCEPT ![c] = "off"]
        /\ token' = [token EXCEPT ![c] = NULL] /\ polls' = [polls EXCEPT ![c] = 0]
        /\ UNCHANGED <<txns, pgLock, commits, pooled>>
    BY DEF ReleaseLease
  <2>5. polls' \in [Callers -> 0..MaxPolls] /\ token' \in [Callers -> Tokens \cup {NULL}]
    BY <2>4 DEF TypeOK
  <2>6. /\ pc' \in [Callers -> {"idle", "begin", "lock", "lockSleep", "work", "stop", "unwind",
                               "final", "confirmed", "rollback", "commit", "release"}]
        /\ keeper' \in [Callers -> {"off", "sleep", "renewing", "renewed", "refused", "failed"}]
    BY <2>4 DEF TypeOK
  <2> QED BY <2>2, <2>3, <2>4, <2>5, <2>6 DEF TypeOK
<1>2. Granted'
  BY DEF ReleaseLease, TypeOK, Granted
<1>3. Guarded'
  BY DEF ReleaseLease, TypeOK, Granted, Guarded
<1>4. Stopped'
  BY DEF ReleaseLease, TypeOK, Granted, Stopped, NoCommitAfterLoss
<1>5. Decided'
  BY DEF ReleaseLease, TypeOK, Granted, Guarded, Decided
<1>6. Clean' /\ Recorded' /\ CommitsInTokenOrder'
  BY DEF ReleaseLease, TypeOK, Granted, Clean, Recorded, CommitsInTokenOrder
<1> QED BY <1>1, <1>2, <1>3, <1>4, <1>5, <1>6 DEF IInv

\* The maintainer wakes only before stop().
LEMMA KeeperWakesIInv ==
  ASSUME IInv, NEW c \in Callers, KeeperWakes(c)
  PROVE  IInv'
<1> USE BoundsAssumption, NullAssumption
    DEF IInv, Tokens, Pending, leaseState, callState, serverState, KeeperGoto
<1>1. TypeOK'
  BY DEF KeeperWakes, TypeOK
<1>2. Stopped'
  BY DEF KeeperWakes, TypeOK, Granted, Stopped, NoCommitAfterLoss
<1>3. Granted' /\ Guarded' /\ Clean' /\ Decided' /\ Recorded' /\ CommitsInTokenOrder'
  BY DEF KeeperWakes, TypeOK, Granted, Guarded, Clean, Decided, Recorded, CommitsInTokenOrder
<1> QED BY <1>1, <1>2, <1>3 DEF IInv

\* A renewal is served.
LEMMA KeeperServedIInv ==
  ASSUME IInv, NEW c \in Callers, KeeperServed(c)
  PROVE  IInv'
<1> USE BoundsAssumption, NullAssumption
    DEF IInv, Tokens, Pending, leaseState, callState, serverState, KeeperGoto
<1>1. TypeOK'
  BY DEF KeeperServed, TypeOK
<1>2. Stopped'
  BY DEF KeeperServed, TypeOK, Granted, Stopped, NoCommitAfterLoss
<1>3. Granted' /\ Guarded' /\ Clean' /\ Decided' /\ Recorded' /\ CommitsInTokenOrder'
  BY DEF KeeperServed, TypeOK, Granted, Guarded, Clean, Decided, Recorded, CommitsInTokenOrder
<1> QED BY <1>1, <1>2, <1>3 DEF IInv

\* A renewal fails only while the maintainer runs.
LEMMA KeeperAnsweredIInv ==
  ASSUME IInv, NEW c \in Callers, KeeperAnswered(c)
  PROVE  IInv'
<1> USE BoundsAssumption, NullAssumption
    DEF IInv, Tokens, Pending, leaseState, callState, serverState, KeeperGoto
<1>1. TypeOK'
  BY DEF KeeperAnswered, TypeOK
<1>2. Stopped'
  BY DEF KeeperAnswered, TypeOK, Granted, Stopped, NoCommitAfterLoss
<1>3. Granted' /\ Guarded' /\ Clean' /\ Decided' /\ Recorded' /\ CommitsInTokenOrder'
  BY DEF KeeperAnswered, TypeOK, Granted, Guarded, Clean, Decided, Recorded, CommitsInTokenOrder
<1> QED BY <1>1, <1>2, <1>3 DEF IInv

\* A crash leaves the server as it is.
LEMMA CrashIInv ==
  ASSUME IInv, NEW c \in Callers, Crash(c)
  PROVE  IInv'
<1> USE BoundsAssumption, NullAssumption
    DEF IInv, Tokens, Pending, leaseState, callState, serverState, Goto, KeeperGoto
<1>1. TypeOK'
  BY DEF Crash, TypeOK
<1>2. Granted'
  BY DEF Crash, TypeOK, Granted
<1>3. Guarded'
  BY DEF Crash, TypeOK, Granted, Guarded
<1>4. Stopped'
  BY DEF Crash, TypeOK, Granted, Stopped, NoCommitAfterLoss
<1>5. Decided'
  BY DEF Crash, TypeOK, Granted, Guarded, Decided
<1>6. Clean' /\ Recorded' /\ CommitsInTokenOrder'
  BY DEF Crash, TypeOK, Granted, Clean, Recorded, CommitsInTokenOrder
<1> QED BY <1>1, <1>2, <1>3, <1>4, <1>5, <1>6 DEF IInv

\* The server may end any transaction.
LEMMA ServerAbortsIInv ==
  ASSUME IInv, NEW t \in Tokens, ServerAborts(t)
  PROVE  IInv'
<1> USE BoundsAssumption, NullAssumption
    DEF IInv, Tokens, Pending, leaseState, callState, serverState, FreeLock
<1>1. TypeOK'
  BY DEF ServerAborts, TypeOK
<1>2. Granted'
  BY DEF ServerAborts, TypeOK, Granted
<1>3. Guarded'
  BY DEF ServerAborts, TypeOK, Granted, Guarded
<1>4. Stopped'
  BY DEF ServerAborts, TypeOK, Granted, Stopped, NoCommitAfterLoss
<1>5. Clean'
  BY DEF ServerAborts, TypeOK, Granted, Clean
<1>6. Decided'
  BY DEF ServerAborts, TypeOK, Granted, Guarded, Decided
<1>7. Recorded'
  <2>1. UNCHANGED commits /\ \A u \in Tokens : txns[u] = "committed" => txns'[u] = "committed"
    BY DEF ServerAborts, TypeOK
  <2> QED BY <2>1, RecordedKept
<1>8. CommitsInTokenOrder'
  BY DEF ServerAborts, TypeOK, CommitsInTokenOrder
<1> QED BY <1>1, <1>2, <1>3, <1>4, <1>5, <1>6, <1>7, <1>8 DEF IInv

\* The server commits the transaction that has the advisory lock, which is newer than all committed ones.
LEMMA ServerCommitsIInv ==
  ASSUME IInv, NEW t \in Tokens, ServerCommits(t)
  PROVE  IInv'
<1> USE BoundsAssumption, NullAssumption
    DEF IInv, Tokens, Pending, leaseState, callState, serverState, FreeLock
<1>1. TypeOK'
  BY DEF ServerCommits, TypeOK
<1>2. Granted'
  BY DEF ServerCommits, TypeOK, Granted
<1>3. Guarded'
  BY DEF ServerCommits, TypeOK, Granted, Guarded
<1>4. Stopped'
  BY DEF ServerCommits, TypeOK, Granted, Stopped, NoCommitAfterLoss
<1>5. Clean'
  BY DEF ServerCommits, TypeOK, Granted, Clean
<1>6. Decided'
  BY DEF ServerCommits, TypeOK, Granted, Guarded, Decided
<1>7. Recorded'
  <2>1. commits \in Seq(Tokens) /\ commits' = Append(commits, t)
    BY DEF ServerCommits, TypeOK
  <2>2. \A u \in Tokens : (u = t \/ txns[u] = "committed") => txns'[u] = "committed"
    BY DEF ServerCommits, TypeOK
  <2>3. /\ DOMAIN commits = 1..Len(commits) /\ DOMAIN commits' = 1..(Len(commits) + 1)
        /\ \A i \in 1..Len(commits) : commits'[i] = commits[i] /\ commits[i] \in Tokens
        /\ Len(commits) \in Nat /\ commits'[Len(commits) + 1] = t
    BY <2>1
  <2>4. \A i \in DOMAIN commits' : i \in DOMAIN commits \/ i = Len(commits) + 1
    BY <2>3
  <2> QED BY <2>2, <2>3, <2>4 DEF Recorded
<1>8. CommitsInTokenOrder'
  <2>1. commits \in Seq(Tokens) /\ commits' = Append(commits, t) /\ txns[t] = "committing"
    BY DEF ServerCommits, TypeOK
  <2>2. DOMAIN commits = 1..Len(commits) /\ DOMAIN commits' = 1..(Len(commits) + 1)
    BY <2>1
  <2>3. \A i \in 1..Len(commits) : commits'[i] = commits[i] /\ commits[i] \in Tokens
    BY <2>1
  <2>4. commits'[Len(commits) + 1] = t
    BY <2>1
  <2>5. \A i \in 1..Len(commits) : commits[i] < t
    BY <2>1, <2>2, <2>3 DEF Recorded, Decided
  <2>6. Len(commits) \in Nat
    BY <2>1
  <2> SUFFICES ASSUME NEW i \in 1..(Len(commits) + 1), NEW j \in 1..(Len(commits) + 1), i < j
               PROVE  commits'[i] < commits'[j]
    BY <2>2 DEF CommitsInTokenOrder
  <2>7. CASE j \in 1..Len(commits)
    BY <2>2, <2>3, <2>6, <2>7 DEF CommitsInTokenOrder
  <2>8. CASE j = Len(commits) + 1
    BY <2>3, <2>4, <2>5, <2>6, <2>8
  <2> QED BY <2>6, <2>7, <2>8
<1> QED BY <1>1, <1>2, <1>3, <1>4, <1>5, <1>6, <1>7, <1>8 DEF IInv

\* Expiry takes nothing from the server.
LEMMA ExpireIInv ==
  ASSUME IInv, Expire
  PROVE  IInv'
<1> USE BoundsAssumption, NullAssumption
    DEF IInv, Tokens, Pending, leaseState, callState, serverState, Authority!Drop
<1>1. TypeOK'
  BY DEF Expire, TypeOK
<1>2. Granted'
  BY DEF Expire, TypeOK, Granted
<1>3. Guarded' /\ Stopped' /\ Clean' /\ Decided' /\ Recorded' /\ CommitsInTokenOrder'
  BY DEF Expire, TypeOK, Granted, Guarded, Stopped, NoCommitAfterLoss, Clean, Decided, Recorded, CommitsInTokenOrder
<1> QED BY <1>1, <1>2, <1>3 DEF IInv

\* Every step of every caller, maintainer and of the server preserves IInv.
LEMMA NextIInv == IInv /\ [Next]_vars => IInv'
<1> SUFFICES ASSUME IInv, [Next]_vars PROVE IInv'
  OBVIOUS
<1>1. ASSUME NEW c \in Callers, NEW wait \in BOOLEAN, Acquire(c, wait) PROVE IInv'
  BY <1>1, AcquireIInv
<1>2. ASSUME NEW c \in Callers, AcquireMismatch(c) \/ AcquireMalformed(c) PROVE IInv'
  BY <1>2, AcquireMismatchIInv, AcquireMalformedIInv
<1>3. ASSUME NEW c \in Callers, CallStep(c) PROVE IInv'
  BY <1>3, BeginIInv, TryLockIInv, LockSleepEndsIInv, WorkEndsIInv, StopMaintainerIInv,
     FinalRenewalIInv, RollbackXactIInv, SendCommitIInv, CommitAnsweredIInv, ReleaseLeaseIInv
  DEF CallStep
<1>4. ASSUME NEW c \in Callers, KeeperStep(c) \/ Crash(c) PROVE IInv'
  BY <1>4, KeeperWakesIInv, KeeperServedIInv, KeeperAnsweredIInv, CrashIInv DEF KeeperStep
<1>5. ASSUME NEW t \in Tokens, ServerAborts(t) \/ ServerCommits(t) PROVE IInv'
  BY <1>5, ServerAbortsIInv, ServerCommitsIInv
<1>6. CASE Expire
  BY <1>6, ExpireIInv
<1>7. CASE UNCHANGED vars
  BY <1>7 DEF vars, leaseState, callState, serverState, IInv, TypeOK, Granted, Guarded, Stopped,
              NoCommitAfterLoss, Clean, Decided, Recorded, CommitsInTokenOrder
<1> QED BY <1>1, <1>2, <1>3, <1>4, <1>5, <1>6, <1>7 DEF Next

\* The inductive invariant of the maintained transaction lock.
THEOREM MaintainedInvariant == Spec => []IInv
<1> QED BY InitIInv, NextIInv, PTL DEF Spec

\* Type correctness of callers, maintainers, server and history.
THEOREM MaintainedTypeCorrect == Spec => []TypeOK
<1>1. IInv => TypeOK
  BY DEF IInv
<1> QED BY <1>1, MaintainedInvariant, PTL

\* runMaintainedTransaction commits in the order of the fencing tokens, although
\* the lease may end between the final renewal and COMMIT.
THEOREM CommitsFollowTokens == Spec => []CommitsInTokenOrder
<1>1. IInv => CommitsInTokenOrder
  BY DEF IInv
<1> QED BY <1>1, MaintainedInvariant, PTL

\* A call whose maintainer failed, however late, never commits.
THEOREM LossPreventsCommit == Spec => []NoCommitAfterLoss
<1>1. IInv => NoCommitAfterLoss
  BY DEF IInv, Stopped
<1> QED BY <1>1, MaintainedInvariant, PTL

\* client.release(false) only ever returns a connection that has no open
\* transaction and no advisory lock.
THEOREM PoolStaysClean == Spec => []PoolIsClean
<1>1. IInv => PoolIsClean
  <2> SUFFICES ASSUME IInv, NEW t \in pooled PROVE txns[t] \notin Pending /\ pgLock # t
    BY DEF PoolIsClean
  <2>1. t \in Tokens /\ t # NULL
    BY NullAssumption, BoundsAssumption DEF IInv, TypeOK, Tokens
  <2>2. txns[t] \notin Pending
    BY DEF IInv, Clean, Pending
  <2> QED BY <2>1, <2>2 DEF IInv, Clean
<1> QED BY <1>1, MaintainedInvariant, PTL

\* A call that is under way has not released its grant, and neither has anybody
\* released one that is still to be minted.
Unreleased ==
    /\ \A c \in Callers : token[c] # NULL => releases[token[c]] = 0
    /\ \A t \in Tokens : t > minted => releases[t] = 0

\* Every step but a release leaves the count of releases alone; a grant takes the
\* next token, every other step keeps the tokens of the calls or forgets them.
Mints == minted' = minted + 1 /\ \A c \in Callers : token'[c] \in {token[c], minted + 1}
Keeps == minted' = minted /\ \A c \in Callers : token'[c] \in {token[c], NULL}

\* The steps of calls, maintainers and server as the release sees them.
LEMMA QuietStep ==
  ASSUME IInv, [Next]_vars, \A c \in Callers : ~ReleaseLease(c)
  PROVE  UNCHANGED releases /\ (Mints \/ Keeps)
<1> USE DEF leaseState, callState, serverState, IInv, TypeOK
<1>1. ASSUME NEW c \in Callers, NEW wait \in BOOLEAN, Acquire(c, wait) PROVE UNCHANGED releases /\ Mints
  BY <1>1 DEF Acquire, Authority!Grant, Mints
<1>2. ASSUME NEW c \in Callers, AcquireMismatch(c) \/ AcquireMalformed(c) PROVE UNCHANGED releases /\ Mints
  BY <1>2 DEF AcquireMismatch, AcquireMalformed, Authority!Grant, Mints
<1>3. ASSUME NEW c \in Callers, CallStep(c) PROVE UNCHANGED releases /\ Keeps
  BY <1>3 DEF CallStep, Begin, TryLock, LockSleepEnds, WorkEnds, StopMaintainer, FinalRenewal, RollbackXact,
              SendCommit, CommitAnswered, Keeps
<1>4. ASSUME NEW c \in Callers, KeeperStep(c) \/ Crash(c) PROVE UNCHANGED releases /\ Keeps
  BY <1>4 DEF KeeperStep, KeeperWakes, KeeperServed, KeeperAnswered, Crash, Keeps
<1>5. ASSUME NEW t \in Tokens, ServerAborts(t) \/ ServerCommits(t) PROVE UNCHANGED releases /\ Keeps
  BY <1>5 DEF ServerAborts, ServerCommits, Keeps
<1>6. CASE Expire
  BY <1>6 DEF Expire, Authority!Drop, Keeps
<1>7. CASE UNCHANGED vars
  BY <1>7 DEF vars, Keeps
<1> QED BY <1>1, <1>2, <1>3, <1>4, <1>5, <1>6, <1>7 DEF Next

\* No step releases the grant of a call that goes on.
LEMMA UnreleasedStep == IInv /\ Unreleased /\ [Next]_vars => Unreleased'
<1> SUFFICES ASSUME IInv, Unreleased, [Next]_vars PROVE Unreleased'
  OBVIOUS
<1> USE BoundsAssumption, NullAssumption DEF Tokens
<1>1. CASE \A c \in Callers : ~ReleaseLease(c)
  <2>1. UNCHANGED releases /\ (Mints \/ Keeps)
    BY <1>1, QuietStep
  <2>2. minted \in 0..MaxToken /\ minted' \in 0..MaxToken /\ token' \in [Callers -> Tokens \cup {NULL}]
    BY NextIInv DEF IInv, TypeOK
  <2>3. CASE Mints
    BY <2>1, <2>2, <2>3 DEF Mints, Unreleased
  <2>4. CASE Keeps
    BY <2>1, <2>2, <2>4 DEF Keeps, Unreleased
  <2> QED BY <2>1, <2>3, <2>4
<1>2. ASSUME NEW c \in Callers, ReleaseLease(c) PROVE Unreleased'
  <2> USE <1>2 DEF ReleaseLease, leaseState, Authority!Drop
  <2>1. /\ token[c] \in Tokens /\ token[c] <= minted /\ minted' = minted /\ minted \in Nat
        /\ releases \in [Tokens -> Nat] /\ token \in [Callers -> Tokens \cup {NULL}]
        /\ releases' = [releases EXCEPT ![token[c]] = @ + 1] /\ token' = [token EXCEPT ![c] = NULL]
        /\ \A d \in Callers : token[d] = token[c] => d = c
    BY DEF IInv, TypeOK, Granted
  <2>2. \A t \in Tokens : t # token[c] => releases'[t] = releases[t]
    BY <2>1
  <2> QED BY <2>1, <2>2 DEF Unreleased
<1> QED BY <1>1, <1>2

OnceStep ==
    \A c \in Callers :
        (pc[c] # "idle" /\ pc'[c] = "idle" /\ ~Crash(c)) =>
            /\ releases[token[c]] = 0
            /\ releases'[token[c]] = 1

\* settle() calls lease.release exactly once for a grant: a call that returns
\* without crashing had not released before, and has then.
THEOREM ReleaseHappensOnce == Spec => ReleasedOnce
<1>1. Init => Unreleased
  BY NullAssumption DEF Init, Unreleased
<1>2. IInv /\ Unreleased /\ [Next]_vars => [OnceStep]_vars
  <2> SUFFICES ASSUME IInv, Unreleased, Next, NEW c \in Callers, pc[c] # "idle", pc'[c] = "idle", ~Crash(c)
               PROVE  releases[token[c]] = 0 /\ releases'[token[c]] = 1
    BY DEF OnceStep
  <2> USE DEF leaseState, callState, serverState, Goto, Fails
  <2>1. ReleaseLease(c)
    <3>1. ASSUME NEW d \in Callers, NEW wait \in BOOLEAN, Acquire(d, wait) PROVE FALSE
      BY <3>1 DEF Acquire, IInv, TypeOK
    <3>2. ASSUME NEW d \in Callers, AcquireMismatch(d) \/ AcquireMalformed(d) PROVE FALSE
      BY <3>2 DEF AcquireMismatch, AcquireMalformed, IInv, TypeOK
    <3>3. ASSUME NEW d \in Callers, CallStep(d) PROVE ReleaseLease(c)
      <4>1. CASE d # c
        BY <3>3, <4>1 DEF CallStep, Begin, TryLock, LockSleepEnds, WorkEnds, StopMaintainer, FinalRenewal,
                          RollbackXact, SendCommit, CommitAnswered, ReleaseLease, IInv, TypeOK
      <4>2. CASE d = c
        BY <3>3, <4>2 DEF CallStep, Begin, TryLock, LockSleepEnds, WorkEnds, StopMaintainer, FinalRenewal,
                          RollbackXact, SendCommit, CommitAnswered, IInv, TypeOK
      <4> QED BY <4>1, <4>2
    <3>4. ASSUME NEW d \in Callers, KeeperStep(d) PROVE FALSE
      BY <3>4 DEF KeeperStep, KeeperWakes, KeeperServed, KeeperAnswered
    <3>5. ASSUME NEW d \in Callers, Crash(d) PROVE FALSE
      <4>1. d # c
        BY <3>5
      <4> QED BY <3>5, <4>1 DEF Crash, IInv, TypeOK
    <3>6. ASSUME NEW t \in Tokens, ServerAborts(t) \/ ServerCommits(t) PROVE FALSE
      BY <3>6 DEF ServerAborts, ServerCommits
    <3>7. CASE Expire
      BY <3>7 DEF Expire
    <3> QED BY <3>1, <3>2, <3>3, <3>4, <3>5, <3>6, <3>7 DEF Next
  <2>2. token[c] # NULL /\ token[c] \in Tokens /\ releases[token[c]] = 0
    BY DEF IInv, TypeOK, Granted, Unreleased
  <2> QED BY <2>1, <2>2 DEF ReleaseLease, IInv, TypeOK
<1> QED BY <1>1, <1>2, UnreleasedStep, MaintainedInvariant, PTL DEF Spec, ReleasedOnce, OnceStep

-----------------------------------------------------------------------------
(* The executable model of one call.                                       *)

\* The fields of the record the executable model walks.
OracleFields ==
    {"phase", "acquired", "begun", "locked", "workCompleted", "finalRenewAttempted", "finalRenewed",
     "commitAttempted", "committed", "rollbackAttempted", "rolledBack", "releaseAttempts", "released",
     "authorityLive", "authorityLost", "authorityLostBeforeCommit", "periodicRenewals",
     "contentionRetries", "primaryFailure", "failures", "result"}

\* Those that are Boolean.
OracleFlags ==
    {"acquired", "begun", "locked", "workCompleted", "finalRenewAttempted", "finalRenewed",
     "commitAttempted", "committed", "rollbackAttempted", "rolledBack", "released",
     "authorityLive", "authorityLost", "authorityLostBeforeCommit"}

\* A record with these fields, the flags Boolean.
OracleRecord(x) ==
    /\ x = [k \in OracleFields |-> x[k]]
    /\ \A k \in OracleFlags : x[k] \in BOOLEAN
    /\ \E S : x.failures \in Seq(S)


\* The failure the caller is told of: one of those recorded, and the last cleanup
\* failure if there is one.
Told(x) ==
    /\ x.primaryFailure # NULL => \E i \in DOMAIN x.failures : x.failures[i] = x.primaryFailure
    /\ \A i \in DOMAIN x.failures : Oracle!LastCleanup(x.failures, i) => x.primaryFailure = x.failures[i]

\* How far the call is, by phase.
Forward(x) ==
    /\ x.phase \in {"begin", "lock", "work", "final_renew", "commit"} =>
        /\ x.acquired /\ ~x.authorityLost /\ ~x.authorityLostBeforeCommit
        /\ ~x.commitAttempted /\ ~x.committed /\ ~x.rollbackAttempted /\ ~x.rolledBack
        /\ x.primaryFailure = NULL /\ x.failures = <<>>
    /\ x.phase \in {"lock", "work", "final_renew", "commit"} => x.begun
    /\ x.phase \in {"work", "final_renew", "commit"} => x.locked
    /\ x.phase \in {"final_renew", "commit"} => x.workCompleted
    /\ x.phase = "commit" /\ requireFinalRenewal => x.finalRenewAttempted /\ x.finalRenewed
    /\ x.phase = "rollback" => ~x.commitAttempted /\ ~x.committed /\ ~x.rollbackAttempted /\ ~x.rolledBack
    /\ x.committed => x.commitAttempted
    /\ x.phase # "done" => x.releaseAttempts = 0 /\ x.result = NULL
    /\ x.phase \notin {"acquire", "done"} => x.acquired
    /\ ~x.acquired => x.releaseAttempts = 0 /\ ~x.committed

\* The inductive invariant of a state past acquire.
Good(x) == OracleRecord(x) /\ x.phase # "acquire" /\ Forward(x) /\ Told(x) /\ Oracle!assertState(x)

\* Recording a failure keeps the two promises about the primary one.
LEMMA RecordTold ==
  ASSUME NEW x, OracleRecord(x), Told(x), NEW code
  PROVE  LET y == Oracle!recordFailure(x, code) IN
         /\ OracleRecord(y) /\ Told(y)
         /\ \A k \in OracleFields \ {"failures", "primaryFailure"} : y[k] = x[k]
         /\ y.primaryFailure # NULL \/ code = NULL
<1> DEFINE f == Append(x.failures, code)
           p == IF code \in Oracle!CLEANUP_FAILURES \/ x.primaryFailure = NULL THEN code ELSE x.primaryFailure
           x1 == [x EXCEPT !.failures = f]
           y == [x1 EXCEPT !.primaryFailure = p]
<1>1. Oracle!recordFailure(x, code) = y
  BY DEF OracleRecord, OracleFields, Oracle!recordFailure
<1>2. PICK S : x.failures \in Seq(S)
  BY DEF OracleRecord
<1>3. /\ f \in Seq(S \cup {code}) /\ Len(f) = Len(x.failures) + 1 /\ DOMAIN f = 1..Len(f)
      /\ Len(x.failures) \in Nat /\ DOMAIN x.failures = 1..Len(x.failures)
      /\ \A i \in DOMAIN x.failures : f[i] = x.failures[i]
      /\ f[Len(f)] = code
  <2>1. x.failures \in Seq(S \cup {code})
    BY <1>2
  <2> QED BY <2>1
<1> HIDE DEF f, p
<1>4. OracleRecord(x1) /\ x1.failures = f /\ \A k \in OracleFields \ {"failures"} : x1[k] = x[k]
  BY <1>3 DEF OracleRecord, OracleFields, OracleFlags
<1> HIDE DEF x1
<1>5. OracleRecord(y) /\ y.primaryFailure = p /\ y.failures = f
      /\ \A k \in OracleFields \ {"failures", "primaryFailure"} : y[k] = x[k]
  BY <1>4 DEF OracleRecord, OracleFields, OracleFlags
<1> HIDE DEF y
<1>6. p # NULL => \E i \in DOMAIN f : f[i] = p
  <2>1. CASE code \in Oracle!CLEANUP_FAILURES \/ x.primaryFailure = NULL
    BY <2>1, <1>3 DEF p
  <2>2. CASE ~(code \in Oracle!CLEANUP_FAILURES \/ x.primaryFailure = NULL)
    BY <2>2, <1>3 DEF p, Told
  <2> QED BY <2>1, <2>2
<1>7. ASSUME NEW i \in DOMAIN f, Oracle!LastCleanup(f, i) PROVE p = f[i]
  <2>1. CASE i = Len(f)
    BY <2>1, <1>7, <1>3 DEF p, Oracle!LastCleanup
  <2>2. CASE i # Len(f)
    <3>1. i \in DOMAIN x.failures /\ code \notin Oracle!CLEANUP_FAILURES
      BY <2>2, <1>7, <1>3 DEF Oracle!LastCleanup
    <3>2. Oracle!LastCleanup(x.failures, i)
      <4>1. \A j \in (i + 1)..Len(x.failures) : j \in (i + 1)..Len(f) /\ f[j] = x.failures[j]
        BY <3>1, <1>3
      <4>2. f[i] = x.failures[i]
        BY <3>1, <1>3
      <4> QED BY <1>7, <4>1, <4>2 DEF Oracle!LastCleanup
    <3>3. x.primaryFailure = f[i] /\ f[i] # NULL
      BY <3>1, <3>2, <1>3, OracleAssumption DEF Told, Oracle!LastCleanup
    <3> QED BY <3>1, <3>3 DEF p
  <2> QED BY <2>1, <2>2
<1>8. Told(y)
  BY <1>5, <1>6, <1>7 DEF Told
<1>9. p # NULL \/ code = NULL
  BY DEF p
<1> QED BY <1>1, <1>5, <1>8, <1>9

\* What a recorded failure leaves of the invariant, in the phases that end a call.
LEMMA RecordKeeps ==
  ASSUME NEW x, OracleRecord(x), Forward(x), Told(x), Oracle!assertState(x), NEW code,
         x.phase \in {"rollback", "release", "done"}, x.result # "success"
  PROVE  LET y == Oracle!recordFailure(x, code) IN
         OracleRecord(y) /\ y.phase = x.phase /\ Forward(y) /\ Told(y) /\ Oracle!assertState(y)
<1> DEFINE y == Oracle!recordFailure(x, code)
<1>1. OracleRecord(y) /\ Told(y) /\ \A k \in OracleFields \ {"failures", "primaryFailure"} : y[k] = x[k]
  BY RecordTold
<1> HIDE DEF y
<1>2. y.phase = x.phase
  BY <1>1 DEF OracleFields
<1>3. Forward(y)
  BY <1>1 DEF OracleFields, Forward
<1>4. Oracle!assertState(y)
  BY <1>1 DEF OracleFields, Oracle!assertState, Told
<1> QED BY <1>1, <1>2, <1>3, <1>4 DEF y

\* The first state satisfies every part of it.
LEMMA InitialGood ==
  LET x == Oracle!initialState IN OracleRecord(x) /\ Forward(x) /\ Told(x) /\ Oracle!assertState(x)
<1> DEFINE x == Oracle!initialState
<1>1. x.failures = <<>> /\ x.failures \in Seq({}) /\ DOMAIN x.failures = {}
  BY DEF Oracle!initialState
<1>2. OracleRecord(x)
  BY <1>1 DEF OracleRecord, OracleFields, OracleFlags, Oracle!initialState
<1>3. Told(x)
  BY <1>1 DEF Told, Oracle!initialState
<1>4. Forward(x)
  BY DEF Forward, Oracle!initialState
<1>5. Oracle!assertState(x)
  BY <1>1, OracleAssumption DEF Oracle!assertState, Oracle!initialState
<1> QED BY <1>2, <1>3, <1>4, <1>5

\* A grant begins the call; a refusal ends it with nothing held.
LEMMA AcquireGood ==
  ASSUME NEW y \in Oracle!acquirePhase(Oracle!initialState)
  PROVE  Good(y)
<1> DEFINE x == Oracle!initialState
<1>0. /\ OracleRecord(x) /\ Told(x) /\ Oracle!assertState(x) /\ Forward(x)
  BY InitialGood
<1>1. CASE y = Oracle!To([x EXCEPT !.acquired = TRUE, !.authorityLive = TRUE], "begin")
  <2>1. OracleRecord(y) /\ y.phase = "begin" /\ y.acquired /\ y.authorityLive
        /\ \A k \in OracleFields \ {"phase", "acquired", "authorityLive"} : y[k] = x[k]
    BY <1>0, <1>1 DEF OracleRecord, OracleFields, OracleFlags, Oracle!To
  <2>2. \A k \in OracleFlags : ~x[k]
    BY DEF OracleFlags, Oracle!initialState
  <2>3. x.failures = <<>> /\ x.primaryFailure = NULL /\ x.releaseAttempts = 0 /\ x.result = NULL
    BY DEF Oracle!initialState
  <2> HIDE DEF x
  <2>4. Told(y)
    BY <2>1, <1>0 DEF OracleFields, Told
  <2>5. Forward(y)
    BY <2>1, <2>2, <2>3 DEF OracleFields, OracleFlags, Forward
  <2>6. Oracle!assertState(y)
    BY <2>1, <2>2, <2>3, <2>4, OracleAssumption DEF OracleFields, OracleFlags, Oracle!assertState, Told
  <2> QED BY <2>1, <2>4, <2>5, <2>6 DEF Good
<1>2. CASE y = Oracle!recordFailure(Oracle!To([x EXCEPT !.result = "error"], "done"), "fiducia.acquire_failed")
  <2> DEFINE z == Oracle!To([x EXCEPT !.result = "error"], "done")
  <2>1. OracleRecord(z) /\ z.phase = "done" /\ z.result = "error"
        /\ \A k \in OracleFields \ {"phase", "result"} : z[k] = x[k]
    BY <1>0 DEF OracleRecord, OracleFields, OracleFlags, Oracle!To
  <2>2. \A k \in OracleFlags : ~x[k]
    BY DEF OracleFlags, Oracle!initialState
  <2>3. x.failures = <<>> /\ x.primaryFailure = NULL /\ x.releaseAttempts = 0
    BY DEF Oracle!initialState
  <2> HIDE DEF x, z
  <2>4. Told(z)
    BY <2>1, <1>0 DEF OracleFields, Told
  <2>5. Forward(z)
    BY <2>1, <2>2, <2>3 DEF OracleFields, OracleFlags, Forward
  <2>6. Oracle!assertState(z)
    BY <2>1, <2>2, <2>3, <2>4 DEF OracleFields, OracleFlags, Oracle!assertState, Told
  <2> QED BY <2>1, <2>4, <2>5, <2>6, <1>2, RecordKeeps DEF Good, z
<1> QED BY <1>1, <1>2 DEF Oracle!acquirePhase

\* Losing the lease before COMMIT, on the way to rollback or release.
LEMMA LoseGood ==
  ASSUME NEW x, Good(x), x.phase \in {"begin", "lock", "work", "final_renew"}, NEW code,
         NEW undo \in {"rollback", "release"}
  PROVE  Good(Oracle!To(Oracle!loseAuthority(x, code), undo))
<1> DEFINE x1 == [x EXCEPT !.authorityLive = FALSE]
           x2 == [x1 EXCEPT !.authorityLost = TRUE]
           x3 == [x2 EXCEPT !.authorityLostBeforeCommit = ~x.commitAttempted /\ ~x.committed]
           z == Oracle!recordFailure(x3, code)
           y == Oracle!To(z, undo)
<1>0. OracleRecord(x) /\ Forward(x) /\ Told(x) /\ Oracle!assertState(x)
  BY DEF Good
<1>1. OracleRecord(x1) /\ ~x1.authorityLive
      /\ \A k \in OracleFields \ {"authorityLive"} : x1[k] = x[k]
  BY <1>0 DEF OracleRecord, OracleFields, OracleFlags
<1>2. Oracle!loseAuthority(x, code) = z
  BY <1>0 DEF Oracle!loseAuthority, OracleRecord, OracleFields
<1> HIDE DEF x1
<1>3. OracleRecord(x2) /\ ~x2.authorityLive /\ x2.authorityLost
      /\ \A k \in OracleFields \ {"authorityLive", "authorityLost"} : x2[k] = x[k]
  BY <1>1 DEF OracleRecord, OracleFields, OracleFlags
<1> HIDE DEF x2
<1>4. (~x.commitAttempted /\ ~x.committed) \in BOOLEAN
  OBVIOUS
<1>5. OracleRecord(x3) /\ ~x3.authorityLive /\ x3.authorityLost
      /\ \A k \in OracleFields \ {"authorityLive", "authorityLost", "authorityLostBeforeCommit"} : x3[k] = x[k]
  BY <1>3, <1>4 DEF OracleRecord, OracleFields, OracleFlags
<1> HIDE DEF x3
<1>6. Told(x3)
  BY <1>5, <1>0 DEF OracleFields, Told
<1>7. OracleRecord(z) /\ Told(z) /\ \A k \in OracleFields \ {"failures", "primaryFailure"} : z[k] = x3[k]
  BY <1>5, <1>6, RecordTold
<1> HIDE DEF z
<1>8. OracleRecord(y) /\ y.phase = undo /\ \A k \in OracleFields \ {"phase"} : y[k] = z[k]
  BY <1>7 DEF OracleRecord, OracleFields, OracleFlags, Oracle!To
<1> HIDE DEF y
<1>9. /\ ~y.authorityLive /\ y.authorityLost
      /\ \A k \in OracleFields \ {"failures", "primaryFailure", "phase", "authorityLive", "authorityLost",
                                  "authorityLostBeforeCommit"} : y[k] = x[k]
  BY <1>5, <1>7, <1>8 DEF OracleFields
<1>10. Told(y)
  BY <1>7, <1>8 DEF OracleFields, Told
<1>11. Forward(y)
  BY <1>0, <1>8, <1>9 DEF OracleFields, Forward
<1>12. Oracle!assertState(y)
  BY <1>0, <1>8, <1>9, <1>10, OracleAssumption DEF OracleFields, Oracle!assertState, Told, Forward
<1> QED BY <1>2, <1>8, <1>10, <1>11, <1>12 DEF Good, y

\* A failure before COMMIT, on the way to rollback or release.
LEMMA FailGood ==
  ASSUME NEW x, Good(x), x.phase \in {"begin", "lock", "work"}, NEW code,
         NEW undo \in {"rollback", "release"}
  PROVE  Good(Oracle!recordFailure(Oracle!To(x, undo), code))
<1> DEFINE z == Oracle!To(x, undo)
<1>0. OracleRecord(x) /\ Forward(x) /\ Told(x) /\ Oracle!assertState(x)
  BY DEF Good
<1>1. OracleRecord(z) /\ z.phase = undo /\ \A k \in OracleFields \ {"phase"} : z[k] = x[k]
  BY <1>0 DEF OracleRecord, OracleFields, OracleFlags, Oracle!To
<1> HIDE DEF z
<1>2. Told(z)
  BY <1>0, <1>1 DEF OracleFields, Told
<1>3. Forward(z)
  BY <1>0, <1>1 DEF OracleFields, Forward
<1>4. Oracle!assertState(z) /\ z.result # "success"
  BY <1>0, <1>1, <1>2, OracleAssumption DEF OracleFields, Oracle!assertState, Told, Forward
<1> QED BY <1>1, <1>2, <1>3, <1>4, RecordKeeps DEF Good, z

\* A counter of the exploration says nothing of the call.
LEMMA CountGood ==
  ASSUME NEW x, Good(x), NEW k \in {"periodicRenewals", "contentionRetries"}, NEW v
  PROVE  Good([x EXCEPT ![k] = v])
<1> DEFINE y == [x EXCEPT ![k] = v]
<1>0. OracleRecord(x) /\ x.phase # "acquire" /\ Forward(x) /\ Told(x) /\ Oracle!assertState(x)
  BY DEF Good
<1>1. OracleRecord(y) /\ \A f \in OracleFields \ {k} : y[f] = x[f]
  BY <1>0 DEF OracleRecord, OracleFields, OracleFlags
<1> HIDE DEF y
<1>2. \A f \in OracleFields \ {"periodicRenewals", "contentionRetries"} : y[f] = x[f]
  BY <1>1
<1>3. Told(y) /\ Forward(y) /\ y.phase # "acquire"
  BY <1>0, <1>2 DEF OracleFields, Told, Forward
<1>4. Oracle!assertState(y)
  BY <1>0, <1>2 DEF OracleFields, Oracle!assertState
<1> QED BY <1>1, <1>3, <1>4 DEF Good, y

\* The periodic renewal beside the phases before the final one.
LEMMA RenewalGood ==
  ASSUME NEW x, Good(x), x.phase \in {"begin", "lock", "work"}, NEW undo \in {"rollback", "release"},
         NEW y \in Oracle!periodicRenewal(x, undo)
  PROVE  Good(y)
<1>1. CASE \E code : y = Oracle!To(Oracle!loseAuthority(x, code), undo)
  BY <1>1, LoseGood
<1>2. CASE y = [x EXCEPT !.periodicRenewals = @ + 1]
  <2>1. \A v : Good([x EXCEPT !["periodicRenewals"] = v])
    BY CountGood
  <2> QED BY <1>2, <2>1
<1> QED BY <1>1, <1>2 DEF Oracle!periodicRenewal

\* A step forward sets one flag and the phase.
LEMMA ForwardGood ==
  ASSUME NEW x, Good(x), NEW k \in {"begun", "locked", "workCompleted"}, NEW next,
         \/ x.phase = "begin" /\ k = "begun" /\ next = "lock"
         \/ x.phase = "lock" /\ k = "locked" /\ next = "work"
         \/ x.phase = "work" /\ k = "workCompleted" /\ next = "final_renew"
         \/ x.phase = "work" /\ k = "workCompleted" /\ next = "commit" /\ ~requireFinalRenewal
  PROVE  Good(Oracle!To([x EXCEPT ![k] = TRUE], next))
<1> DEFINE z == [x EXCEPT ![k] = TRUE]
           y == Oracle!To(z, next)
<1>0. OracleRecord(x) /\ x.phase # "acquire" /\ Forward(x) /\ Told(x) /\ Oracle!assertState(x)
  BY DEF Good
<1>1. OracleRecord(z) /\ z[k] = TRUE /\ \A f \in OracleFields \ {k} : z[f] = x[f]
  BY <1>0 DEF OracleRecord, OracleFields, OracleFlags
<1> HIDE DEF z
<1>2. OracleRecord(y) /\ y.phase = next /\ \A f \in OracleFields \ {"phase"} : y[f] = z[f]
  BY <1>1 DEF OracleRecord, OracleFields, OracleFlags, Oracle!To
<1> HIDE DEF y
<1>3. y[k] = TRUE /\ \A f \in OracleFields \ {k, "phase"} : y[f] = x[f]
  BY <1>1, <1>2 DEF OracleFields
<1>a. CASE x.phase = "begin" /\ k = "begun" /\ next = "lock"
  <2>1. y.phase = "lock" /\ y.begun /\ \A f \in OracleFields \ {"begun", "phase"} : y[f] = x[f]
    BY <1>a, <1>2, <1>3
  <2>2. Told(y)
    BY <1>0, <2>1 DEF OracleFields, Told
  <2>3. Forward(y)
    BY <1>a, <1>0, <2>1 DEF OracleFields, Forward
  <2>4. Oracle!assertState(y)
    BY <1>a, <1>0, <2>1, <2>2, OracleAssumption DEF OracleFields, Oracle!assertState, Told, Forward
  <2>5. Good(y)
    BY <1>2, <2>1, <2>2, <2>3, <2>4 DEF Good
  <2> QED BY <2>5 DEF y, z
<1>b. CASE x.phase = "lock" /\ k = "locked" /\ next = "work"
  <2>1. y.phase = "work" /\ y.locked /\ \A f \in OracleFields \ {"locked", "phase"} : y[f] = x[f]
    BY <1>b, <1>2, <1>3
  <2>2. Told(y)
    BY <1>0, <2>1 DEF OracleFields, Told
  <2>3. Forward(y)
    BY <1>b, <1>0, <2>1 DEF OracleFields, Forward
  <2>4. Oracle!assertState(y)
    BY <1>b, <1>0, <2>1, <2>2, OracleAssumption DEF OracleFields, Oracle!assertState, Told, Forward
  <2>5. Good(y)
    BY <1>2, <2>1, <2>2, <2>3, <2>4 DEF Good
  <2> QED BY <2>5 DEF y, z
<1>c. CASE /\ x.phase = "work" /\ k = "workCompleted"
           /\ next = "final_renew" \/ (next = "commit" /\ ~requireFinalRenewal)
  <2>1. y.workCompleted /\ \A f \in OracleFields \ {"workCompleted", "phase"} : y[f] = x[f]
    BY <1>c, <1>2, <1>3
  <2>2. Told(y)
    BY <1>0, <2>1 DEF OracleFields, Told
  <2>3. Forward(y)
    BY <1>c, <1>0, <1>2, <2>1 DEF OracleFields, Forward
  <2>4. Oracle!assertState(y)
    BY <1>c, <1>0, <1>2, <2>1, <2>2, OracleAssumption DEF OracleFields, Oracle!assertState, Told, Forward
  <2>5. Good(y)
    BY <1>c, <1>2, <2>1, <2>2, <2>3, <2>4 DEF Good
  <2> QED BY <2>5 DEF y, z
<1> QED BY <1>a, <1>b, <1>c

\* BEGIN, its failure, or a renewal beside it.
LEMMA BeginGood ==
  ASSUME NEW x, Good(x), x.phase = "begin", NEW y \in Oracle!beginPhase(x)
  PROVE  Good(y)
<1>1. CASE y = Oracle!To([x EXCEPT !.begun = TRUE], "lock")
  <2>1. Good(Oracle!To([x EXCEPT !["begun"] = TRUE], "lock"))
    BY ForwardGood
  <2> QED BY <1>1, <2>1
<1>2. CASE y = Oracle!recordFailure(Oracle!To(x, "release"), "pg.begin_failed")
  BY <1>2, FailGood
<1>3. CASE y \in Oracle!periodicRenewal(x, "release")
  BY <1>3, RenewalGood
<1> QED BY <1>1, <1>2, <1>3 DEF Oracle!beginPhase

\* The advisory lock, its failure, its contention, or a renewal beside it.
LEMMA LockGood ==
  ASSUME NEW x, Good(x), x.phase = "lock", NEW y \in Oracle!lockPhase(x)
  PROVE  Good(y)
<1>1. CASE y = Oracle!To([x EXCEPT !.locked = TRUE], "work")
  <2>1. Good(Oracle!To([x EXCEPT !["locked"] = TRUE], "work"))
    BY ForwardGood
  <2> QED BY <1>1, <2>1
<1>2. CASE \E code : y = Oracle!recordFailure(Oracle!To(x, "rollback"), code)
  BY <1>2, FailGood
<1>3. CASE y = [x EXCEPT !.contentionRetries = @ + 1]
  <2>1. \A v : Good([x EXCEPT !["contentionRetries"] = v])
    BY CountGood
  <2> QED BY <1>3, <2>1
<1>4. CASE y \in Oracle!periodicRenewal(x, "rollback")
  BY <1>4, RenewalGood
<1> QED BY <1>1, <1>2, <1>3, <1>4 DEF Oracle!lockPhase

\* The work ends, fails, or loses the lease meanwhile.
LEMMA WorkGood ==
  ASSUME NEW x, Good(x), x.phase = "work", NEW y \in Oracle!workPhase(x)
  PROVE  Good(y)
<1>1. CASE y = Oracle!To([x EXCEPT !.workCompleted = TRUE], IF requireFinalRenewal THEN "final_renew" ELSE "commit")
  <2> DEFINE next == IF requireFinalRenewal THEN "final_renew" ELSE "commit"
  <2>1. next = "final_renew" \/ (next = "commit" /\ ~requireFinalRenewal)
    OBVIOUS
  <2> HIDE DEF next
  <2>2. Good(Oracle!To([x EXCEPT !["workCompleted"] = TRUE], next))
    BY <2>1, ForwardGood
  <2> QED BY <1>1, <2>2 DEF next
<1>2. CASE y = Oracle!recordFailure(Oracle!To(x, "rollback"), "work.failed")
  BY <1>2, FailGood
<1>3. CASE y \in Oracle!periodicRenewal(x, "rollback")
  BY <1>3, RenewalGood
<1> QED BY <1>1, <1>2, <1>3 DEF Oracle!workPhase

\* Only the final renewal's own success leads to COMMIT.
LEMMA FinalGood ==
  ASSUME NEW x, Good(x), x.phase = "final_renew", NEW y \in Oracle!final_renewPhase(x)
  PROVE  Good(y)
<1> DEFINE z == [x EXCEPT !.finalRenewAttempted = TRUE]
           w == [z EXCEPT !.finalRenewed = TRUE]
           v == Oracle!To(w, "commit")
<1>0. OracleRecord(x) /\ x.phase # "acquire" /\ Forward(x) /\ Told(x) /\ Oracle!assertState(x)
  BY DEF Good
<1>1. OracleRecord(z) /\ z.finalRenewAttempted /\ \A f \in OracleFields \ {"finalRenewAttempted"} : z[f] = x[f]
  BY <1>0 DEF OracleRecord, OracleFields, OracleFlags
<1>2. y = v \/ \E code : y = Oracle!To(Oracle!loseAuthority(z, code), "rollback")
  BY DEF Oracle!final_renewPhase
<1> HIDE DEF z
<1>3. OracleRecord(w) /\ w.finalRenewAttempted /\ w.finalRenewed
      /\ \A f \in OracleFields \ {"finalRenewAttempted", "finalRenewed"} : w[f] = x[f]
  BY <1>1 DEF OracleRecord, OracleFields, OracleFlags
<1> HIDE DEF w
<1>4. OracleRecord(v) /\ v.finalRenewAttempted /\ v.finalRenewed /\ v.phase = "commit"
      /\ \A f \in OracleFields \ {"finalRenewAttempted", "finalRenewed", "phase"} : v[f] = x[f]
  BY <1>3 DEF OracleRecord, OracleFields, OracleFlags, Oracle!To
<1> HIDE DEF v
<1>5. Good(z)
  <2>1. Told(z)
    BY <1>0, <1>1 DEF OracleFields, Told
  <2>2. Forward(z) /\ z.phase = "final_renew"
    BY <1>0, <1>1 DEF OracleFields, Forward
  <2>3. Oracle!assertState(z)
    BY <1>0, <1>1, <2>1 DEF OracleFields, Oracle!assertState, Told, Forward
  <2> QED BY <1>1, <2>1, <2>2, <2>3 DEF Good
<1>6. z.phase = "final_renew"
  BY <1>1 DEF OracleFields
<1>7. Good(v)
  <2>1. Told(v)
    BY <1>0, <1>4 DEF OracleFields, Told
  <2>2. Forward(v)
    BY <1>0, <1>4 DEF OracleFields, Forward
  <2>3. Oracle!assertState(v)
    BY <1>0, <1>4, <2>1 DEF OracleFields, Oracle!assertState, Told, Forward
  <2> QED BY <1>4, <2>1, <2>2, <2>3 DEF Good
<1> QED BY <1>2, <1>5, <1>6, <1>7, LoseGood

\* COMMIT, answered or not.
LEMMA CommitGood ==
  ASSUME NEW x, Good(x), x.phase = "commit", NEW y \in Oracle!commitPhase(x)
  PROVE  Good(y)
<1> DEFINE w == [x EXCEPT !.commitAttempted = TRUE]
           z == Oracle!To(w, "release")
           v == [z EXCEPT !.committed = TRUE]
<1>0. OracleRecord(x) /\ x.phase # "acquire" /\ Forward(x) /\ Told(x) /\ Oracle!assertState(x)
  BY DEF Good
<1>1. y = v \/ y = Oracle!recordFailure(z, "pg.commit_failed")
  BY DEF Oracle!commitPhase
<1>2. OracleRecord(w) /\ w.commitAttempted /\ \A f \in OracleFields \ {"commitAttempted"} : w[f] = x[f]
  BY <1>0 DEF OracleRecord, OracleFields, OracleFlags
<1> HIDE DEF w
<1>3. OracleRecord(z) /\ z.commitAttempted /\ z.phase = "release"
      /\ \A f \in OracleFields \ {"commitAttempted", "phase"} : z[f] = x[f]
  BY <1>2 DEF OracleRecord, OracleFields, OracleFlags, Oracle!To
<1> HIDE DEF z
<1>4. OracleRecord(v) /\ v.commitAttempted /\ v.committed /\ v.phase = "release"
      /\ \A f \in OracleFields \ {"commitAttempted", "committed", "phase"} : v[f] = x[f]
  BY <1>3 DEF OracleRecord, OracleFields, OracleFlags
<1> HIDE DEF v
<1>5. Told(z) /\ Forward(z)
  BY <1>0, <1>3 DEF OracleFields, Told, Forward
<1>6. Oracle!assertState(z) /\ z.result # "success"
  BY <1>0, <1>3, <1>5, OracleAssumption DEF OracleFields, Oracle!assertState, Told, Forward
<1>7. Told(v) /\ Forward(v)
  BY <1>0, <1>4 DEF OracleFields, Told, Forward
<1>8. Oracle!assertState(v)
  BY <1>0, <1>4, <1>7, OracleAssumption DEF OracleFields, Oracle!assertState, Told, Forward
<1>9. Good(v) /\ Good(Oracle!recordFailure(z, "pg.commit_failed"))
  BY <1>3, <1>4, <1>5, <1>6, <1>7, <1>8, RecordKeeps DEF Good
<1> QED BY <1>1, <1>9

\* ROLLBACK never follows COMMIT.
LEMMA RollbackGood ==
  ASSUME NEW x, Good(x), x.phase = "rollback", NEW y \in Oracle!rollbackPhase(x)
  PROVE  Good(y)
<1> DEFINE w == [x EXCEPT !.rollbackAttempted = TRUE]
           z == Oracle!To(w, "release")
           v == [z EXCEPT !.rolledBack = TRUE]
<1>0. OracleRecord(x) /\ x.phase # "acquire" /\ Forward(x) /\ Told(x) /\ Oracle!assertState(x)
  BY DEF Good
<1>1. y = v \/ y = Oracle!recordFailure(z, "pg.rollback_failed")
  BY DEF Oracle!rollbackPhase
<1>2. OracleRecord(w) /\ w.rollbackAttempted /\ \A f \in OracleFields \ {"rollbackAttempted"} : w[f] = x[f]
  BY <1>0 DEF OracleRecord, OracleFields, OracleFlags
<1> HIDE DEF w
<1>3. OracleRecord(z) /\ z.rollbackAttempted /\ z.phase = "release"
      /\ \A f \in OracleFields \ {"rollbackAttempted", "phase"} : z[f] = x[f]
  BY <1>2 DEF OracleRecord, OracleFields, OracleFlags, Oracle!To
<1> HIDE DEF z
<1>4. OracleRecord(v) /\ v.rollbackAttempted /\ v.rolledBack /\ v.phase = "release"
      /\ \A f \in OracleFields \ {"rollbackAttempted", "rolledBack", "phase"} : v[f] = x[f]
  BY <1>3 DEF OracleRecord, OracleFields, OracleFlags
<1> HIDE DEF v
<1>5. Told(z) /\ Forward(z)
  BY <1>0, <1>3 DEF OracleFields, Told, Forward
<1>6. Oracle!assertState(z) /\ z.result # "success"
  BY <1>0, <1>3, <1>5, OracleAssumption DEF OracleFields, Oracle!assertState, Told, Forward
<1>7. Told(v) /\ Forward(v)
  BY <1>0, <1>4 DEF OracleFields, Told, Forward
<1>8. Oracle!assertState(v)
  BY <1>0, <1>4, <1>7, OracleAssumption DEF OracleFields, Oracle!assertState, Told, Forward
<1>9. Good(v) /\ Good(Oracle!recordFailure(z, "pg.rollback_failed"))
  BY <1>3, <1>4, <1>5, <1>6, <1>7, <1>8, RecordKeeps DEF Good
<1> QED BY <1>1, <1>9

\* Success is told only past COMMIT and the release.
LEMMA ReleaseGood ==
  ASSUME NEW x, Good(x), x.phase = "release", NEW y \in Oracle!releasePhase(x)
  PROVE  Good(y)
<1> DEFINE w1 == [x EXCEPT !.releaseAttempts = @ + 1]
           w2 == [w1 EXCEPT !.authorityLive = FALSE]
           w3 == [w2 EXCEPT !.result = "error"]
           z == Oracle!To(w3, "done")
           v1 == [z EXCEPT !.released = TRUE]
           told == IF x.primaryFailure = NULL /\ x.committed THEN "success" ELSE "error"
           v == [v1 EXCEPT !.result = told]
           u == [z EXCEPT !.authorityLost = TRUE]
<1>0. OracleRecord(x) /\ x.phase # "acquire" /\ Forward(x) /\ Told(x) /\ Oracle!assertState(x)
  BY DEF Good
<1>1. z = Oracle!To([x EXCEPT !.releaseAttempts = @ + 1, !.authorityLive = FALSE, !.result = "error"], "done")
  BY <1>0 DEF OracleRecord, OracleFields
<1>2. OracleRecord(w1) /\ w1.releaseAttempts = x.releaseAttempts + 1
      /\ \A f \in OracleFields \ {"releaseAttempts"} : w1[f] = x[f]
  BY <1>0 DEF OracleRecord, OracleFields, OracleFlags
<1> HIDE DEF w1
<1>3. OracleRecord(w2) /\ w2.releaseAttempts = x.releaseAttempts + 1 /\ ~w2.authorityLive
      /\ \A f \in OracleFields \ {"releaseAttempts", "authorityLive"} : w2[f] = x[f]
  BY <1>2 DEF OracleRecord, OracleFields, OracleFlags
<1> HIDE DEF w2
<1>4. OracleRecord(w3) /\ w3.releaseAttempts = x.releaseAttempts + 1 /\ ~w3.authorityLive /\ w3.result = "error"
      /\ \A f \in OracleFields \ {"releaseAttempts", "authorityLive", "result"} : w3[f] = x[f]
  BY <1>3 DEF OracleRecord, OracleFields, OracleFlags
<1> HIDE DEF w3
<1>5. OracleRecord(z) /\ z.releaseAttempts = x.releaseAttempts + 1 /\ ~z.authorityLive /\ z.result = "error"
      /\ z.phase = "done"
      /\ \A f \in OracleFields \ {"releaseAttempts", "authorityLive", "result", "phase"} : z[f] = x[f]
  BY <1>4 DEF OracleRecord, OracleFields, OracleFlags, Oracle!To
<1>6. \/ y = [z EXCEPT !.released = TRUE, !.result = told]
      \/ y = Oracle!recordFailure(u, "fiducia.release_mismatch")
      \/ y = Oracle!recordFailure(z, "fiducia.release_failed")
  BY <1>1 DEF Oracle!releasePhase
<1> HIDE DEF z, told
<1>7. OracleRecord(v1) /\ v1.released
      /\ \A f \in OracleFields \ {"released"} : v1[f] = z[f]
  BY <1>5 DEF OracleRecord, OracleFields, OracleFlags
<1>8. [z EXCEPT !.released = TRUE, !.result = told] = v
  BY <1>5 DEF OracleRecord, OracleFields
<1> HIDE DEF v1
<1>9. OracleRecord(v) /\ v.released /\ v.result = told
      /\ \A f \in OracleFields \ {"released", "result"} : v[f] = z[f]
  BY <1>7 DEF OracleRecord, OracleFields, OracleFlags
<1>10. OracleRecord(u) /\ u.authorityLost
      /\ \A f \in OracleFields \ {"authorityLost"} : u[f] = z[f]
  BY <1>5 DEF OracleRecord, OracleFields, OracleFlags
<1> HIDE DEF u, v
<1>11. /\ x.releaseAttempts = 0 /\ x.acquired
       /\ told = "success" => x.committed /\ x.primaryFailure = NULL
  BY <1>0, OracleAssumption DEF Forward, told
<1>z. Forward(z) /\ Told(z) /\ Oracle!assertState(z)
  <2>1. Told(z)
    BY <1>0, <1>5 DEF OracleFields, Told
  <2>2. Forward(z)
    BY <1>0, <1>5, <1>11 DEF OracleFields, Forward
  <2>3. Oracle!assertState(z)
    BY <1>0, <1>5, <1>11, <2>1 DEF OracleFields, Oracle!assertState, Told
  <2> QED BY <2>1, <2>2, <2>3
<1>u. Forward(u) /\ Told(u) /\ Oracle!assertState(u)
  <2>1. Told(u)
    BY <1>z, <1>10 DEF OracleFields, Told
  <2>2. Forward(u)
    BY <1>z, <1>5, <1>10 DEF OracleFields, Forward
  <2>3. Oracle!assertState(u)
    BY <1>z, <1>5, <1>10, <2>1 DEF OracleFields, Oracle!assertState, Told
  <2> QED BY <2>1, <2>2, <2>3
<1>v. Forward(v) /\ Told(v) /\ Oracle!assertState(v)
  <2>1. Told(v)
    BY <1>z, <1>9 DEF OracleFields, Told
  <2>2. Forward(v)
    BY <1>z, <1>5, <1>9 DEF OracleFields, Forward
  <2>3. Oracle!assertState(v)
    BY <1>z, <1>5, <1>9, <1>11, <2>1 DEF OracleFields, Oracle!assertState, Told
  <2> QED BY <2>1, <2>2, <2>3
<1>12. Good(v)
  BY <1>v, <1>9, <1>5 DEF Good, OracleFields
<1>13. z.result # "success" /\ u.result # "success" /\ z.phase = "done" /\ u.phase = "done"
  BY <1>5, <1>10 DEF OracleFields
<1>14. Good(Oracle!recordFailure(z, "fiducia.release_failed"))
  BY <1>z, <1>5, <1>13, RecordKeeps DEF Good
<1>15. Good(Oracle!recordFailure(u, "fiducia.release_mismatch"))
  BY <1>u, <1>10, <1>13, RecordKeeps DEF Good
<1> QED BY <1>6, <1>8, <1>12, <1>14, <1>15

\* The inductive invariant of the walk.
OracleOK == s = Oracle!initialState \/ Good(s)

\* Every state the executable model visits is a good one.
LEMMA OracleStepOK ==
  ASSUME OracleOK, [Oracle!OracleStep]_oracleVars
  PROVE  OracleOK'
<1>1. CASE UNCHANGED oracleVars
  BY <1>1 DEF oracleVars, OracleOK, Good, Forward, Oracle!assertState
<1>2. CASE Oracle!OracleStep
  <2>1. PICK x, y : x = s /\ y = s'
    OBVIOUS
  <2>2. CASE x = Oracle!initialState
    <3>1. x.phase = "acquire"
      BY <2>2 DEF Oracle!initialState
    <3>2. y \in Oracle!acquirePhase(x)
      BY <3>1, <2>1, <1>2 DEF Oracle!OracleStep
    <3>3. Good(y)
      BY <3>2, <2>2, AcquireGood
    <3>4. requireFinalRenewal' = requireFinalRenewal
      BY <1>2 DEF Oracle!OracleStep
    <3> QED BY <3>3, <3>4, <2>1 DEF OracleOK, Good, Forward, Oracle!assertState
  <2>3. CASE Good(x)
    <3>1. x.phase # "acquire"
      BY <2>3 DEF Good
    <3>2. Good(y)
      BY <3>1, <2>1, <2>3, <1>2, BeginGood, LockGood, WorkGood, FinalGood, CommitGood, RollbackGood, ReleaseGood
      DEF Oracle!OracleStep
    <3>3. requireFinalRenewal' = requireFinalRenewal
      BY <1>2 DEF Oracle!OracleStep
    <3> QED BY <3>2, <3>3, <2>1 DEF OracleOK, Good, Forward, Oracle!assertState
  <2> QED BY <2>1, <2>2, <2>3 DEF OracleOK
<1> QED BY <1>1, <1>2

\* Every assertion of the executable model holds in every state it reaches, with and
\* without the final renewal and for any bounds of the exploration
\* (formal/maintained-model.mjs, assertState and verifyProductionModel).
THEOREM OracleAssertsHold == Oracle!OracleInit /\ [][Oracle!OracleStep]_oracleVars => []OracleAsserts
<1>1. Oracle!OracleInit => OracleOK
  BY DEF Oracle!OracleInit, OracleOK
<1>2. OracleOK => OracleAsserts
  <2>1. OracleOK => Oracle!assertState(s)
    BY InitialGood DEF OracleOK, Good
  <2>2. Oracle!assertState(s) => OracleAsserts
    BY DEF Oracle!assertState, OracleAsserts, Oracle!OracleAsserts
  <2> QED BY <2>1, <2>2
<1> QED BY <1>1, <1>2, OracleStepOK, PTL
=============================================================================
