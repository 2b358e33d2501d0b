--------------------------- MODULE PgLocks_proofs ---------------------------
(***************************************************************************)
(* Proofs about withXactLock and withSessionLock, for any number of        *)
(* callers, sessions, calls and modes.                                     *)
(*                                                                         *)
(* The argument.  A session that is out belongs to one call, and what the  *)
(* server will have done to it when the call reads its answer is known     *)
(* from the statement that was sent (Desk); a statement the driver gave up *)
(* on stays behind in a session that is destroyed or marked stray, and     *)
(* nothing awaited is ever answered to another call (SessionOK).  The pool *)
(* gets back sessions the answers prove clean, or stray ones.  Also in a   *)
(* stray session statements run in the order they were sent, so the answer *)
(* to a BEGIN or a lock still says what was done: at most one session      *)
(* holds the advisory lock (OneHolder), and guarded work has it.           *)
(***************************************************************************)
EXTENDS PgLocks, SequenceTheorems, TLAPS

\* The calls that have a session.
Engaged(p) == call[p].pc \in Statements \/ (call[p].pc = "work" /\ call[p].pg)

Unlocked(x) == ~x.xlocked /\ x.locked = 0
Clean(x) == x.tx = "none" /\ Unlocked(x) /\ x.queue = <<>>

\* What the pool may get back.
Sound(x) == x.stray \/ Clean(x)

\* One statement is on its way.
Sent(x, kind) == Len(x.queue) = 1 /\ x.queue[1].kind = kind /\ x.queue[1].awaited

\* The session of a transaction-scoped call, from the statement and its answer.
XactDesk(k, x) ==
    /\ k.pc = "begin" => \/ k.ans = "none" /\ (x.stray \/ (Sent(x, "begin") /\ x.tx = "none" /\ Unlocked(x)))
                         \/ k.ans = "ok" /\ x.queue = <<>> /\ x.tx = "open" /\ (x.stray \/ x.locked = 0)
                         \/ k.ans = "error" /\ Sound(x)
    /\ k.pc = "xlock" => \/ k.ans = "none" /\ Sent(x, "xlock") /\ x.tx = "open" /\ (x.stray \/ x.locked = 0)
                         \/ k.ans = "ok" /\ x.queue = <<>> /\ x.xlocked /\ (x.stray \/ x.locked = 0)
                         \/ k.ans \in {"false", "error"}
    /\ k.pc = "work" => x.queue = <<>> /\ (x.tx = "open" => x.xlocked) /\ (x.stray \/ x.locked = 0)
    /\ k.pc = "commit" => \/ k.ans = "none" /\ Sent(x, "commit") /\ (x.stray \/ x.locked = 0)
                          \/ k.ans = "ok" /\ Sound(x)
                          \/ k.ans \in {"false", "error"}

\* A session with the lock of its call, and nothing else unless it is stray.
HasLock(x) == x.locked > 0 /\ (x.stray \/ (x.tx = "none" /\ ~x.xlocked /\ x.locked = 1))

\* The session of a session-scoped call.
SessionDesk(k, x) ==
    /\ k.pc = "lock" => \/ k.ans = "none" /\ (x.stray \/ (Sent(x, "lock") /\ x.tx = "none" /\ Unlocked(x)))
                        \/ k.ans = "ok" /\ x.queue = <<>> /\ HasLock(x)
                        \/ k.ans \in {"false", "error"} /\ Sound(x)
    /\ k.pc = "work" => x.queue = <<>> /\ HasLock(x)
    /\ k.pc = "unlock" => \/ k.ans = "none" /\ Sent(x, "unlock") /\ HasLock(x)
                          \/ k.ans = "ok" /\ Sound(x)
                          \/ k.ans \in {"false", "error"}

Desk(k, x) ==
    /\ k.pg
    /\ k.pc \in {"begin", "xlock", "commit", "rollback"} => k.scope = "transaction"
    /\ k.pc \in {"lock", "unlock"} => k.scope = "session"
    /\ x.pool = "out" => IF k.scope = "transaction" THEN XactDesk(k, x) ELSE SessionDesk(k, x)

\* A call that has no session yet.
Unconnected(k) ==
    /\ k.pc \in {"acquiring", "connecting", "work"} => k.sess = NULL /\ k.ans = "none"
    /\ k.pc = "connecting" => k.pg
    /\ k.pc = "acquiring" => k.fiducia

\* What a call may rely on: it has the session it names.
CallOK(p) ==
    /\ Engaged(p) => /\ call[p].sess \in Sessions /\ session[call[p].sess].by = p
                     /\ session[call[p].sess].pool \in {"out", "broken"}
                     /\ Desk(call[p], session[call[p].sess])
    /\ ~Engaged(p) => Unconnected(call[p])

\* A session that is out belongs to the call that has it, one in the pool is
\* clean or stray, and an awaited answer is that to the last statement of its call.
SessionOK(s) ==
    /\ session[s].pool \in {"out", "broken"} =>
          session[s].by \in Callers /\ Engaged(session[s].by) /\ call[session[s].by].sess = s
    /\ session[s].pool = "idle" => Sound(session[s])
    /\ session[s].pool = "broken" => Clean(session[s])
    /\ \A i \in 1..Len(session[s].queue) : session[s].queue[i].awaited =>
          /\ session[s].pool = "out" /\ i = Len(session[s].queue)
          /\ session[s].queue[i].caller = session[s].by
          /\ session[s].queue[i].kind = call[session[s].by].pc
          /\ call[session[s].by].ans = "none"

OneHolder == \A s, t \in Sessions : Holds(s) /\ Holds(t) => s = t

\* The lease belongs to a call that acquired it and has not said it is rid of it.
Leased ==
    /\ \A p, q \in Callers : p # q /\ call[p].id = call[q].id => call[p].id = 0
    /\ \A p \in Callers : call[p].id <= calls /\ (call[p].pc # "idle" => call[p].id # 0)
    /\ \A p \in Callers : lease = call[p].id /\ lease # 0 =>
          call[p].fiducia /\ call[p].pc # "acquiring" /\ (call[p].pc = "done" => call[p].outcome = "transport")

-----------------------------------------------------------------------------
(* Which pieces a step touches.                                            *)

LocalOK == (\A p \in Callers : CallOK(p)) /\ (\A s \in Sessions : SessionOK(s))

\* The step of a session and of the call that has it.
LEMMA PairStep ==
    ASSUME LocalOK, NEW s \in Sessions, NEW p \in Callers,
           \A t \in Sessions : t # s => session'[t] = session[t],
           \A q \in Callers : q # p => call'[q] = call[q],
           Engaged(p) => call[p].sess = s,
           session[s].pool \in {"out", "broken"} => session[s].by = p,
           CallOK(p)', SessionOK(s)'
    PROVE  LocalOK'
<1>1. ASSUME NEW q \in Callers, q # p PROVE CallOK(q)'
  <2>1. CallOK(q) /\ call'[q] = call[q]
    BY <1>1 DEF LocalOK
  <2>2. Engaged(q)' <=> Engaged(q)
    BY <2>1 DEF Engaged
  <2>3. Engaged(q) => call[q].sess # s
    BY <1>1, <2>1 DEF CallOK
  <2>4. Engaged(q) => session'[call[q].sess] = session[call[q].sess]
    BY <2>1, <2>3 DEF CallOK
  <2> QED BY <2>1, <2>2, <2>4 DEF CallOK
<1>2. ASSUME NEW t \in Sessions, t # s PROVE SessionOK(t)'
  <2>1. SessionOK(t) /\ session'[t] = session[t]
    BY <1>2 DEF LocalOK
  <2>2. session[t].pool \in {"out", "broken"} => session[t].by # p
    BY <1>2, <2>1 DEF SessionOK
  <2>3. session[t].pool \in {"out", "broken"} => session[t].by \in Callers /\ call'[session[t].by] = call[session[t].by]
    BY <2>1, <2>2 DEF SessionOK
  <2> QED BY <2>1, <2>3 DEF SessionOK, Engaged
<1> QED BY <1>1, <1>2 DEF LocalOK

\* The step of a call that has no session.
LEMMA CallStep ==
    ASSUME LocalOK, UNCHANGED session, NEW p \in Callers,
           \A q \in Callers : q # p => call'[q] = call[q],
           ~Engaged(p), ~Engaged(p)', CallOK(p)'
    PROVE  LocalOK'
<1>1. ASSUME NEW q \in Callers, q # p PROVE CallOK(q)'
  BY <1>1 DEF LocalOK, CallOK, Engaged
<1>2. ASSUME NEW t \in Sessions PROVE SessionOK(t)'
  <2>1. SessionOK(t)
    BY DEF LocalOK
  <2>2. session[t].pool \in {"out", "broken"} => session[t].by \in Callers /\ call'[session[t].by] = call[session[t].by]
    BY <2>1 DEF SessionOK
  <2> QED BY <2>1, <2>2 DEF SessionOK, Engaged
<1> QED BY <1>1, <1>2 DEF LocalOK

\* The step of a session that no call has.
LEMMA SessionStep ==
    ASSUME LocalOK, UNCHANGED call, NEW s \in Sessions,
           \A t \in Sessions : t # s => session'[t] = session[t],
           session[s].pool \notin {"out", "broken"}, SessionOK(s)'
    PROVE  LocalOK'
<1>1. ASSUME NEW q \in Callers PROVE CallOK(q)'
  <2>1. CallOK(q) /\ call'[q] = call[q]
    BY DEF LocalOK
  <2>2. Engaged(q)' <=> Engaged(q)
    BY <2>1 DEF Engaged
  <2>3. Engaged(q) => call[q].sess # s
    BY <2>1 DEF CallOK
  <2>4. Engaged(q) => session'[call[q].sess] = session[call[q].sess]
    BY <2>1, <2>3 DEF CallOK
  <2> QED BY <2>1, <2>2, <2>4 DEF CallOK
<1>2. ASSUME NEW t \in Sessions, t # s PROVE SessionOK(t)'
  BY <1>2 DEF LocalOK, SessionOK, Engaged
<1> QED BY <1>1, <1>2 DEF LocalOK

\* The call that has a session which is out.
LEMMA Owner ==
    ASSUME LocalOK, NEW s \in Sessions, session[s].pool \in {"out", "broken"}
    PROVE  /\ session[s].by \in Callers /\ Engaged(session[s].by) /\ call[session[s].by].sess = s
           /\ Desk(call[session[s].by], session[s])
BY DEF LocalOK, SessionOK, CallOK

LEMMA NonEmpty ==
    ASSUME NEW S, NEW q \in Seq(S), q # <<>>
    PROVE  /\ Len(q) \in Nat \ {0} /\ Head(q) = q[1] /\ q[1] \in S
           /\ Tail(q) \in Seq(S) /\ Len(Tail(q)) = Len(q) - 1
           /\ \A i \in 1..Len(Tail(q)) : Tail(q)[i] = q[i + 1]
           /\ Len(q) = 1 => Tail(q) = <<>>
<1>1. Len(q) \in Nat \ {0}
  BY EmptySeq
<1>2. Head(q) = q[1] /\ q[1] \in S
  <2>1. 1 \in 1..Len(q)
    BY <1>1
  <2>2. q[1] \in S
    BY <2>1, ElementOfSeq
  <2> QED BY <1>1, <2>2
<1>3. /\ Tail(q) \in Seq(S) /\ Len(Tail(q)) = Len(q) - 1
      /\ \A i \in 1..Len(Tail(q)) : Tail(q)[i] = q[i + 1]
  BY HeadTailProperties
<1>4. Len(q) = 1 => Tail(q) = <<>>
  <2>1. Tail(q) # <<>> => Len(Tail(q)) # 0
    BY <1>3, EmptySeq
  <2> QED BY <1>1, <1>3, <2>1
<1> QED BY <1>1, <1>2, <1>3, <1>4

\* A session that answers to a caller is out, and has the statement its call
\* waits for at the head of its queue.
LEMMA HeadAwaited ==
    ASSUME PgTypeOK, LocalOK, NEW s \in Sessions, session[s].queue # <<>>
    PROVE  LET st == Head(session[s].queue) IN
           /\ st \in Queued
           /\ Tail(session[s].queue) \in Seq(Queued)
           /\ \A i \in 1..Len(Tail(session[s].queue)) : Tail(session[s].queue)[i] = session[s].queue[i + 1]
           /\ Len(Tail(session[s].queue)) = Len(session[s].queue) - 1
           /\ st.awaited => /\ session[s].pool = "out" /\ Tail(session[s].queue) = <<>>
                            /\ st.caller = session[s].by /\ st.kind = call[session[s].by].pc
                            /\ call[session[s].by].ans = "none"
<1> DEFINE q == session[s].queue
<1>1. q \in Seq(Queued)
  <2>1. session[s] \in SessionRecords
    BY DEF PgTypeOK
  <2> QED BY <2>1 DEF SessionRecords
<1>2. /\ Len(q) \in Nat \ {0} /\ Head(q) = q[1] /\ q[1] \in Queued
      /\ Tail(q) \in Seq(Queued) /\ Len(Tail(q)) = Len(q) - 1
      /\ \A i \in 1..Len(Tail(q)) : Tail(q)[i] = q[i + 1]
      /\ Len(q) = 1 => Tail(q) = <<>>
  BY <1>1, NonEmpty
<1>3. 1 \in 1..Len(q)
  BY <1>2
<1>4. ASSUME q[1].awaited
      PROVE  /\ session[s].pool = "out" /\ Len(q) = 1 /\ q[1].caller = session[s].by
             /\ q[1].kind = call[session[s].by].pc /\ call[session[s].by].ans = "none"
  BY <1>3, <1>4 DEF LocalOK, SessionOK
<1> QED BY <1>2, <1>4

-----------------------------------------------------------------------------
(* One step changes at most one call and one session: what has to be shown  *)
(* of the two records for the step to be a good one.                       *)

Base == PgTypeOK /\ LocalOK /\ OneHolder /\ Leased

HasSession(k) == k.pc \in Statements \/ (k.pc = "work" /\ k.pg)

\* Whatever is awaited in x is the last statement of k, unanswered.
Awaiting(k, x) ==
    \A i \in 1..Len(x.queue) : x.queue[i].awaited =>
        /\ x.pool = "out" /\ i = Len(x.queue) /\ x.queue[i].caller = x.by
        /\ x.queue[i].kind = k.pc /\ k.ans = "none"

Locks(x) == x.xlocked \/ x.locked > 0

LEMMA HolderKept ==
    ASSUME OneHolder, NEW s \in Sessions, \A t \in Sessions : t # s => session'[t] = session[t],
           Holds(s)' => Holds(s) \/ LockFree(s)
    PROVE  OneHolder'
<1>1. \A t \in Sessions : t # s => (Holds(t)' <=> Holds(t))
  BY DEF Holds
<1>2. ASSUME NEW t \in Sessions, t # s, Holds(t)', Holds(s)' PROVE FALSE
  <2>1. Holds(t)
    BY <1>1, <1>2
  <2>2. Holds(s)
    BY <1>2, <2>1 DEF LockFree
  <2> QED BY <1>2, <2>1, <2>2 DEF OneHolder
<1> SUFFICES ASSUME NEW t \in Sessions, NEW u \in Sessions, Holds(t)', Holds(u)'
             PROVE  t = u
  BY DEF OneHolder
<1>3. CASE t = s
  BY <1>2, <1>3
<1>4. CASE u = s
  BY <1>2, <1>4
<1>5. CASE t # s /\ u # s
  BY <1>1, <1>5 DEF OneHolder
<1> QED BY <1>3, <1>4, <1>5

\* A call that keeps its number, and neither acquires nor ends.
LEMMA LeasedKept ==
    ASSUME PgTypeOK, Leased, NEW p \in Callers, NEW k, call' = [call EXCEPT ![p] = k], calls' = calls,
           lease' \in {lease, 0}, k.id = call[p].id, k.fiducia = call[p].fiducia, call[p].pc # "idle",
           \/ k.pc = call[p].pc /\ k.outcome = call[p].outcome
           \/ k.pc \notin {"idle", "acquiring", "done"}
    PROVE  Leased'
<1>1. call'[p] = k /\ \A q \in Callers : q # p => call'[q] = call[q]
  BY DEF PgTypeOK
<1>2. \A q \in Callers : /\ call'[q].id = call[q].id /\ call'[q].fiducia = call[q].fiducia
                         /\ call'[q].pc # "idle" => call[q].pc # "idle"
                         /\ call'[q].pc = "acquiring" => call[q].pc = "acquiring"
                         /\ call'[q].pc = "done" => call[q].pc = "done" /\ call'[q].outcome = call[q].outcome
  BY <1>1
<1> QED BY <1>2 DEF Leased

\* A call goes on with its session.
LEMMA GoesOn ==
    ASSUME Base, NEW s \in Sessions, NEW x \in SessionRecords, NEW p \in Callers, NEW k \in CallRecords,
           session' = [session EXCEPT ![s] = x], call' = [call EXCEPT ![p] = k], UNCHANGED <<lease, calls>>,
           Engaged(p) => call[p].sess = s, session[s].pool \in {"out", "broken"} => session[s].by = p,
           HasSession(k), k.sess = s, x.by = p, x.pool \in {"out", "broken"}, Desk(k, x),
           x.pool = "broken" => Clean(x), Awaiting(k, x), Locks(x) => Holds(s) \/ LockFree(s),
           k.id = call[p].id, k.fiducia = call[p].fiducia, Engaged(p) \/ call[p].pc = "connecting"
    PROVE  Base'
<1>1. /\ PgTypeOK' /\ session'[s] = x /\ call'[p] = k
      /\ \A t \in Sessions : t # s => session'[t] = session[t]
      /\ \A q \in Callers : q # p => call'[q] = call[q]
  BY DEF Base, PgTypeOK
<1>2. OneHolder'
  <2>1. Holds(s)' => Holds(s) \/ LockFree(s)
    BY <1>1 DEF Holds, Locks
  <2> QED BY <1>1, <2>1, HolderKept DEF Base
<1>3. CallOK(p)'
  BY <1>1 DEF CallOK, Engaged, HasSession, Statements
<1>4. SessionOK(s)'
  BY <1>1 DEF SessionOK, Engaged, HasSession, Awaiting
<1>5. LocalOK'
  BY <1>1, <1>3, <1>4, PairStep DEF Base
<1>6. Leased'
  <2>1. call[p].pc # "idle" /\ k.pc \notin {"idle", "acquiring", "done"}
    BY DEF Engaged, HasSession, Statements
  <2> QED BY <2>1, LeasedKept DEF Base
<1> QED BY <1>1, <1>2, <1>5, <1>6 DEF Base

\* A call and its session part.
LEMMA Parts ==
    ASSUME Base, NEW s \in Sessions, NEW x \in SessionRecords, NEW p \in Callers, NEW k \in CallRecords,
           session' = [session EXCEPT ![s] = x], call' = [call EXCEPT ![p] = k], UNCHANGED <<lease, calls>>,
           Engaged(p), call[p].sess = s, k.pc = "settling", x.pool \in {"idle", "closing"},
           x.pool = "idle" => Sound(x), \A i \in 1..Len(x.queue) : ~x.queue[i].awaited, Locks(x) => Holds(s),
           k.id = call[p].id, k.fiducia = call[p].fiducia
    PROVE  Base'
<1>1. /\ PgTypeOK' /\ session'[s] = x /\ call'[p] = k
      /\ \A t \in Sessions : t # s => session'[t] = session[t]
      /\ \A q \in Callers : q # p => call'[q] = call[q]
  BY DEF Base, PgTypeOK
<1>2. OneHolder'
  <2>1. Holds(s)' => Holds(s)
    BY <1>1 DEF Holds, Locks
  <2> QED BY <1>1, <2>1, HolderKept DEF Base
<1>3. CallOK(p)' /\ SessionOK(s)'
  BY <1>1 DEF CallOK, SessionOK, Engaged, Statements, Unconnected
<1>4. session[s].by = p
  BY DEF Base, LocalOK, CallOK
<1>5. LocalOK'
  BY <1>1, <1>3, <1>4, PairStep DEF Base
<1>6. Leased'
  <2>1. call[p].pc # "idle" /\ k.pc \notin {"idle", "acquiring", "done"}
    BY DEF Engaged, HasSession, Statements
  <2> QED BY <2>1, LeasedKept DEF Base
<1> QED BY <1>1, <1>2, <1>5, <1>6 DEF Base

\* A call that has no session goes on without.
LEMMA Alone ==
    ASSUME Base, NEW p \in Callers, NEW k \in CallRecords, UNCHANGED session, calls' \in Nat, lease' \in 0..calls',
           call' = [call EXCEPT ![p] = k], ~Engaged(p), ~HasSession(k), Unconnected(k), Leased'
    PROVE  Base'
<1>1. /\ PgTypeOK' /\ call'[p] = k /\ \A q \in Callers : q # p => call'[q] = call[q]
  BY DEF Base, PgTypeOK
<1>2. ~Engaged(p)' /\ CallOK(p)'
  BY <1>1 DEF CallOK, Engaged, HasSession
<1>3. LocalOK'
  BY <1>1, <1>2, CallStep DEF Base
<1> QED BY <1>1, <1>3 DEF Base, OneHolder, Holds

\* A session that no call has moves by itself.
LEMMA Unattended ==
    ASSUME Base, NEW s \in Sessions, NEW x \in SessionRecords, session' = [session EXCEPT ![s] = x],
           UNCHANGED <<call, lease, calls>>, session[s].pool \in {"idle", "closing"}, x.pool \in {"idle", "closing"},
           x.pool = "idle" => Sound(x), \A i \in 1..Len(x.queue) : ~x.queue[i].awaited,
           Locks(x) => Holds(s) \/ LockFree(s)
    PROVE  Base'
<1>1. /\ PgTypeOK' /\ session'[s] = x /\ \A t \in Sessions : t # s => session'[t] = session[t]
  BY DEF Base, PgTypeOK
<1>2. OneHolder'
  <2>1. Holds(s)' => Holds(s) \/ LockFree(s)
    BY <1>1 DEF Holds, Locks
  <2> QED BY <1>1, <2>1, HolderKept DEF Base
<1>3. SessionOK(s)'
  BY <1>1 DEF SessionOK
<1>4. LocalOK'
  BY <1>1, <1>3, SessionStep DEF Base
<1>5. Leased'
  BY DEF Base, Leased
<1> QED BY <1>1, <1>2, <1>4, <1>5 DEF Base

-----------------------------------------------------------------------------
(* The server.                                                             *)

\* A statement nobody waits for runs at a session whose call relies on
\* nothing of it any more, or that is stray.
LEMMA Loose ==
    ASSUME NEW k \in CallRecords, NEW x \in SessionRecords, NEW y \in SessionRecords, Desk(k, x), HasSession(k),
           x.queue # <<>>, ~x.queue[1].awaited, x.pool = "out", x.stray => y.stray
    PROVE  Desk(k, y)
<1>1. /\ ~Clean(x) /\ \A kind \in Statements : ~Sent(x, kind)
      /\ Sound(x) => Sound(y)
  BY DEF Clean, Sent, Sound
<1>2. k.scope \in {"transaction", "session"}
  BY DEF CallRecords
<1>3. k.scope = "transaction" => XactDesk(k, y)
  BY <1>1 DEF XactDesk, Desk, Statements
<1>4. k.scope = "session" => SessionDesk(k, y)
  BY <1>1 DEF SessionDesk, Desk, Statements
<1> QED BY <1>2, <1>3, <1>4 DEF Desk

\* What a statement leaves of its session.
LEMMA RunTypes ==
    ASSUME PgTypeOK, NEW s \in Sessions, NEW st \in Queued
    PROVE  /\ Run(s, st).to \in SessionRecords /\ Run(s, st).ans \in {"ok", "false", "error"}
           /\ Run(s, st).to.pool = session[s].pool /\ Run(s, st).to.by = session[s].by
           /\ Run(s, st).to.queue = session[s].queue /\ Run(s, st).to.stray = session[s].stray
           /\ Locks(Run(s, st).to) => Holds(s) \/ LockFree(s)
<1>1. PICK x \in SessionRecords : x = session[s]
  BY DEF PgTypeOK
<1>2. Holds(s) <=> Locks(x)
  BY <1>1 DEF Holds, Locks
<1>3. /\ x.tx \in {"none", "open", "failed"} /\ x.locked \in Nat /\ x.xlocked \in BOOLEAN
  BY DEF SessionRecords
<1>4. CASE st.kind \notin {"commit", "rollback"} /\ x.tx = "failed"
  BY <1>1, <1>2, <1>4 DEF Run
<1>5. CASE st.kind \in {"xlock", "lock"} /\ ~LockFree(s)
  BY <1>1, <1>2, <1>5 DEF Run
<1>6. CASE st.kind = "xlock" /\ x.tx # "failed" /\ LockFree(s)
  BY <1>1, <1>2, <1>6 DEF Run, SessionRecords, Locks
<1>7. CASE st.kind = "lock" /\ x.tx # "failed" /\ LockFree(s)
  BY <1>1, <1>2, <1>3, <1>7 DEF Run, SessionRecords, Locks
<1>8. CASE st.kind = "unlock" /\ x.tx # "failed"
  BY <1>1, <1>2, <1>3, <1>8 DEF Run, SessionRecords, Locks
<1>9. CASE st.kind \in {"commit", "rollback"}
  BY <1>1, <1>2, <1>3, <1>9 DEF Run, SessionRecords, Locks
<1>10. CASE st.kind = "begin" /\ x.tx # "failed"
  BY <1>1, <1>2, <1>10 DEF Run, SessionRecords, Locks
<1> QED BY <1>1, <1>4, <1>5, <1>6, <1>7, <1>8, <1>9, <1>10 DEF Queued, Statements

\* The answer a call reads tells what its statement did.
LEMMA RunAnswers ==
    ASSUME PgTypeOK, NEW s \in Sessions, NEW st \in Queued, NEW k \in CallRecords, Desk(k, session[s]),
           session[s].pool = "out", k.pc = st.kind, k.ans = "none", NEW y, y = [Run(s, st).to EXCEPT !.queue = <<>>]
    PROVE  Desk([k EXCEPT !.ans = Run(s, st).ans], y)
<1>1. PICK x \in SessionRecords : x = session[s]
  BY DEF PgTypeOK
<1>2. /\ x.tx \in {"none", "open", "failed"} /\ x.locked \in Nat /\ x.xlocked \in BOOLEAN
      /\ k.scope \in {"transaction", "session"} /\ k.pc \in Statements
  BY DEF SessionRecords, CallRecords, Queued
<1>3. PICK j : j = [k EXCEPT !.ans = Run(s, st).ans]
  OBVIOUS
<1>4. j.pc = k.pc /\ j.scope = k.scope /\ j.pg = k.pg /\ j.ans = Run(s, st).ans
  BY <1>3 DEF CallRecords
<1>5. Desk(k, x)
  BY <1>1
<1>6. CASE st.kind = "begin"
  <2>1. k.scope = "transaction" /\ (x.stray \/ (x.tx = "none" /\ Unlocked(x)))
    BY <1>1, <1>5, <1>6 DEF Desk, XactDesk
  <2>2. CASE x.tx # "failed"
    <3>1. Run(s, st).ans = "ok" /\ y.tx = "open" /\ y.locked = x.locked /\ y.queue = <<>> /\ y.stray = x.stray
      BY <1>1, <1>6, <2>2 DEF Run, SessionRecords
    <3> QED BY <1>4, <1>5, <1>6, <2>1, <3>1 DEF Desk, XactDesk, Unlocked
  <2>3. CASE x.tx = "failed"
    <3>1. Run(s, st).ans = "error" /\ y.stray = x.stray
      BY <1>1, <1>6, <2>3 DEF Run, SessionRecords
    <3> QED BY <1>4, <1>5, <1>6, <2>1, <2>3, <3>1 DEF Desk, XactDesk, Sound
  <2> QED BY <1>3, <2>2, <2>3
<1>7. CASE st.kind = "xlock"
  <2>1. x.tx = "open" /\ (x.stray \/ x.locked = 0) /\ k.scope = "transaction"
    BY <1>1, <1>5, <1>7 DEF Desk, XactDesk
  <2>2. \/ Run(s, st).ans = "ok" /\ y.xlocked /\ y.locked = x.locked /\ y.stray = x.stray /\ y.queue = <<>>
        \/ Run(s, st).ans = "false"
    BY <1>1, <1>7, <2>1 DEF Run, SessionRecords
  <2>3. Desk(j, y)
    BY <1>4, <1>5, <1>7, <2>1, <2>2 DEF Desk, XactDesk
  <2> QED BY <1>3, <2>3
<1>8. CASE st.kind = "commit"
  <2>1. (x.stray \/ x.locked = 0) /\ k.scope = "transaction"
    BY <1>1, <1>5, <1>8 DEF Desk, XactDesk
  <2>2. Run(s, st).ans = "ok" /\ Sound(y)
    BY <1>1, <1>8, <2>1 DEF Run, SessionRecords, Sound, Clean, Unlocked
  <2>3. Desk(j, y)
    BY <1>4, <1>5, <1>8, <2>1, <2>2 DEF Desk, XactDesk
  <2> QED BY <1>3, <2>3
<1>9. CASE st.kind = "rollback"
  <2>1. k.scope = "transaction"
    BY <1>5, <1>9 DEF Desk
  <2>2. Desk(j, y)
    BY <1>4, <1>5, <1>9, <2>1 DEF Desk, XactDesk
  <2> QED BY <1>3, <2>2
<1>10. CASE st.kind = "lock"
  <2>1. k.scope = "session" /\ (x.stray \/ (x.tx = "none" /\ Unlocked(x)))
    BY <1>1, <1>5, <1>10 DEF Desk, SessionDesk
  <2>2. CASE x.tx # "failed" /\ LockFree(s)
    <3>1. /\ Run(s, st).ans = "ok" /\ y.locked = x.locked + 1 /\ y.queue = <<>> /\ y.stray = x.stray
          /\ y.tx = x.tx /\ y.xlocked = x.xlocked
      BY <1>1, <1>10, <2>2 DEF Run, SessionRecords
    <3>2. HasLock(y)
      BY <1>2, <2>1, <3>1 DEF HasLock, Unlocked
    <3> QED BY <1>4, <1>5, <1>10, <2>1, <3>1, <3>2 DEF Desk, SessionDesk
  <2>3. CASE x.tx = "failed" \/ ~LockFree(s)
    <3>1. /\ Run(s, st).ans \in {"false", "error"} /\ y.locked = x.locked /\ y.queue = <<>> /\ y.stray = x.stray
          /\ y.tx = x.tx /\ y.xlocked = x.xlocked
      BY <1>1, <1>10, <2>3 DEF Run, SessionRecords
    <3>2. Sound(y)
      BY <2>1, <3>1 DEF Sound, Clean, Unlocked
    <3> QED BY <1>4, <1>5, <1>10, <2>1, <3>1, <3>2 DEF Desk, SessionDesk
  <2> QED BY <1>3, <2>2, <2>3
<1>11. CASE st.kind = "unlock"
  <2>1. HasLock(x) /\ k.scope = "session"
    BY <1>1, <1>5, <1>11 DEF Desk, SessionDesk
  <2>2. CASE x.tx # "failed"
    <3>1. /\ Run(s, st).ans = "ok" /\ y.locked = x.locked - 1 /\ y.queue = <<>> /\ y.stray = x.stray
          /\ y.tx = x.tx /\ y.xlocked = x.xlocked
      BY <1>1, <1>2, <1>11, <2>1, <2>2 DEF Run, SessionRecords, HasLock
    <3>2. Sound(y)
      BY <1>2, <2>1, <3>1 DEF Sound, Clean, Unlocked, HasLock
    <3> QED BY <1>4, <1>5, <1>11, <2>1, <3>1, <3>2 DEF Desk, SessionDesk
  <2>3. CASE x.tx = "failed"
    <3>1. Run(s, st).ans = "error"
      BY <1>1, <1>11, <2>3 DEF Run
    <3> QED BY <1>4, <1>5, <1>11, <2>1, <3>1 DEF Desk, SessionDesk
  <2> QED BY <1>3, <2>2, <2>3
<1> QED BY <1>2, <1>6, <1>7, <1>8, <1>9, <1>10, <1>11 DEF Statements

\* The server is done with the statement at the head of a queue.
LEMMA Answered ==
    ASSUME Base, NEW s \in Sessions, session[s].queue # <<>>, NEW st, st = Head(session[s].queue),
           NEW y \in SessionRecords, y.pool = session[s].pool, y.by = session[s].by,
           y.queue = Tail(session[s].queue), session[s].stray => y.stray, NEW a \in {"ok", "false", "error"},
           session' = [session EXCEPT ![s] = y], call' = Answer(s, st, a), UNCHANGED <<lease, calls>>,
           Locks(y) => Holds(s) \/ LockFree(s), st.awaited => Desk([call[st.caller] EXCEPT !.ans = a], y)
    PROVE  Base'
<1>1. PgTypeOK /\ LocalOK
  BY DEF Base
<1>2. PICK x \in SessionRecords : x = session[s]
  BY <1>1 DEF PgTypeOK
<1>3. /\ st \in Queued
      /\ \A i \in 1..Len(y.queue) : y.queue[i] = x.queue[i + 1]
      /\ Len(y.queue) = Len(x.queue) - 1
      /\ st.awaited => /\ x.pool = "out" /\ y.queue = <<>> /\ st.caller = x.by
                       /\ st.kind = call[x.by].pc /\ call[x.by].ans = "none"
  BY <1>1, <1>2, HeadAwaited
<1>4. st = x.queue[1] /\ Len(x.queue) \in Nat \ {0}
  BY <1>2, NonEmpty DEF SessionRecords
<1>5. CASE st.awaited
  <2>1. PICK p : p = x.by
    OBVIOUS
  <2>2. p \in Callers /\ Engaged(p) /\ call[p].sess = s
    BY <1>1, <1>2, <1>3, <1>5, <2>1, Owner
  <2>3. PICK k \in CallRecords : k = call[p]
    BY <1>1, <2>2 DEF PgTypeOK
  <2>4. PICK j : j = [k EXCEPT !.ans = a]
    OBVIOUS
  <2>5. j \in CallRecords /\ j.pc = k.pc /\ j.sess = k.sess /\ j.pg = k.pg /\ j.id = k.id /\ j.fiducia = k.fiducia
    BY <2>4 DEF CallRecords
  <2>6. call' = [call EXCEPT ![p] = j]
    BY <1>3, <1>5, <2>1, <2>3, <2>4 DEF Answer
  <2>7. HasSession(j) /\ j.sess = s
    BY <2>2, <2>3, <2>5 DEF HasSession, Engaged
  <2>8. Desk(j, y) /\ y.by = p /\ y.pool = "out" /\ Awaiting(j, y)
    BY <1>2, <1>3, <1>5, <2>1, <2>3, <2>4 DEF Awaiting
  <2> QED BY <1>2, <2>1, <2>2, <2>3, <2>5, <2>6, <2>7, <2>8, GoesOn
<1>6. CASE ~st.awaited
  <2>1. call' = call
    BY <1>6 DEF Answer
  <2>2. x.pool \in {"idle", "out", "closing"} /\ (x.pool = "idle" => Sound(y))
    BY <1>1, <1>2 DEF LocalOK, SessionOK, Sound, Clean, SessionRecords
  <2>3. \A i \in 1..Len(y.queue) : i + 1 \in 1..Len(x.queue) /\ (i + 1 = Len(x.queue) => i = Len(y.queue))
    <3>1. PICK m, n : n \in Nat /\ m = Len(y.queue) /\ n = Len(x.queue)
      BY <1>4
    <3>2. m = n - 1
      BY <1>3, <3>1
    <3>3. ASSUME NEW i \in 1..m PROVE i + 1 \in 1..n /\ (i + 1 = n => i = m)
      <4>1. n \in Int /\ m = n - 1 /\ i \in Int /\ 1 <= i /\ i <= m
        BY <3>1, <3>2, <3>3
      <4> QED BY <4>1
    <3> QED BY <3>1, <3>3
  <2>4. CASE x.pool \in {"idle", "closing"}
    <3>1. \A i \in 1..Len(x.queue) : ~x.queue[i].awaited
      BY <1>1, <1>2, <2>4 DEF LocalOK, SessionOK
    <3>2. \A i \in 1..Len(y.queue) : ~y.queue[i].awaited
      BY <1>3, <2>3, <3>1
    <3> QED BY <1>2, <2>1, <2>2, <2>4, <3>2, Unattended
  <2>5. CASE x.pool = "out"
    <3>1. PICK p : p = x.by
      OBVIOUS
    <3>2. p \in Callers /\ Engaged(p) /\ call[p].sess = s /\ Desk(call[p], x)
      BY <1>1, <1>2, <2>5, <3>1, Owner
    <3>3. PICK k \in CallRecords : k = call[p]
      BY <1>1, <3>2 DEF PgTypeOK
    <3>4. call' = [call EXCEPT ![p] = k]
      BY <1>1, <2>1, <3>2, <3>3 DEF PgTypeOK
    <3>5. HasSession(k) /\ k.sess = s
      BY <3>2, <3>3 DEF HasSession, Engaged
    <3>6. Desk(k, y)
      BY <1>2, <1>4, <1>6, <2>5, <3>2, <3>3, <3>5, Loose
    <3>7. Awaiting(k, x)
      BY <1>1, <1>2, <3>1, <3>3 DEF LocalOK, SessionOK, Awaiting
    <3>8. Awaiting(k, y)
      BY <1>2, <1>3, <2>3, <3>7 DEF Awaiting
    <3>9. y.by = p /\ y.pool = "out" /\ session[s].by = p /\ k.id = call[p].id /\ k.fiducia = call[p].fiducia
      BY <1>2, <2>5, <3>1, <3>3
    <3> QED BY <3>2, <3>4, <3>5, <3>6, <3>8, <3>9, GoesOn
  <2> QED BY <2>2, <2>4, <2>5
<1> QED BY <1>5, <1>6

LEMMA ExecuteKeeps ==
    ASSUME Base, NEW s \in Sessions, Execute(s)
    PROVE  Base'
<1>1. PgTypeOK /\ LocalOK
  BY DEF Base
<1>2. PICK st : st = Head(session[s].queue)
  OBVIOUS
<1>3. /\ session[s].queue # <<>> /\ UNCHANGED <<lease, calls>>
      /\ session' = [session EXCEPT ![s] = [Run(s, st).to EXCEPT !.queue = Tail(@)]]
      /\ call' = Answer(s, st, Run(s, st).ans)
  BY <1>2 DEF Execute
<1>4. /\ st \in Queued /\ Tail(session[s].queue) \in Seq(Queued)
      /\ st.awaited => /\ session[s].pool = "out" /\ Tail(session[s].queue) = <<>>
                       /\ st.caller = session[s].by /\ st.kind = call[session[s].by].pc
                       /\ call[session[s].by].ans = "none"
  BY <1>1, <1>2, <1>3, HeadAwaited
<1>5. PICK r \in SessionRecords, a \in {"ok", "false", "error"} : r = Run(s, st).to /\ a = Run(s, st).ans
  BY <1>1, <1>4, RunTypes
<1>6. r.pool = session[s].pool /\ r.by = session[s].by /\ r.queue = session[s].queue /\ r.stray = session[s].stray
      /\ (Locks(r) => Holds(s) \/ LockFree(s))
  BY <1>1, <1>4, <1>5, RunTypes
<1>7. PICK y : y = [r EXCEPT !.queue = Tail(session[s].queue)]
  OBVIOUS
<1>8. /\ y \in SessionRecords /\ y.pool = r.pool /\ y.by = r.by /\ y.queue = Tail(session[s].queue)
      /\ (Locks(y) <=> Locks(r)) /\ y.stray = r.stray
  BY <1>4, <1>7 DEF SessionRecords, Locks
<1>9. session' = [session EXCEPT ![s] = y]
  BY <1>3, <1>5, <1>6, <1>7
<1>10. ASSUME st.awaited PROVE Desk([call[st.caller] EXCEPT !.ans = a], y)
  <2>1. st.caller \in Callers /\ Desk(call[st.caller], session[s])
    BY <1>1, <1>4, <1>10, Owner
  <2>2. PICK k \in CallRecords : k = call[st.caller]
    BY <1>1, <2>1 DEF PgTypeOK
  <2>3. y = [Run(s, st).to EXCEPT !.queue = <<>>]
    BY <1>4, <1>5, <1>7, <1>10
  <2> QED BY <1>1, <1>4, <1>5, <1>10, <2>1, <2>2, <2>3, RunAnswers
<1>11. call' = Answer(s, st, a) /\ session[s].queue # <<>> /\ UNCHANGED <<lease, calls>>
  BY <1>3, <1>5
<1>12. /\ y \in SessionRecords /\ y.pool = session[s].pool /\ y.by = session[s].by /\ y.queue = Tail(session[s].queue)
       /\ (Locks(y) => Holds(s) \/ LockFree(s)) /\ (session[s].stray => y.stray)
  BY <1>6, <1>8
<1> QED BY <1>2, <1>9, <1>10, <1>11, <1>12, Answered

LEMMA ServerErrorKeeps ==
    ASSUME Base, NEW s \in Sessions, ServerError(s)
    PROVE  Base'
<1>1. PgTypeOK /\ LocalOK
  BY DEF Base
<1>2. PICK st : st = Head(session[s].queue)
  OBVIOUS
<1>3. PICK x \in SessionRecords : x = session[s]
  BY <1>1 DEF PgTypeOK
<1>4. PICK n \in {x.locked, Run(s, st).to.locked} :
        session' = [session EXCEPT ![s] =
           [x EXCEPT !.tx = IF @ = "none" \/ st.kind = "commit" THEN "none" ELSE "failed",
                     !.xlocked = FALSE, !.locked = n, !.stray = @ \/ n > x.locked, !.queue = Tail(@)]]
  BY <1>2, <1>3 DEF ServerError
<1>5. /\ x.queue # <<>> /\ UNCHANGED <<lease, calls>> /\ call' = Answer(s, st, "error")
  BY <1>2, <1>3 DEF ServerError
<1>6. /\ st \in Queued /\ Tail(x.queue) \in Seq(Queued)
      /\ st.awaited => /\ x.pool = "out" /\ Tail(x.queue) = <<>>
                       /\ st.caller = x.by /\ st.kind = call[x.by].pc
                       /\ call[x.by].ans = "none"
  BY <1>1, <1>2, <1>3, <1>5, HeadAwaited
<1>10. PICK y : y = [x EXCEPT !.tx = IF @ = "none" \/ st.kind = "commit" THEN "none" ELSE "failed",
                              !.xlocked = FALSE, !.locked = n, !.stray = @ \/ n > x.locked, !.queue = Tail(@)]
  OBVIOUS
<1>11. n \in Nat /\ x.locked \in Nat /\ x.stray \in BOOLEAN
  <2>1. Run(s, st).to \in SessionRecords
    BY <1>1, <1>6, RunTypes
  <2> QED BY <2>1 DEF SessionRecords
<1>12. (n > x.locked) \in BOOLEAN
  BY <1>11
<1>7. /\ y \in SessionRecords /\ y.pool = x.pool /\ y.by = x.by /\ y.queue = Tail(x.queue)
      /\ ~y.xlocked /\ y.locked = n /\ (y.stray <=> x.stray \/ n > x.locked)
      /\ (x.tx = "none" => y.tx = "none")
  BY <1>6, <1>10, <1>11, <1>12 DEF SessionRecords
<1>13. session' = [session EXCEPT ![s] = y]
  BY <1>4, <1>10
<1>14. x.locked = 0 /\ ~y.stray => Unlocked(y)
  BY <1>7, <1>11 DEF Unlocked
<1>8. ASSUME st.awaited PROVE Desk([call[st.caller] EXCEPT !.ans = "error"], y)
  <2>1. st.caller \in Callers /\ Desk(call[st.caller], x)
    BY <1>1, <1>3, <1>6, <1>8, Owner
  <2>2. PICK k \in CallRecords : k = call[st.caller]
    BY <1>1, <2>1 DEF PgTypeOK
  <2>3. PICK j : j = [k EXCEPT !.ans = "error"]
    OBVIOUS
  <2>4. j.pc = k.pc /\ j.scope = k.scope /\ j.pg = k.pg /\ j.ans = "error" /\ k.pc \in Statements
        /\ k.scope \in {"transaction", "session"} /\ k.ans = "none"
    BY <1>6, <1>8, <2>2, <2>3 DEF CallRecords, Queued
  <2>5. k.scope = "transaction" => XactDesk(j, y)
    <3>1. k.scope = "transaction" /\ k.pc = "begin" => Sound(y)
      BY <1>6, <1>7, <1>8, <1>14, <2>1, <2>2, <2>4 DEF Desk, XactDesk, Sound, Clean, Unlocked
    <3> QED BY <2>4, <3>1 DEF XactDesk, Statements
  <2>6. k.scope = "session" => SessionDesk(j, y)
    <3>1. k.scope = "session" /\ k.pc = "lock" => Sound(y)
      BY <1>6, <1>7, <1>8, <1>14, <2>1, <2>2, <2>4 DEF Desk, SessionDesk, Sound, Clean, Unlocked
    <3> QED BY <2>4, <3>1 DEF SessionDesk, Statements
  <2>7. Desk(j, y)
    BY <2>1, <2>2, <2>4, <2>5, <2>6 DEF Desk
  <2> QED BY <2>2, <2>3, <2>7
<1>9. Locks(y) => Holds(s) \/ LockFree(s)
  <2>1. Locks(y) => Locks(x) \/ Locks(Run(s, st).to)
    BY <1>7 DEF Locks
  <2>2. Locks(x) => Holds(s)
    BY <1>3 DEF Holds, Locks
  <2> QED BY <1>1, <1>6, <2>1, <2>2, RunTypes
<1> QED BY <1>2, <1>3, <1>5, <1>7, <1>8, <1>9, <1>13, Answered

\* The driver gives up on a statement whose failure leads to the session's end,
\* or marks it.
LEMMA DriverGivesUpKeeps ==
    ASSUME Base, NEW s \in Sessions, DriverGivesUp(s)
    PROVE  Base'
<1>1. PgTypeOK /\ LocalOK
  BY DEF Base
<1>2. PICK x \in SessionRecords : x = session[s]
  BY <1>1 DEF PgTypeOK
<1>3. PICK i \in 1..Len(x.queue) :
        /\ x.queue[i].awaited /\ x.queue[i].kind \in DriverTimeouts
        /\ session' = [session EXCEPT ![s].queue[i].awaited = FALSE,
                                      ![s].stray = @ \/ x.queue[i].kind \in {"begin", "lock"}]
        /\ call' = Answer(s, x.queue[i], "error")
  BY <1>2 DEF DriverGivesUp
<1>4. /\ x.pool = "out" /\ i = Len(x.queue) /\ x.queue[i].caller = x.by
      /\ x.queue[i].kind = call[x.by].pc /\ call[x.by].ans = "none"
  BY <1>1, <1>2, <1>3 DEF LocalOK, SessionOK
<1>5. x.queue \in Seq(Queued)
  BY DEF SessionRecords
<1>6. x.queue[i] \in Queued
  BY <1>5, ElementOfSeq
<1>7. PICK e : e = [x.queue[i] EXCEPT !.awaited = FALSE]
  OBVIOUS
<1>8. e \in Queued /\ ~e.awaited
  BY <1>6, <1>7 DEF Queued
<1>9. PICK u : u = [x.queue EXCEPT ![i] = e]
  OBVIOUS
<1>10. u \in Seq(Queued) /\ Len(u) = Len(x.queue) /\ \A n \in 1..Len(x.queue) : u[n] = IF n = i THEN e ELSE x.queue[n]
  BY <1>5, <1>8, <1>9, ExceptSeq
<1>11. PICK y : y = [x EXCEPT !.queue = u, !.stray = @ \/ x.queue[i].kind \in {"begin", "lock"}]
  OBVIOUS
<1>12. /\ y \in SessionRecords /\ y.pool = x.pool /\ y.by = x.by /\ y.queue = u /\ (Locks(y) <=> Locks(x))
       /\ (x.queue[i].kind \in {"begin", "lock"} => y.stray)
  BY <1>10, <1>11 DEF SessionRecords, Locks
<1>13. session' = [session EXCEPT ![s] = y]
  BY <1>2, <1>3, <1>7, <1>9, <1>11
<1>14. PICK p : p = x.by
  OBVIOUS
<1>15. p \in Callers /\ Engaged(p) /\ call[p].sess = s /\ Desk(call[p], x)
  BY <1>1, <1>2, <1>4, <1>14, Owner
<1>16. PICK k \in CallRecords : k = call[p]
  BY <1>1, <1>15 DEF PgTypeOK
<1>17. PICK j : j = [k EXCEPT !.ans = "error"]
  OBVIOUS
<1>18. j \in CallRecords /\ j.pc = k.pc /\ j.sess = k.sess /\ j.pg = k.pg /\ j.scope = k.scope /\ j.ans = "error"
       /\ j.id = k.id /\ j.fiducia = k.fiducia
  BY <1>17 DEF CallRecords
<1>19. call' = [call EXCEPT ![p] = j]
  BY <1>3, <1>4, <1>14, <1>16, <1>17 DEF Answer
<1>20. HasSession(j) /\ j.sess = s
  BY <1>15, <1>16, <1>18 DEF HasSession, Engaged
<1>21. Desk(j, y)
  <2>1. j.pc \in Statements /\ (j.pc \in {"begin", "lock"} => Sound(y))
    BY <1>4, <1>6, <1>12, <1>14, <1>16, <1>18 DEF Queued, Sound
  <2>2. Desk(k, x)
    BY <1>15, <1>16
  <2> QED BY <1>18, <2>1, <2>2 DEF Desk, XactDesk, SessionDesk, Statements
<1>22. Awaiting(j, y)
  BY <1>1, <1>2, <1>4, <1>8, <1>10, <1>12 DEF LocalOK, SessionOK, Awaiting
<1>23. Holds(s) <=> Locks(x)
  BY <1>2 DEF Holds, Locks
<1>24. UNCHANGED <<lease, calls>> /\ y.by = p /\ y.pool = "out" /\ session[s].by = p /\ (Locks(y) => Holds(s) \/ LockFree(s))
  BY <1>2, <1>4, <1>12, <1>14, <1>23 DEF DriverGivesUp
<1> QED BY <1>12, <1>13, <1>15, <1>16, <1>18, <1>19, <1>20, <1>21, <1>22, <1>24, GoesOn

LEMMA FreshClean == Fresh \in SessionRecords /\ Clean(Fresh) /\ Sound(Fresh) /\ ~Locks(Fresh)
<1>1. <<>> \in Seq(Queued)
  OBVIOUS
<1> QED BY <1>1 DEF Fresh, SessionRecords, Sound, Clean, Unlocked, Locks

LEMMA BreakKeeps ==
    ASSUME Base, NEW s \in Sessions, Break(s)
    PROVE  Base'
<1>1. PgTypeOK /\ LocalOK
  BY DEF Base
<1>2. PICK p : p = session[s].by
  OBVIOUS
<1>3. /\ session[s].pool = "out" /\ p \in Callers /\ Engaged(p) /\ call[p].sess = s /\ Desk(call[p], session[s])
  BY <1>1, <1>2, Owner DEF Break
<1>4. PICK k \in CallRecords : k = call[p]
  BY <1>1, <1>3 DEF PgTypeOK
<1>5. PICK j \in CallRecords : /\ call' = [call EXCEPT ![p] = j]
                               /\ j.pc = k.pc /\ j.sess = k.sess /\ j.pg = k.pg /\ j.scope = k.scope
                               /\ j.id = k.id /\ j.fiducia = k.fiducia
  <2>1. [k EXCEPT !.ans = "error"] \in CallRecords
    BY DEF CallRecords
  <2>2. call' = [call EXCEPT ![p] = k] \/ call' = [call EXCEPT ![p] = [k EXCEPT !.ans = "error"]]
    BY <1>1, <1>2, <1>3, <1>4 DEF Break, PgTypeOK
  <2> QED BY <2>1, <2>2 DEF CallRecords
<1>6. PICK y : y = [Fresh EXCEPT !.pool = "broken", !.by = p]
  OBVIOUS
<1>7. y \in SessionRecords /\ y.pool = "broken" /\ y.by = p /\ Clean(y) /\ ~Locks(y) /\ y.queue = <<>>
  BY <1>3, <1>6, FreshClean DEF Fresh, SessionRecords, Clean, Unlocked, Locks
<1>8. session' = [session EXCEPT ![s] = y] /\ UNCHANGED <<lease, calls>>
  BY <1>2, <1>6 DEF Break
<1>9. HasSession(j) /\ j.sess = s
  BY <1>3, <1>4, <1>5 DEF HasSession, Engaged
<1>10. Desk(j, y) /\ Awaiting(j, y)
  BY <1>3, <1>4, <1>5, <1>7 DEF Desk, Awaiting
<1> QED BY <1>2, <1>3, <1>4, <1>5, <1>7, <1>8, <1>9, <1>10, GoesOn

LEMMA ClosedKeeps ==
    ASSUME Base, NEW s \in Sessions, Closed(s)
    PROVE  Base'
<1>1. Fresh.pool = "idle" /\ Fresh.queue = <<>>
  BY DEF Fresh
<1>2. \A i \in 1..Len(Fresh.queue) : ~Fresh.queue[i].awaited
  BY <1>1
<1>3. /\ session[s].pool = "closing" /\ session' = [session EXCEPT ![s] = Fresh] /\ UNCHANGED <<call, lease, calls>>
  BY DEF Closed
<1> QED BY <1>1, <1>2, <1>3, FreshClean, Unattended

-----------------------------------------------------------------------------
(* The client.                                                             *)

LEMMA DidTypes ==
    ASSUME NEW k \in CallRecords, NEW step \in Steps
    PROVE  /\ Did(k, step) \in CallRecords
           /\ Did(k, step).pc = k.pc /\ Did(k, step).sess = k.sess /\ Did(k, step).pg = k.pg
           /\ Did(k, step).scope = k.scope /\ Did(k, step).ans = k.ans
           /\ Did(k, step).id = k.id /\ Did(k, step).fiducia = k.fiducia
<1>1. Append(k.steps, step) \in Seq(Steps)
  BY AppendProperties DEF CallRecords
<1> QED BY <1>1 DEF Did, CallRecords

\* Nothing is awaited by a call that has read its answer, or is in its work.
LEMMA NoneAwaited ==
    ASSUME PgTypeOK, LocalOK, NEW p \in Callers, Engaged(p), call[p].ans # "none" \/ call[p].pc = "work"
    PROVE  /\ call[p].sess \in Sessions /\ session[call[p].sess].by = p
           /\ session[call[p].sess].pool \in {"out", "broken"} /\ Desk(call[p], session[call[p].sess])
           /\ \A i \in 1..Len(session[call[p].sess].queue) : ~session[call[p].sess].queue[i].awaited
<1>1. /\ call[p].sess \in Sessions /\ session[call[p].sess].by = p
      /\ session[call[p].sess].pool \in {"out", "broken"} /\ Desk(call[p], session[call[p].sess])
  BY DEF LocalOK, CallOK
<1>2. PICK x \in SessionRecords : x = session[call[p].sess]
  BY <1>1 DEF PgTypeOK
<1>3. ASSUME NEW i \in 1..Len(x.queue), x.queue[i].awaited PROVE FALSE
  <2>1. x.queue[i] \in Queued
    BY ElementOfSeq DEF SessionRecords
  <2>2. x.queue[i].kind = call[p].pc /\ call[p].ans = "none"
    BY <1>1, <1>2, <1>3 DEF LocalOK, SessionOK
  <2> QED BY <2>1, <2>2 DEF Queued, Statements
<1> QED BY <1>1, <1>2, <1>3

\* The next statement may be sent: the session is as its answer will assume.
Ready(x, kind) ==
    \/ kind = "rollback"
    \/ kind = "xlock" /\ x.queue = <<>> /\ x.tx = "open" /\ (x.stray \/ x.locked = 0)
    \/ kind = "commit" /\ x.queue = <<>> /\ (x.stray \/ x.locked = 0)
    \/ kind = "unlock" /\ x.queue = <<>> /\ HasLock(x)

LEMMA QueryKeeps ==
    ASSUME Base, NEW p \in Callers, Engaged(p), call[p].ans # "none" \/ call[p].pc = "work",
           NEW k \in CallRecords, k.sess = call[p].sess, k.id = call[p].id, k.fiducia = call[p].fiducia,
           k.pg, NEW kind \in {"xlock", "commit", "rollback", "unlock"},
           k.scope = IF kind = "unlock" THEN "session" ELSE "transaction",
           session[k.sess].pool = "out" => Ready(session[k.sess], kind),
           Query(p, k, kind, kind), UNCHANGED <<lease, calls>>
    PROVE  Base'
<1>1. PgTypeOK /\ LocalOK
  BY DEF Base
<1>2. PICK s \in Sessions : s = call[p].sess
  BY <1>1, NoneAwaited
<1>3. PICK x \in SessionRecords : x = session[s]
  BY <1>1 DEF PgTypeOK
<1>4. x.by = p /\ x.pool \in {"out", "broken"} /\ \A i \in 1..Len(x.queue) : ~x.queue[i].awaited
  BY <1>1, <1>2, <1>3, NoneAwaited
<1>5. Holds(s) <=> Locks(x)
  BY <1>3 DEF Holds, Locks
<1>6. CASE x.pool = "broken"
  <2>1. PICK j : j = [k EXCEPT !.pc = kind, !.ans = "error"]
    OBVIOUS
  <2>2. j \in CallRecords /\ j.pc = kind /\ j.sess = s /\ j.pg /\ j.scope = k.scope /\ j.id = k.id /\ j.fiducia = k.fiducia
    BY <1>2, <2>1 DEF CallRecords, Statements
  <2>3. HasSession(j) /\ Desk(j, x)
    BY <1>6, <2>2 DEF HasSession, Desk, Statements
  <2>4. call' = [call EXCEPT ![p] = j] /\ session' = session
    BY <1>2, <1>3, <1>6, <2>1 DEF Query, Enter
  <2>5. session' = [session EXCEPT ![s] = x]
    BY <1>1, <1>3, <2>4 DEF PgTypeOK
  <2>6. Clean(x) /\ Awaiting(j, x)
    BY <1>1, <1>3, <1>4, <1>6 DEF LocalOK, SessionOK, Awaiting
  <2> QED BY <1>2, <1>3, <1>4, <1>5, <1>6, <2>2, <2>3, <2>4, <2>5, <2>6, GoesOn
<1>7. CASE x.pool = "out"
  <2>1. PICK j : j = [k EXCEPT !.pc = kind, !.ans = "none"]
    OBVIOUS
  <2>2. j \in CallRecords /\ j.pc = kind /\ j.sess = s /\ j.pg /\ j.scope = k.scope /\ j.ans = "none"
        /\ j.id = k.id /\ j.fiducia = k.fiducia
    BY <1>2, <2>1 DEF CallRecords, Statements
  <2>3. PICK st : st = [kind |-> kind, caller |-> p, wait |-> k.wait, awaited |-> TRUE]
    OBVIOUS
  <2>4. st \in Queued /\ st.kind = kind /\ st.caller = p /\ st.awaited
    BY <2>3 DEF Queued, Statements, CallRecords
  <2>5. PICK u : u = Append(x.queue, st)
    OBVIOUS
  <2>6. /\ u \in Seq(Queued) /\ Len(u) = Len(x.queue) + 1 /\ Len(x.queue) \in Nat
        /\ \A i \in 1..Len(x.queue) : u[i] = x.queue[i]
        /\ u[Len(x.queue) + 1] = st
    BY <2>4, <2>5, AppendProperties, LenProperties DEF SessionRecords
  <2>7. PICK y : y = [x EXCEPT !.queue = u]
    OBVIOUS
  <2>8. /\ y \in SessionRecords /\ y.pool = x.pool /\ y.by = x.by /\ y.queue = u /\ (Locks(y) <=> Locks(x))
        /\ y.tx = x.tx /\ y.xlocked = x.xlocked /\ y.locked = x.locked /\ y.stray = x.stray
    BY <2>6, <2>7 DEF SessionRecords, Locks
  <2>9. call' = [call EXCEPT ![p] = j] /\ session' = [session EXCEPT ![s] = y]
    BY <1>2, <1>3, <1>7, <2>1, <2>3, <2>5, <2>7 DEF Query, Enter
  <2>10. Awaiting(j, y)
    BY <1>4, <1>7, <2>2, <2>4, <2>6, <2>8 DEF Awaiting
  <2>11. x.queue = <<>> => Sent(y, kind)
    BY <2>4, <2>6, <2>8 DEF Sent
  <2>12. Desk(j, y)
    <3>1. Ready(x, kind)
      BY <1>2, <1>3, <1>7
    <3>2. HasLock(x) => HasLock(y)
      BY <2>8 DEF HasLock
    <3> QED BY <2>2, <2>8, <2>11, <3>1, <3>2 DEF Ready, Desk, XactDesk, SessionDesk
  <2>13. HasSession(j)
    BY <2>2 DEF HasSession, Statements
  <2> QED BY ZenonT(30), <1>2, <1>3, <1>4, <1>5, <1>7, <2>2, <2>8, <2>9, <2>10, <2>12, <2>13, GoesOn
<1> QED BY <1>4, <1>6, <1>7

LEMMA GiveBackKeeps ==
    ASSUME Base, NEW p \in Callers, Engaged(p), call[p].ans # "none" \/ call[p].pc = "work",
           NEW k \in CallRecords, k.sess = call[p].sess, k.id = call[p].id, k.fiducia = call[p].fiducia,
           NEW destroy \in BOOLEAN, NEW inner \in Inners,
           session[k.sess].pool = "out" /\ ~destroy => Sound(session[k.sess]),
           GiveBack(p, k, destroy, inner), UNCHANGED <<lease, calls>>
    PROVE  Base'
<1>1. PgTypeOK /\ LocalOK
  BY DEF Base
<1>2. PICK s \in Sessions : s = call[p].sess
  BY <1>1, NoneAwaited
<1>3. PICK x \in SessionRecords : x = session[s]
  BY <1>1 DEF PgTypeOK
<1>4. x.by = p /\ x.pool \in {"out", "broken"} /\ \A i \in 1..Len(x.queue) : ~x.queue[i].awaited
  BY <1>1, <1>2, <1>3, NoneAwaited
<1>5. Holds(s) <=> Locks(x)
  BY <1>3 DEF Holds, Locks
<1>6. PICK j : j = [k EXCEPT !.pc = "settling", !.ans = "none", !.inner = inner]
  OBVIOUS
<1>7. j \in CallRecords /\ j.pc = "settling" /\ j.id = k.id /\ j.fiducia = k.fiducia
  BY <1>6 DEF CallRecords
<1>8. PICK y : y = IF x.pool = "broken" THEN Fresh ELSE [x EXCEPT !.pool = IF destroy THEN "closing" ELSE "idle"]
  OBVIOUS
<1>9. call' = [call EXCEPT ![p] = j] /\ session' = [session EXCEPT ![s] = y]
  BY <1>2, <1>3, <1>6, <1>8 DEF GiveBack, Enter
<1>10. CASE x.pool = "broken"
  <2>1. y = Fresh /\ y.pool = "idle" /\ y.queue = <<>>
    BY <1>8, <1>10 DEF Fresh
  <2>2. \A i \in 1..Len(y.queue) : ~y.queue[i].awaited
    BY <2>1
  <2>3. y \in SessionRecords /\ Sound(y) /\ ~Locks(y)
    BY <2>1, FreshClean
  <2> QED BY <1>2, <1>7, <1>9, <2>1, <2>2, <2>3, Parts
<1>11. CASE x.pool = "out"
  <2>1. /\ y \in SessionRecords /\ y.pool = (IF destroy THEN "closing" ELSE "idle") /\ y.queue = x.queue
        /\ (Locks(y) <=> Locks(x)) /\ (Sound(y) <=> Sound(x))
    BY <1>8, <1>11 DEF SessionRecords, Locks, Sound, Clean, Unlocked
  <2>2. y.pool = "idle" => Sound(y)
    BY <1>2, <1>3, <1>11, <2>1
  <2> QED BY <1>2, <1>4, <1>5, <1>7, <1>9, <2>1, <2>2, Parts
<1> QED BY <1>4, <1>10, <1>11

LEMMA StartKeeps ==
    ASSUME Base, NEW p \in Callers, Start(p)
    PROVE  Base'
<1>1. PgTypeOK /\ ~Engaged(p) /\ calls' = calls + 1 /\ UNCHANGED <<session, lease>>
  BY DEF Base, Start, Engaged, Statements
<1>2. PICK m \in Modes :
        LET k == [Idle EXCEPT !.fiducia = m.fiducia, !.pg = m.pg, !.scope = m.scope, !.wait = m.wait, !.id = calls + 1] IN
        \/ call' = [call EXCEPT ![p] = Finish(k, "invalid_plan")]
        \/ call' = [call EXCEPT ![p] = [k EXCEPT !.pc = IF m.fiducia THEN "acquiring" ELSE IF m.pg THEN "connecting" ELSE "work"]]
  BY DEF Start, Enter
<1>3. PICK k : k = [Idle EXCEPT !.fiducia = m.fiducia, !.pg = m.pg, !.scope = m.scope, !.wait = m.wait, !.id = calls + 1]
  OBVIOUS
<1>4. k \in CallRecords /\ k.sess = NULL /\ k.pg = m.pg /\ k.fiducia = m.fiducia /\ k.ans = "none" /\ k.id = calls + 1
  <2>1. m \in [fiducia : BOOLEAN, pg : BOOLEAN, scope : {"transaction", "session"}, wait : BOOLEAN]
    BY PgAssumption
  <2>2. <<>> \in Seq(Steps) /\ calls + 1 \in Nat
    BY <1>1 DEF PgTypeOK
  <2> QED BY <1>3, <2>1, <2>2 DEF Idle, CallRecords, Inners
<1>5. calls' \in Nat /\ lease' \in 0..calls'
  BY <1>1 DEF PgTypeOK
<1>8. ASSUME NEW j \in CallRecords, call' = [call EXCEPT ![p] = j], j.id = calls + 1 PROVE Leased'
  <2>1. call'[p] = j /\ \A q \in Callers : q # p => call'[q] = call[q]
    BY <1>1, <1>8 DEF PgTypeOK
  <2>2. /\ \A q \in Callers : call[q].id \in 0..calls
        /\ calls \in Nat /\ lease \in 0..calls
    BY <1>1 DEF PgTypeOK, CallRecords, Base, Leased
  <2>3. \A q \in Callers : q # p => call'[q].id # call'[p].id
    BY <1>8, <2>1, <2>2
  <2>4. lease # call'[p].id /\ call'[p].id # 0 /\ call'[p].id <= calls'
    BY <1>1, <1>8, <2>1, <2>2
  <2>5. \A q \in Callers : q # p => call'[q].id <= calls'
    BY <1>1, <2>1, <2>2
  <2> QED BY <1>1, <2>1, <2>3, <2>4, <2>5 DEF Base, Leased
<1>6. CASE call' = [call EXCEPT ![p] = Finish(k, "invalid_plan")]
  <2>1. PICK j : j = Finish(k, "invalid_plan")
    OBVIOUS
  <2>2. j \in CallRecords /\ j.pc = "done" /\ ~HasSession(j) /\ Unconnected(j) /\ j.id = calls + 1
    BY <1>4, <2>1 DEF Finish, CallRecords, HasSession, Statements, Unconnected
  <2>3. Leased'
    BY <1>1, <1>6, <1>8, <2>1, <2>2
  <2> QED BY <1>1, <1>5, <1>6, <2>1, <2>2, <2>3, Alone
<1>7. CASE call' = [call EXCEPT ![p] = [k EXCEPT !.pc = IF m.fiducia THEN "acquiring" ELSE IF m.pg THEN "connecting" ELSE "work"]]
  <2>1. PICK j : j = [k EXCEPT !.pc = IF m.fiducia THEN "acquiring" ELSE IF m.pg THEN "connecting" ELSE "work"]
    OBVIOUS
  <2>2. /\ j \in CallRecords /\ j.sess = NULL /\ j.pg = m.pg /\ j.fiducia = m.fiducia /\ j.ans = "none" /\ j.id = calls + 1
        /\ j.pc = IF m.fiducia THEN "acquiring" ELSE IF m.pg THEN "connecting" ELSE "work"
    BY <1>4, <2>1 DEF CallRecords
  <2>3. ~HasSession(j) /\ Unconnected(j)
    BY <2>2 DEF HasSession, Statements, Unconnected
  <2>4. Leased'
    BY <1>1, <1>7, <1>8, <2>1, <2>2
  <2> QED BY <1>1, <1>5, <1>7, <2>1, <2>2, <2>3, <2>4, Alone
<1> QED BY <1>2, <1>3, <1>6, <1>7

LEMMA AcquiredKeeps ==
    ASSUME Base, NEW p \in Callers, Acquired(p)
    PROVE  Base'
<1>1. PICK k \in CallRecords : k = call[p]
  BY DEF Base, PgTypeOK
<1>2. k.pc = "acquiring" /\ ~Engaged(p) /\ UNCHANGED <<session, calls>> /\ k.sess = NULL /\ k.ans = "none" /\ k.fiducia
  BY <1>1 DEF Acquired, Engaged, Statements, Base, LocalOK, CallOK, Unconnected
<1>3. calls' \in Nat /\ lease' \in 0..calls'
  <2>1. k.id \in 0..calls /\ calls \in Nat /\ lease \in 0..calls
    BY <1>1 DEF Base, PgTypeOK, CallRecords, Leased
  <2>2. lease' \in {lease, k.id}
    BY <1>1 DEF Acquired
  <2> QED BY <1>2, <2>1, <2>2
<1>4. PICK g : g = Did([k EXCEPT !.pc = IF k.pg THEN "connecting" ELSE "work"], Form(k.wait, "fiducia.acquire"))
  OBVIOUS
<1>5. /\ g \in CallRecords /\ ~HasSession(g) /\ Unconnected(g)
      /\ g.id = k.id /\ g.fiducia /\ g.pc \in {"connecting", "work"}
  <2>1. PICK h : h = [k EXCEPT !.pc = IF k.pg THEN "connecting" ELSE "work"]
    OBVIOUS
  <2>2. h \in CallRecords /\ h.sess = NULL /\ h.ans = "none" /\ h.pc = (IF k.pg THEN "connecting" ELSE "work")
        /\ h.pg = k.pg /\ h.id = k.id /\ h.fiducia
    BY <1>2, <2>1 DEF CallRecords
  <2>3. Form(k.wait, "fiducia.acquire") \in Steps
    BY DEF Steps, CallRecords
  <2>4. g \in CallRecords /\ g.sess = NULL /\ g.ans = "none" /\ g.pc = h.pc /\ g.pg = h.pg
        /\ g.id = k.id /\ g.fiducia
    BY <1>4, <2>1, <2>2, <2>3, DidTypes
  <2> QED BY <2>2, <2>4 DEF HasSession, Statements, Unconnected
<1>6. \A o \in {"contention", "transport"} :
        /\ Finish(k, o) \in CallRecords /\ ~HasSession(Finish(k, o)) /\ Unconnected(Finish(k, o))
        /\ Finish(k, o).id = k.id /\ Finish(k, o).fiducia = k.fiducia
        /\ Finish(k, o).pc = "done" /\ Finish(k, o).outcome = o
  <2> SUFFICES ASSUME NEW o \in {"contention", "transport"}
               PROVE  /\ Finish(k, o) \in CallRecords /\ ~HasSession(Finish(k, o)) /\ Unconnected(Finish(k, o))
                      /\ Finish(k, o).id = k.id /\ Finish(k, o).fiducia = k.fiducia
                      /\ Finish(k, o).pc = "done" /\ Finish(k, o).outcome = o
    OBVIOUS
  <2>1. Finish(k, o) \in CallRecords
    BY DEF Finish, CallRecords, Inners
  <2>2. /\ Finish(k, o).id = k.id /\ Finish(k, o).fiducia = k.fiducia /\ Finish(k, o).sess = k.sess
        /\ Finish(k, o).pc = "done" /\ Finish(k, o).outcome = o /\ Finish(k, o).ans = "none"
    BY DEF Finish, CallRecords
  <2> QED BY <2>1, <2>2 DEF HasSession, Statements, Unconnected
<1>7. PICK j \in {g, Finish(k, "contention"), Finish(k, "transport")} :
        /\ call' = [call EXCEPT ![p] = j] /\ lease' \in {lease, k.id} /\ (lease' = lease \/ lease = 0)
        /\ lease' = lease \/ j \in {g, Finish(k, "transport")}
  BY <1>1, <1>4 DEF Acquired, Enter
<1>8. j \in CallRecords /\ ~HasSession(j) /\ Unconnected(j)
  BY <1>5, <1>6
<1>9. /\ j.id = k.id /\ j.fiducia /\ j.pc \notin {"idle", "acquiring"}
      /\ lease' \in {lease, k.id} /\ (lease' = lease \/ lease = 0)
      /\ j.pc = "done" => j.outcome = "transport" \/ lease' = lease
  BY <1>2, <1>5, <1>6, <1>7
<1>10. call'[p] = j /\ \A q \in Callers : q # p => call'[q] = call[q]
  BY <1>7 DEF Base, PgTypeOK
<1>11. k.id # 0 /\ lease # k.id /\ \A q \in Callers : q # p => call[q].id # k.id
  BY <1>1, <1>2 DEF Base, Leased
<1>12. Leased'
  BY <1>1, <1>2, <1>9, <1>10, <1>11 DEF Base, Leased
<1> QED BY <1>2, <1>3, <1>7, <1>8, <1>12, Alone

LEMMA SettleKeeps ==
    ASSUME Base, NEW p \in Callers, Settle(p)
    PROVE  Base'
<1>1. PICK k \in CallRecords : k = call[p]
  BY DEF Base, PgTypeOK
<1>2. k.pc = "settling" /\ ~Engaged(p) /\ UNCHANGED <<session, calls>>
  BY <1>1 DEF Settle, Engaged, Statements
<1>3. calls' \in Nat /\ lease' \in 0..calls'
  <2>1. lease' \in {lease, 0}
    BY DEF Settle
  <2> QED BY <1>2, <2>1 DEF Base, PgTypeOK
<1>5. Did(k, "fiducia.release") \in CallRecords /\ k.inner \in Inners
  BY DidTypes DEF Steps, CallRecords
<1>4. Did(k, "fiducia.release").id = k.id /\ Did(k, "fiducia.release").fiducia = k.fiducia
  BY DidTypes DEF Steps
<1>6. PICK c \in CallRecords, o \in Inners \cup {"transport", "lost_lease"} :
        /\ call' = [call EXCEPT ![p] = Finish(c, o)] /\ lease' \in {lease, 0} /\ c.id = k.id /\ c.fiducia = k.fiducia
        /\ lease' = 0 \/ lease' # k.id \/ ~k.fiducia \/ o = "transport"
  BY <1>1, <1>4, <1>5 DEF Settle, Enter
<1>7. PICK j : j = Finish(c, o)
  OBVIOUS
<1>8. /\ j \in CallRecords /\ ~HasSession(j) /\ Unconnected(j)
      /\ j.id = k.id /\ j.fiducia = k.fiducia /\ j.pc = "done" /\ j.outcome = o
  <2>1. o \in Inners \cup {"invalid_plan", "transport", "lost_lease"}
    OBVIOUS
  <2>2. j \in CallRecords /\ j.pc = "done" /\ j.id = k.id /\ j.fiducia = k.fiducia /\ j.outcome = o
    BY <1>6, <1>7, <2>1 DEF Finish, CallRecords
  <2> QED BY <2>2 DEF HasSession, Statements, Unconnected
<1>9. call'[p] = j /\ \A q \in Callers : q # p => call'[q] = call[q]
  BY <1>6, <1>7 DEF Base, PgTypeOK
<1>10. Leased'
  BY <1>1, <1>2, <1>6, <1>8, <1>9 DEF Base, Leased
<1> QED BY <1>2, <1>3, <1>6, <1>7, <1>8, <1>10, Alone

LEMMA ConnectedKeeps ==
    ASSUME Base, NEW p \in Callers, Connected(p)
    PROVE  Base'
<1>1. PgTypeOK /\ LocalOK
  BY DEF Base
<1>2. PICK k \in CallRecords : k = call[p]
  BY <1>1 DEF PgTypeOK
<1>3. k.pc = "connecting" /\ ~Engaged(p) /\ UNCHANGED <<lease, calls>> /\ k.pg /\ k.ans = "none"
  BY <1>1, <1>2 DEF Connected, Engaged, Statements, LocalOK, CallOK, Unconnected
<1>4. CASE call' = [call EXCEPT ![p] = [k EXCEPT !.pc = "settling", !.inner = "database"]] /\ UNCHANGED session
  <2>1. PICK j : j = [k EXCEPT !.pc = "settling", !.inner = "database"]
    OBVIOUS
  <2>2. j \in CallRecords /\ j.pc = "settling" /\ ~HasSession(j) /\ Unconnected(j) /\ j.id = k.id /\ j.fiducia = k.fiducia
    BY <2>1 DEF CallRecords, HasSession, Statements, Inners, Unconnected
  <2>3. calls' \in Nat /\ lease' \in 0..calls'
    BY <1>1, <1>3 DEF PgTypeOK
  <2>4. Leased'
    BY <1>1, <1>2, <1>3, <1>4, <2>1, <2>2, LeasedKept DEF Base
  <2> QED BY <1>3, <1>4, <2>1, <2>2, <2>3, <2>4, Alone
<1>5. PICK kind \in Statements : kind = IF k.scope = "session" THEN "lock" ELSE "begin"
  BY DEF Statements
<1>6. PICK st \in Queued : st = [kind |-> kind, caller |-> p, wait |-> k.wait, awaited |-> TRUE]
  BY DEF Queued, CallRecords
<1>7. ASSUME NEW s \in Sessions, session[s].pool = "idle",
             session' = [session EXCEPT ![s].pool = "out", ![s].by = p, ![s].queue = Append(@, st)],
             call' = [call EXCEPT ![p] = [k EXCEPT !.sess = s, !.pc = kind]]
      PROVE  Base'
  <2>1. PICK x \in SessionRecords : x = session[s]
    BY <1>1 DEF PgTypeOK
  <2>2. Sound(x) /\ x.pool = "idle" /\ \A i \in 1..Len(x.queue) : ~x.queue[i].awaited
    BY <1>1, <1>7, <2>1 DEF LocalOK, SessionOK
  <2>3. st.kind = kind /\ st.caller = p /\ st.awaited
    BY <1>6
  <2>4. PICK u : u = Append(x.queue, st)
    OBVIOUS
  <2>5. /\ u \in Seq(Queued) /\ Len(u) = Len(x.queue) + 1 /\ Len(x.queue) \in Nat
        /\ \A i \in 1..Len(x.queue) : u[i] = x.queue[i]
        /\ u[Len(x.queue) + 1] = st
    BY <1>6, <2>4, AppendProperties, LenProperties DEF SessionRecords
  <2>6. PICK y : y = [x EXCEPT !.pool = "out", !.by = p, !.queue = u]
    OBVIOUS
  <2>7. /\ y \in SessionRecords /\ y.pool = "out" /\ y.by = p /\ y.queue = u /\ (Locks(y) => Holds(s))
        /\ y.stray \/ (x.queue = <<>> /\ y.tx = "none" /\ Unlocked(y))
    <3>1. /\ y \in SessionRecords /\ y.pool = "out" /\ y.by = p /\ y.queue = u
          /\ y.tx = x.tx /\ y.xlocked = x.xlocked /\ y.locked = x.locked /\ y.stray = x.stray
      BY <2>5, <2>6 DEF SessionRecords
    <3> QED BY <2>1, <2>2, <3>1 DEF Locks, Holds, Sound, Clean, Unlocked
  <2>8. session' = [session EXCEPT ![s] = y]
    BY <1>1, <1>7, <2>1, <2>4, <2>6 DEF PgTypeOK
  <2>9. PICK j : j = [k EXCEPT !.sess = s, !.pc = kind]
    OBVIOUS
  <2>10. j \in CallRecords /\ j.pc = kind /\ j.sess = s /\ j.pg /\ j.scope = k.scope /\ j.ans = k.ans
         /\ j.id = k.id /\ j.fiducia = k.fiducia
    BY <1>3, <2>3, <2>9 DEF CallRecords
  <2>11. j.ans = "none"
    BY <1>3, <2>10
  <2>12. (x.queue = <<>> => Sent(y, kind)) /\ Awaiting(j, y)
    <3>1. x.queue = <<>> => Sent(y, kind)
      BY <2>3, <2>5, <2>7 DEF Sent
    <3>2. Awaiting(j, y)
      BY <2>2, <2>3, <2>5, <2>7, <2>10, <2>11 DEF Awaiting
    <3> QED BY <3>1, <3>2
  <2>13. Desk(j, y) /\ HasSession(j)
    <3>1. k.scope \in {"transaction", "session"}
      BY DEF CallRecords
    <3>2. CASE k.scope = "transaction"
      BY <1>5, <2>7, <2>10, <2>11, <2>12, <3>2 DEF Desk, XactDesk, HasSession
    <3>3. CASE k.scope = "session"
      BY <1>5, <2>7, <2>10, <2>11, <2>12, <3>3 DEF Desk, SessionDesk, HasSession
    <3> QED BY <3>1, <3>2, <3>3
  <2> QED BY ZenonT(30), <1>2, <1>3, <1>7, <2>7, <2>8, <2>9, <2>10, <2>12, <2>13, GoesOn
<1>8. \/ call' = [call EXCEPT ![p] = [k EXCEPT !.pc = "settling", !.inner = "database"]] /\ UNCHANGED session
      \/ \E s \in Sessions :
           /\ session[s].pool = "idle"
           /\ session' = [session EXCEPT ![s].pool = "out", ![s].by = p, ![s].queue = Append(@, st)]
           /\ call' = [call EXCEPT ![p] = [k EXCEPT !.sess = s, !.pc = kind]]
  BY <1>2, <1>5, <1>6 DEF Connected, Enter
<1> QED BY <1>4, <1>7, <1>8

\* The lock is granted and the work begins.
LEMMA EntersWork ==
    ASSUME Base, NEW p \in Callers, Engaged(p), call[p].pc \in {"xlock", "lock"}, call[p].ans = "ok",
           NEW step \in Steps, call' = [call EXCEPT ![p] = Did([call[p] EXCEPT !.pc = "work"], step)],
           UNCHANGED <<session, lease, calls>>
    PROVE  Base'
<1>1. PgTypeOK /\ LocalOK
  BY DEF Base
<1>2. PICK k \in CallRecords : k = call[p]
  BY <1>1 DEF PgTypeOK
<1>3. PICK s \in Sessions : s = call[p].sess
  BY <1>1, NoneAwaited
<1>4. PICK x \in SessionRecords : x = session[s]
  BY <1>1 DEF PgTypeOK
<1>5. /\ x.by = p /\ x.pool \in {"out", "broken"} /\ \A i \in 1..Len(x.queue) : ~x.queue[i].awaited
      /\ Desk(k, x)
  BY <1>1, <1>2, <1>3, <1>4, NoneAwaited
<1>6. PICK h : h = [k EXCEPT !.pc = "work"]
  OBVIOUS
<1>7. /\ h \in CallRecords /\ h.pc = "work" /\ h.sess = k.sess /\ h.pg = k.pg /\ h.scope = k.scope
      /\ h.id = k.id /\ h.fiducia = k.fiducia
  BY <1>6 DEF CallRecords
<1>8. PICK j : j = Did(h, step)
  OBVIOUS
<1>9. /\ j \in CallRecords /\ j.pc = "work" /\ j.sess = s /\ j.pg = k.pg /\ j.scope = k.scope
      /\ j.id = k.id /\ j.fiducia = k.fiducia
  BY <1>2, <1>3, <1>7, <1>8, DidTypes
<1>10. Desk(j, x) /\ HasSession(j)
  BY <1>2, <1>5, <1>9 DEF Desk, XactDesk, SessionDesk, HasSession
<1>11. Awaiting(j, x) /\ (x.pool = "broken" => Clean(x)) /\ (Locks(x) => Holds(s))
  BY <1>1, <1>4, <1>5 DEF Awaiting, LocalOK, SessionOK, Locks, Holds
<1>12. call' = [call EXCEPT ![p] = j] /\ session' = [session EXCEPT ![s] = x]
  BY <1>1, <1>2, <1>4, <1>6, <1>8 DEF PgTypeOK
<1> QED BY <1>2, <1>3, <1>4, <1>5, <1>9, <1>10, <1>11, <1>12, GoesOn

\* What a caller that has its answer knows.
LEMMA AtDesk ==
    ASSUME Base, NEW p \in Callers, call[p].pc \in Statements \/ (call[p].pc = "work" /\ call[p].pg)
    PROVE  /\ Engaged(p) /\ call[p] \in CallRecords /\ call[p].sess \in Sessions
           /\ call[p].pg /\ session[call[p].sess] \in SessionRecords
           /\ call[p].pc \in {"begin", "xlock", "commit", "rollback"} => call[p].scope = "transaction"
           /\ call[p].pc \in {"lock", "unlock"} => call[p].scope = "session"
           /\ session[call[p].sess].pool = "out" =>
                /\ call[p].scope = "transaction" => XactDesk(call[p], session[call[p].sess])
                /\ call[p].scope = "session" => SessionDesk(call[p], session[call[p].sess])
<1>1. Engaged(p)
  BY DEF Engaged
<1>2. call[p].sess \in Sessions /\ Desk(call[p], session[call[p].sess])
  BY <1>1 DEF Base, LocalOK, CallOK
<1>3. call[p] \in CallRecords /\ session[call[p].sess] \in SessionRecords
  BY <1>2 DEF Base, PgTypeOK
<1> QED BY <1>1, <1>2, <1>3 DEF Desk

LEMMA BeginAnsweredKeeps ==
    ASSUME Base, NEW p \in Callers, BeginAnswered(p)
    PROVE  Base'
<1>1. call[p].pc = "begin" /\ call[p].ans # "none" /\ UNCHANGED <<lease, calls>>
  BY DEF BeginAnswered
<1>2. PICK k \in CallRecords : k = call[p]
  BY <1>1, AtDesk DEF Statements
<1>3. /\ Engaged(p) /\ k.pg /\ k.scope = "transaction"
      /\ session[k.sess].pool = "out" => XactDesk(k, session[k.sess])
  BY <1>1, <1>2, AtDesk DEF Statements
<1>4. CASE k.ans = "ok" /\ Query(p, Did(k, "pg.begin"), "xlock", "xlock")
  <2>1. PICK j : j = Did(k, "pg.begin")
    OBVIOUS
  <2>2. j \in CallRecords /\ j.sess = k.sess /\ j.pg /\ j.scope = "transaction" /\ j.id = k.id /\ j.fiducia = k.fiducia
    BY <1>3, <2>1, DidTypes DEF Steps
  <2>3. session[j.sess].pool = "out" => Ready(session[j.sess], "xlock")
    BY <1>1, <1>2, <1>3, <1>4, <2>2 DEF XactDesk, Ready
  <2>4. Query(p, j, "xlock", "xlock")
    BY <1>4, <2>1
  <2> QED BY <1>1, <1>2, <1>3, <2>2, <2>3, <2>4, QueryKeeps
<1>5. CASE k.ans = "error" /\ GiveBack(p, k, FALSE, "database")
  <2>1. session[k.sess].pool = "out" => Sound(session[k.sess])
    BY <1>1, <1>2, <1>3, <1>5 DEF XactDesk
  <2> QED BY <1>1, <1>2, <1>3, <1>5, <2>1, GiveBackKeeps DEF Inners
<1> QED BY <1>2, <1>4, <1>5 DEF BeginAnswered

\* A rollback may be sent whatever has happened.
LEMMA RollsBack ==
    ASSUME Base, NEW p \in Callers, call[p].pc \in {"xlock", "commit"}, call[p].ans # "none", NEW inner \in Inners,
           Query(p, [call[p] EXCEPT !.inner = inner], "rollback", "rollback"), UNCHANGED <<lease, calls>>
    PROVE  Base'
<1>1. PICK k \in CallRecords : k = call[p]
  BY AtDesk DEF Statements
<1>2. Engaged(p) /\ k.pg /\ k.scope = "transaction"
  BY <1>1, AtDesk DEF Statements
<1>3. PICK j : j = [k EXCEPT !.inner = inner]
  OBVIOUS
<1>4. j \in CallRecords /\ j.sess = k.sess /\ j.pg /\ j.scope = "transaction" /\ j.id = k.id /\ j.fiducia = k.fiducia
  BY <1>2, <1>3 DEF CallRecords
<1>5. Ready(session[j.sess], "rollback") /\ Query(p, j, "rollback", "rollback")
  BY <1>1, <1>3 DEF Ready
<1> QED BY <1>1, <1>2, <1>4, <1>5, QueryKeeps

LEMMA XlockAnsweredKeeps ==
    ASSUME Base, NEW p \in Callers, XlockAnswered(p)
    PROVE  Base'
<1>1. call[p].pc = "xlock" /\ call[p].ans # "none" /\ UNCHANGED <<lease, calls>>
  BY DEF XlockAnswered
<1>2. Engaged(p) /\ call[p] \in CallRecords
  BY <1>1, AtDesk DEF Statements
<1>3. CASE /\ call[p].ans = "ok" /\ UNCHANGED session
           /\ Enter(p, Did([call[p] EXCEPT !.pc = "work"], Form(call[p].wait, "pg.advisory_xact_lock")))
  <2>1. PICK step \in Steps : step = Form(call[p].wait, "pg.advisory_xact_lock")
    BY <1>2 DEF Steps, CallRecords
  <2>2. call' = [call EXCEPT ![p] = Did([call[p] EXCEPT !.pc = "work"], step)]
    BY <1>3, <2>1 DEF Enter
  <2> QED BY <1>1, <1>2, <1>3, <2>2, EntersWork
<1>4. CASE Query(p, [call[p] EXCEPT !.inner = "contention"], "rollback", "rollback")
  BY <1>1, <1>4, RollsBack DEF Inners
<1>5. CASE Query(p, [call[p] EXCEPT !.inner = "database"], "rollback", "rollback")
  BY <1>1, <1>5, RollsBack DEF Inners
<1> QED BY <1>3, <1>4, <1>5 DEF XlockAnswered

LEMMA CommitAnsweredKeeps ==
    ASSUME Base, NEW p \in Callers, CommitAnswered(p)
    PROVE  Base'
<1>1. call[p].pc = "commit" /\ call[p].ans # "none" /\ UNCHANGED <<lease, calls>>
  BY DEF CommitAnswered
<1>2. PICK k \in CallRecords : k = call[p]
  BY <1>1, AtDesk DEF Statements
<1>3. /\ Engaged(p) /\ k.scope = "transaction"
      /\ session[k.sess].pool = "out" => XactDesk(k, session[k.sess])
  BY <1>1, <1>2, AtDesk DEF Statements
<1>4. CASE k.ans = "ok" /\ GiveBack(p, Did(k, "pg.commit"), FALSE, "ok")
  <2>1. PICK j : j = Did(k, "pg.commit")
    OBVIOUS
  <2>2. j \in CallRecords /\ j.sess = k.sess /\ j.id = k.id /\ j.fiducia = k.fiducia
    BY <2>1, DidTypes DEF Steps
  <2>3. session[j.sess].pool = "out" => Sound(session[j.sess])
    BY <1>1, <1>2, <1>3, <1>4, <2>2 DEF XactDesk
  <2>4. GiveBack(p, j, FALSE, "ok")
    BY <1>4, <2>1
  <2> QED BY <1>1, <1>2, <1>3, <2>2, <2>3, <2>4, GiveBackKeeps DEF Inners
<1>5. CASE Query(p, [call[p] EXCEPT !.inner = "database"], "rollback", "rollback")
  BY <1>1, <1>5, RollsBack DEF Inners
<1> QED BY <1>2, <1>4, <1>5 DEF CommitAnswered

LEMMA RollbackAnsweredKeeps ==
    ASSUME Base, NEW p \in Callers, RollbackAnswered(p)
    PROVE  Base'
<1>1. /\ call[p].pc = "rollback" /\ call[p].ans # "none" /\ UNCHANGED <<lease, calls>>
      /\ GiveBack(p, Did(call[p], "pg.rollback"), TRUE, call[p].inner)
  BY DEF RollbackAnswered
<1>2. PICK k \in CallRecords : k = call[p]
  BY <1>1, AtDesk DEF Statements
<1>3. PICK j \in CallRecords, inner \in Inners : j = Did(k, "pg.rollback") /\ inner = call[p].inner
  <2>1. Did(k, "pg.rollback") \in CallRecords /\ k.inner \in Inners
    BY DidTypes DEF Steps, CallRecords
  <2> QED BY <1>2, <2>1
<1>4. j \in CallRecords /\ j.sess = k.sess /\ j.id = k.id /\ j.fiducia = k.fiducia
  BY <1>3, DidTypes DEF Steps
<1>5. Engaged(p)
  BY <1>1, AtDesk DEF Statements
<1>6. GiveBack(p, j, TRUE, inner)
  BY <1>1, <1>2, <1>3
<1> QED BY <1>1, <1>2, <1>4, <1>5, <1>6, GiveBackKeeps

LEMMA LockAnsweredKeeps ==
    ASSUME Base, NEW p \in Callers, LockAnswered(p)
    PROVE  Base'
<1>1. call[p].pc = "lock" /\ call[p].ans # "none" /\ UNCHANGED <<lease, calls>>
  BY DEF LockAnswered
<1>2. PICK k \in CallRecords : k = call[p]
  BY <1>1, AtDesk DEF Statements
<1>3. /\ Engaged(p) /\ k.scope = "session"
      /\ session[k.sess].pool = "out" => SessionDesk(k, session[k.sess])
  BY <1>1, <1>2, AtDesk DEF Statements
<1>4. CASE /\ call[p].ans = "ok" /\ UNCHANGED session
           /\ Enter(p, Did([call[p] EXCEPT !.pc = "work"], Form(call[p].wait, "pg.advisory_lock")))
  <2>1. PICK step \in Steps : step = Form(call[p].wait, "pg.advisory_lock")
    BY <1>2 DEF Steps, CallRecords
  <2>2. call' = [call EXCEPT ![p] = Did([call[p] EXCEPT !.pc = "work"], step)]
    BY <1>4, <2>1 DEF Enter
  <2> QED BY <1>1, <1>3, <1>4, <2>2, EntersWork
<1>5. ASSUME NEW inner \in Inners, k.ans \in {"false", "error"}, GiveBack(p, k, FALSE, inner) PROVE Base'
  <2>1. session[k.sess].pool = "out" => Sound(session[k.sess])
    BY <1>1, <1>2, <1>3, <1>5 DEF SessionDesk
  <2> QED BY <1>1, <1>2, <1>3, <1>5, <2>1, GiveBackKeeps
<1> QED BY <1>2, <1>4, <1>5 DEF LockAnswered, Inners

LEMMA UnlockAnsweredKeeps ==
    ASSUME Base, NEW p \in Callers, UnlockAnswered(p)
    PROVE  Base'
<1>1. call[p].pc = "unlock" /\ call[p].ans # "none" /\ UNCHANGED <<lease, calls>>
  BY DEF UnlockAnswered
<1>2. PICK k \in CallRecords : k = call[p]
  BY <1>1, AtDesk DEF Statements
<1>3. /\ Engaged(p) /\ k.scope = "session"
      /\ session[k.sess].pool = "out" => SessionDesk(k, session[k.sess])
  BY <1>1, <1>2, AtDesk DEF Statements
<1>4. CASE k.ans = "ok" /\ GiveBack(p, Did(k, "pg.advisory_unlock"), FALSE, k.inner)
  <2>1. PICK j \in CallRecords, inner \in Inners : j = Did(k, "pg.advisory_unlock") /\ inner = k.inner
    <3>1. Did(k, "pg.advisory_unlock") \in CallRecords /\ k.inner \in Inners
      BY DidTypes DEF Steps, CallRecords
    <3> QED BY <3>1
  <2>2. j \in CallRecords /\ j.sess = k.sess /\ j.id = k.id /\ j.fiducia = k.fiducia
    BY <2>1, DidTypes DEF Steps
  <2>3. session[j.sess].pool = "out" => Sound(session[j.sess])
    BY <1>1, <1>2, <1>3, <1>4, <2>2 DEF SessionDesk
  <2>4. GiveBack(p, j, FALSE, inner)
    BY <1>4, <2>1
  <2> QED BY <1>1, <1>2, <1>3, <2>2, <2>3, <2>4, GiveBackKeeps
<1>5. CASE GiveBack(p, k, TRUE, "database")
  BY <1>1, <1>2, <1>3, <1>5, GiveBackKeeps DEF Inners
<1> QED BY <1>2, <1>4, <1>5 DEF UnlockAnswered

LEMMA StatementFailsKeeps ==
    ASSUME Base, NEW p \in Callers, StatementFails(p)
    PROVE  Base'
<1>1. PgTypeOK /\ LocalOK
  BY DEF Base
<1>2. PICK k \in CallRecords : k = call[p]
  BY <1>1 DEF PgTypeOK
<1>3. k.pc = "work" /\ k.sess # NULL /\ Engaged(p) /\ UNCHANGED <<call, lease, calls>>
  BY <1>1, <1>2 DEF StatementFails, LocalOK, CallOK, Engaged, Unconnected
<1>4. PICK s \in Sessions : s = k.sess
  BY <1>1, <1>2, <1>3, NoneAwaited
<1>5. PICK x \in SessionRecords : x = session[s]
  BY <1>1 DEF PgTypeOK
<1>6. /\ x.by = p /\ x.pool \in {"out", "broken"} /\ Desk(k, x) /\ \A i \in 1..Len(x.queue) : ~x.queue[i].awaited
  BY <1>1, <1>2, <1>3, <1>4, <1>5, NoneAwaited
<1>7. PICK y : y = [x EXCEPT !.tx = "failed", !.xlocked = FALSE]
  OBVIOUS
<1>8. /\ x.tx = "open" /\ session' = [session EXCEPT ![s] = y]
  BY <1>2, <1>4, <1>5, <1>7 DEF StatementFails
<1>9. x.pool = "out"
  BY <1>1, <1>5, <1>6, <1>8 DEF LocalOK, SessionOK, Clean
<1>10. /\ y \in SessionRecords /\ y.pool = x.pool /\ y.by = x.by /\ y.queue = x.queue
       /\ ~y.xlocked /\ y.locked = x.locked /\ y.stray = x.stray /\ y.tx = "failed"
  BY <1>7 DEF SessionRecords
<1>11. Desk(k, y) /\ HasSession(k)
  <2>1. k.pg /\ HasSession(k) /\ k.scope \in {"transaction", "session"}
    BY <1>2, <1>3 DEF Engaged, HasSession, Statements, CallRecords
  <2>2. CASE k.scope = "transaction"
    BY <1>3, <1>6, <1>9, <1>10, <2>1, <2>2 DEF Desk, XactDesk
  <2>3. CASE k.scope = "session"
    BY <1>3, <1>6, <1>8, <1>9, <1>10, <2>1, <2>3 DEF Desk, SessionDesk, HasLock
  <2> QED BY <2>1, <2>2, <2>3
<1>12. Awaiting(k, y) /\ (Locks(y) => Holds(s))
  BY <1>5, <1>6, <1>10 DEF Awaiting, Locks, Holds
<1>13. call' = [call EXCEPT ![p] = k]
  BY <1>1, <1>2, <1>3 DEF PgTypeOK
<1>14. /\ y.by = p /\ y.pool = "out" /\ k.sess = s /\ call[p].sess = s /\ session[s].by = p
  BY <1>2, <1>4, <1>5, <1>6, <1>9, <1>10
<1> QED BY <1>2, <1>3, <1>8, <1>10, <1>11, <1>12, <1>13, <1>14, GoesOn

LEMMA WorkEndsKeeps ==
    ASSUME Base, NEW p \in Callers, WorkEnds(p)
    PROVE  Base'
<1>1. PgTypeOK /\ LocalOK
  BY DEF Base
<1>2. PICK c \in CallRecords : c = call[p]
  BY <1>1 DEF PgTypeOK
<1>3. c.pc = "work" /\ UNCHANGED <<lease, calls>>
  BY <1>2 DEF WorkEnds
<1>4. PICK ok \in BOOLEAN :
        LET k == [Did(c, "work") EXCEPT !.inner = IF ok THEN "ok" ELSE "work"] IN
        CASE ~k.pg -> Enter(p, [k EXCEPT !.pc = "settling"]) /\ UNCHANGED session
          [] k.pg /\ k.scope = "session" -> Query(p, k, "unlock", "unlock")
          [] k.pg /\ k.scope = "transaction" -> IF ok THEN Query(p, k, "commit", "commit")
                                                      ELSE Query(p, k, "rollback", "rollback")
  BY <1>2 DEF WorkEnds
<1>5. PICK d : d = Did(c, "work")
  OBVIOUS
<1>6. /\ d \in CallRecords /\ d.pc = c.pc /\ d.sess = c.sess /\ d.pg = c.pg /\ d.scope = c.scope
      /\ d.id = c.id /\ d.fiducia = c.fiducia
  BY <1>5, DidTypes DEF Steps
<1>7. PICK k : k = [d EXCEPT !.inner = IF ok THEN "ok" ELSE "work"]
  OBVIOUS
<1>8. /\ k \in CallRecords /\ k.pc = c.pc /\ k.sess = c.sess /\ k.pg = c.pg /\ k.scope = c.scope
      /\ c.scope \in {"transaction", "session"} /\ k.id = c.id /\ k.fiducia = c.fiducia
  BY <1>6, <1>7 DEF CallRecords, Inners
<1>9. \/ ~k.pg /\ Enter(p, [k EXCEPT !.pc = "settling"]) /\ UNCHANGED session
      \/ k.pg /\ k.scope = "session" /\ Query(p, k, "unlock", "unlock")
      \/ k.pg /\ k.scope = "transaction" /\ (Query(p, k, "commit", "commit") \/ Query(p, k, "rollback", "rollback"))
  <2>1. CASE ~k.pg
    BY <1>4, <1>5, <1>7, <2>1
  <2>2. CASE k.pg /\ k.scope = "session"
    BY <1>4, <1>5, <1>7, <2>2
  <2>3. CASE k.pg /\ k.scope = "transaction"
    BY <1>4, <1>5, <1>7, <2>3
  <2> QED BY <1>8, <2>1, <2>2, <2>3
<1>10. CASE ~k.pg /\ Enter(p, [k EXCEPT !.pc = "settling"]) /\ UNCHANGED session
  <2>1. PICK j : j = [k EXCEPT !.pc = "settling"]
    OBVIOUS
  <2>2. j \in CallRecords /\ ~HasSession(j) /\ Unconnected(j) /\ j.pc = "settling" /\ j.id = k.id /\ j.fiducia = k.fiducia
    BY <1>8, <2>1 DEF CallRecords, HasSession, Statements, Unconnected
  <2>3. ~Engaged(p) /\ calls' \in Nat /\ lease' \in 0..calls'
    BY <1>1, <1>2, <1>3, <1>8, <1>10 DEF Engaged, Statements, PgTypeOK
  <2>4. call' = [call EXCEPT ![p] = j]
    BY <1>10, <2>1 DEF Enter
  <2>5. Leased'
    BY <1>1, <1>2, <1>3, <1>8, <2>2, <2>4, LeasedKept DEF Base
  <2> QED BY <1>10, <2>2, <2>3, <2>4, <2>5, Alone
<1>11. CASE k.pg
  <2>1. /\ Engaged(p) /\ c.sess \in Sessions
        /\ session[c.sess].pool = "out" => /\ c.scope = "transaction" => XactDesk(c, session[c.sess])
                                           /\ c.scope = "session" => SessionDesk(c, session[c.sess])
    BY <1>2, <1>3, <1>8, <1>11, AtDesk
  <2>2. session[k.sess].pool = "out" => /\ k.scope = "session" => Ready(session[k.sess], "unlock")
                                        /\ k.scope = "transaction" => Ready(session[k.sess], "commit")
                                        /\ Ready(session[k.sess], "rollback")
    BY <1>3, <1>8, <2>1 DEF XactDesk, SessionDesk, Ready
  <2>3. CASE k.scope = "session" /\ Query(p, k, "unlock", "unlock")
    BY <1>2, <1>3, <1>8, <1>11, <2>1, <2>2, <2>3, QueryKeeps
  <2>4. CASE k.scope = "transaction" /\ Query(p, k, "commit", "commit")
    BY <1>2, <1>3, <1>8, <1>11, <2>1, <2>2, <2>4, QueryKeeps
  <2>5. CASE k.scope = "transaction" /\ Query(p, k, "rollback", "rollback")
    BY <1>2, <1>3, <1>8, <1>11, <2>1, <2>2, <2>5, QueryKeeps
  <2> QED BY <1>9, <1>11, <2>3, <2>4, <2>5
<1> QED BY <1>9, <1>10, <1>11

-----------------------------------------------------------------------------
LEMMA InitBase == PgInit => Base
<1> SUFFICES ASSUME PgInit PROVE Base
  OBVIOUS
<1>1. Idle \in CallRecords /\ Idle.pc = "idle" /\ Idle.id = 0
  <2>1. <<>> \in Seq(Steps)
    OBVIOUS
  <2> QED BY <2>1 DEF Idle, CallRecords, Inners
<1>2. Fresh \in SessionRecords /\ Fresh.pool = "idle" /\ Sound(Fresh) /\ Clean(Fresh) /\ Fresh.queue = <<>>
  BY FreshClean DEF Fresh
<1>3. \A p \in Callers : call[p] = Idle
  BY DEF PgInit
<1>4. \A s \in Sessions : session[s] = Fresh
  BY DEF PgInit
<1>5. PgTypeOK
  BY <1>1, <1>2 DEF PgInit, PgTypeOK
<1>6. \A p \in Callers : CallOK(p)
  BY <1>1, <1>3 DEF CallOK, Engaged, Statements, Unconnected
<1>7. \A s \in Sessions : SessionOK(s)
  BY <1>2, <1>4 DEF SessionOK
<1>8. OneHolder
  BY <1>2, <1>4 DEF OneHolder, Holds, Clean, Unlocked
<1>9. Leased
  BY <1>1, <1>3 DEF Leased, PgInit
<1> QED BY <1>5, <1>6, <1>7, <1>8, <1>9 DEF Base, LocalOK

LEMMA NextBase ==
    ASSUME Base, [PgNext]_vars
    PROVE  Base'
<1>1. CASE UNCHANGED vars
  BY <1>1 DEF vars, Base, PgTypeOK, LocalOK, CallOK, SessionOK, Engaged, OneHolder, Holds, Leased
<1>2. ASSUME NEW p \in Callers, ClientStep(p) PROVE Base'
  BY <1>2, AcquiredKeeps, ConnectedKeeps, BeginAnsweredKeeps, XlockAnsweredKeeps, CommitAnsweredKeeps,
     RollbackAnsweredKeeps, LockAnsweredKeeps, UnlockAnsweredKeeps, WorkEndsKeeps, SettleKeeps DEF ClientStep
<1>3. ASSUME NEW p \in Callers, Start(p) \/ StatementFails(p) PROVE Base'
  BY <1>3, StartKeeps, StatementFailsKeeps
<1>4. ASSUME NEW s \in Sessions, Execute(s) \/ ServerError(s) \/ DriverGivesUp(s) \/ Break(s) \/ Closed(s) PROVE Base'
  BY <1>4, ExecuteKeeps, ServerErrorKeeps, DriverGivesUpKeeps, BreakKeeps, ClosedKeeps
<1>5. CASE Lapse
  <2>1. PgTypeOK'
    BY <1>5 DEF Lapse, Base, PgTypeOK
  <2>2. LocalOK'
    BY <1>5 DEF Lapse, Base, LocalOK, CallOK, SessionOK, Engaged
  <2>3. OneHolder' /\ Leased'
    BY <1>5 DEF Lapse, Base, OneHolder, Holds, Leased
  <2> QED BY <2>1, <2>2, <2>3 DEF Base
<1> QED BY <1>1, <1>2, <1>3, <1>4, <1>5 DEF PgNext

LEMMA BaseImpliesPgInv == Base => PgInv
<1> SUFFICES ASSUME Base PROVE PgInv
  OBVIOUS
<1>1. PgTypeOK
  BY DEF Base
<1>2. PooledSessionsAreClean
  <2> SUFFICES ASSUME NEW s \in Sessions, session[s].pool = "idle", ~session[s].stray
               PROVE  session[s].tx = "none" /\ ~Holds(s) /\ session[s].queue = <<>>
    BY DEF PooledSessionsAreClean
  <2> QED BY DEF Base, LocalOK, SessionOK, Sound, Clean, Unlocked, Holds
<1>3. WorkExclusive
  <2>1. ASSUME NEW p \in Callers, Guarded(p)
        PROVE  call[p].sess \in Sessions /\ session[call[p].sess].by = p /\ Holds(call[p].sess)
    <3>1. /\ Engaged(p) /\ call[p].sess \in Sessions /\ session[call[p].sess].by = p
          /\ session[call[p].sess].pool = "out" /\ call[p].pc = "work" /\ call[p].pg
      BY <2>1 DEF Base, LocalOK, CallOK, Engaged, Guarded
    <3>2. /\ call[p].scope = "transaction" => XactDesk(call[p], session[call[p].sess])
          /\ call[p].scope = "session" => SessionDesk(call[p], session[call[p].sess])
          /\ call[p].scope \in {"transaction", "session"}
      BY <3>1, AtDesk DEF CallRecords
    <3> QED BY <2>1, <3>1, <3>2 DEF Guarded, XactDesk, SessionDesk, HasLock, Holds
  <2> SUFFICES ASSUME NEW p \in Callers, NEW q \in Callers, Guarded(p), Guarded(q)
               PROVE  p = q
    BY DEF WorkExclusive
  <2>2. Holds(call[p].sess) /\ Holds(call[q].sess) /\ call[p].sess \in Sessions /\ call[q].sess \in Sessions
        /\ session[call[p].sess].by = p /\ session[call[q].sess].by = q
    BY <2>1
  <2> QED BY <2>2 DEF Base, OneHolder
<1>4. EndedHoldsNothing
  <2> SUFFICES ASSUME NEW p \in Callers, call[p].pc = "done", call[p].outcome \in {"ok", "work", "contention"}
               PROVE  /\ lease # call[p].id
                      /\ \A s \in Sessions : (session[s].by = p /\ session[s].pool # "closing" /\ ~session[s].stray) => ~Holds(s)
    BY DEF EndedHoldsNothing
  <2>1. lease # call[p].id
    BY DEF Base, Leased
  <2>2. ~Engaged(p)
    BY DEF Engaged, Statements
  <2>3. ASSUME NEW s \in Sessions, session[s].by = p, session[s].pool # "closing", ~session[s].stray PROVE ~Holds(s)
    <3>1. session[s].pool \in {"idle", "out", "broken", "closing"}
      BY <1>1 DEF PgTypeOK, SessionRecords
    <3>2. session[s].pool = "idle"
      BY <2>2, <2>3, <3>1 DEF Base, LocalOK, SessionOK
    <3> QED BY <2>3, <3>2 DEF Base, LocalOK, SessionOK, Sound, Clean, Unlocked, Holds
  <2> QED BY <2>1, <2>3
<1> QED BY <1>1, <1>2, <1>3, <1>4 DEF PgInv

\* Whatever statement the driver gives up on and whatever the server refuses:
\* a session in the pool holds no lock, is in no transaction and has nothing
\* left to run, unless a BEGIN or a session lock that its client took for failed
\* strayed in it; two callers are never both in guarded work; and a call that
\* ended with nothing to clean up holds neither the lease nor, but for a stray
\* one, a lock (pg.ts, withXactLock, withSessionLock).
THEOREM PgCorrect == PgSpec => []PgInv
<1>1. PgInit => Base
  BY InitBase
<1>2. Base /\ [PgNext]_vars => Base'
  BY NextBase
<1>3. Base => PgInv
  BY BaseImpliesPgInv
<1> QED BY <1>1, <1>2, <1>3, PTL DEF PgSpec

-----------------------------------------------------------------------------
(* The steps a call has taken.                                             *)

Lead(k) == IF k.fiducia THEN <<Form(k.wait, "fiducia.acquire")>> ELSE <<>>
Locked(k) == IF k.scope = "session" THEN <<Form(k.wait, "pg.advisory_lock")>>
                                    ELSE <<"pg.begin", Form(k.wait, "pg.advisory_xact_lock")>>

\* What has been done by the time of each place.
OnPlan(k) ==
    /\ k.pc = "acquiring" => k.fiducia /\ k.steps = <<>>
    /\ k.pc \in {"connecting", "begin", "lock"} => k.pg /\ k.steps = Lead(k)
    /\ k.pc \in {"begin", "xlock", "commit", "rollback"} => k.scope = "transaction"
    /\ k.pc \in {"lock", "unlock"} => k.scope = "session"
    /\ k.pc = "xlock" => k.pg /\ k.steps = Append(Lead(k), "pg.begin")
    /\ k.pc = "work" => k.steps = IF k.pg THEN Lead(k) \o Locked(k) ELSE Lead(k)
    /\ k.pc \in {"commit", "unlock"} => k.pg /\ k.steps = Append(Lead(k) \o Locked(k), "work")
    /\ k.pc = "rollback" => k.inner # "ok"
    /\ k.pc = "commit" => k.inner = "ok"
    /\ k.pc = "settling" /\ k.inner = "ok" => k.steps \o (IF k.fiducia THEN <<"fiducia.release">> ELSE <<>>) = plan(k)
    /\ k.pc = "done" =>
         /\ k.outcome = "ok" => k.steps = plan(k)
         /\ (k.steps # <<>> /\ k.fiducia /\ k.outcome \notin {"transport", "lost_lease"})
              => k.steps[Len(k.steps)] = "fiducia.release"

AllOnPlan == \A p \in Callers : OnPlan(call[p])

\* What the plan depends on, and the rest of what is known of the steps.
SameCall(j, k) == j.fiducia = k.fiducia /\ j.wait = k.wait /\ j.pg = k.pg /\ j.scope = k.scope
SameSteps(j, k) == j.pc = k.pc /\ j.inner = k.inner /\ j.outcome = k.outcome /\ j.steps = k.steps

Release(k) == IF k.fiducia THEN <<"fiducia.release">> ELSE <<>>

LEMMA SamePlan ==
    ASSUME NEW j, NEW k, SameCall(j, k)
    PROVE  Lead(j) = Lead(k) /\ Locked(j) = Locked(k) /\ plan(j) = plan(k) /\ Release(j) = Release(k)
BY DEF SameCall, Lead, Locked, plan, Release

LEMMA AnswerOnPlan ==
    ASSUME NEW j, NEW k, SameCall(j, k), SameSteps(j, k), OnPlan(k)
    PROVE  OnPlan(j)
<1>1. Lead(j) = Lead(k) /\ Locked(j) = Locked(k) /\ plan(j) = plan(k)
  BY SamePlan
<1> QED BY <1>1 DEF OnPlan, SameCall, SameSteps

LEMMA Tuple2 ==
    ASSUME NEW e \in Steps, NEW f \in Steps
    PROVE  <<e>> \in Seq(Steps) /\ Append(<<e>>, f) = <<e, f>>
<1>1. <<e>> \in Seq(Steps) /\ <<e, f>> \in Seq(Steps)
  OBVIOUS
<1>2. Len(<<e>>) = 1 /\ Len(<<e, f>>) = 2 /\ \A i \in 1..2 : i \in 1..1 \/ i = 2
  OBVIOUS
<1>3. /\ Append(<<e>>, f) \in Seq(Steps) /\ Len(Append(<<e>>, f)) = 2
      /\ \A i \in 1..1 : Append(<<e>>, f)[i] = <<e>>[i]
      /\ Append(<<e>>, f)[2] = f
  BY <1>1, <1>2, AppendProperties
<1>4. \A i \in 1..1 : <<e>>[i] = <<e, f>>[i]
  <2>1. \A i \in 1..1 : i = 1
    OBVIOUS
  <2> QED BY <2>1
<1>5. \A i \in 1..2 : Append(<<e>>, f)[i] = <<e, f>>[i]
  BY <1>2, <1>3, <1>4
<1> QED BY <1>1, <1>2, <1>3, <1>5, SeqEqual

LEMMA Tuple3 ==
    ASSUME NEW e \in Steps, NEW f \in Steps, NEW g \in Steps
    PROVE  <<e, f>> \in Seq(Steps) /\ Append(<<e, f>>, g) = <<e, f, g>>
<1>1. <<e, f>> \in Seq(Steps) /\ <<e, f, g>> \in Seq(Steps)
  OBVIOUS
<1>2. Len(<<e, f>>) = 2 /\ Len(<<e, f, g>>) = 3 /\ \A i \in 1..3 : i \in 1..2 \/ i = 3
  OBVIOUS
<1>3. /\ Append(<<e, f>>, g) \in Seq(Steps) /\ Len(Append(<<e, f>>, g)) = 3
      /\ \A i \in 1..2 : Append(<<e, f>>, g)[i] = <<e, f>>[i]
      /\ Append(<<e, f>>, g)[3] = g
  BY <1>1, <1>2, AppendProperties
<1>4. \A i \in 1..2 : <<e, f>>[i] = <<e, f, g>>[i]
  <2>1. \A i \in 1..2 : i = 1 \/ i = 2
    OBVIOUS
  <2> QED BY <2>1
<1>5. \A i \in 1..3 : Append(<<e, f>>, g)[i] = <<e, f, g>>[i]
  BY <1>2, <1>3, <1>4
<1> QED BY <1>1, <1>2, <1>3, <1>5, SeqEqual

LEMMA Tuple4 ==
    ASSUME NEW e \in Steps, NEW f \in Steps, NEW g \in Steps, NEW h \in Steps
    PROVE  <<e, f, g>> \in Seq(Steps) /\ Append(<<e, f, g>>, h) = <<e, f, g, h>>
<1>1. <<e, f, g>> \in Seq(Steps) /\ <<e, f, g, h>> \in Seq(Steps)
  OBVIOUS
<1>2. Len(<<e, f, g>>) = 3 /\ Len(<<e, f, g, h>>) = 4 /\ \A i \in 1..4 : i \in 1..3 \/ i = 4
  OBVIOUS
<1>3. /\ Append(<<e, f, g>>, h) \in Seq(Steps) /\ Len(Append(<<e, f, g>>, h)) = 4
      /\ \A i \in 1..3 : Append(<<e, f, g>>, h)[i] = <<e, f, g>>[i]
      /\ Append(<<e, f, g>>, h)[4] = h
  BY <1>1, <1>2, AppendProperties
<1>4. \A i \in 1..3 : <<e, f, g>>[i] = <<e, f, g, h>>[i]
  <2>1. \A i \in 1..3 : i = 1 \/ i = 2 \/ i = 3
    OBVIOUS
  <2> QED BY <2>1
<1>5. \A i \in 1..4 : Append(<<e, f, g>>, h)[i] = <<e, f, g, h>>[i]
  BY <1>2, <1>3, <1>4
<1> QED BY <1>1, <1>2, <1>3, <1>5, SeqEqual

LEMMA AppendInside ==
    ASSUME NEW a \in Seq(Steps), NEW b \in Seq(Steps), NEW x \in Steps
    PROVE  Append(a \o b, x) = a \o Append(b, x)
<1>1. <<x>> \in Seq(Steps) /\ a \o b \in Seq(Steps)
  BY ConcatProperties
<1>2. Append(a \o b, x) = (a \o b) \o <<x>> /\ Append(b, x) = b \o <<x>>
  BY <1>1, AppendIsConcat
<1> QED BY <1>1, <1>2, ConcatAssociative

\* The plan, spelled out for the three ways through the routines.
LEMMA Ways ==
    ASSUME NEW k \in CallRecords
    PROVE  /\ Lead(k) \in Seq(Steps)
           /\ ~k.pg => Append(Lead(k), "work") \o Release(k) = plan(k)
           /\ k.scope = "session" => /\ Append(Lead(k), Form(k.wait, "pg.advisory_lock")) = Lead(k) \o Locked(k)
                                     /\ k.pg => Append(Append(Lead(k) \o Locked(k), "work"), "pg.advisory_unlock") \o Release(k) = plan(k)
           /\ k.scope = "transaction" =>
                /\ Append(Append(Lead(k), "pg.begin"), Form(k.wait, "pg.advisory_xact_lock")) = Lead(k) \o Locked(k)
                /\ k.pg => Append(Append(Lead(k) \o Locked(k), "work"), "pg.commit") \o Release(k) = plan(k)
<1>1. /\ Form(k.wait, "fiducia.acquire") \in Steps /\ Form(k.wait, "pg.advisory_lock") \in Steps
      /\ Form(k.wait, "pg.advisory_xact_lock") \in Steps
      /\ "pg.begin" \in Steps /\ "work" \in Steps /\ "pg.commit" \in Steps /\ "pg.advisory_unlock" \in Steps
  BY DEF Steps, CallRecords
<1>2. PICK a : a = Lead(k)
  OBVIOUS
<1>3. a \in Seq(Steps)
  BY <1>1, <1>2 DEF Lead
<1>4. PICK fl, fx : fl = Form(k.wait, "pg.advisory_lock") /\ fx = Form(k.wait, "pg.advisory_xact_lock")
  OBVIOUS
<1>5. fl \in Steps /\ fx \in Steps
  BY <1>1, <1>4
<1>6. /\ Append(a, "work") = a \o <<"work">>
      /\ Append(a, fl) = a \o <<fl>>
      /\ Append(Append(a, "pg.begin"), fx) = a \o <<"pg.begin", fx>>
      /\ Append(Append(a \o <<fl>>, "work"), "pg.advisory_unlock") = a \o <<fl, "work", "pg.advisory_unlock">>
      /\ Append(Append(a \o <<"pg.begin", fx>>, "work"), "pg.commit") = a \o <<"pg.begin", fx, "work", "pg.commit">>
  <2>1. Append(a, "work") = a \o <<"work">> /\ Append(a, fl) = a \o <<fl>> /\ Append(a, "pg.begin") = a \o <<"pg.begin">>
    BY <1>1, <1>3, <1>5, AppendIsConcat
  <2>2. /\ <<"pg.begin">> \in Seq(Steps) /\ <<"pg.begin", fx>> \in Seq(Steps)
        /\ <<"pg.begin", fx, "work">> \in Seq(Steps) /\ Append(<<"pg.begin">>, fx) = <<"pg.begin", fx>>
        /\ Append(<<"pg.begin", fx>>, "work") = <<"pg.begin", fx, "work">>
        /\ Append(<<"pg.begin", fx, "work">>, "pg.commit") = <<"pg.begin", fx, "work", "pg.commit">>
    BY <1>1, <1>5, Tuple2, Tuple3, Tuple4
  <2>3. /\ <<fl>> \in Seq(Steps) /\ <<fl, "work">> \in Seq(Steps)
        /\ Append(<<fl>>, "work") = <<fl, "work">>
        /\ Append(<<fl, "work">>, "pg.advisory_unlock") = <<fl, "work", "pg.advisory_unlock">>
    BY <1>1, <1>5, Tuple2, Tuple3
  <2>4. ASSUME NEW b \in Seq(Steps), NEW x \in Steps PROVE Append(a \o b, x) = a \o Append(b, x)
    BY <1>3, AppendInside
  <2>5. Append(a \o <<"pg.begin">>, fx) = a \o <<"pg.begin", fx>>
    BY <1>5, <2>2, <2>4
  <2>6. Append(a \o <<"pg.begin", fx>>, "work") = a \o <<"pg.begin", fx, "work">>
    BY <1>1, <2>2, <2>4
  <2>7. Append(a \o <<"pg.begin", fx, "work">>, "pg.commit") = a \o <<"pg.begin", fx, "work", "pg.commit">>
    BY <1>1, <2>2, <2>4
  <2>8. Append(a \o <<fl>>, "work") = a \o <<fl, "work">>
    BY <1>1, <2>3, <2>4
  <2>9. Append(a \o <<fl, "work">>, "pg.advisory_unlock") = a \o <<fl, "work", "pg.advisory_unlock">>
    BY <1>1, <2>3, <2>4
  <2> QED BY <2>1, <2>5, <2>6, <2>7, <2>8, <2>9
<1>7. /\ ~k.pg => plan(k) = (a \o <<"work">>) \o Release(k)
      /\ k.pg /\ k.scope = "session" => plan(k) = (a \o <<fl, "work", "pg.advisory_unlock">>) \o Release(k)
      /\ k.pg /\ k.scope = "transaction" => plan(k) = (a \o <<"pg.begin", fx, "work", "pg.commit">>) \o Release(k)
  <2>1. CASE ~k.pg
    BY <1>2, <2>1 DEF plan, Lead, Release
  <2>2. CASE k.pg /\ k.scope = "session"
    BY <1>2, <1>4, <2>2 DEF plan, Lead, Release
  <2>3. CASE k.pg /\ k.scope = "transaction"
    BY <1>2, <1>4, <2>3 DEF plan, Lead, Release
  <2>4. k.pg \in BOOLEAN
    BY DEF CallRecords
  <2> QED BY <2>1, <2>2, <2>3, <2>4
<1>8. /\ k.scope = "session" => Locked(k) = <<fl>>
      /\ k.scope = "transaction" => Locked(k) = <<"pg.begin", fx>>
  BY <1>4 DEF Locked
<1> QED BY <1>2, <1>3, <1>4, <1>6, <1>7, <1>8

Planned == calls \in Nat /\ call \in [Callers -> CallRecords] /\ AllOnPlan

LEMMA PlanStep ==
    ASSUME Planned, NEW p \in Callers, NEW j \in CallRecords, call' = [call EXCEPT ![p] = j], calls' \in Nat, OnPlan(j)
    PROVE  Planned'
<1>1. call' \in [Callers -> CallRecords] /\ call'[p] = j /\ \A q \in Callers : q # p => call'[q] = call[q]
  BY DEF Planned
<1>2. AllOnPlan'
  <2> SUFFICES ASSUME NEW q \in Callers PROVE OnPlan(call'[q])
    BY DEF AllOnPlan
  <2> QED BY <1>1 DEF Planned, AllOnPlan
<1> QED BY <1>1, <1>2 DEF Planned

\* An answer, to whomever, leaves the steps as they are.
LEMMA AnswerStep ==
    ASSUME Planned, NEW c, NEW a \in {"none", "ok", "false", "error"}, calls' = calls,
           call' = call \/ call' = [call EXCEPT ![c].ans = a]
    PROVE  Planned'
<1>1. CASE call' = call
  BY <1>1 DEF Planned, AllOnPlan
<1>2. CASE call' = [call EXCEPT ![c].ans = a] /\ c \in Callers
  <2>1. PICK k \in CallRecords : k = call[c]
    BY <1>2 DEF Planned
  <2>2. PICK j : j = [k EXCEPT !.ans = a]
    OBVIOUS
  <2>3. j \in CallRecords /\ SameCall(j, k) /\ SameSteps(j, k)
    BY <2>2 DEF CallRecords, SameCall, SameSteps
  <2>4. OnPlan(j)
    BY <1>2, <2>1, <2>3, AnswerOnPlan DEF Planned, AllOnPlan
  <2>5. call' = [call EXCEPT ![c] = j] /\ calls' \in Nat
    BY <1>2, <2>1, <2>2 DEF Planned
  <2> QED BY <1>2, <2>3, <2>4, <2>5, PlanStep
<1>3. CASE call' = [call EXCEPT ![c].ans = a] /\ c \notin Callers
  <2>1. call' = call
    BY <1>3 DEF Planned
  <2> QED BY <1>1, <2>1
<1> QED BY <1>1, <1>2, <1>3

LEMMA QueryPlan ==
    ASSUME Planned, NEW p \in Callers, NEW k \in CallRecords, NEW next \in {"xlock", "commit", "rollback", "unlock"},
           Query(p, k, next, next), calls' = calls, k.pg,
           k.scope = IF next = "unlock" THEN "session" ELSE "transaction",
           next = "xlock" => k.steps = Append(Lead(k), "pg.begin"),
           next \in {"commit", "unlock"} => k.steps = Append(Lead(k) \o Locked(k), "work"),
           next = "rollback" => k.inner # "ok", next = "commit" => k.inner = "ok"
    PROVE  Planned'
<1>1. PICK a \in {"none", "error"} : call' = [call EXCEPT ![p] = [k EXCEPT !.pc = next, !.ans = a]]
  BY DEF Query, Enter
<1>2. PICK j : j = [k EXCEPT !.pc = next, !.ans = a]
  OBVIOUS
<1>3. j \in CallRecords /\ SameCall(j, k) /\ j.pc = next /\ j.inner = k.inner /\ j.steps = k.steps
  BY <1>2 DEF CallRecords, SameCall, Statements
<1>4. Lead(j) = Lead(k) /\ Locked(j) = Locked(k)
  BY <1>3, SamePlan
<1>5. OnPlan(j)
  BY <1>3, <1>4 DEF OnPlan, SameCall
<1> QED BY <1>1, <1>2, <1>3, <1>5, PlanStep DEF Planned

LEMMA GiveBackPlan ==
    ASSUME Planned, NEW p \in Callers, NEW k \in CallRecords, NEW destroy, NEW inner \in Inners,
           GiveBack(p, k, destroy, inner), calls' = calls, inner = "ok" => k.steps \o Release(k) = plan(k)
    PROVE  Planned'
<1>1. PICK j : j = [k EXCEPT !.pc = "settling", !.ans = "none", !.inner = inner]
  OBVIOUS
<1>2. call' = [call EXCEPT ![p] = j]
  BY <1>1 DEF GiveBack, Enter
<1>3. j \in CallRecords /\ SameCall(j, k) /\ j.pc = "settling" /\ j.inner = inner /\ j.steps = k.steps
  BY <1>1 DEF CallRecords, SameCall
<1>4. plan(j) = plan(k) /\ Release(j) = Release(k)
  BY <1>3, SamePlan
<1>5. OnPlan(j)
  BY <1>3, <1>4 DEF OnPlan, Release
<1> QED BY <1>2, <1>3, <1>5, PlanStep DEF Planned

LEMMA DidSteps ==
    ASSUME NEW k \in CallRecords, NEW step \in Steps
    PROVE  /\ Did(k, step) \in CallRecords /\ SameCall(Did(k, step), k) /\ Did(k, step).pc = k.pc
           /\ Did(k, step).inner = k.inner /\ Did(k, step).steps = Append(k.steps, step)
<1>1. Append(k.steps, step) \in Seq(Steps)
  BY AppendProperties DEF CallRecords
<1> QED BY <1>1 DEF Did, CallRecords, SameCall

LEMMA StartPlan ==
    ASSUME Planned, NEW p \in Callers, Start(p)
    PROVE  Planned'
<1>1. PICK m \in Modes :
        LET k == [Idle EXCEPT !.fiducia = m.fiducia, !.pg = m.pg, !.scope = m.scope, !.wait = m.wait, !.id = calls + 1] IN
        \/ call' = [call EXCEPT ![p] = Finish(k, "invalid_plan")]
        \/ call' = [call EXCEPT ![p] = [k EXCEPT !.pc = IF m.fiducia THEN "acquiring" ELSE IF m.pg THEN "connecting" ELSE "work"]]
  BY DEF Start, Enter
<1>2. PICK k : k = [Idle EXCEPT !.fiducia = m.fiducia, !.pg = m.pg, !.scope = m.scope, !.wait = m.wait, !.id = calls + 1]
  OBVIOUS
<1>3. k \in CallRecords /\ k.pg = m.pg /\ k.fiducia = m.fiducia /\ k.steps = <<>>
  <2>1. m \in [fiducia : BOOLEAN, pg : BOOLEAN, scope : {"transaction", "session"}, wait : BOOLEAN]
    BY PgAssumption
  <2>2. <<>> \in Seq(Steps) /\ calls + 1 \in Nat
    BY DEF Planned
  <2> QED BY <1>2, <2>1, <2>2 DEF Idle, CallRecords, Inners
<1>4. calls' \in Nat
  BY DEF Start, Planned
<1>5. CASE call' = [call EXCEPT ![p] = Finish(k, "invalid_plan")]
  <2>1. PICK j : j = Finish(k, "invalid_plan")
    OBVIOUS
  <2>2. j \in CallRecords /\ j.pc = "done" /\ j.outcome = "invalid_plan" /\ j.steps = <<>>
    BY <1>3, <2>1 DEF Finish, CallRecords
  <2>3. OnPlan(j)
    BY <2>2 DEF OnPlan
  <2> QED BY <1>4, <1>5, <2>1, <2>2, <2>3, PlanStep
<1>6. CASE call' = [call EXCEPT ![p] = [k EXCEPT !.pc = IF m.fiducia THEN "acquiring" ELSE IF m.pg THEN "connecting" ELSE "work"]]
  <2>1. PICK j : j = [k EXCEPT !.pc = IF m.fiducia THEN "acquiring" ELSE IF m.pg THEN "connecting" ELSE "work"]
    OBVIOUS
  <2>2. /\ j \in CallRecords /\ j.fiducia = m.fiducia /\ j.pg = m.pg /\ j.steps = <<>>
        /\ j.pc = IF m.fiducia THEN "acquiring" ELSE IF m.pg THEN "connecting" ELSE "work"
    BY <1>3, <2>1 DEF CallRecords
  <2>3. ~m.fiducia => Lead(j) = <<>>
    BY <2>2 DEF Lead
  <2>4. OnPlan(j)
    BY <2>2, <2>3 DEF OnPlan
  <2> QED BY <1>4, <1>6, <2>1, <2>2, <2>4, PlanStep
<1> QED BY <1>1, <1>2, <1>5, <1>6

LEMMA AcquiredPlan ==
    ASSUME Planned, NEW p \in Callers, Acquired(p)
    PROVE  Planned'
<1>1. PICK k \in CallRecords : k = call[p]
  BY DEF Planned
<1>2. k.pc = "acquiring" /\ k.fiducia /\ k.steps = <<>> /\ calls' = calls /\ calls' \in Nat
  BY <1>1 DEF Acquired, Planned, AllOnPlan, OnPlan
<1>3. CASE Enter(p, Did([k EXCEPT !.pc = IF k.pg THEN "connecting" ELSE "work"], Form(k.wait, "fiducia.acquire")))
  <2>1. PICK h : h = [k EXCEPT !.pc = IF k.pg THEN "connecting" ELSE "work"]
    OBVIOUS
  <2>2. h \in CallRecords /\ SameCall(h, k) /\ h.steps = k.steps /\ h.pc = (IF k.pg THEN "connecting" ELSE "work")
    BY <2>1 DEF CallRecords, SameCall
  <2>3. PICK step \in Steps : step = Form(k.wait, "fiducia.acquire")
    BY DEF Steps, CallRecords
  <2>4. PICK j : j = Did(h, step)
    OBVIOUS
  <2>5. j \in CallRecords /\ SameCall(j, h) /\ j.pc = h.pc /\ j.steps = Append(h.steps, step)
    BY <2>2, <2>4, DidSteps
  <2>6. j.steps = <<step>>
    BY <1>2, <2>2, <2>5
  <2>7. Lead(j) = <<step>>
    BY <1>2, <2>2, <2>3, <2>5 DEF Lead, SameCall
  <2>8. OnPlan(j)
    BY <2>2, <2>5, <2>6, <2>7 DEF OnPlan, SameCall
  <2>9. call' = [call EXCEPT ![p] = j]
    BY <1>3, <2>1, <2>3, <2>4 DEF Enter
  <2> QED BY <1>2, <2>5, <2>8, <2>9, PlanStep
<1>4. ASSUME NEW o \in {"contention", "transport"}, Enter(p, Finish(k, o)) PROVE Planned'
  <2>1. PICK j : j = Finish(k, o)
    OBVIOUS
  <2>2. j \in CallRecords /\ j.pc = "done" /\ j.outcome = o /\ j.steps = <<>>
    BY <1>2, <2>1 DEF Finish, CallRecords, Inners
  <2>3. OnPlan(j)
    BY <2>2 DEF OnPlan
  <2> QED BY <1>2, <1>4, <2>1, <2>2, <2>3, PlanStep DEF Enter
<1> QED BY <1>1, <1>3, <1>4 DEF Acquired

LEMMA ConnectedPlan ==
    ASSUME Planned, NEW p \in Callers, Connected(p)
    PROVE  Planned'
<1>1. PICK k \in CallRecords : k = call[p]
  BY DEF Planned
<1>2. k.pc = "connecting" /\ k.pg /\ k.steps = Lead(k) /\ calls' \in Nat
  BY <1>1 DEF Connected, Planned, AllOnPlan, OnPlan
<1>3. PICK kind \in Statements : kind = IF k.scope = "session" THEN "lock" ELSE "begin"
  BY DEF Statements
<1>4. \/ call' = [call EXCEPT ![p] = [k EXCEPT !.pc = "settling", !.inner = "database"]]
      \/ \E s \in Sessions : call' = [call EXCEPT ![p] = [k EXCEPT !.sess = s, !.pc = kind]]
  BY <1>1, <1>3 DEF Connected, Enter
<1>5. CASE call' = [call EXCEPT ![p] = [k EXCEPT !.pc = "settling", !.inner = "database"]]
  <2>1. PICK j : j = [k EXCEPT !.pc = "settling", !.inner = "database"]
    OBVIOUS
  <2>2. j \in CallRecords /\ j.pc = "settling" /\ j.inner = "database"
    BY <2>1 DEF CallRecords, Inners
  <2>3. OnPlan(j)
    BY <2>2 DEF OnPlan
  <2> QED BY <1>2, <1>5, <2>1, <2>2, <2>3, PlanStep
<1>6. ASSUME NEW s \in Sessions, call' = [call EXCEPT ![p] = [k EXCEPT !.sess = s, !.pc = kind]] PROVE Planned'
  <2>1. PICK j : j = [k EXCEPT !.sess = s, !.pc = kind]
    OBVIOUS
  <2>2. j \in CallRecords /\ SameCall(j, k) /\ j.steps = k.steps /\ j.pc = kind /\ k.scope \in {"transaction", "session"}
    BY <2>1 DEF CallRecords, SameCall
  <2>3. Lead(j) = Lead(k)
    BY <2>2, SamePlan
  <2>4. OnPlan(j)
    BY <1>3, <1>2, <2>2, <2>3 DEF OnPlan, SameCall
  <2> QED BY <1>2, <1>6, <2>1, <2>2, <2>4, PlanStep
<1> QED BY <1>4, <1>5, <1>6

LEMMA WorkPlan ==
    ASSUME Planned, NEW p \in Callers, NEW k \in CallRecords, k = call[p], NEW step \in Steps, calls' = calls,
           Enter(p, Did([k EXCEPT !.pc = "work"], step)), k.pg, Append(k.steps, step) = Lead(k) \o Locked(k)
    PROVE  Planned'
<1>1. PICK h : h = [k EXCEPT !.pc = "work"]
  OBVIOUS
<1>2. h \in CallRecords /\ SameCall(h, k) /\ h.steps = k.steps /\ h.pc = "work"
  BY <1>1 DEF CallRecords, SameCall
<1>3. PICK j : j = Did(h, step)
  OBVIOUS
<1>4. j \in CallRecords /\ SameCall(j, h) /\ j.pc = "work" /\ j.steps = Append(k.steps, step)
  <2>1. /\ Did(h, step) \in CallRecords /\ SameCall(Did(h, step), h) /\ Did(h, step).pc = h.pc
        /\ Did(h, step).steps = Append(h.steps, step)
    BY <1>2, DidSteps
  <2> QED BY <1>2, <1>3, <2>1
<1>5. SameCall(j, k)
  BY <1>2, <1>4 DEF SameCall
<1>6. Lead(j) = Lead(k) /\ Locked(j) = Locked(k)
  BY <1>5, SamePlan
<1>7. OnPlan(j)
  BY <1>4, <1>5, <1>6 DEF OnPlan, SameCall
<1>8. call' = [call EXCEPT ![p] = j]
  BY <1>1, <1>3 DEF Enter
<1> QED BY <1>4, <1>7, <1>8, PlanStep DEF Planned

\* The answers of the transaction-scoped routine.
LEMMA XactPlan ==
    ASSUME Planned, NEW p \in Callers,
           BeginAnswered(p) \/ XlockAnswered(p) \/ CommitAnswered(p) \/ RollbackAnswered(p)
    PROVE  Planned'
<1>1. PICK k \in CallRecords : k = call[p]
  BY DEF Planned
<1>2. OnPlan(k) /\ calls' = calls /\ k.inner \in Inners
  BY <1>1 DEF Planned, AllOnPlan, BeginAnswered, XlockAnswered, CommitAnswered, RollbackAnswered, CallRecords
<1>3. ASSUME NEW inner \in Inners, inner # "ok", k.pg, k.scope = "transaction",
             Query(p, [k EXCEPT !.inner = inner], "rollback", "rollback")
      PROVE  Planned'
  <2>1. PICK j : j = [k EXCEPT !.inner = inner]
    OBVIOUS
  <2>2. j \in CallRecords /\ j.pg /\ j.scope = "transaction" /\ j.inner = inner
    BY <1>3, <2>1 DEF CallRecords
  <2> QED BY <1>2, <1>3, <2>1, <2>2, QueryPlan
<1>4. CASE BeginAnswered(p)
  <2>1. k.pc = "begin" /\ k.pg /\ k.scope = "transaction" /\ k.steps = Lead(k)
    BY <1>1, <1>2, <1>4 DEF BeginAnswered, OnPlan
  <2>2. CASE Query(p, Did(k, "pg.begin"), "xlock", "xlock")
    <3>1. PICK j : j = Did(k, "pg.begin")
      OBVIOUS
    <3>2. j \in CallRecords /\ SameCall(j, k) /\ j.steps = Append(Lead(k), "pg.begin")
      BY <2>1, <3>1, DidSteps DEF Steps
    <3>3. Lead(j) = Lead(k) /\ j.pg /\ j.scope = "transaction"
      BY <2>1, <3>2, SamePlan DEF SameCall
    <3> QED BY <1>2, <2>2, <3>1, <3>2, <3>3, QueryPlan
  <2>3. CASE GiveBack(p, k, FALSE, "database")
    BY <1>2, <2>3, GiveBackPlan DEF Inners
  <2> QED BY <1>1, <1>4, <2>2, <2>3 DEF BeginAnswered
<1>5. CASE XlockAnswered(p)
  <2>1. k.pc = "xlock" /\ k.pg /\ k.scope = "transaction" /\ k.steps = Append(Lead(k), "pg.begin")
    BY <1>1, <1>2, <1>5 DEF XlockAnswered, OnPlan
  <2>2. CASE Enter(p, Did([k EXCEPT !.pc = "work"], Form(k.wait, "pg.advisory_xact_lock")))
    <3>1. PICK step \in Steps : step = Form(k.wait, "pg.advisory_xact_lock")
      BY DEF Steps, CallRecords
    <3>2. Append(k.steps, step) = Lead(k) \o Locked(k)
      BY <2>1, <3>1, Ways
    <3> QED BY <1>1, <1>2, <2>1, <2>2, <3>1, <3>2, WorkPlan
  <2>3. \/ Enter(p, Did([k EXCEPT !.pc = "work"], Form(k.wait, "pg.advisory_xact_lock")))
        \/ Query(p, [k EXCEPT !.inner = "contention"], "rollback", "rollback")
        \/ Query(p, [k EXCEPT !.inner = "database"], "rollback", "rollback")
    BY <1>1, <1>5 DEF XlockAnswered
  <2> QED BY <1>3, <2>1, <2>2, <2>3 DEF Inners
<1>6. CASE CommitAnswered(p)
  <2>1. k.pc = "commit" /\ k.pg /\ k.scope = "transaction" /\ k.steps = Append(Lead(k) \o Locked(k), "work")
    BY <1>1, <1>2, <1>6 DEF CommitAnswered, OnPlan
  <2>2. CASE GiveBack(p, Did(k, "pg.commit"), FALSE, "ok")
    <3>1. PICK j : j = Did(k, "pg.commit")
      OBVIOUS
    <3>2. j \in CallRecords /\ SameCall(j, k) /\ j.steps = Append(k.steps, "pg.commit")
      BY <3>1, DidSteps DEF Steps
    <3>3. j.steps \o Release(j) = plan(j)
      <4>1. plan(j) = plan(k) /\ Release(j) = Release(k)
        BY <3>2, SamePlan
      <4> QED BY <2>1, <3>2, <4>1, Ways
    <3> QED BY <1>2, <2>2, <3>1, <3>2, <3>3, GiveBackPlan DEF Inners
  <2>3. \/ GiveBack(p, Did(k, "pg.commit"), FALSE, "ok")
        \/ Query(p, [k EXCEPT !.inner = "database"], "rollback", "rollback")
    BY <1>1, <1>6 DEF CommitAnswered
  <2> QED BY <1>3, <2>1, <2>2, <2>3 DEF Inners
<1>7. CASE RollbackAnswered(p)
  <2>1. PICK j : j = Did(k, "pg.rollback")
    OBVIOUS
  <2>2. j \in CallRecords
    BY <2>1, DidSteps DEF Steps
  <2>3. GiveBack(p, j, TRUE, k.inner) /\ k.inner # "ok"
    BY <1>1, <1>2, <1>7, <2>1 DEF RollbackAnswered, OnPlan
  <2> QED BY <1>2, <2>2, <2>3, GiveBackPlan
<1> QED BY <1>4, <1>5, <1>6, <1>7

\* The answers of the session-scoped routine.
LEMMA SessionPlan ==
    ASSUME Planned, NEW p \in Callers, LockAnswered(p) \/ UnlockAnswered(p)
    PROVE  Planned'
<1>1. PICK k \in CallRecords : k = call[p]
  BY DEF Planned
<1>2. OnPlan(k) /\ calls' = calls /\ k.inner \in Inners
  BY <1>1 DEF Planned, AllOnPlan, LockAnswered, UnlockAnswered, CallRecords
<1>3. CASE LockAnswered(p)
  <2>1. k.pc = "lock" /\ k.pg /\ k.scope = "session" /\ k.steps = Lead(k)
    BY <1>1, <1>2, <1>3 DEF LockAnswered, OnPlan
  <2>2. CASE Enter(p, Did([k EXCEPT !.pc = "work"], Form(k.wait, "pg.advisory_lock")))
    <3>1. PICK step \in Steps : step = Form(k.wait, "pg.advisory_lock")
      BY DEF Steps, CallRecords
    <3>2. Append(k.steps, step) = Lead(k) \o Locked(k)
      BY <2>1, <3>1, Ways
    <3> QED BY <1>1, <1>2, <2>1, <2>2, <3>1, <3>2, WorkPlan
  <2>3. CASE GiveBack(p, k, FALSE, "contention")
    BY <1>2, <2>3, GiveBackPlan DEF Inners
  <2>4. CASE GiveBack(p, k, FALSE, "database")
    BY <1>2, <2>4, GiveBackPlan DEF Inners
  <2> QED BY <1>1, <1>3, <2>2, <2>3, <2>4 DEF LockAnswered
<1>4. CASE UnlockAnswered(p)
  <2>1. k.pc = "unlock" /\ k.pg /\ k.scope = "session" /\ k.steps = Append(Lead(k) \o Locked(k), "work")
    BY <1>1, <1>2, <1>4 DEF UnlockAnswered, OnPlan
  <2>2. CASE GiveBack(p, Did(k, "pg.advisory_unlock"), FALSE, k.inner)
    <3>1. PICK j : j = Did(k, "pg.advisory_unlock")
      OBVIOUS
    <3>2. j \in CallRecords /\ SameCall(j, k) /\ j.steps = Append(k.steps, "pg.advisory_unlock")
      BY <3>1, DidSteps DEF Steps
    <3>3. j.steps \o Release(j) = plan(j)
      <4>1. plan(j) = plan(k) /\ Release(j) = Release(k)
        BY <3>2, SamePlan
      <4> QED BY <2>1, <3>2, <4>1, Ways
    <3> QED BY <1>2, <2>2, <3>1, <3>2, <3>3, GiveBackPlan
  <2>3. CASE GiveBack(p, k, TRUE, "database")
    BY <1>2, <2>3, GiveBackPlan DEF Inners
  <2> QED BY <1>1, <1>4, <2>2, <2>3 DEF UnlockAnswered
<1> QED BY <1>3, <1>4

LEMMA WorkEndsPlan ==
    ASSUME Planned, NEW p \in Callers, WorkEnds(p)
    PROVE  Planned'
<1>1. PICK c \in CallRecords : c = call[p]
  BY DEF Planned
<1>2. c.pc = "work" /\ calls' = calls /\ c.steps = IF c.pg THEN Lead(c) \o Locked(c) ELSE Lead(c)
  BY <1>1 DEF WorkEnds, Planned, AllOnPlan, OnPlan
<1>3. PICK ok \in BOOLEAN :
        LET k == [Did(c, "work") EXCEPT !.inner = IF ok THEN "ok" ELSE "work"] IN
        CASE ~k.pg -> Enter(p, [k EXCEPT !.pc = "settling"]) /\ UNCHANGED session
          [] k.pg /\ k.scope = "session" -> Query(p, k, "unlock", "unlock")
          [] k.pg /\ k.scope = "transaction" -> IF ok THEN Query(p, k, "commit", "commit")
                                                      ELSE Query(p, k, "rollback", "rollback")
  BY <1>1 DEF WorkEnds
<1>4. PICK d : d = Did(c, "work")
  OBVIOUS
<1>5. d \in CallRecords /\ SameCall(d, c) /\ d.steps = Append(c.steps, "work")
  BY <1>4, DidSteps DEF Steps
<1>6. PICK k : k = [d EXCEPT !.inner = IF ok THEN "ok" ELSE "work"]
  OBVIOUS
<1>7. /\ k \in CallRecords /\ SameCall(k, c) /\ k.steps = Append(c.steps, "work")
      /\ k.inner = (IF ok THEN "ok" ELSE "work") /\ k.pg \in BOOLEAN /\ k.scope \in {"transaction", "session"}
  <2>1. PICK i \in Inners : i = (IF ok THEN "ok" ELSE "work")
    BY DEF Inners
  <2>2. k = [d EXCEPT !.inner = i]
    BY <1>6, <2>1
  <2>3. k \in CallRecords
    BY <1>5, <2>2 DEF CallRecords
  <2>4. k.inner = i /\ k.steps = d.steps /\ SameCall(k, d)
    BY <1>5, <2>2 DEF CallRecords, SameCall
  <2> QED BY <1>5, <2>1, <2>3, <2>4 DEF CallRecords, SameCall
<1>8. Lead(k) = Lead(c) /\ Locked(k) = Locked(c)
  BY <1>7, SamePlan
<1>9. CASE ~k.pg
  <2>1. Enter(p, [k EXCEPT !.pc = "settling"])
    BY <1>3, <1>4, <1>6, <1>9
  <2>2. PICK j : j = [k EXCEPT !.pc = "settling"]
    OBVIOUS
  <2>3. j \in CallRecords /\ SameCall(j, k) /\ j.pc = "settling" /\ j.steps = k.steps
    BY <1>7, <2>2 DEF CallRecords, SameCall
  <2>4. k.steps \o Release(k) = plan(k)
    <3>1. c.steps = Lead(k)
      BY <1>2, <1>7, <1>8, <1>9 DEF SameCall
    <3> QED BY <1>7, <1>9, <3>1, Ways
  <2>5. plan(j) = plan(k) /\ Release(j) = Release(k)
    BY <2>3, SamePlan
  <2>6. OnPlan(j)
    BY <2>3, <2>4, <2>5 DEF OnPlan, Release
  <2>7. call' = [call EXCEPT ![p] = j]
    BY <2>1, <2>2 DEF Enter
  <2> QED BY <1>2, <2>3, <2>6, <2>7, PlanStep DEF Planned
<1>10. CASE k.pg
  <2>1. k.steps = Append(Lead(k) \o Locked(k), "work")
    BY <1>2, <1>7, <1>8, <1>10 DEF SameCall
  <2>2. CASE k.scope = "session"
    <3>1. Query(p, k, "unlock", "unlock")
      BY <1>3, <1>4, <1>6, <1>10, <2>2
    <3> QED BY <1>2, <1>7, <1>10, <2>1, <2>2, <3>1, QueryPlan
  <2>3. CASE k.scope = "transaction" /\ ok
    <3>1. Query(p, k, "commit", "commit")
      BY <1>3, <1>4, <1>6, <1>10, <2>3
    <3> QED BY <1>2, <1>7, <1>10, <2>1, <2>3, <3>1, QueryPlan
  <2>4. CASE k.scope = "transaction" /\ ~ok
    <3>1. Query(p, k, "rollback", "rollback")
      BY <1>3, <1>4, <1>6, <1>10, <2>4
    <3> QED BY <1>2, <1>7, <1>10, <2>1, <2>4, <3>1, QueryPlan
  <2> QED BY <1>7, <2>2, <2>3, <2>4
<1> QED BY <1>7, <1>9, <1>10

LEMMA SettlePlan ==
    ASSUME Planned, NEW p \in Callers, Settle(p)
    PROVE  Planned'
<1>1. PICK k \in CallRecords : k = call[p]
  BY DEF Planned
<1>2. /\ k.pc = "settling" /\ calls' \in Nat /\ k.inner \in Inners /\ k.steps \in Seq(Steps)
      /\ k.inner = "ok" => k.steps \o Release(k) = plan(k)
  BY <1>1 DEF Settle, Planned, AllOnPlan, OnPlan, Release, CallRecords
<1>3. ASSUME NEW c \in CallRecords, NEW o \in Inners \cup {"transport", "lost_lease"}, SameCall(c, k),
             call' = [call EXCEPT ![p] = Finish(c, o)], o = "ok" => c.steps = plan(k),
             c.fiducia /\ o \notin {"transport", "lost_lease"} => c.steps[Len(c.steps)] = "fiducia.release"
      PROVE  Planned'
  <2>1. PICK j : j = Finish(c, o)
    OBVIOUS
  <2>2. j \in CallRecords /\ SameCall(j, c) /\ j.pc = "done" /\ j.outcome = o /\ j.steps = c.steps
    BY <2>1 DEF Finish, CallRecords, SameCall
  <2>3. plan(j) = plan(k)
    BY <1>3, <2>2, SamePlan DEF SameCall
  <2>4. OnPlan(j)
    BY <1>3, <2>2, <2>3 DEF OnPlan, SameCall
  <2> QED BY <1>2, <1>3, <2>1, <2>2, <2>4, PlanStep
<1>4. SameCall(k, k) /\ "transport" # "ok" /\ "lost_lease" # "ok"
  BY DEF SameCall
<1>5. CASE ~k.fiducia /\ Enter(p, Finish(k, k.inner))
  <2>1. k.inner = "ok" => k.steps = plan(k)
    BY <1>2, <1>5, ConcatEmptySeq DEF Release
  <2> QED BY <1>2, <1>3, <1>4, <1>5, <2>1 DEF Enter
<1>6. CASE k.fiducia /\ Enter(p, Finish(Did(k, "fiducia.release"), k.inner))
  <2>1. PICK c : c = Did(k, "fiducia.release")
    OBVIOUS
  <2>2. "fiducia.release" \in Steps
    BY DEF Steps
  <2>3. c \in CallRecords /\ SameCall(c, k) /\ c.steps = Append(k.steps, "fiducia.release")
    BY <2>1, <2>2, DidSteps
  <2>4. c.steps[Len(c.steps)] = "fiducia.release"
    BY <1>2, <2>2, <2>3, AppendProperties
  <2>5. k.inner = "ok" => c.steps = plan(k)
    <3>1. Append(k.steps, "fiducia.release") = k.steps \o <<"fiducia.release">>
      BY <1>2, <2>2, AppendIsConcat
    <3> QED BY <1>2, <1>6, <2>3, <3>1 DEF Release
  <2>6. call' = [call EXCEPT ![p] = Finish(c, k.inner)]
    BY <1>6, <2>1 DEF Enter
  <2> QED BY <1>2, <1>3, <2>3, <2>4, <2>5, <2>6
<1>7. CASE Enter(p, Finish(k, "lost_lease"))
  BY <1>3, <1>4, <1>7 DEF Enter
<1>8. CASE Enter(p, Finish(k, "transport"))
  BY <1>3, <1>4, <1>8 DEF Enter
<1> QED BY <1>1, <1>5, <1>6, <1>7, <1>8 DEF Settle

\* What the server and the driver do reaches a call as an answer.
LEMMA ServerPlan ==
    ASSUME Planned, NEW s \in Sessions, Execute(s) \/ ServerError(s) \/ DriverGivesUp(s) \/ Break(s) \/ Closed(s)
    PROVE  Planned'
<1>1. CASE Execute(s)
  <2>1. PICK st : st = Head(session[s].queue) /\ call' = Answer(s, st, Run(s, st).ans) /\ calls' = calls
    BY <1>1 DEF Execute
  <2>2. PICK a \in {"ok", "false", "error"} : a = Run(s, st).ans
    BY DEF Run
  <2>3. call' = call \/ call' = [call EXCEPT ![st.caller].ans = a]
    BY <2>1, <2>2 DEF Answer
  <2> QED BY <2>1, <2>3, AnswerStep
<1>2. CASE ServerError(s)
  <2>1. PICK st : call' = Answer(s, st, "error") /\ calls' = calls
    BY <1>2 DEF ServerError
  <2>2. call' = call \/ call' = [call EXCEPT ![st.caller].ans = "error"]
    BY <2>1 DEF Answer
  <2> QED BY <2>1, <2>2, AnswerStep
<1>3. CASE DriverGivesUp(s)
  <2>1. PICK st : call' = Answer(s, st, "error") /\ calls' = calls
    BY <1>3 DEF DriverGivesUp
  <2>2. call' = call \/ call' = [call EXCEPT ![st.caller].ans = "error"]
    BY <2>1 DEF Answer
  <2> QED BY <2>1, <2>2, AnswerStep
<1>4. CASE Break(s)
  <2>1. (call' = call \/ call' = [call EXCEPT ![session[s].by].ans = "error"]) /\ calls' = calls
    BY <1>4 DEF Break
  <2> QED BY <2>1, AnswerStep
<1>5. CASE Closed(s)
  BY <1>5 DEF Closed, Planned, AllOnPlan
<1> QED BY <1>1, <1>2, <1>3, <1>4, <1>5

\* A call that reports success took exactly the steps of plan() for its mode,
\* in that order, and one that failed ends with the release of the lease it
\* took or says that it could not: whatever fails, breaks or is given up on
\* (plan.ts; pg.ts, withXactLock, withSessionLock).
THEOREM PlanKept == PgSpec => []PlanFollowed
<1>1. PgInit => Planned
  <2> SUFFICES ASSUME PgInit PROVE Planned
    OBVIOUS
  <2>1. Idle \in CallRecords /\ Idle.pc = "idle"
    <3>1. <<>> \in Seq(Steps)
      OBVIOUS
    <3> QED BY <3>1 DEF Idle, CallRecords, Inners
  <2>2. OnPlan(Idle)
    BY <2>1 DEF OnPlan
  <2>3. call \in [Callers -> CallRecords] /\ calls \in Nat /\ \A p \in Callers : call[p] = Idle
    BY <2>1 DEF PgInit
  <2> QED BY <2>2, <2>3 DEF Planned, AllOnPlan
<1>2. Planned /\ [PgNext]_vars => Planned'
  <2> SUFFICES ASSUME Planned, [PgNext]_vars PROVE Planned'
    OBVIOUS
  <2>1. CASE UNCHANGED vars
    BY <2>1 DEF vars, Planned, AllOnPlan
  <2>2. ASSUME NEW p \in Callers, ClientStep(p) PROVE Planned'
    BY <2>2, AcquiredPlan, ConnectedPlan, XactPlan, SessionPlan, WorkEndsPlan, SettlePlan DEF ClientStep
  <2>3. ASSUME NEW p \in Callers, StatementFails(p) PROVE Planned'
    BY <2>3 DEF StatementFails, Planned, AllOnPlan
  <2>4. CASE Lapse
    BY <2>4 DEF Lapse, Planned, AllOnPlan
  <2> QED BY <2>1, <2>2, <2>3, <2>4, StartPlan, ServerPlan DEF PgNext
<1>3. Planned => PlanFollowed
  BY DEF Planned, AllOnPlan, OnPlan, PlanFollowed
<1> QED BY <1>1, <1>2, <1>3, PTL DEF PgSpec

=============================================================================
