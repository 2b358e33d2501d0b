------------------------------- MODULE PgLocks ------------------------------
(***************************************************************************)
(* withXactLock and withSessionLock (pg.ts): an optional outer lease and   *)
(* an optional PostgreSQL advisory lock around the caller's work, over a   *)
(* pool of sessions, and the step matrix of plan.ts.                       *)
(*                                                                         *)
(* A query is queued at its session and answered when the server has run   *)
(* it.  It may instead be refused, the connection may break, or the driver *)
(* may stop waiting (its own timeout) while the statement stays queued and *)
(* takes effect later.  The server and the lease authority are external.   *)
(***************************************************************************)
EXTENDS Integers, Sequences, FiniteSets

CONSTANTS
    Callers, Sessions,
    DriverTimeouts, \* statements the driver may give up on while they run
    Modes,          \* the calls made: fiducia, pg, scope, wait
    MaxCalls,       \* bound: routine calls in all
    NULL

ASSUME PgAssumption ==
    /\ MaxCalls \in Nat
    /\ Modes \subseteq [fiducia : BOOLEAN, pg : BOOLEAN, scope : {"transaction", "session"}, wait : BOOLEAN]
    /\ DriverTimeouts \subseteq {"begin", "xlock", "commit", "rollback", "lock", "unlock"}
    /\ NULL \notin Sessions /\ NULL \notin Callers

VARIABLES
    session, \* per session: pool state, statements queued, transaction, locks
    call,    \* per caller: where its call is
    lease,   \* the call that holds the outer lease, or 0
    calls    \* calls made

vars == <<session, call, lease, calls>>

-----------------------------------------------------------------------------
(* plan.ts                                                                 *)

Form(wait, name) == IF wait THEN name ELSE "try " \o name

\* Mutant: the lease is released before the transaction is committed.
planReleasesEarly(c) ==
    (IF c.fiducia THEN <<Form(c.wait, "fiducia.acquire")>> ELSE <<>>)
    \o (CASE ~c.pg -> <<"work">>
          [] c.pg /\ c.scope = "session" -> <<Form(c.wait, "pg.advisory_lock"), "work", "pg.advisory_unlock">>
          [] OTHER -> <<"pg.begin", Form(c.wait, "pg.advisory_xact_lock"), "work">>)
    \o (IF c.fiducia THEN <<"fiducia.release">> ELSE <<>>)
    \o (IF c.pg /\ c.scope = "transaction" THEN <<"pg.commit">> ELSE <<>>)

plan(c) ==
    (IF c.fiducia THEN <<Form(c.wait, "fiducia.acquire")>> ELSE <<>>)
    \o (CASE ~c.pg -> <<"work">>
          [] c.pg /\ c.scope = "session" -> <<Form(c.wait, "pg.advisory_lock"), "work", "pg.advisory_unlock">>
          [] OTHER -> <<"pg.begin", Form(c.wait, "pg.advisory_xact_lock"), "work", "pg.commit">>)
    \o (IF c.fiducia THEN <<"fiducia.release">> ELSE <<>>)

-----------------------------------------------------------------------------
(* Sessions and the server                                                 *)

\* stray is history: a BEGIN or a session lock that the client was told had
\* failed, and that the server ran nevertheless or has yet to run.
Fresh == [pool |-> "idle", queue |-> <<>>, tx |-> "none", xlocked |-> FALSE, locked |-> 0, by |-> NULL, stray |-> FALSE]

Holds(s) == session[s].xlocked \/ session[s].locked > 0

\* Advisory locks are re-entrant within a session.
LockFree(s) == \A t \in Sessions \ {s} : ~Holds(t)

Answer(s, st, a) ==
    IF st.awaited THEN [call EXCEPT ![st.caller].ans = a] ELSE call

\* What a statement does to its session, and its answer.  A failed transaction
\* refuses everything but its end, and COMMIT then is a ROLLBACK that is
\* answered without an error.
Run(s, st) ==
    LET x == session[s] IN
    IF x.tx = "failed" /\ st.kind \notin {"commit", "rollback"} THEN [to |-> x, ans |-> "error"]
    ELSE IF st.kind = "begin" THEN [to |-> [x EXCEPT !.tx = "open"], ans |-> "ok"]
    ELSE IF st.kind \in {"xlock", "lock"} /\ ~LockFree(s) THEN [to |-> x, ans |-> "false"]
    ELSE IF st.kind = "xlock" THEN [to |-> [x EXCEPT !.xlocked = (x.tx = "open")], ans |-> "ok"]
    ELSE IF st.kind = "lock" THEN [to |-> [x EXCEPT !.locked = @ + 1], ans |-> "ok"]
    ELSE IF st.kind = "unlock" THEN [to |-> [x EXCEPT !.locked = IF @ > 0 THEN @ - 1 ELSE 0],
                                     ans |-> IF x.locked > 0 THEN "ok" ELSE "false"]
    ELSE [to |-> [x EXCEPT !.tx = "none", !.xlocked = FALSE], ans |-> "ok"]

Execute(s) ==
    /\ session[s].queue # <<>>
    /\ LET st == Head(session[s].queue)
           r == Run(s, st)
       IN  /\ (st.kind \in {"xlock", "lock"} /\ st.wait /\ session[s].tx # "failed") => LockFree(s)
           /\ session' = [session EXCEPT ![s] = [r.to EXCEPT !.queue = Tail(@)]]
           /\ call' = Answer(s, st, r.ans)
    /\ UNCHANGED <<lease, calls>>

\* An error answer (lock_timeout and statement_timeout are some of them).  It
\* ends the transaction's own lock at once; a session lock that the statement
\* took or released before it failed stays taken or released.
ServerError(s) ==
    /\ session[s].queue # <<>>
    /\ LET st == Head(session[s].queue) x == session[s] IN
        /\ \E n \in {x.locked, Run(s, st).to.locked} :
              session' = [session EXCEPT ![s] =
                 [x EXCEPT !.tx = IF @ = "none" \/ st.kind = "commit" THEN "none" ELSE "failed",
                           !.xlocked = FALSE, !.locked = n, !.stray = @ \/ n > x.locked, !.queue = Tail(@)]]
        /\ call' = Answer(s, st, "error")
    /\ UNCHANGED <<lease, calls>>

DriverGivesUp(s) ==
    /\ \E i \in 1..Len(session[s].queue) :
        LET st == session[s].queue[i] IN
        /\ st.awaited /\ st.kind \in DriverTimeouts
        /\ session' = [session EXCEPT ![s].queue[i].awaited = FALSE,
                                      ![s].stray = @ \/ st.kind \in {"begin", "lock"}]
        /\ call' = Answer(s, st, "error")
    /\ UNCHANGED <<lease, calls>>

\* The server ends a session that lost its connection: locks and transaction
\* go with it.  The client rejects what is queued and what is sent later.
Break(s) ==
    /\ session[s].pool = "out"
    /\ session' = [session EXCEPT ![s] = [Fresh EXCEPT !.pool = "broken", !.by = session[s].by]]
    /\ call' = IF \E i \in 1..Len(session[s].queue) : session[s].queue[i].awaited
               THEN [call EXCEPT ![session[s].by].ans = "error"] ELSE call
    /\ UNCHANGED <<lease, calls>>

\* The server notices that the client closed the session; the pool may open
\* another in its place.
Closed(s) ==
    /\ session[s].pool = "closing"
    /\ session' = [session EXCEPT ![s] = Fresh]
    /\ UNCHANGED <<call, lease, calls>>

-----------------------------------------------------------------------------
(* Client steps                                                            *)

Idle == [pc |-> "idle", id |-> 0, fiducia |-> FALSE, pg |-> FALSE, scope |-> "transaction", wait |-> FALSE, sess |-> NULL,
         ans |-> "none", inner |-> "none", outcome |-> "none", steps |-> <<>>]

Enter(p, k) == call' = [call EXCEPT ![p] = k]

\* Go on to `next` with statement `kind` on its way.
Query(p, k, kind, next) ==
    LET s == k.sess
        st == [kind |-> kind, caller |-> p, wait |-> k.wait, awaited |-> TRUE]
    IN  IF session[s].pool = "broken"
        THEN /\ Enter(p, [k EXCEPT !.pc = next, !.ans = "error"])
             /\ UNCHANGED session
        ELSE /\ Enter(p, [k EXCEPT !.pc = next, !.ans = "none"])
             /\ session' = [session EXCEPT ![s].queue = Append(@, st)]

\* client.release(destroy), and on to the release of the lease.
GiveBack(p, k, destroy, inner) ==
    LET s == k.sess IN
    /\ session' = [session EXCEPT ![s] =
           IF @.pool = "broken" THEN Fresh ELSE [@ EXCEPT !.pool = IF destroy THEN "closing" ELSE "idle"]]
    /\ Enter(p, [k EXCEPT !.pc = "settling", !.ans = "none", !.inner = inner])

Did(k, step) == [k EXCEPT !.steps = Append(@, step)]

Finish(k, outcome) == [k EXCEPT !.pc = "done", !.outcome = outcome, !.ans = "none"]

Start(p) ==
    /\ call[p].pc \in {"idle", "done"} /\ calls < MaxCalls
    /\ calls' = calls + 1
    /\ \E m \in Modes :
          LET k == [Idle EXCEPT !.fiducia = m.fiducia, !.pg = m.pg, !.scope = m.scope, !.wait = m.wait, !.id = calls + 1] IN
          \/ (m.fiducia \/ m.pg) /\ Enter(p, Finish(k, "invalid_plan"))  \* a layer without its dependency
          \/ Enter(p, [k EXCEPT !.pc = IF m.fiducia THEN "acquiring" ELSE IF m.pg THEN "connecting" ELSE "work"])
    /\ UNCHANGED <<session, lease>>

\* acquireLease.  A transport error does not say whether the lease was taken.
Acquired(p) ==
    LET k == call[p] IN
    /\ k.pc = "acquiring"
    /\ \/ /\ lease = 0 /\ lease' = k.id
          /\ Enter(p, Did([k EXCEPT !.pc = IF k.pg THEN "connecting" ELSE "work"], Form(k.wait, "fiducia.acquire")))
       \/ lease # 0 /\ Enter(p, Finish(k, "contention")) /\ UNCHANGED lease
       \/ /\ Enter(p, Finish(k, "transport"))
          /\ lease' \in {lease, IF lease = 0 THEN k.id ELSE lease}
    /\ UNCHANGED <<session, calls>>

\* pool.connect
Connected(p) ==
    LET k == call[p] IN
    /\ k.pc = "connecting"
    /\ \/ \E s \in Sessions :
            /\ session[s].pool = "idle"
            /\ LET kind == IF k.scope = "session" THEN "lock" ELSE "begin"
                   st == [kind |-> kind, caller |-> p, wait |-> k.wait, awaited |-> TRUE]
               IN  /\ session' = [session EXCEPT ![s].pool = "out", ![s].by = p, ![s].queue = Append(@, st)]
                   /\ Enter(p, [k EXCEPT !.sess = s, !.pc = kind])
       \/ Enter(p, [k EXCEPT !.pc = "settling", !.inner = "database"]) /\ UNCHANGED session
    /\ UNCHANGED <<lease, calls>>

\* runXact, up to the work.
BeginAnswered(p) ==
    LET k == call[p] IN
    /\ k.pc = "begin" /\ k.ans # "none"
    /\ \/ k.ans = "ok" /\ Query(p, Did(k, "pg.begin"), "xlock", "xlock")
       \/ k.ans = "error" /\ GiveBack(p, k, FALSE, "database")
    /\ UNCHANGED <<lease, calls>>

XlockAnswered(p) ==
    LET k == call[p] IN
    /\ k.pc = "xlock" /\ k.ans # "none"
    /\ \/ k.ans = "ok" /\ Enter(p, Did([k EXCEPT !.pc = "work"], Form(k.wait, "pg.advisory_xact_lock"))) /\ UNCHANGED session
       \/ k.ans = "false" /\ Query(p, [k EXCEPT !.inner = "contention"], "rollback", "rollback")
       \/ k.ans = "error" /\ Query(p, [k EXCEPT !.inner = "database"], "rollback", "rollback")
    /\ UNCHANGED <<lease, calls>>

CommitAnswered(p) ==
    LET k == call[p] IN
    /\ k.pc = "commit" /\ k.ans # "none"
    /\ \/ k.ans = "ok" /\ GiveBack(p, Did(k, "pg.commit"), FALSE, "ok")
       \/ k.ans = "error" /\ Query(p, [k EXCEPT !.inner = "database"], "rollback", "rollback")
    /\ UNCHANGED <<lease, calls>>

\* Mutant: a failed transaction's session goes back to the pool.
RollbackAnsweredKept(p) ==
    /\ call[p].pc = "rollback" /\ call[p].ans # "none"
    /\ GiveBack(p, Did(call[p], "pg.rollback"), FALSE, call[p].inner)
    /\ UNCHANGED <<lease, calls>>

\* An error of ROLLBACK is swallowed; the session is destroyed either way.
RollbackAnswered(p) ==
    /\ call[p].pc = "rollback" /\ call[p].ans # "none"
    /\ GiveBack(p, Did(call[p], "pg.rollback"), TRUE, call[p].inner)
    /\ UNCHANGED <<lease, calls>>

\* runSession, up to the work.
LockAnswered(p) ==
    LET k == call[p] IN
    /\ k.pc = "lock" /\ k.ans # "none"
    /\ \/ k.ans = "ok" /\ Enter(p, Did([k EXCEPT !.pc = "work"], Form(k.wait, "pg.advisory_lock"))) /\ UNCHANGED session
       \/ k.ans = "false" /\ GiveBack(p, k, FALSE, "contention")
       \/ k.ans = "error" /\ GiveBack(p, k, FALSE, "database")
    /\ UNCHANGED <<lease, calls>>

UnlockAnswered(p) ==
    LET k == call[p] IN
    /\ k.pc = "unlock" /\ k.ans # "none"
    /\ \/ k.ans = "ok" /\ GiveBack(p, Did(k, "pg.advisory_unlock"), FALSE, k.inner)
       \/ k.ans # "ok" /\ GiveBack(p, k, TRUE, "database")
    /\ UNCHANGED <<lease, calls>>

\* A statement of the work fails inside the transaction, which ends the lock of
\* the transaction; the work may catch the error and go on.
StatementFails(p) ==
    LET k == call[p] IN
    /\ k.pc = "work" /\ k.sess # NULL
    /\ session[k.sess].tx = "open"
    /\ session' = [session EXCEPT ![k.sess].tx = "failed", ![k.sess].xlocked = FALSE]
    /\ UNCHANGED <<call, lease, calls>>

\* runWork
WorkEnds(p) ==
    /\ call[p].pc = "work"
    /\ \E ok \in BOOLEAN :
        LET k == [Did(call[p], "work") EXCEPT !.inner = IF ok THEN "ok" ELSE "work"] IN
        CASE ~k.pg -> Enter(p, [k EXCEPT !.pc = "settling"]) /\ UNCHANGED session
          [] k.pg /\ k.scope = "session" -> Query(p, k, "unlock", "unlock")
          [] k.pg /\ k.scope = "transaction" -> IF ok THEN Query(p, k, "commit", "commit")
                                                      ELSE Query(p, k, "rollback", "rollback")
    /\ UNCHANGED <<lease, calls>>

\* settle, or its absence without a lease.
Settle(p) ==
    LET k == call[p] IN
    /\ k.pc = "settling"
    /\ \/ ~k.fiducia /\ Enter(p, Finish(k, k.inner)) /\ UNCHANGED lease
       \/ /\ k.fiducia /\ lease = k.id /\ lease' = 0
          /\ Enter(p, Finish(Did(k, "fiducia.release"), k.inner))
       \/ /\ k.fiducia /\ lease # k.id
          /\ Enter(p, Finish(k, "lost_lease")) /\ UNCHANGED lease
       \/ /\ k.fiducia /\ lease' \in {lease, IF lease = k.id THEN 0 ELSE lease}
          /\ Enter(p, Finish(k, "transport"))
    /\ UNCHANGED <<session, calls>>

\* The lease runs out.
Lapse ==
    /\ lease # 0
    /\ lease' = 0
    /\ UNCHANGED <<session, call, calls>>

-----------------------------------------------------------------------------
PgInit ==
    /\ session = [s \in Sessions |-> Fresh]
    /\ call = [p \in Callers |-> Idle]
    /\ lease = 0 /\ calls = 0

ClientStep(p) ==
    \/ Acquired(p) \/ Connected(p) \/ BeginAnswered(p) \/ XlockAnswered(p) \/ CommitAnswered(p)
    \/ RollbackAnswered(p) \/ LockAnswered(p) \/ UnlockAnswered(p) \/ WorkEnds(p) \/ Settle(p)

PgNext ==
    \/ \E p \in Callers : Start(p) \/ ClientStep(p) \/ StatementFails(p)
    \/ \E s \in Sessions : Execute(s) \/ ServerError(s) \/ DriverGivesUp(s) \/ Break(s) \/ Closed(s)
    \/ Lapse

PgSpec == PgInit /\ [][PgNext]_vars

-----------------------------------------------------------------------------
(* Properties.                                                             *)

Statements == {"begin", "xlock", "commit", "rollback", "lock", "unlock"}
Queued == [kind : Statements, caller : Callers, wait : BOOLEAN, awaited : BOOLEAN]
Inners == {"none", "ok", "work", "contention", "database"}
Steps == {Form(w, n) : w \in BOOLEAN, n \in {"fiducia.acquire", "pg.advisory_xact_lock", "pg.advisory_lock"}}
         \cup {"fiducia.release", "pg.begin", "pg.commit", "pg.rollback", "pg.advisory_unlock", "work"}

SessionRecords ==
    [pool : {"idle", "out", "broken", "closing"}, queue : Seq(Queued), tx : {"none", "open", "failed"},
     xlocked : BOOLEAN, locked : Nat, by : Callers \cup {NULL}, stray : BOOLEAN]

CallRecords ==
    [pc : {"idle", "acquiring", "connecting", "work", "settling", "done"} \cup Statements, id : Nat,
     fiducia : BOOLEAN, pg : BOOLEAN, scope : {"transaction", "session"}, wait : BOOLEAN,
     sess : Sessions \cup {NULL}, ans : {"none", "ok", "false", "error"}, inner : Inners,
     outcome : Inners \cup {"invalid_plan", "transport", "lost_lease"}, steps : Seq(Steps)]

PgTypeOK ==
    /\ session \in [Sessions -> SessionRecords]
    /\ call \in [Callers -> CallRecords]
    /\ calls \in Nat /\ lease \in 0..calls

\* A session that waits in the pool holds no advisory lock, is in no
\* transaction and has nothing left to run, whatever failed in the calls that
\* used it: whoever gets it next neither blocks others nor works in a
\* transaction it did not open.  The exception is a stray BEGIN or session lock,
\* after which pg.ts gives the session back as it is.
PooledSessionsAreClean ==
    \A s \in Sessions : (session[s].pool = "idle" /\ ~session[s].stray) =>
        session[s].tx = "none" /\ ~Holds(s) /\ session[s].queue = <<>>

\* In its work with the advisory layer on, unless the connection broke under it
\* or the transaction that held the lock failed.
Guarded(p) ==
    /\ call[p].pc = "work" /\ call[p].pg
    /\ session[call[p].sess].pool # "broken"
    /\ call[p].scope = "transaction" => session[call[p].sess].tx = "open"

\* Two callers are never both in guarded work, stray statements or not.
WorkExclusive == \A p, q \in Callers : Guarded(p) /\ Guarded(q) => p = q

\* A call that reports success, or a failure that says nothing of cleanup,
\* holds nothing any more: neither the lease nor, but for a stray lock, a lock in
\* a session that stays.  Its caller may retry at once.
EndedHoldsNothing ==
    \A p \in Callers :
        (call[p].pc = "done" /\ call[p].outcome \in {"ok", "work", "contention"}) =>
            /\ lease # call[p].id
            /\ \A s \in Sessions : (session[s].by = p /\ session[s].pool # "closing" /\ ~session[s].stray) => ~Holds(s)

\* A successful call took the steps of plan() in that order, and a failed one
\* never took the lease without releasing it last, or reporting that it could not.
PlanFollowed ==
    \A p \in Callers : call[p].pc = "done" =>
        /\ call[p].outcome = "ok" => call[p].steps = plan(call[p])
        /\ (call[p].steps # <<>> /\ call[p].fiducia /\ call[p].outcome \notin {"transport", "lost_lease"})
             => call[p].steps[Len(call[p].steps)] = "fiducia.release"

\* A call that fails with `database` has its transaction rolled back, says
\* docs/design.md.  pg.ts gives a session back without a ROLLBACK when BEGIN
\* failed: one that the driver gave up on leaves a transaction open in the pool.
DatabaseFailureRollsBack ==
    \A p \in Callers : (call[p].pc = "done" /\ call[p].outcome = "database") =>
        \A s \in Sessions : (session[s].by = p /\ session[s].pool = "idle") => session[s].tx = "none"

\* The state is well formed, the pool is clean, the advisory lock excludes, and
\* an ended call holds nothing.
PgInv == PgTypeOK /\ PooledSessionsAreClean /\ WorkExclusive /\ EndedHoldsNothing
=============================================================================
