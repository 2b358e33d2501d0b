-------------------------- MODULE MaintainedOracle --------------------------
(***************************************************************************)
(* formal/maintained-model.mjs, the repository's executable model of one   *)
(* maintained call: acquire, BEGIN, advisory lock, work, final renewal,    *)
(* COMMIT or ROLLBACK, release, with every step failing on its own.        *)
(* `explore` walks the states from initialState by `successors` and looks  *)
(* at each with `assertState`; here TLC does.                              *)
(***************************************************************************)
EXTENDS Integers, Sequences

CONSTANTS
    MAX_PERIODIC_RENEWALS, MAX_CONTENTION_RETRIES, \* bounds of the exploration
    NULL

VARIABLES
    s,                   \* the state record
    requireFinalRenewal  \* FALSE in the negative control

CLEANUP_FAILURES == {"pg.rollback_failed", "fiducia.release_failed", "fiducia.release_mismatch"}

initialState ==
    [phase |-> "acquire", acquired |-> FALSE, begun |-> FALSE, locked |-> FALSE, workCompleted |-> FALSE,
     finalRenewAttempted |-> FALSE, finalRenewed |-> FALSE,
     commitAttempted |-> FALSE, committed |-> FALSE, rollbackAttempted |-> FALSE, rolledBack |-> FALSE,
     releaseAttempts |-> 0, released |-> FALSE,
     authorityLive |-> FALSE, authorityLost |-> FALSE, authorityLostBeforeCommit |-> FALSE,
     periodicRenewals |-> 0, contentionRetries |-> 0,
     primaryFailure |-> NULL, failures |-> <<>>, result |-> NULL]

\* Mutant: the first failure stays primary.
recordFailureFirst(x, code) ==
    [x EXCEPT !.failures = Append(@, code), !.primaryFailure = IF @ = NULL THEN code ELSE @]

\* A cleanup failure becomes primary, any other only when it is the first.
recordFailure(x, code) ==
    [x EXCEPT !.failures = Append(@, code),
              !.primaryFailure = IF code \in CLEANUP_FAILURES \/ @ = NULL THEN code ELSE @]

loseAuthority(x, code) ==
    recordFailure([x EXCEPT !.authorityLive = FALSE, !.authorityLost = TRUE,
                            !.authorityLostBeforeCommit = ~x.commitAttempted /\ ~x.committed], code)

To(x, phase) == [x EXCEPT !.phase = phase]

-----------------------------------------------------------------------------
(* successors, one operator per phase.                                     *)

acquirePhase(x) ==
    {To([x EXCEPT !.acquired = TRUE, !.authorityLive = TRUE], "begin"),
     recordFailure(To([x EXCEPT !.result = "error"], "done"), "fiducia.acquire_failed")}

\* The periodic renewal beside phases begin, lock and work.
periodicRenewal(x, undo) ==
    {To(loseAuthority(x, code), undo) : code \in {"fiducia.periodic_renew_failed", "fiducia.periodic_token_changed"}}
    \cup {y \in {[x EXCEPT !.periodicRenewals = @ + 1]} : y.periodicRenewals <= MAX_PERIODIC_RENEWALS}

beginPhase(x) ==
    {To([x EXCEPT !.begun = TRUE], "lock"), recordFailure(To(x, "release"), "pg.begin_failed")}
    \cup periodicRenewal(x, "release")

lockPhase(x) ==
    {To([x EXCEPT !.locked = TRUE], "work")}
    \cup {recordFailure(To(x, "rollback"), code) : code \in {"pg.lock_failed", "pg.lock_timeout"}}
    \cup {y \in {[x EXCEPT !.contentionRetries = @ + 1]} : y.contentionRetries <= MAX_CONTENTION_RETRIES}
    \cup periodicRenewal(x, "rollback")

workPhase(x) ==
    {To([x EXCEPT !.workCompleted = TRUE], IF requireFinalRenewal THEN "final_renew" ELSE "commit"),
     recordFailure(To(x, "rollback"), "work.failed")}
    \cup periodicRenewal(x, "rollback")

final_renewPhase(x) ==
    LET y == [x EXCEPT !.finalRenewAttempted = TRUE] IN
    {To([y EXCEPT !.finalRenewed = TRUE], "commit")}
    \cup {To(loseAuthority(y, code), "rollback") : code \in {"fiducia.final_renew_failed", "fiducia.final_token_changed"}}

commitPhase(x) ==
    LET y == To([x EXCEPT !.commitAttempted = TRUE], "release") IN
    {[y EXCEPT !.committed = TRUE], recordFailure(y, "pg.commit_failed")}

rollbackPhase(x) ==
    LET y == To([x EXCEPT !.rollbackAttempted = TRUE], "release") IN
    {[y EXCEPT !.rolledBack = TRUE], recordFailure(y, "pg.rollback_failed")}

releasePhase(x) ==
    LET y == To([x EXCEPT !.releaseAttempts = @ + 1, !.authorityLive = FALSE, !.result = "error"], "done") IN
    {[y EXCEPT !.released = TRUE,
               !.result = IF x.primaryFailure = NULL /\ x.committed THEN "success" ELSE "error"],
     recordFailure([y EXCEPT !.authorityLost = TRUE], "fiducia.release_mismatch"),
     recordFailure(y, "fiducia.release_failed")}

OracleInit == s = initialState /\ requireFinalRenewal \in BOOLEAN

OracleStep ==
    /\ \/ s.phase = "acquire" /\ s' \in acquirePhase(s)
       \/ s.phase = "begin" /\ s' \in beginPhase(s)
       \/ s.phase = "lock" /\ s' \in lockPhase(s)
       \/ s.phase = "work" /\ s' \in workPhase(s)
       \/ s.phase = "final_renew" /\ s' \in final_renewPhase(s)
       \/ s.phase = "commit" /\ s' \in commitPhase(s)
       \/ s.phase = "rollback" /\ s' \in rollbackPhase(s)
       \/ s.phase = "release" /\ s' \in releasePhase(s)
    /\ UNCHANGED requireFinalRenewal

-----------------------------------------------------------------------------
(* assertState                                                             *)

\* failures.filter(isCleanup).at(-1) is the one at position i.
LastCleanup(failures, i) ==
    /\ failures[i] \in CLEANUP_FAILURES
    /\ \A j \in (i + 1)..Len(failures) : failures[j] \notin CLEANUP_FAILURES

assertState(x) ==
    /\ x.committed =>
        /\ x.acquired /\ x.begun /\ x.locked /\ x.workCompleted
        /\ requireFinalRenewal => x.finalRenewAttempted /\ x.finalRenewed
        /\ ~x.authorityLostBeforeCommit
    /\ ~(x.commitAttempted /\ x.rollbackAttempted)
    /\ x.rolledBack => x.rollbackAttempted
    /\ x.releaseAttempts <= 1
    /\ ~x.acquired => x.releaseAttempts = 0
    /\ x.phase = "done" /\ x.acquired => x.releaseAttempts = 1
    /\ x.result = "success" => x.committed /\ x.released /\ x.primaryFailure = NULL
    /\ ~(x.authorityLost /\ x.authorityLive)
    /\ x.primaryFailure # NULL => \E i \in DOMAIN x.failures : x.failures[i] = x.primaryFailure
    /\ \A i \in DOMAIN x.failures : LastCleanup(x.failures, i) => x.primaryFailure = x.failures[i]

\* What the executable model asserts in every state it visits: COMMIT only after
\* every step before it, never after a loss that was seen and never beside a
\* ROLLBACK; one release per acquisition; the last cleanup failure is the one the
\* caller is told of (verifyProductionModel: success only past the final renewal).
OracleAsserts ==
    /\ assertState(s)
    /\ s.result = "success" /\ requireFinalRenewal => s.finalRenewAttempted /\ s.finalRenewed
=============================================================================
