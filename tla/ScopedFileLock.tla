--------------------------- MODULE ScopedFileLock ---------------------------
(***************************************************************************)
(* with_local_file_lock (local-file-scoped.ts): acquire the portable lock  *)
(* (LocalFileLock), run one callback, release once, and report what went   *)
(* wrong with the work and with the lock separately.                       *)
(*                                                                         *)
(* The callback is given the lock and may release it itself; the handle    *)
(* remembers that (release_state).  It may throw any value, `undefined`    *)
(* included.                                                               *)
(***************************************************************************)
EXTENDS LocalFileLock

VARIABLES
    scope,   \* where a process is: none, acquire, work, release
    handle,  \* #release_state of its lock: held, released, partial
    work_error, \* what work threw, or NULL for undefined
    reported \* history: some call reported a lock error other than contention

scopeVars == <<scope, handle, work_error, reported>>
scopedVars == <<vars, scopeVars>>

ScopedInit ==
    /\ Init
    /\ scope = [p \in Procs |-> "none"]
    /\ handle = [p \in Procs |-> "released"]
    /\ work_error = [p \in Procs |-> NULL]
    /\ reported = FALSE

Scope(p, label) == scope' = [scope EXCEPT ![p] = label]

-----------------------------------------------------------------------------
ScopedStart(p, wait) ==
    /\ scope[p] = "none"
    /\ Start(p, wait)
    /\ Scope(p, "acquire")
    /\ UNCHANGED <<handle, work_error, reported>>

\* One filesystem call of acquire_local_file_lock; if it throws, so does the
\* helper, and work never runs.
ScopedAcquire(p) ==
    /\ scope[p] = "acquire"
    /\ AcquireStep(p)
    /\ \/ pc'[p] \notin {"held", "idle"} /\ UNCHANGED <<scope, handle, reported>>
       \/ /\ pc'[p] = "held"
          /\ Scope(p, "work")
          /\ handle' = [handle EXCEPT ![p] = "held"]
          /\ UNCHANGED reported
       \/ /\ pc'[p] = "idle"
          /\ Scope(p, "none")
          /\ reported' = (reported \/ ~Contended(p))
          /\ UNCHANGED handle
    /\ UNCHANGED work_error

\* What #release_once leaves in the handle: rmdir failed or not.
Released(p) ==
    handle' = [handle EXCEPT ![p] =
        IF pc[p] # "relRmdir" THEN @ ELSE IF dir /\ ~dir' THEN "released" ELSE "partial"]

\* Work calls lock.release() and swallows its error.
WorkReleases(p) ==
    /\ scope[p] = "work"
    /\ handle[p] = "held"
    /\ ReleaseStep(p)
    /\ Released(p)
    /\ UNCHANGED <<scope, work_error, reported>>

\* Work returns (t is NULL) or throws; a thrown `undefined` looks like a return.
\* A release it has started goes on, and the one below joins it.
WorkEnds(p, t) ==
    /\ scope[p] = "work"
    /\ Scope(p, "release")
    /\ work_error' = [work_error EXCEPT ![p] = IF t = "undefined" THEN NULL ELSE t]
    /\ UNCHANGED <<vars, handle, reported>>

-----------------------------------------------------------------------------
(* The scoped release and the verdict.                                     *)

\* Mutant: the failure of work hides the failure of the release.
OutcomeFirstOnly(p, lockFailed) ==
    CASE work_error[p] # NULL -> "work"
      [] work_error[p] = NULL /\ lockFailed -> "lock"
      [] OTHER -> "success"

\* What the caller is told.
Outcome(p, lockFailed) ==
    CASE work_error[p] # NULL /\ lockFailed -> "work_and_release"
      [] work_error[p] # NULL /\ ~lockFailed -> "work"
      [] work_error[p] = NULL /\ lockFailed -> "lock"
      [] OTHER -> "success"

Report(p, lockFailed) ==
    /\ Scope(p, "none")
    /\ reported' = (reported \/ Outcome(p, lockFailed) \in {"lock", "work_and_release"})
    /\ work_error' = [work_error EXCEPT ![p] = NULL]

\* release() of a handle that is not held any more: nothing, or the error the
\* partial release ended with.
ReleaseAgain(p) ==
    /\ scope[p] = "release"
    /\ handle[p] # "held"
    /\ Report(p, handle[p] = "partial")
    /\ UNCHANGED <<vars, handle>>

\* One filesystem call of #release_once.  A failed unlink throws and leaves
\* the marker published, with nobody left to remove it.
ScopedRelease(p) ==
    /\ scope[p] = "release"
    /\ handle[p] = "held"
    /\ ReleaseStep(p)
    /\ Released(p)
    /\ \/ pc'[p] \in {"relUnlink", "relRmdir"} /\ UNCHANGED <<scope, work_error, reported>>
       \/ pc'[p] = "held" /\ Report(p, TRUE)
       \/ pc'[p] = "idle" /\ Report(p, handle'[p] = "partial")

\* A check before the unlink fails.
ReleaseRefused(p) ==
    /\ scope[p] = "release"
    /\ handle[p] = "held" /\ pc[p] = "held"
    /\ Report(p, TRUE)
    /\ UNCHANGED <<vars, handle>>

ScopedCrash(p) ==
    /\ scope[p] # "none"
    /\ Crash(p)
    /\ Scope(p, "none")
    /\ reported' = TRUE
    /\ work_error' = [work_error EXCEPT ![p] = NULL]
    /\ UNCHANGED handle

ScopedProcess(p) ==
    \/ \E wait \in BOOLEAN : ScopedStart(p, wait)
    \/ ScopedAcquire(p)
    \/ WorkReleases(p)
    \/ \E t \in {NULL, "error", "undefined"} : WorkEnds(p, t)
    \/ ScopedRelease(p) \/ ReleaseAgain(p) \/ ReleaseRefused(p)
    \/ ScopedCrash(p)

ScopedNext ==
    \/ \E p \in Procs : ScopedProcess(p)
    \/ \E o \in Observers : ObserverNext(o) /\ UNCHANGED scopeVars

\* As for LocalFileLock: filesystem calls return.  Work need not end.
ScopedFairness ==
    /\ \A p \in Procs : WF_scopedVars(ScopedAcquire(p))
    /\ \A r \in Recoverers : WF_scopedVars((InspectStep(r) \/ RecoverStep(r)) /\ UNCHANGED scopeVars)

ScopedSpec == ScopedInit /\ [][ScopedNext]_scopedVars /\ ScopedFairness

-----------------------------------------------------------------------------
(* Properties.                                                             *)

InWork(p) == scope[p] = "work" /\ handle[p] = "held"

\* The callbacks of two processes run one after the other, unless one of them
\* gives its lock away: through contention, rollbacks, failed releases and
\* crashes of the others, work only runs under its own published marker.
\* (Operators recover one after the other: see ClaimsExpectedOwner.)
WorkExclusive == ~overlapped => \A p, q \in Procs : InWork(p) /\ InWork(q) => p = q

\* A lock left on disk with no call of this host at work on it never goes
\* unreported: some caller was told of a lock error, or crashed.
LeftoverIsReported ==
    (dir /\ \A p \in Procs : scope[p] = "none" \/ pc[p] \in {"mkdir", "sleep"}) => reported

\* What with_local_file_lock promises its callers.
ScopedInv == WorkExclusive /\ LeftoverIsReported
=============================================================================
