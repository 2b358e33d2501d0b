---------------------------- MODULE LocalFileLock ---------------------------
(***************************************************************************)
(* The portable mkdir lock (local-file.ts): acquisition, release, and the  *)
(* read-only inspection and operator-driven recovery of                    *)
(* local-file-recovery.ts.  Every filesystem call is one step, made by     *)
(* path, so it acts on whatever is there when it runs.                     *)
(*                                                                         *)
(* A marker file is named by the owner token of the acquisition that wrote *)
(* it; tokens are fresh per acquisition, as generated_local_file_lock_owner*)
(* makes them.  A recovery is only started for a token whose process is    *)
(* dead: that is what confirmed_inactive asserts.                          *)
(***************************************************************************)
EXTENDS Integers

CONSTANTS
    Procs,      \* processes that acquire and release
    Recoverers, \* operators that call recover_local_file_lock
    Inspectors, \* observers that call inspect_local_file_lock
    MaxOwners,  \* bound: number of acquisitions
    MaxTries,   \* polls before wait_timeout_ms has elapsed
    NULL

ASSUME BoundsAssumption == MaxOwners \in Nat /\ MaxTries \in Nat
ASSUME NullAssumption == NULL \notin Nat

VARIABLES
    dir,      \* whether the lock directory exists
    entries,  \* what each name in it links to
    owners,   \* number of owner tokens used so far
    pc, mine, tries,           \* an acquiring process: place, its token, polls left
    ipc, verdict, seen, shown, \* an inspection: place, result, lstat'ed marker, owner read
    rpc, expected,             \* a recovery: place, expected_owner
    dead,     \* tokens whose process has crashed
    removed,  \* history: recoveries that returned true, by the token they removed
    claim,    \* the marker a recovery has renamed
    overlapped, \* history: two operators were recovering at the same time
    unclean   \* history: a crash, or a failure of a cleanup call

Owners == 1..MaxOwners
Names == {"pending", "owner", "recovering"}
Observers == Recoverers \cup Inspectors

fs == <<dir, entries>>
acquirers == <<owners, pc, mine, tries>>
inspections == <<ipc, verdict, seen, shown>>
recoveries == <<rpc, expected, removed, claim, overlapped>>
vars == <<fs, acquirers, inspections, recoveries, dead, unclean>>

Init ==
    /\ dir = FALSE
    /\ entries = [n \in Names |-> NULL]
    /\ owners = 0
    /\ pc = [p \in Procs |-> "idle"]
    /\ mine = [p \in Procs |-> NULL]
    /\ tries = [p \in Procs |-> 0]
    /\ ipc = [o \in Observers |-> "idle"]
    /\ verdict = [o \in Observers |-> NULL]
    /\ seen = [o \in Observers |-> NULL]
    /\ shown = [o \in Observers |-> NULL]
    /\ rpc = [r \in Recoverers |-> "idle"]
    /\ expected = [r \in Recoverers |-> NULL]
    /\ claim = [r \in Recoverers |-> NULL]
    /\ dead = {}
    /\ overlapped = FALSE
    /\ removed = [t \in Owners |-> 0]
    /\ unclean = FALSE

-----------------------------------------------------------------------------
(* The filesystem.                                                         *)

Empty == \A n \in Names : entries[n] = NULL

Only(name) == \A n \in Names : entries[n] # NULL <=> n = name

Linked(t) == \E n \in Names : entries[n] = t

Unlink(name) == entries' = [entries EXCEPT ![name] = NULL] /\ UNCHANGED dir

\* rename() replaces the target.
Rename(from, to) ==
    entries' = [entries EXCEPT ![to] = entries[from], ![from] = NULL] /\ UNCHANGED dir

Rmdir == dir /\ Empty /\ dir' = FALSE /\ UNCHANGED entries

-----------------------------------------------------------------------------
(* try_acquire_local_file_lock and acquire_local_file_lock                 *)

Goto(p, label) == pc' = [pc EXCEPT ![p] = label]

acquireFrame == <<owners, mine, tries, inspections, recoveries, dead>>

\* acquire_local_file_lock with a fresh owner token.
Start(p, wait) ==
    /\ pc[p] = "idle"
    /\ owners < MaxOwners
    /\ owners' = owners + 1
    /\ mine' = [mine EXCEPT ![p] = owners + 1]
    /\ tries' = [tries EXCEPT ![p] = IF wait THEN MaxTries ELSE 0]
    /\ Goto(p, "mkdir")
    /\ UNCHANGED <<fs, inspections, recoveries, dead, unclean>>

\* mkdir and the permission check of the new directory, whose failure throws
\* without removing it.
MakeDir(p) ==
    /\ pc[p] = "mkdir"
    /\ ~dir
    /\ dir' = TRUE
    /\ \/ Goto(p, "create") /\ UNCHANGED unclean
       \/ Goto(p, "idle") /\ unclean' = TRUE
    /\ UNCHANGED <<entries, acquireFrame>>

\* mkdir fails otherwise than with EEXIST, or the path cannot be inspected.
MakeDirFails(p) ==
    /\ pc[p] = "mkdir"
    /\ Goto(p, "idle")
    /\ UNCHANGED <<fs, unclean, acquireFrame>>

\* EEXIST, and lstat finds a directory, or finds nothing a second time: null.
\* Then contention, timeout or another poll.
Contended(p) ==
    /\ pc[p] = "mkdir"
    /\ dir
    /\ \/ tries[p] > 0 /\ tries' = [tries EXCEPT ![p] = @ - 1] /\ Goto(p, "sleep")
       \/ tries[p] = 0 /\ UNCHANGED tries /\ Goto(p, "idle")
    /\ UNCHANGED <<fs, owners, mine, inspections, recoveries, dead, unclean>>

Wakes(p) ==
    /\ pc[p] = "sleep"
    /\ Goto(p, "mkdir")
    /\ UNCHANGED <<fs, acquireFrame, unclean>>

\* open(pendingPath, "wx")
CreatePending(p) ==
    /\ pc[p] = "create"
    /\ \/ /\ dir /\ entries["pending"] = NULL
          /\ entries' = [entries EXCEPT !["pending"] = mine[p]]
          /\ Goto(p, "check")
       \/ Goto(p, "unPending") /\ UNCHANGED entries
    /\ UNCHANGED <<dir, acquireFrame, unclean>>

\* write, sync, close, and lstat(ownerPath), which must find nothing.
CheckTarget(p) ==
    /\ pc[p] = "check"
    /\ \/ entries["owner"] = NULL /\ Goto(p, "publish")
       \/ Goto(p, "unPending")
    /\ UNCHANGED <<fs, acquireFrame, unclean>>

Publish(p) ==
    /\ pc[p] = "publish"
    /\ \/ /\ entries["pending"] # NULL
          /\ Rename("pending", "owner")
          /\ Goto(p, "validate")
       \/ Goto(p, "unPending") /\ UNCHANGED fs
    /\ UNCHANGED <<acquireFrame, unclean>>

\* validate_regular_file and read_local_file_owner_identity
Validate(p) ==
    /\ pc[p] = "validate"
    /\ \/ entries["owner"] # NULL /\ Goto(p, "held")
       \/ Goto(p, "unOwnerStrict")
    /\ UNCHANGED <<fs, acquireFrame, unclean>>

\* Rollback of a failed publication: both unlinks tolerate ENOENT.
RollbackPending(p) ==
    /\ pc[p] = "unPending"
    /\ Unlink("pending")
    /\ Goto(p, "unOwner")
    /\ UNCHANGED <<acquireFrame, unclean>>

\* After a failed validation ENOENT is an error.
RollbackOwner(p) ==
    /\ \/ pc[p] = "unOwner"
       \/ pc[p] = "unOwnerStrict" /\ entries["owner"] # NULL
    /\ Unlink("owner")
    /\ Goto(p, "unDir")
    /\ UNCHANGED <<acquireFrame, unclean>>

RollbackDir(p) ==
    /\ pc[p] = "unDir"
    /\ Rmdir
    /\ Goto(p, "idle")
    /\ UNCHANGED <<acquireFrame, unclean>>

\* A cleanup call fails: the error is reported and what is left stays.  It is
\* the disk's failure if the call could have succeeded.
RollbackFails(p) ==
    /\ pc[p] \in {"unPending", "unOwner", "unOwnerStrict", "unDir"}
    /\ Goto(p, "idle")
    /\ unclean' = (unclean \/ (pc[p] = "unDir" => dir /\ Empty))
    /\ UNCHANGED <<fs, acquireFrame>>

-----------------------------------------------------------------------------
(* LocalFileLock.release                                                   *)

\* Exactly one published owner marker, of this acquisition (identity and
\* content).  Any other finding throws and the handle stays held.
ReleaseChecks(p) ==
    /\ pc[p] = "held"
    /\ dir /\ Only("owner") /\ entries["owner"] = mine[p]
    /\ Goto(p, "relUnlink")
    /\ UNCHANGED <<fs, acquireFrame, unclean>>

ReleaseUnlinks(p) ==
    /\ pc[p] = "relUnlink"
    /\ \/ entries["owner"] # NULL /\ Unlink("owner") /\ Goto(p, "relRmdir")
       \/ Goto(p, "held") /\ UNCHANGED fs
    /\ UNCHANGED <<acquireFrame, unclean>>

\* Released, or `partial` for good.
ReleaseRmdir(p) ==
    /\ pc[p] = "relRmdir"
    /\ \/ Rmdir /\ UNCHANGED unclean
       \/ unclean' = (unclean \/ (dir /\ Empty)) /\ UNCHANGED fs
    /\ Goto(p, "idle")
    /\ UNCHANGED acquireFrame

\* The process dies, at any point; what it left on disk stays.
Crash(p) ==
    /\ pc[p] # "idle"
    /\ Goto(p, "idle")
    /\ dead' = dead \cup {mine[p]}
    /\ unclean' = TRUE
    /\ UNCHANGED <<fs, owners, mine, tries, inspections, recoveries>>

-----------------------------------------------------------------------------
(* inspect_local_file_lock                                                 *)

IGoto(o, label) == ipc' = [ipc EXCEPT ![o] = label]

Conclude(o, v, owner) ==
    /\ IGoto(o, "done")
    /\ verdict' = [verdict EXCEPT ![o] = v]
    /\ shown' = [shown EXCEPT ![o] = owner]
    /\ seen' = [seen EXCEPT ![o] = NULL]

inspectFrame == <<fs, acquirers, recoveries, dead, unclean>>

Inspect(o) ==
    /\ o \in Inspectors
    /\ ipc[o] \in {"idle", "done"}
    /\ IGoto(o, "lstat")
    /\ verdict' = [verdict EXCEPT ![o] = NULL]
    /\ shown' = [shown EXCEPT ![o] = NULL]
    /\ UNCHANGED <<seen, inspectFrame>>

InspectPath(o) ==
    /\ ipc[o] = "lstat"
    /\ \/ ~dir /\ Conclude(o, "absent", NULL)
       \/ dir /\ IGoto(o, "list") /\ UNCHANGED <<verdict, seen, shown>>
    /\ UNCHANGED inspectFrame

InspectEntries(o) ==
    /\ ipc[o] = "list"
    /\ \/ ~dir /\ Conclude(o, "absent", NULL)
       \/ /\ dir /\ (Empty \/ Only("pending") \/ Only("recovering"))
          /\ Conclude(o, "incomplete", NULL)
       \/ /\ dir /\ Only("owner")
          /\ IGoto(o, "stat") /\ UNCHANGED <<verdict, seen, shown>>
       \/ /\ dir /\ ~Empty /\ (\A n \in Names : ~Only(n))
          /\ Conclude(o, "compromised", NULL)
    /\ UNCHANGED inspectFrame

\* read_bounded_local_file_lock_owner: lstat by path, open by path, fstat.
\* A missing marker is probed for below.
OwnerStat(o) ==
    /\ ipc[o] = "stat"
    /\ seen' = [seen EXCEPT ![o] = entries["owner"]]
    /\ IGoto(o, IF entries["owner"] = NULL THEN "probe" ELSE "open")
    /\ UNCHANGED <<verdict, shown, inspectFrame>>

OwnerOpen(o) ==
    /\ ipc[o] = "open"
    /\ \/ entries["owner"] = NULL /\ IGoto(o, "probe") /\ UNCHANGED <<verdict, seen, shown>>
       \/ /\ entries["owner"] = seen[o]
          /\ IGoto(o, "fstat") /\ UNCHANGED <<verdict, seen, shown>>
       \/ /\ entries["owner"] \notin {NULL, seen[o]}
          /\ Conclude(o, "compromised", NULL)
    /\ UNCHANGED inspectFrame

\* nlink is 0 when the opened marker has been unlinked.
OwnerFstat(o) ==
    /\ ipc[o] = "fstat"
    /\ \/ Linked(seen[o]) /\ Conclude(o, "held", seen[o])
       \/ ~Linked(seen[o]) /\ Conclude(o, "compromised", NULL)
    /\ UNCHANGED inspectFrame

InspectProbe(o) ==
    /\ ipc[o] = "probe"
    /\ Conclude(o, IF dir THEN "incomplete" ELSE "absent", NULL)
    /\ UNCHANGED inspectFrame

-----------------------------------------------------------------------------
(* recover_local_file_lock                                                 *)

RGoto(r, label) == rpc' = [rpc EXCEPT ![r] = label]

recoverFrame == <<acquirers, dead, overlapped>>

Recover(r, t) ==
    /\ rpc[r] = "idle"
    /\ t \in dead
    /\ expected' = [expected EXCEPT ![r] = t]
    /\ RGoto(r, "first") /\ IGoto(r, "lstat")
    /\ overlapped' = (overlapped \/ \E o \in Recoverers : rpc[o] # "idle")
    /\ UNCHANGED <<fs, acquirers, dead, verdict, seen, shown, removed, claim, unclean>>

Return(r) ==
    /\ RGoto(r, "idle") /\ IGoto(r, "idle")
    /\ expected' = [expected EXCEPT ![r] = NULL]
    /\ claim' = [claim EXCEPT ![r] = NULL]
    /\ verdict' = [verdict EXCEPT ![r] = NULL]
    /\ shown' = [shown EXCEPT ![r] = NULL]
    /\ seen' = [seen EXCEPT ![r] = NULL]

\* Mutant: an unsuccessful first inspection is repeated.
FirstInspectedRetries(r) ==
    /\ rpc[r] = "first" /\ ipc[r] = "done"
    /\ IGoto(r, "lstat")
    /\ UNCHANGED <<fs, recoverFrame, verdict, shown, seen, recoveries, unclean>>

\* Mutant: any held lock is recovered.
MatchesAny(r) == verdict[r] = "held"

Matches(r) == verdict[r] = "held" /\ shown[r] = expected[r]

\* The first inspection: false when absent, an error unless held by the
\* expected owner.
FirstInspected(r) ==
    /\ rpc[r] = "first" /\ ipc[r] = "done"
    /\ \/ Matches(r) /\ RGoto(r, "final") /\ IGoto(r, "lstat")
          /\ UNCHANGED <<expected, claim, verdict, shown, seen>>
       \/ ~Matches(r) /\ Return(r)
    /\ UNCHANGED <<fs, recoverFrame, removed, unclean>>

FinalInspected(r) ==
    /\ rpc[r] = "final" /\ ipc[r] = "done"
    /\ \/ Matches(r) /\ RGoto(r, "claim") /\ IGoto(r, "idle")
          /\ UNCHANGED <<expected, claim, verdict, shown, seen>>
       \/ ~Matches(r) /\ Return(r)
    /\ UNCHANGED <<fs, recoverFrame, removed, unclean>>

\* Mutant: a lost rename is reported as a recovery.
ClaimLostReportsTrue(r) ==
    /\ rpc[r] = "claim"
    /\ \/ /\ entries["owner"] # NULL
          /\ claim' = [claim EXCEPT ![r] = entries["owner"]]
          /\ Rename("owner", "recovering")
          /\ RGoto(r, "unlink")
          /\ UNCHANGED <<inspections, expected, removed>>
       \/ /\ entries["owner"] = NULL
          /\ removed' = [removed EXCEPT ![expected[r]] = @ + 1]
          /\ Return(r) /\ UNCHANGED fs
    /\ UNCHANGED <<recoverFrame, unclean>>

\* rename(owner, owner.recovering); ENOENT inspects once more and returns false
\* or throws; other errors throw.
Claim(r) ==
    /\ rpc[r] = "claim"
    /\ \/ /\ entries["owner"] # NULL
          /\ claim' = [claim EXCEPT ![r] = entries["owner"]]
          /\ Rename("owner", "recovering")
          /\ RGoto(r, "unlink")
          /\ UNCHANGED <<inspections, expected>>
       \/ /\ entries["owner"] = NULL
          /\ RGoto(r, "after") /\ IGoto(r, "lstat")
          /\ UNCHANGED <<fs, expected, claim, verdict, shown, seen>>
       \/ Return(r) /\ UNCHANGED fs
    /\ UNCHANGED <<recoverFrame, removed, unclean>>

AfterInspected(r) ==
    /\ rpc[r] = "after" /\ ipc[r] = "done"
    /\ Return(r)
    /\ UNCHANGED <<fs, recoverFrame, removed, unclean>>

RecoverUnlinks(r) ==
    /\ rpc[r] = "unlink"
    /\ \/ /\ entries["recovering"] # NULL
          /\ Unlink("recovering")
          /\ RGoto(r, "rmdir")
          /\ UNCHANGED <<inspections, expected, claim, unclean>>
       \/ Return(r) /\ unclean' = TRUE /\ UNCHANGED fs
    /\ UNCHANGED <<recoverFrame, removed>>

RecoverRmdir(r) ==
    /\ rpc[r] = "rmdir"
    /\ \/ /\ Rmdir
          /\ removed' = [removed EXCEPT ![claim[r]] = @ + 1]
          /\ UNCHANGED unclean
       \/ unclean' = TRUE /\ UNCHANGED <<fs, removed>>
    /\ Return(r)
    /\ UNCHANGED recoverFrame

RecovererCrash(r) ==
    /\ rpc[r] # "idle"
    /\ Return(r)
    /\ unclean' = TRUE
    /\ UNCHANGED <<fs, recoverFrame, removed>>

-----------------------------------------------------------------------------
AcquireStep(p) ==
    \/ MakeDir(p) \/ MakeDirFails(p) \/ Contended(p) \/ Wakes(p) \/ CreatePending(p) \/ CheckTarget(p) \/ Publish(p)
    \/ Validate(p) \/ RollbackPending(p) \/ RollbackOwner(p) \/ RollbackDir(p) \/ RollbackFails(p)

ReleaseStep(p) == ReleaseChecks(p) \/ ReleaseUnlinks(p) \/ ReleaseRmdir(p)

InspectStep(o) ==
    \/ InspectPath(o) \/ InspectEntries(o) \/ OwnerStat(o) \/ OwnerOpen(o)
    \/ OwnerFstat(o) \/ InspectProbe(o)

RecoverStep(r) ==
    \/ FirstInspected(r) \/ FinalInspected(r) \/ Claim(r) \/ AfterInspected(r)
    \/ RecoverUnlinks(r) \/ RecoverRmdir(r)

\* An observer inspects; an operator also recovers.  Neither touches a process.
ObserverNext(o) ==
    \/ Inspect(o) \/ InspectStep(o)
    \/ /\ o \in Recoverers
       /\ (\E t \in Owners : Recover(o, t)) \/ RecoverStep(o) \/ RecovererCrash(o)

Next ==
    \/ \E p \in Procs :
        \/ \E wait \in BOOLEAN : Start(p, wait)
        \/ AcquireStep(p) \/ ReleaseStep(p) \/ Crash(p)
    \/ \E o \in Observers : ObserverNext(o)

\* Filesystem calls return; nobody is made to acquire, release or recover.
Fairness ==
    /\ \A p \in Procs : WF_vars(AcquireStep(p))
    /\ \A r \in Recoverers : WF_vars(InspectStep(r) \/ RecoverStep(r))

Spec == Init /\ [][Next]_vars /\ Fairness

-----------------------------------------------------------------------------
(* Properties.                                                             *)

Marker == Owners \cup {NULL}

TypeOK ==
    /\ dir \in BOOLEAN /\ entries \in [Names -> Marker]
    /\ owners \in 0..MaxOwners
    /\ pc \in [Procs -> {"idle", "mkdir", "sleep", "create", "check", "publish", "validate", "held",
                         "unPending", "unOwner", "unOwnerStrict", "unDir", "relUnlink", "relRmdir"}]
    /\ mine \in [Procs -> Marker] /\ tries \in [Procs -> 0..MaxTries]
    /\ ipc \in [Observers -> {"idle", "lstat", "list", "stat", "open", "fstat", "probe", "done"}]
    /\ verdict \in [Observers -> {"absent", "held", "incomplete", "compromised", NULL}]
    /\ seen \in [Observers -> Marker] /\ shown \in [Observers -> Marker]
    /\ rpc \in [Recoverers -> {"idle", "first", "final", "claim", "after", "unlink", "rmdir"}]
    /\ expected \in [Recoverers -> Marker] /\ claim \in [Recoverers -> Marker]
    /\ dead \subseteq Owners /\ overlapped \in BOOLEAN
    /\ removed \in [Owners -> Nat]
    /\ unclean \in BOOLEAN
    /\ ~dir => Empty

\* A process that holds the lock has its marker published, alone in the
\* directory: no acquisition, rollback, release or recovery of somebody else
\* has touched it, so no second process can be holding.  (That needs operators
\* that recover one after the other: see ClaimsExpectedOwner.)
HeldIsPublished ==
    \A p \in Procs :
        (pc[p] \in {"held", "relUnlink"} /\ ~overlapped) =>
            dir /\ Only("owner") /\ entries["owner"] = mine[p]

\* A directory without a published owner and without anybody working on it,
\* which nobody may recover, is left only by a crash or a failed cleanup call:
\* every failed publication is rolled back completely.
StuckOnlyAfterFailure ==
    (dir /\ entries["owner"] = NULL /\ ~unclean) =>
        \/ \E p \in Procs : pc[p] \notin {"idle", "mkdir", "sleep", "held"}
        \/ \E r \in Recoverers : rpc[r] \in {"unlink", "rmdir"}

\* At most one recovery reports success for one acquisition, however many
\* operators recover it at the same time.
RecoveredOnce == \A t \in Owners : removed[t] <= 1

\* The documented authority of a recovery: with the token of a dead owner it
\* removes that owner's marker and no fresh acquisition's.
ClaimsExpectedOwner == \A r \in Recoverers : claim[r] \in {NULL, expected[r]}

\* Acquisition is bounded: it ends with the lock or with an error.
AcquireEnds == \A p \in Procs : pc[p] = "mkdir" ~> pc[p] \in {"held", "idle"}

\* Recovery ends, whatever happens to the lock meanwhile.
RecoveryEnds == \A r \in Recoverers : rpc[r] # "idle" ~> rpc[r] = "idle"

\* The invariant of the lock directory.
FileInv == TypeOK /\ HeldIsPublished /\ StuckOnlyAfterFailure

\* Neither an acquisition nor a recovery goes on for ever.
FileCallsEnd == AcquireEnds /\ RecoveryEnds
=============================================================================
