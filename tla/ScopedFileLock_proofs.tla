------------------------ MODULE ScopedFileLock_proofs -----------------------
(***************************************************************************)
(* Proofs about the local file lock, its recovery and the scoped lock, for *)
(* any number of processes, operators, observers and acquisitions.         *)
(*                                                                         *)
(* The argument.  A marker passes from owner.pending to owner to           *)
(* owner.recovering, and never back: so one recovery at most reports that  *)
(* it removed it, whoever else is recovering (OnceOnly).  As long as       *)
(* operators recover one after the other, the directory belongs to one     *)
(* process from its mkdir to its rmdir, and holds nothing but that         *)
(* process's marker (Stage); and the marker of a dead owner, once an       *)
(* operator has seen it, stays where it is until that operator moves it    *)
(* (Sight).  A directory that nobody is at work on is left by a failure    *)
(* only (Attended).                                                        *)
(***************************************************************************)
EXTENDS ScopedFileLock, TLAPS

-----------------------------------------------------------------------------
(* The inductive invariant of LocalFileLock.                               *)

\* p made the directory and has not removed or left it.
Working(p) == pc[p] \notin {"idle", "mkdir", "sleep"}

\* p has not written its marker yet.
Early(p) == pc[p] \in {"mkdir", "sleep", "create"}

Issued == 1..owners

\* Tokens are fresh, and a live acquisition's token is not a dead one's.
Tokens ==
    /\ dead \subseteq Issued
    /\ \A n \in Names : entries[n] \in Issued \cup {NULL}
    /\ \A p \in Procs : mine[p] \in Issued \cup {NULL}
    /\ \A p \in Procs : pc[p] # "idle" => mine[p] # NULL /\ mine[p] \notin dead
    /\ \A p, q \in Procs : p # q /\ mine[p] = mine[q] => mine[p] = NULL

\* The marker of t has passed the name `owner`.
Spent(t) ==
    /\ t \in Issued
    /\ entries["pending"] # t /\ entries["owner"] # t
    /\ \A p \in Procs : Early(p) => mine[p] # t

OnceOnly ==
    /\ \A p \in Procs : Early(p) => entries["pending"] # mine[p] /\ entries["owner"] # mine[p]
    /\ entries["pending"] = entries["owner"] => entries["owner"] = NULL
    /\ \A r \in Recoverers : claim[r] # NULL => Spent(claim[r]) /\ removed[claim[r]] = 0
    /\ \A r \in Recoverers : rpc[r] \in {"unlink", "rmdir"} => claim[r] # NULL
    /\ \A r, s \in Recoverers : r # s /\ claim[r] = claim[s] => claim[r] = NULL
    /\ \A t \in Owners : removed[t] # 0 => removed[t] = 1 /\ Spent(t)

\* What p, at work in its directory, finds there.
Stage(p) ==
    /\ dir
    /\ entries["recovering"] = NULL
    /\ entries["pending"] \in (CASE pc[p] \in {"check", "publish"} -> {mine[p]}
                                 [] pc[p] = "unPending" -> {NULL, mine[p]}
                                 [] OTHER -> {NULL})
    /\ entries["owner"] = IF pc[p] \in {"validate", "held", "relUnlink", "unOwnerStrict"} THEN mine[p] ELSE NULL
    /\ \A r \in Recoverers : rpc[r] \notin {"unlink", "rmdir"}

\* What an operator at work has seen of the owner it expects is still there.
Sight(r) ==
    /\ claim[r] \in {NULL, expected[r]}
    /\ rpc[r] \in {"first", "final"} =>
         /\ ipc[r] \in {"open", "fstat"} /\ seen[r] = expected[r] => entries["owner"] = expected[r]
         /\ ipc[r] = "done" /\ Matches(r) => entries["owner"] = expected[r]
    /\ rpc[r] = "claim" => entries["owner"] = expected[r]
    /\ rpc[r] = "unlink" => dir /\ Only("recovering")
    /\ rpc[r] = "rmdir" => dir /\ Empty

OneByOne ==
    /\ \A p, q \in Procs : Working(p) /\ Working(q) => p = q
    /\ \A p \in Procs : Working(p) => Stage(p)
    /\ \A r, s \in Recoverers : rpc[r] # "idle" /\ rpc[s] # "idle" => r = s
    /\ \A r \in Recoverers : rpc[r] # "idle" => Sight(r)
    /\ \A m, n \in Names : entries[m] # NULL /\ entries[n] # NULL => m = n

Attended ==
    /\ \A r \in Recoverers : rpc[r] # "idle" => expected[r] \in dead
    /\ \A r \in Recoverers : rpc[r] = "idle" => claim[r] = NULL
    /\ overlapped => dead # {}
    /\ ~unclean => dead = {}
    /\ dir /\ ~unclean => \E p \in Procs : Working(p)

LockInv == TypeOK /\ Tokens /\ OnceOnly /\ (~overlapped => OneByOne) /\ Attended

-----------------------------------------------------------------------------
(* The inductive invariant of the scoped lock, on top of LockInv.          *)

\* A call of p is at work on the directory, or has still to report that it
\* could not remove it.
Answerable(p) ==
    /\ scope[p] # "none"
    /\ Working(p) \/ (pc[p] = "idle" /\ handle[p] = "partial")

ScopeOK ==
    /\ scope \in [Procs -> {"none", "acquire", "work", "release"}]
    /\ handle \in [Procs -> {"held", "released", "partial"}]
    /\ reported \in BOOLEAN
    /\ \A p \in Procs : scope[p] = "acquire" => pc[p] \notin {"idle", "held", "relUnlink", "relRmdir"}
    /\ \A p \in Procs : scope[p] \in {"work", "release"} =>
          IF handle[p] = "held" THEN pc[p] \in {"held", "relUnlink", "relRmdir"} ELSE pc[p] = "idle"
    /\ ~reported => dead = {}
    /\ dir /\ ~reported => \E p \in Procs : Answerable(p)

ScopedLockInv == LockInv /\ ScopeOK

-----------------------------------------------------------------------------
(* Type correctness.                                                       *)

LEMMA ProcsKeepType ==
    ASSUME TypeOK, Tokens, NEW p \in Procs,
           (\E w \in BOOLEAN : Start(p, w)) \/ AcquireStep(p) \/ ReleaseStep(p) \/ Crash(p)
    PROVE  TypeOK'
<1> USE BoundsAssumption, NullAssumption
<1> USE DEF TypeOK, Marker, Owners, Names, Empty, Goto, fs, inspections, recoveries, acquireFrame
<1>1. ASSUME NEW w \in BOOLEAN, Start(p, w) PROVE TypeOK'
  BY <1>1 DEF Start
<1>2. CASE MakeDir(p) \/ MakeDirFails(p)
  BY <1>2 DEF MakeDir, MakeDirFails
<1>3. CASE Contended(p)
  <2>1. tries' \in [Procs -> 0..MaxTries] /\ UNCHANGED <<fs, owners, mine, inspections, recoveries, dead, unclean>>
    <3>1. CASE UNCHANGED tries
      BY <1>3, <3>1 DEF Contended
    <3>2. CASE tries[p] > 0 /\ tries' = [tries EXCEPT ![p] = @ - 1]
      <4>1. tries[p] - 1 \in 0..MaxTries
        BY <3>2
      <4> QED BY <1>3, <3>2, <4>1 DEF Contended
    <3> QED BY <1>3, <3>1, <3>2 DEF Contended
  <2>2. pc' = [pc EXCEPT ![p] = "sleep"] \/ pc' = [pc EXCEPT ![p] = "idle"]
    BY <1>3 DEF Contended
  <2> QED BY <2>1, <2>2
<1>4. CASE Wakes(p)
  BY <1>4 DEF Wakes
<1>5. CASE CreatePending(p)
  <2>1. entries' \in [Names -> Marker] /\ (~dir' => Empty') /\ UNCHANGED <<dir, acquireFrame, unclean>>
    <3>1. CASE UNCHANGED entries
      BY <1>5, <3>1 DEF CreatePending
    <3>2. CASE dir /\ entries' = [entries EXCEPT !["pending"] = mine[p]]
      BY <1>5, <3>2 DEF CreatePending
    <3> QED BY <1>5, <3>1, <3>2 DEF CreatePending
  <2>2. pc' = [pc EXCEPT ![p] = "check"] \/ pc' = [pc EXCEPT ![p] = "unPending"]
    BY <1>5 DEF CreatePending
  <2> QED BY <2>1, <2>2
<1>6. CASE CheckTarget(p)
  BY <1>6 DEF CheckTarget
<1>7. CASE Publish(p)
  BY ZenonT(30), <1>7 DEF Publish, Rename
<1>8. CASE Validate(p)
  BY <1>8 DEF Validate
<1>9. CASE RollbackPending(p)
  BY <1>9 DEF RollbackPending, Unlink
<1>10. CASE RollbackOwner(p)
  BY <1>10 DEF RollbackOwner, Unlink
<1>11. CASE RollbackDir(p)
  BY <1>11 DEF RollbackDir, Rmdir
<1>12. CASE RollbackFails(p)
  BY <1>12 DEF RollbackFails
<1>13. CASE ReleaseChecks(p)
  BY <1>13 DEF ReleaseChecks
<1>14. CASE ReleaseUnlinks(p)
  <2>1. entries' \in [Names -> Marker] /\ (~dir' => Empty') /\ UNCHANGED <<dir, acquireFrame, unclean>>
    BY <1>14 DEF ReleaseUnlinks, Unlink
  <2>2. pc' = [pc EXCEPT ![p] = "relRmdir"] \/ pc' = [pc EXCEPT ![p] = "held"]
    BY <1>14 DEF ReleaseUnlinks
  <2> QED BY <2>1, <2>2
<1>15. CASE ReleaseRmdir(p)
  BY <1>15 DEF ReleaseRmdir, Rmdir
<1>16. CASE Crash(p)
  <2>1. mine[p] \in Owners
    BY <1>16 DEF Crash, Tokens
  <2> QED BY <1>16, <2>1 DEF Crash
<1> QED
  BY <1>1, <1>2, <1>3, <1>4, <1>5, <1>6, <1>7, <1>8, <1>9, <1>10, <1>11, <1>12, <1>13, <1>14, <1>15, <1>16
  DEF AcquireStep, ReleaseStep

LEMMA InspectionsKeepType ==
    ASSUME TypeOK, NEW o \in Observers, Inspect(o) \/ InspectStep(o)
    PROVE  TypeOK'
<1> USE DEF TypeOK, Marker, Names, Empty, IGoto, Conclude, fs, acquirers, recoveries, inspectFrame
<1>1. CASE Inspect(o)
  BY <1>1 DEF Inspect
<1>2. CASE InspectPath(o)
  BY <1>2 DEF InspectPath
<1>3. CASE InspectEntries(o)
  BY <1>3 DEF InspectEntries
<1>4. CASE OwnerStat(o)
  BY <1>4 DEF OwnerStat
<1>5. CASE OwnerOpen(o)
  BY <1>5 DEF OwnerOpen
<1>6. CASE OwnerFstat(o)
  BY <1>6 DEF OwnerFstat
<1>7. CASE InspectProbe(o)
  BY <1>7 DEF InspectProbe
<1> QED BY <1>1, <1>2, <1>3, <1>4, <1>5, <1>6, <1>7 DEF InspectStep

LEMMA RecoveriesKeepType ==
    ASSUME TypeOK, NEW r \in Recoverers,
           (\E t \in Owners : Recover(r, t)) \/ RecoverStep(r) \/ RecovererCrash(r)
    PROVE  TypeOK'
<1> r \in Observers BY DEF Observers
<1> USE DEF TypeOK, Marker, Names, Empty, IGoto, RGoto, Return, fs, acquirers, inspections, recoverFrame
<1>1. ASSUME NEW t \in Owners, Recover(r, t) PROVE TypeOK'
  BY <1>1 DEF Recover
<1>2. CASE FirstInspected(r)
  BY <1>2 DEF FirstInspected
<1>3. CASE FinalInspected(r)
  BY <1>3 DEF FinalInspected
<1>4. CASE Claim(r)
  BY <1>4 DEF Claim, Rename
<1>5. CASE AfterInspected(r)
  BY <1>5 DEF AfterInspected
<1>6. CASE RecoverUnlinks(r)
  <2>1. CASE entries["recovering"] # NULL /\ Unlink("recovering") /\ RGoto(r, "rmdir") /\ UNCHANGED <<inspections, expected, claim, unclean>>
    <3>1. entries' \in [Names -> Marker] /\ (~dir' => Empty')
      BY <2>1 DEF Unlink
    <3> QED BY <1>6, <2>1, <3>1 DEF RecoverUnlinks, Unlink
  <2>2. CASE Return(r) /\ unclean' = TRUE /\ UNCHANGED fs
    BY <1>6, <2>2 DEF RecoverUnlinks
  <2> QED BY <1>6, <2>1, <2>2 DEF RecoverUnlinks
<1>7. CASE RecoverRmdir(r)
  <2>1. removed' \in [Owners -> Nat]
    BY <1>7 DEF RecoverRmdir
  <2>2. dir' \in BOOLEAN /\ unclean' \in BOOLEAN /\ UNCHANGED entries /\ (~dir' => Empty')
    BY <1>7 DEF RecoverRmdir, Rmdir
  <2> QED BY <1>7, <2>1, <2>2 DEF RecoverRmdir
<1>8. CASE RecovererCrash(r)
  BY <1>8 DEF RecovererCrash
<1> QED BY <1>1, <1>2, <1>3, <1>4, <1>5, <1>6, <1>7, <1>8 DEF RecoverStep

-----------------------------------------------------------------------------
(* What a step leaves alone.                                               *)

LEMMA InspectionFrame ==
    ASSUME NEW o, Inspect(o) \/ InspectStep(o)
    PROVE  UNCHANGED inspectFrame
BY DEF Inspect, InspectStep, InspectPath, InspectEntries, OwnerStat, OwnerOpen, OwnerFstat, InspectProbe

\* A filesystem call of p: entries only move, but for p's own marker.
LEMMA ProcessFrame ==
    ASSUME TypeOK, NEW p \in Procs, AcquireStep(p) \/ ReleaseStep(p)
    PROVE  /\ UNCHANGED <<owners, mine, inspections, recoveries, dead>>
           /\ pc[p] # "idle"
           /\ \A q \in Procs : q # p => pc'[q] = pc[q]
           /\ \A n \in Names : entries'[n] \in {NULL, mine[p]} \cup {entries[m] : m \in Names}
<1> USE DEF TypeOK, Goto, fs, acquireFrame, Unlink, Rename, Rmdir
<1>1. UNCHANGED <<owners, mine, inspections, recoveries, dead>> /\ pc[p] # "idle"
  BY DEF AcquireStep, ReleaseStep, MakeDir, MakeDirFails, Contended, Wakes, CreatePending, CheckTarget, Publish,
     Validate,
         RollbackPending, RollbackOwner, RollbackDir, RollbackFails, ReleaseChecks, ReleaseUnlinks, ReleaseRmdir
<1>2. \E label : pc' = [pc EXCEPT ![p] = label]
  BY DEF AcquireStep, ReleaseStep, MakeDir, MakeDirFails, Contended, Wakes, CreatePending, CheckTarget, Publish,
     Validate,
         RollbackPending, RollbackOwner, RollbackDir, RollbackFails, ReleaseChecks, ReleaseUnlinks, ReleaseRmdir
<1>3. \/ UNCHANGED entries
      \/ entries' = [entries EXCEPT !["pending"] = mine[p]]
      \/ entries' = [entries EXCEPT !["owner"] = entries["pending"], !["pending"] = NULL]
      \/ \E n \in {"pending", "owner"} : entries' = [entries EXCEPT ![n] = NULL]
  BY DEF AcquireStep, ReleaseStep, MakeDir, MakeDirFails, Contended, Wakes, CreatePending, CheckTarget, Publish,
     Validate,
         RollbackPending, RollbackOwner, RollbackDir, RollbackFails, ReleaseChecks, ReleaseUnlinks, ReleaseRmdir
<1>4. \A n \in Names : entries'[n] \in {NULL, mine[p]} \cup {entries[m] : m \in Names}
  BY <1>3 DEF Names
<1> QED BY <1>1, <1>2, <1>4

\* A call of an operator: the processes are not touched, and entries only move.
LEMMA RecoveryFrame ==
    ASSUME TypeOK, NEW r \in Recoverers,
           (\E t \in Owners : Recover(r, t)) \/ RecoverStep(r) \/ RecovererCrash(r)
    PROVE  /\ UNCHANGED <<owners, pc, mine, tries, dead>>
           /\ \A s \in Recoverers : s # r => /\ rpc'[s] = rpc[s] /\ expected'[s] = expected[s] /\ claim'[s] = claim[s]
                                            /\ ipc'[s] = ipc[s] /\ verdict'[s] = verdict[s]
                                            /\ seen'[s] = seen[s] /\ shown'[s] = shown[s]
           /\ \A n \in Names : entries'[n] \in {NULL} \cup {entries[m] : m \in Names}
<1> r \in Observers /\ Recoverers \subseteq Observers BY DEF Observers
<1> USE DEF TypeOK, fs, acquirers, inspections, recoverFrame, Return, RGoto, IGoto, Unlink, Rename, Rmdir
<1>1. UNCHANGED <<owners, pc, mine, tries, dead>>
  BY DEF Recover, RecoverStep, FirstInspected, FinalInspected, Claim, AfterInspected,
         RecoverUnlinks, RecoverRmdir, RecovererCrash
<1>2. /\ \E l : rpc' = [rpc EXCEPT ![r] = l]
      /\ UNCHANGED ipc \/ \E l : ipc' = [ipc EXCEPT ![r] = l]
      /\ UNCHANGED expected \/ \E l : expected' = [expected EXCEPT ![r] = l]
      /\ UNCHANGED claim \/ \E l : claim' = [claim EXCEPT ![r] = l]
      /\ UNCHANGED verdict \/ \E l : verdict' = [verdict EXCEPT ![r] = l]
      /\ UNCHANGED seen \/ \E l : seen' = [seen EXCEPT ![r] = l]
      /\ UNCHANGED shown \/ \E l : shown' = [shown EXCEPT ![r] = l]
  BY DEF Recover, RecoverStep, FirstInspected, FinalInspected, Claim, AfterInspected,
         RecoverUnlinks, RecoverRmdir, RecovererCrash
<1>3. \/ UNCHANGED entries
      \/ entries' = [entries EXCEPT !["recovering"] = entries["owner"], !["owner"] = NULL]
      \/ entries' = [entries EXCEPT !["recovering"] = NULL]
  BY DEF Recover, RecoverStep, FirstInspected, FinalInspected, Claim, AfterInspected,
         RecoverUnlinks, RecoverRmdir, RecovererCrash
<1>4. \A n \in Names : entries'[n] \in {NULL} \cup {entries[m] : m \in Names}
  BY <1>3 DEF Names
<1>5. ASSUME NEW s \in Recoverers, s # r
      PROVE  /\ rpc'[s] = rpc[s] /\ expected'[s] = expected[s] /\ claim'[s] = claim[s]
             /\ ipc'[s] = ipc[s] /\ verdict'[s] = verdict[s] /\ seen'[s] = seen[s] /\ shown'[s] = shown[s]
  BY <1>2, <1>5
<1> QED BY <1>1, <1>4, <1>5

-----------------------------------------------------------------------------
(* Tokens.                                                                 *)

LEMMA TokensStep ==
    ASSUME TypeOK, Tokens, [Next]_vars
    PROVE  Tokens'
<1> USE BoundsAssumption, NullAssumption
<1>1. ASSUME NEW p \in Procs, NEW w \in BOOLEAN, Start(p, w) PROVE Tokens'
  <2>1. owners' = owners + 1 /\ mine' = [mine EXCEPT ![p] = owners + 1] /\ pc' = [pc EXCEPT ![p] = "mkdir"]
        /\ UNCHANGED <<entries, dead>>
    BY <1>1 DEF Start, Goto, fs
  <2>2. owners \in Nat /\ owners + 1 \notin Issued /\ Issued \subseteq Issued' /\ owners + 1 \in Issued'
    BY <2>1 DEF TypeOK, Issued
  <2> QED BY <2>1, <2>2 DEF TypeOK, Tokens, Issued
<1>2. ASSUME NEW p \in Procs, AcquireStep(p) \/ ReleaseStep(p) PROVE Tokens'
  BY <1>2, ProcessFrame DEF Tokens, Issued
<1>3. ASSUME NEW p \in Procs, Crash(p) PROVE Tokens'
  <2>1. UNCHANGED <<entries, owners, mine>> /\ dead' = dead \cup {mine[p]} /\ pc[p] # "idle" /\ pc' = [pc EXCEPT ![p] = "idle"]
    BY <1>3 DEF Crash, Goto, fs
  <2>2. mine[p] \in Issued /\ dead' \subseteq Issued'
    BY <2>1 DEF Tokens, Issued
  <2>3. ASSUME NEW q \in Procs, pc'[q] # "idle" PROVE mine[q] # NULL /\ mine[q] \notin dead'
    <3>1. q # p /\ pc[q] # "idle"
      BY <2>1, <2>3 DEF TypeOK
    <3> QED BY <2>1, <2>2, <3>1 DEF Tokens
  <2> QED BY <2>1, <2>2, <2>3 DEF Tokens, Issued
<1>4. ASSUME NEW o, Inspect(o) \/ InspectStep(o) PROVE Tokens'
  BY <1>4, InspectionFrame DEF Tokens, Issued, inspectFrame, fs, acquirers
<1>5. ASSUME NEW r \in Recoverers, (\E t \in Owners : Recover(r, t)) \/ RecoverStep(r) \/ RecovererCrash(r)
      PROVE  Tokens'
  <2>1. /\ UNCHANGED <<owners, pc, mine, dead>>
        /\ \A n \in Names : entries'[n] \in {NULL} \cup {entries[m] : m \in Names}
    BY <1>5, RecoveryFrame
  <2> QED BY <2>1 DEF Tokens, Issued
<1>6. CASE UNCHANGED vars
  BY <1>6 DEF vars, fs, acquirers, Tokens, Issued
<1> QED BY <1>1, <1>2, <1>3, <1>4, <1>5, <1>6 DEF Next, ObserverNext

-----------------------------------------------------------------------------
(* A marker passes the name `owner` once.                                  *)

\* What a step of a process does to `pending`, `owner` and the early ones.
LEMMA ProcessMarkers ==
    ASSUME TypeOK, NEW p \in Procs, AcquireStep(p) \/ ReleaseStep(p)
    PROVE  /\ \A q \in Procs : Early(q)' => Early(q)
           /\ \/ entries'["pending"] \in {NULL, entries["pending"]} /\ entries'["owner"] \in {NULL, entries["owner"]}
              \/ entries'["pending"] = mine[p] /\ Early(p) /\ ~Early(p)' /\ entries'["owner"] = entries["owner"]
              \/ entries'["pending"] = NULL /\ entries'["owner"] = entries["pending"]
<1> USE DEF TypeOK, Names, Goto, fs, acquireFrame, Unlink, Rename, Rmdir, Early
<1>1. CASE CreatePending(p)
  BY <1>1 DEF CreatePending
<1>2. CASE Publish(p)
  BY <1>2 DEF Publish
<1>3. CASE RollbackPending(p) \/ RollbackOwner(p) \/ ReleaseUnlinks(p)
  BY <1>3 DEF RollbackPending, RollbackOwner, ReleaseUnlinks
<1>4. CASE MakeDir(p) \/ MakeDirFails(p) \/ Contended(p) \/ Wakes(p) \/ CheckTarget(p)
           \/ Validate(p) \/ RollbackDir(p) \/ RollbackFails(p)
           \/ ReleaseChecks(p) \/ ReleaseRmdir(p)
  BY <1>4 DEF MakeDir, MakeDirFails, Contended, Wakes, CheckTarget, Validate, RollbackDir, RollbackFails,
     ReleaseChecks, ReleaseRmdir
<1> QED BY <1>1, <1>2, <1>3, <1>4 DEF AcquireStep, ReleaseStep

\* What is spent stays spent.
LEMMA SpentStays ==
    ASSUME TypeOK, Tokens, [Next]_vars, NEW t, Spent(t)
    PROVE  Spent(t)'
<1> USE NullAssumption
<1>0. t # NULL /\ t \in Issued
  BY DEF Spent, Issued
<1>1. ASSUME NEW p \in Procs, NEW w \in BOOLEAN, Start(p, w) PROVE Spent(t)'
  <2>1. owners' = owners + 1 /\ mine' = [mine EXCEPT ![p] = owners + 1] /\ pc' = [pc EXCEPT ![p] = "mkdir"]
        /\ UNCHANGED entries
    BY <1>1 DEF Start, Goto, fs
  <2>2. t # owners + 1 /\ t \in Issued'
    BY <1>0, <2>1 DEF TypeOK, Issued
  <2> QED BY <2>1, <2>2 DEF TypeOK, Spent, Early
<1>2. ASSUME NEW p \in Procs, AcquireStep(p) \/ ReleaseStep(p) PROVE Spent(t)'
  BY <1>0, <1>2, ProcessFrame, ProcessMarkers DEF Spent, Issued
<1>3. ASSUME NEW p \in Procs, Crash(p) PROVE Spent(t)'
  BY <1>3 DEF TypeOK, Spent, Issued, Early, Crash, Goto, fs
<1>4. ASSUME NEW o, Inspect(o) \/ InspectStep(o) PROVE Spent(t)'
  BY <1>4, InspectionFrame DEF Spent, Issued, Early, inspectFrame, fs, acquirers
<1>5. ASSUME NEW r \in Recoverers, (\E u \in Owners : Recover(r, u)) \/ RecoverStep(r) \/ RecovererCrash(r)
      PROVE  Spent(t)'
  <2>1. entries'["pending"] \in {NULL, entries["pending"]} /\ entries'["owner"] \in {NULL, entries["owner"]}
    BY <1>5 DEF TypeOK, Names, fs, Rename, Unlink, Rmdir, Recover, RecoverStep, FirstInspected, FinalInspected, Claim,
                AfterInspected, RecoverUnlinks, RecoverRmdir, RecovererCrash
  <2> QED BY <1>0, <1>5, <2>1, RecoveryFrame DEF Spent, Issued, Early
<1>6. CASE UNCHANGED vars
  BY <1>6 DEF vars, fs, acquirers, Spent, Issued, Early
<1> QED BY <1>1, <1>2, <1>3, <1>4, <1>5, <1>6 DEF Next, ObserverNext

LEMMA IssuedAreOwners ==
    ASSUME TypeOK
    PROVE  Issued \subseteq Owners
BY BoundsAssumption DEF TypeOK, Issued, Owners

LEMMA OnceOnlyStep ==
    ASSUME TypeOK, Tokens, OnceOnly, [Next]_vars
    PROVE  OnceOnly'
<1> USE NullAssumption
<1>1. ASSUME UNCHANGED <<claim, rpc, removed>>,
             \A p \in Procs : Early(p)' => entries'["pending"] # mine'[p] /\ entries'["owner"] # mine'[p],
             entries'["pending"] = entries'["owner"] => entries'["owner"] = NULL
      PROVE  OnceOnly'
  <2>1. ASSUME NEW r \in Recoverers, claim[r] # NULL PROVE Spent(claim[r])' /\ removed[claim[r]] = 0
    <3>1. Spent(claim[r]) /\ removed[claim[r]] = 0
      BY <2>1 DEF OnceOnly
    <3>2. Spent(claim[r])'
      <4>1. PICK u : u = claim[r]
        OBVIOUS
      <4>2. Spent(u)'
        BY <3>1, <4>1, SpentStays
      <4> QED BY <1>1, <4>1, <4>2 DEF Spent
    <3> QED BY <3>1, <3>2
  <2>2. ASSUME NEW t \in Owners, removed[t] # 0 PROVE removed[t] = 1 /\ Spent(t)'
    BY <2>2, SpentStays DEF OnceOnly
  <2> QED BY <1>1, <2>1, <2>2 DEF OnceOnly
<1>2. ASSUME NEW p \in Procs, NEW w \in BOOLEAN, Start(p, w) PROVE OnceOnly'
  <2>1. mine' = [mine EXCEPT ![p] = owners + 1] /\ pc' = [pc EXCEPT ![p] = "mkdir"]
        /\ UNCHANGED <<entries, claim, rpc, removed>>
    BY <1>2 DEF Start, Goto, fs, recoveries
  <2>2. entries["pending"] # owners + 1 /\ entries["owner"] # owners + 1
    BY DEF TypeOK, Tokens, Issued, Names
  <2>3. \A q \in Procs : Early(q)' => entries'["pending"] # mine'[q] /\ entries'["owner"] # mine'[q]
    BY <2>1, <2>2 DEF OnceOnly, TypeOK, Early
  <2> QED BY <1>1, <2>1, <2>3 DEF OnceOnly
<1>3. ASSUME NEW p \in Procs, AcquireStep(p) \/ ReleaseStep(p) PROVE OnceOnly'
  <2>1. UNCHANGED <<mine, claim, rpc, removed>> /\ mine[p] # NULL /\ pc[p] # "idle"
    BY <1>3, ProcessFrame DEF recoveries, Tokens
  <2>2. /\ \A q \in Procs : Early(q)' => Early(q)
        /\ \/ entries'["pending"] \in {NULL, entries["pending"]} /\ entries'["owner"] \in {NULL, entries["owner"]}
           \/ entries'["pending"] = mine[p] /\ Early(p) /\ ~Early(p)' /\ entries'["owner"] = entries["owner"]
           \/ entries'["pending"] = NULL /\ entries'["owner"] = entries["pending"]
    BY <1>3, ProcessMarkers
  <2>3. ASSUME NEW q \in Procs, Early(q)' PROVE entries'["pending"] # mine'[q] /\ entries'["owner"] # mine'[q]
    <3>1. Early(q) /\ mine[q] # NULL
      BY <2>2, <2>3 DEF Early, Tokens
    <3>2. entries["pending"] # mine[q] /\ entries["owner"] # mine[q] /\ (q # p => mine[p] # mine[q])
      BY <2>1, <3>1 DEF OnceOnly, Tokens
    <3> QED BY <2>1, <2>2, <2>3, <3>1, <3>2
  <2>4. entries'["pending"] = entries'["owner"] => entries'["owner"] = NULL
    BY <2>1, <2>2 DEF OnceOnly
  <2> QED BY <1>1, <2>1, <2>3, <2>4
<1>4. ASSUME NEW p \in Procs, Crash(p) PROVE OnceOnly'
  <2>1. UNCHANGED <<entries, mine, claim, rpc, removed>> /\ pc' = [pc EXCEPT ![p] = "idle"]
    BY <1>4 DEF Crash, Goto, fs, recoveries
  <2>2. \A q \in Procs : Early(q)' => Early(q)
    BY <2>1 DEF TypeOK, Early
  <2> QED BY <1>1, <2>1, <2>2 DEF OnceOnly
<1>5. ASSUME NEW o, Inspect(o) \/ InspectStep(o) PROVE OnceOnly'
  <2>1. UNCHANGED <<entries, mine, pc, claim, rpc, removed>>
    BY <1>5, InspectionFrame DEF inspectFrame, fs, acquirers, recoveries
  <2> QED BY <1>1, <2>1 DEF OnceOnly, Early
<1>6. ASSUME NEW r \in Recoverers, (\E t \in Owners : Recover(r, t)) \/ RecoverStep(r) \/ RecovererCrash(r)
      PROVE  OnceOnly'
  <2>1. UNCHANGED <<owners, pc, mine>> /\ \A s \in Recoverers : s # r => rpc'[s] = rpc[s] /\ claim'[s] = claim[s]
    BY <1>6, RecoveryFrame
  <2>2. \A p \in Procs : Early(p)' <=> Early(p)
    BY <2>1 DEF Early
  \* The marker is claimed.
  <2>3. CASE entries["owner"] # NULL /\ claim' = [claim EXCEPT ![r] = entries["owner"]]
             /\ Rename("owner", "recovering") /\ UNCHANGED removed /\ rpc' = [rpc EXCEPT ![r] = "unlink"]
    <3>1. PICK t : t = entries["owner"]
      OBVIOUS
    <3>2. entries'["pending"] = entries["pending"] /\ entries'["owner"] = NULL
      BY <2>3 DEF Rename, TypeOK, Names
    <3>3. t \in Issued /\ t # NULL /\ entries["pending"] # t
      BY <2>3, <3>1 DEF Tokens, OnceOnly, Names
    <3>4. Spent(t)'
      BY <2>1, <2>2, <3>1, <3>2, <3>3 DEF Spent, Issued, OnceOnly
    <3>5. \A s \in Recoverers : claim[s] # t
      BY <3>1, <3>3 DEF OnceOnly, Spent
    <3>6. t \in Owners /\ removed[t] = 0
      BY <3>1, <3>3, IssuedAreOwners DEF OnceOnly, Spent
    <3>7. claim'[r] = t /\ \A s \in Recoverers : s # r => claim'[s] = claim[s]
      BY <2>3, <3>1 DEF TypeOK
    <3>8. ASSUME NEW s \in Recoverers, claim'[s] # NULL PROVE Spent(claim[s])' /\ removed'[claim'[s]] = 0
      <4>1. CASE s = r
        BY <2>3, <3>4, <3>6, <3>7, <4>1 DEF Spent
      <4>2. CASE s # r
        <5>1. PICK u : u = claim[s]
          OBVIOUS
        <5>2. Spent(u) /\ removed[u] = 0
          BY <3>7, <3>8, <4>2, <5>1 DEF OnceOnly
        <5>3. Spent(u)'
          BY <5>2, SpentStays
        <5> QED BY <2>3, <3>7, <4>2, <5>1, <5>2, <5>3 DEF Spent
      <4> QED BY <4>1, <4>2
    <3>9. \A u \in Owners : removed'[u] # 0 => removed'[u] = 1 /\ Spent(u)'
      BY <2>3, SpentStays DEF OnceOnly
    <3>10. \A p \in Procs : Early(p)' => entries'["pending"] # mine'[p] /\ entries'["owner"] # mine'[p]
      BY <2>1, <2>2, <3>2 DEF OnceOnly, Tokens, Early
    <3>11. \A s \in Recoverers : rpc'[s] \in {"unlink", "rmdir"} => claim'[s] # NULL
      BY <2>1, <3>3, <3>7 DEF OnceOnly
    <3>12. \A s, u \in Recoverers : s # u /\ claim'[s] = claim'[u] => claim'[s] = NULL
      BY <3>5, <3>7 DEF OnceOnly
    <3> QED BY <3>2, <3>8, <3>9, <3>10, <3>11, <3>12 DEF OnceOnly
  \* The recovery reports success.
  <2>4. CASE rpc[r] = "rmdir" /\ UNCHANGED entries /\ removed' = [removed EXCEPT ![claim[r]] = @ + 1] /\ Return(r)
    <3>1. PICK t : t = claim[r]
      OBVIOUS
    <3>2. Spent(t) /\ removed[t] = 0 /\ t # NULL
      BY <2>4, <3>1 DEF OnceOnly
    <3>3. claim'[r] = NULL /\ rpc'[r] = "idle"
      BY <2>4 DEF Return, RGoto, TypeOK
    <3>4. t \in Owners /\ removed' = [removed EXCEPT ![t] = 1]
      <4>1. t \in Owners
        BY <3>2, IssuedAreOwners DEF Spent
      <4> QED BY <2>4, <3>1, <3>2, <4>1 DEF TypeOK
    <3>5. ASSUME NEW s \in Recoverers, claim'[s] # NULL PROVE Spent(claim[s])' /\ removed'[claim'[s]] = 0
      <4>1. PICK u : u = claim[s]
        OBVIOUS
      <4>2. s # r /\ claim'[s] = u /\ u # t
        BY <2>1, <3>1, <3>2, <3>3, <3>5, <4>1 DEF OnceOnly
      <4>3. Spent(u) /\ removed[u] = 0
        BY <3>5, <4>1, <4>2 DEF OnceOnly
      <4>4. Spent(u)'
        BY <4>3, SpentStays
      <4>5. u \in Owners
        BY <4>3, IssuedAreOwners DEF Spent
      <4> QED BY <3>4, <4>2, <4>3, <4>4, <4>5 DEF Spent, TypeOK
    <3>6. ASSUME NEW u \in Owners, removed'[u] # 0 PROVE removed'[u] = 1 /\ Spent(u)'
      <4>1. (u = t \/ removed[u] # 0) /\ removed'[u] = IF u = t THEN 1 ELSE removed[u]
        BY <3>4, <3>6 DEF TypeOK
      <4> QED BY <3>2, <4>1, SpentStays DEF OnceOnly
    <3>7. \A p \in Procs : Early(p)' => entries'["pending"] # mine'[p] /\ entries'["owner"] # mine'[p]
      BY <2>1, <2>2, <2>4 DEF OnceOnly
    <3> QED BY <2>1, <2>4, <3>3, <3>5, <3>6, <3>7 DEF OnceOnly
  \* Everything else.
  <2>5. CASE /\ UNCHANGED removed
             /\ entries'["pending"] = entries["pending"] /\ entries'["owner"] = entries["owner"]
             /\ \/ claim'[r] = claim[r] /\ (rpc'[r] \in {"unlink", "rmdir"} => rpc[r] \in {"unlink", "rmdir"})
                \/ claim'[r] = NULL /\ rpc'[r] = "idle"
    <3>1. ASSUME NEW s \in Recoverers, claim'[s] # NULL PROVE Spent(claim[s])' /\ removed'[claim'[s]] = 0
      <4>1. PICK u : u = claim[s]
        OBVIOUS
      <4>2. claim'[s] = u
        BY <2>1, <2>5, <3>1, <4>1
      <4>3. Spent(u) /\ removed[u] = 0
        BY <3>1, <4>1, <4>2 DEF OnceOnly
      <4>4. Spent(u)'
        BY <4>3, SpentStays
      <4> QED BY <2>5, <4>2, <4>3, <4>4 DEF Spent
    <3>2. \A u \in Owners : removed'[u] # 0 => removed'[u] = 1 /\ Spent(u)'
      BY <2>5, SpentStays DEF OnceOnly
    <3>3. \A p \in Procs : Early(p)' => entries'["pending"] # mine'[p] /\ entries'["owner"] # mine'[p]
      BY <2>1, <2>2, <2>5 DEF OnceOnly
    <3>4. \A s \in Recoverers : claim'[s] \in {NULL, claim[s]}
      BY <2>1, <2>5
    <3>5. \A s, u \in Recoverers : s # u /\ claim'[s] = claim'[u] => claim'[s] = NULL
      BY <3>4 DEF OnceOnly
    <3> QED BY <2>1, <2>5, <3>1, <3>2, <3>3, <3>5 DEF OnceOnly
  <2> QED
    <3> DEFINE Other == /\ UNCHANGED removed
                        /\ entries'["pending"] = entries["pending"] /\ entries'["owner"] = entries["owner"]
                        /\ \/ claim'[r] = claim[r] /\ (rpc'[r] \in {"unlink", "rmdir"} => rpc[r] \in {"unlink", "rmdir"})
                           \/ claim'[r] = NULL /\ rpc'[r] = "idle"
    <3>1. ASSUME NEW t \in Owners, Recover(r, t) PROVE Other
      BY <3>1 DEF Recover, TypeOK, RGoto, fs
    <3>2. ASSUME Return(r), UNCHANGED removed,
                 UNCHANGED fs \/ Unlink("recovering")
          PROVE  Other
      BY <3>2 DEF Return, RGoto, TypeOK, fs, Unlink, Names
    <3>3. ASSUME FirstInspected(r) \/ FinalInspected(r) PROVE Other
      <4>1. CASE Return(r)
        BY <3>2, <3>3, <4>1 DEF FirstInspected, FinalInspected
      <4> QED BY <3>3, <4>1 DEF FirstInspected, FinalInspected, TypeOK, RGoto, fs
    <3>4. CASE Claim(r)
      <4>1. CASE Return(r) /\ UNCHANGED fs
        BY <2>5, <3>2, <3>4, <4>1 DEF Claim
      <4>2. CASE UNCHANGED <<fs, claim>> /\ RGoto(r, "after")
        BY <2>5, <3>4, <4>2 DEF Claim, TypeOK, RGoto, fs
      <4> QED BY <2>3, <3>4, <4>1, <4>2 DEF Claim, RGoto
    <3>5. CASE AfterInspected(r) \/ RecovererCrash(r)
      BY <2>5, <3>2, <3>5 DEF AfterInspected, RecovererCrash
    <3>6. CASE RecoverUnlinks(r)
      <4>1. CASE Return(r) /\ UNCHANGED fs
        BY <2>5, <3>2, <3>6, <4>1 DEF RecoverUnlinks
      <4>2. CASE UNCHANGED claim /\ RGoto(r, "rmdir") /\ Unlink("recovering")
        BY <2>5, <3>6, <4>2 DEF RecoverUnlinks, TypeOK, RGoto, Unlink, Names
      <4> QED BY <3>6, <4>1, <4>2 DEF RecoverUnlinks
    <3>7. CASE RecoverRmdir(r)
      <4>1. CASE UNCHANGED <<fs, removed>>
        BY <2>5, <3>2, <3>7, <4>1 DEF RecoverRmdir
      <4> QED BY <2>4, <3>7, <4>1 DEF RecoverRmdir, Rmdir
    <3> QED BY <1>6, <2>5, <3>1, <3>3, <3>4, <3>5, <3>6, <3>7 DEF RecoverStep
<1>7. CASE UNCHANGED vars
  BY <1>1, <1>7 DEF vars, fs, acquirers, recoveries, OnceOnly, Early
<1> QED BY <1>2, <1>3, <1>4, <1>5, <1>6, <1>7 DEF Next, ObserverNext

-----------------------------------------------------------------------------
(* One owner of the directory, while operators recover one by one.         *)

\* A process at work finds none of what an operator expects.
LEMMA WorkingUnexpected ==
    ASSUME TypeOK, Tokens, OneByOne, Attended, NEW p \in Procs, Working(p),
           NEW r \in Recoverers, rpc[r] # "idle"
    PROVE  /\ entries["owner"] # expected[r] /\ rpc[r] \notin {"claim", "unlink", "rmdir"}
           /\ rpc[r] \in {"first", "final"} => /\ ~(ipc[r] \in {"open", "fstat"} /\ seen[r] = expected[r])
                                               /\ ~(ipc[r] = "done" /\ Matches(r))
<1>1. expected[r] \in dead /\ mine[p] \notin dead /\ expected[r] # NULL
  <2>1. NULL \notin dead
    <3>1. NULL \notin Issued
      BY NullAssumption DEF Issued
    <3> QED BY <3>1 DEF Tokens
  <2>2. expected[r] \in dead
    BY DEF Attended
  <2>3. mine[p] \notin dead
    BY DEF Tokens, Working
  <2> QED BY <2>1, <2>2, <2>3
<1>2. entries["owner"] \in {NULL, mine[p]} /\ rpc[r] \notin {"unlink", "rmdir"}
  BY DEF OneByOne, Stage
<1>3. entries["owner"] # expected[r]
  BY <1>1, <1>2
<1> QED BY <1>2, <1>3 DEF OneByOne, Sight

\* What the calls of a process at work make of its stage.
LEMMA StageSteps ==
    ASSUME TypeOK, Tokens, NEW p \in Procs, Working(p), Stage(p), AcquireStep(p) \/ ReleaseStep(p)
    PROVE  (Working(p)' /\ Stage(p)') \/ (~Working(p)' /\ UNCHANGED entries)
<1> USE DEF Goto, fs, acquireFrame, recoveries, Working, Stage
<1>0. /\ pc \in [Procs -> {"idle", "mkdir", "sleep", "create", "check", "publish", "validate", "held",
                           "unPending", "unOwner", "unOwnerStrict", "unDir", "relUnlink", "relRmdir"}]
      /\ entries \in [Names -> Marker] /\ DOMAIN entries = Names
      /\ "pending" \in Names /\ "owner" \in Names /\ "recovering" \in Names
      /\ mine[p] # NULL
  BY DEF TypeOK, Names, Tokens
<1>1. CASE CreatePending(p)
  BY <1>0, <1>1 DEF CreatePending
<1>2. CASE CheckTarget(p)
  BY <1>0, <1>2 DEF CheckTarget
<1>3. CASE Publish(p)
  BY <1>0, <1>3 DEF Publish, Rename
<1>4. CASE Validate(p)
  BY <1>0, <1>4 DEF Validate
<1>5. CASE RollbackPending(p)
  BY <1>0, <1>5 DEF RollbackPending, Unlink
<1>6. CASE RollbackOwner(p)
  BY <1>0, <1>6 DEF RollbackOwner, Unlink
<1>7. CASE RollbackDir(p) \/ RollbackFails(p)
  BY <1>0, <1>7 DEF RollbackDir, RollbackFails, Rmdir
<1>8. CASE ReleaseChecks(p)
  BY <1>0, <1>8 DEF ReleaseChecks
<1>9. CASE ReleaseUnlinks(p)
  BY <1>0, <1>9 DEF ReleaseUnlinks, Unlink
<1>10. CASE ReleaseRmdir(p)
  BY <1>0, <1>10 DEF ReleaseRmdir, Rmdir
<1>11. ~MakeDir(p) /\ ~MakeDirFails(p) /\ ~Contended(p) /\ ~Wakes(p)
  BY DEF MakeDir, MakeDirFails, Contended, Wakes
<1> QED BY <1>1, <1>2, <1>3, <1>4, <1>5, <1>6, <1>7, <1>8, <1>9, <1>10, <1>11 DEF AcquireStep, ReleaseStep

\* An operator's sight outlives a step that changes neither it nor the files.
LEMMA SightStays ==
    ASSUME UNCHANGED <<entries, inspections, rpc, expected, claim>>, dir => dir',
           NEW r \in Recoverers, Sight(r)
    PROVE  Sight(r)'
BY DEF Sight, Matches, inspections, Only, Empty

LEMMA ProcessOneByOne ==
    ASSUME TypeOK, Tokens, OneByOne, Attended, NEW p \in Procs, AcquireStep(p) \/ ReleaseStep(p)
    PROVE  OneByOne'
<1>1. /\ UNCHANGED <<mine, inspections, rpc, expected, claim>>
      /\ \A q \in Procs : q # p => pc'[q] = pc[q]
  BY ProcessFrame DEF recoveries
<1>2. CASE Working(p)
  <2>1. \A q \in Procs : q # p => ~Working(q) /\ ~Working(q)'
    BY <1>1, <1>2 DEF OneByOne, Working
  <2>2. Stage(p)
    BY <1>2 DEF OneByOne
  <2>3. (Working(p)' /\ Stage(p)') \/ (~Working(p)' /\ UNCHANGED entries)
    BY <1>2, <2>2, StageSteps
  <2>4. ASSUME NEW r \in Recoverers, rpc'[r] # "idle" PROVE Sight(r)'
    <3>1. /\ rpc[r] # "idle" /\ rpc[r] \notin {"claim", "unlink", "rmdir"}
          /\ rpc[r] \in {"first", "final"} => /\ ~(ipc[r] \in {"open", "fstat"} /\ seen[r] = expected[r])
                                              /\ ~(ipc[r] = "done" /\ Matches(r))
      BY <1>1, <1>2, <2>4, WorkingUnexpected
    <3>2. claim[r] \in {NULL, expected[r]}
      BY <3>1 DEF OneByOne, Sight
    <3> QED BY <1>1, <3>1, <3>2 DEF Sight, Matches, inspections
  <2>5. \A m, n \in Names : entries'[m] # NULL /\ entries'[n] # NULL => m = n
    BY <2>3 DEF OneByOne, Stage, Names
  <2>6. \A q, u \in Procs : Working(q)' /\ Working(u)' => q = u
    BY <2>1
  <2>7. \A q \in Procs : Working(q)' => Stage(q)'
    BY <2>1, <2>3
  <2>8. \A r, s \in Recoverers : rpc'[r] # "idle" /\ rpc'[s] # "idle" => r = s
    BY <1>1 DEF OneByOne
  <2> QED BY <2>4, <2>5, <2>6, <2>7, <2>8 DEF OneByOne
<1>3. CASE ~Working(p)
  <2>1. MakeDir(p) \/ MakeDirFails(p) \/ Contended(p) \/ Wakes(p)
    BY <1>3 DEF Working, AcquireStep, ReleaseStep, CreatePending, CheckTarget, Publish, Validate, RollbackPending,
                RollbackOwner, RollbackDir, RollbackFails, ReleaseChecks, ReleaseUnlinks, ReleaseRmdir
  <2>2. UNCHANGED entries /\ (dir => dir')
    BY <2>1 DEF MakeDir, MakeDirFails, Contended, Wakes, fs
  <2>3. \A r \in Recoverers : rpc'[r] # "idle" => Sight(r)'
    BY <1>1, <2>2, SightStays DEF OneByOne
  <2>4. ASSUME NEW q \in Procs, q # p, Working(q) PROVE Stage(q)'
    <3>1. Stage(q)
      BY <2>4 DEF OneByOne
    <3> QED BY <1>1, <2>2, <2>4, <3>1 DEF Stage
  <2>5. ASSUME Working(p)' PROVE Stage(p)' /\ \A q \in Procs : ~Working(q)
    <3>1. MakeDir(p) /\ pc' = [pc EXCEPT ![p] = "create"] /\ dir' = TRUE /\ ~dir
      BY <2>1, <2>5 DEF MakeDir, MakeDirFails, Contended, Wakes, Goto, Working, TypeOK
    <3>2. \A n \in Names : entries[n] = NULL
      BY <3>1 DEF TypeOK, Empty
    <3>3. \A r \in Recoverers : rpc[r] \notin {"unlink", "rmdir"}
      BY <3>1 DEF OneByOne, Sight
    <3>4. pc'[p] = "create"
      BY <3>1 DEF TypeOK
    <3>5. \A q \in Procs : ~Working(q)
      BY <3>1 DEF OneByOne, Stage
    <3> QED BY <1>1, <2>2, <3>1, <3>2, <3>3, <3>4, <3>5 DEF Stage, Names
  <2>6. \A q \in Procs : q # p /\ Working(q)' => Working(q)
    BY <1>1 DEF Working
  <2>7. \A q \in Procs : Working(q)' => Stage(q)'
    BY <2>4, <2>5, <2>6
  <2>8. \A q, u \in Procs : Working(q)' /\ Working(u)' => q = u
    BY <2>5, <2>6 DEF OneByOne
  <2> QED BY <1>1, <2>2, <2>3, <2>7, <2>8 DEF OneByOne
<1> QED BY <1>2, <1>3

LEMMA StartOneByOne ==
    ASSUME TypeOK, OneByOne, NEW p \in Procs,
           (\E w \in BOOLEAN : Start(p, w)) \/ Crash(p)
    PROVE  OneByOne'
<1>1. /\ UNCHANGED <<fs, inspections, rpc, expected, claim>>
      /\ \A q \in Procs : q # p => pc'[q] = pc[q] /\ mine'[q] = mine[q]
      /\ ~Working(p)'
  BY DEF Start, Crash, Goto, TypeOK, Working, recoveries
<1>2. \A r \in Recoverers : rpc'[r] # "idle" => Sight(r)'
  BY <1>1, SightStays DEF OneByOne, fs
<1>3. ASSUME NEW q \in Procs, Working(q)' PROVE q # p /\ Working(q) /\ Stage(q)'
  <2>1. q # p /\ Working(q)
    BY <1>1, <1>3 DEF Working
  <2>2. Stage(q)
    BY <2>1 DEF OneByOne
  <2> QED BY <1>1, <2>1, <2>2 DEF Stage, fs
<1> QED BY <1>1, <1>2, <1>3 DEF OneByOne, fs

LEMMA InspectionOneByOne ==
    ASSUME TypeOK, OneByOne, NEW o \in Observers, Inspect(o) \/ InspectStep(o)
    PROVE  OneByOne'
<1> Recoverers \subseteq Observers BY DEF Observers
<1>1. UNCHANGED <<dir, entries, pc, mine, rpc, expected, claim>>
  BY InspectionFrame DEF inspectFrame, fs, acquirers, recoveries
<1>2. \A r \in Recoverers : r # o => /\ ipc'[r] = ipc[r] /\ verdict'[r] = verdict[r]
                                     /\ seen'[r] = seen[r] /\ shown'[r] = shown[r]
  BY DEF TypeOK, IGoto, Conclude, Inspect, InspectStep, InspectPath, InspectEntries,
         OwnerStat, OwnerOpen, OwnerFstat, InspectProbe
<1>3. ASSUME NEW r \in Recoverers, rpc'[r] # "idle" PROVE Sight(r)'
  <2>0. Sight(r)
    BY <1>1, <1>3 DEF OneByOne
  <2>1. CASE r # o
    BY <1>1, <1>2, <2>0, <2>1 DEF Sight, Matches, Only, Empty
  <2>2. CASE r = o
    <3> USE DEF TypeOK, IGoto, Conclude
    <3>1. CASE ipc'[o] \notin {"open", "fstat", "done"}
      BY <1>1, <2>0, <2>2, <3>1 DEF Sight, Only, Empty
    <3>2. CASE ipc'[o] = "done" /\ verdict'[o] # "held"
      BY <1>1, <2>0, <2>2, <3>2 DEF Sight, Matches, Only, Empty
    <3>3. CASE ipc'[o] \in {"open", "fstat"} /\ entries["owner"] = seen'[o]
      BY <1>1, <2>0, <2>2, <3>3 DEF Sight, Only, Empty
    <3>4. CASE ipc[o] = "fstat" /\ ipc'[o] = "done" /\ shown'[o] = seen[o]
      BY <1>1, <2>0, <2>2, <3>4 DEF Sight, Matches, Only, Empty
    <3>5. CASE Inspect(o) \/ InspectPath(o) \/ InspectProbe(o)
      BY <3>1, <3>2, <3>5 DEF Inspect, InspectPath, InspectProbe
    <3>6. CASE InspectEntries(o)
      BY <3>1, <3>2, <3>6 DEF InspectEntries
    <3>7. CASE OwnerStat(o)
      BY <1>1, <3>1, <3>3, <3>7 DEF OwnerStat
    <3>8. CASE OwnerOpen(o)
      BY <1>1, <3>1, <3>2, <3>3, <3>8 DEF OwnerOpen
    <3>9. CASE OwnerFstat(o)
      BY <3>2, <3>4, <3>9 DEF OwnerFstat
    <3> QED BY <3>5, <3>6, <3>7, <3>8, <3>9 DEF InspectStep
  <2> QED BY <2>1, <2>2
<1>4. \A p \in Procs : Working(p)' => Working(p)
  BY <1>1 DEF Working
<1>5. ASSUME NEW p \in Procs, Working(p)' PROVE Stage(p)'
  <2>1. Stage(p)
    BY <1>4, <1>5 DEF OneByOne
  <2> QED BY <1>1, <2>1 DEF Stage
<1> QED BY <1>1, <1>3, <1>4, <1>5 DEF OneByOne

LEMMA RecoveryOneByOne ==
    ASSUME TypeOK, Tokens, OneByOne, Attended, NEW r \in Recoverers,
           (\E t \in Owners : Recover(r, t)) \/ RecoverStep(r) \/ RecovererCrash(r),
           ~overlapped'
    PROVE  OneByOne'
<1> r \in Observers BY DEF Observers
<1> USE DEF Names
<1>1. /\ UNCHANGED <<pc, mine>>
      /\ \A s \in Recoverers : s # r => rpc'[s] = rpc[s]
  BY RecoveryFrame
<1>2. \A s \in Recoverers : s # r => rpc[s] = "idle"
  BY DEF OneByOne, Recover, RecoverStep, FirstInspected, FinalInspected, Claim, AfterInspected,
         RecoverUnlinks, RecoverRmdir, RecovererCrash
<1>3. \A p \in Procs : Working(p)' <=> Working(p)
  BY <1>1 DEF Working
\* What remains to be shown of one step.
<1>4. ASSUME rpc'[r] # "idle" => Sight(r)',
             \A m, n \in Names : entries'[m] # NULL /\ entries'[n] # NULL => m = n,
             (\A p \in Procs : ~Working(p)) \/ (UNCHANGED <<dir, entries>> /\ rpc'[r] \notin {"unlink", "rmdir"})
      PROVE  OneByOne'
  <2>1. \A s \in Recoverers : rpc'[s] # "idle" => s = r
    BY <1>1, <1>2
  <2>2. ASSUME NEW p \in Procs, Working(p)' PROVE Stage(p)'
    <3>1. Stage(p) /\ UNCHANGED <<dir, entries>> /\ rpc'[r] \notin {"unlink", "rmdir"}
      BY <1>3, <1>4, <2>2 DEF OneByOne
    <3> QED BY <1>1, <2>1, <3>1 DEF Stage
  <2> QED BY <1>3, <1>4, <2>1, <2>2 DEF OneByOne
<1>5. ASSUME rpc[r] \in {"claim", "unlink", "rmdir"} PROVE \A p \in Procs : ~Working(p)
  BY <1>5, WorkingUnexpected
<1>6. ASSUME Return(r), UNCHANGED <<dir, entries>> PROVE OneByOne'
  <2>1. rpc'[r] = "idle"
    BY <1>6 DEF Return, RGoto, TypeOK
  <2> QED BY <1>4, <1>6, <2>1 DEF OneByOne
<1>7. ASSUME NEW t \in Owners, Recover(r, t) PROVE OneByOne'
  <2>1. /\ rpc'[r] = "first" /\ ipc'[r] = "lstat" /\ claim'[r] = NULL /\ UNCHANGED <<dir, entries>>
    BY <1>7 DEF Recover, RGoto, IGoto, TypeOK, Attended, fs
  <2>2. Sight(r)'
    BY <2>1 DEF Sight
  <2> QED BY <1>4, <2>1, <2>2 DEF OneByOne
<1>8. CASE FirstInspected(r)
  <2>1. CASE Matches(r) /\ RGoto(r, "final") /\ IGoto(r, "lstat") /\ UNCHANGED <<expected, claim>>
    <3>1. rpc'[r] = "final" /\ ipc'[r] = "lstat" /\ rpc[r] = "first" /\ UNCHANGED <<dir, entries>>
      BY <1>8, <2>1 DEF FirstInspected, RGoto, IGoto, TypeOK, fs
    <3>2. Sight(r)'
      BY <2>1, <3>1 DEF OneByOne, Sight
    <3> QED BY <1>4, <3>1, <3>2 DEF OneByOne
  <2> QED BY <1>6, <1>8, <2>1 DEF FirstInspected, fs
<1>9. CASE FinalInspected(r)
  <2>1. CASE Matches(r) /\ RGoto(r, "claim") /\ UNCHANGED <<expected, claim>>
    <3>1. rpc'[r] = "claim" /\ rpc[r] = "final" /\ ipc[r] = "done" /\ UNCHANGED <<dir, entries>>
      BY <1>9, <2>1 DEF FinalInspected, RGoto, TypeOK, fs
    <3>2. Sight(r)'
      BY <2>1, <3>1 DEF OneByOne, Sight
    <3> QED BY <1>4, <3>1, <3>2 DEF OneByOne
  <2> QED BY <1>6, <1>9, <2>1 DEF FinalInspected, fs
<1>10. CASE Claim(r)
  <2>0. rpc[r] = "claim" /\ entries["owner"] = expected[r] /\ \A p \in Procs : ~Working(p)
    BY <1>5, <1>10 DEF Claim, OneByOne, Sight
  <2>1. CASE /\ entries["owner"] # NULL /\ claim' = [claim EXCEPT ![r] = entries["owner"]]
             /\ Rename("owner", "recovering") /\ RGoto(r, "unlink") /\ UNCHANGED expected
    <3>1. dir /\ dir' = dir
      BY <2>1 DEF TypeOK, Empty, Rename
    <3>2. /\ entries'["recovering"] = entries["owner"] /\ entries'["owner"] = NULL
          /\ entries'["pending"] = entries["pending"] /\ entries["pending"] = NULL
      BY <2>1 DEF Rename, TypeOK, OneByOne
    <3>3. rpc'[r] = "unlink" /\ claim'[r] = expected'[r]
      BY <2>0, <2>1 DEF RGoto, TypeOK
    <3>4. Sight(r)'
      BY <2>1, <3>1, <3>2, <3>3 DEF Sight, Only
    <3> QED BY <1>4, <2>0, <3>2, <3>4
  <2>2. CASE RGoto(r, "after") /\ UNCHANGED <<fs, expected, claim>>
    <3>1. rpc'[r] = "after"
      BY <2>2 DEF RGoto, TypeOK
    <3>2. Sight(r)'
      BY <2>0, <2>2, <3>1 DEF OneByOne, Sight
    <3> QED BY <1>4, <2>0, <2>2, <3>2 DEF OneByOne, fs
  <2> QED BY <1>6, <1>10, <2>1, <2>2 DEF Claim, fs
<1>11. CASE RecoverUnlinks(r)
  <2>0. rpc[r] = "unlink" /\ dir /\ Only("recovering") /\ \A p \in Procs : ~Working(p)
    BY <1>5, <1>11 DEF RecoverUnlinks, OneByOne, Sight
  <2>1. CASE Unlink("recovering") /\ RGoto(r, "rmdir") /\ UNCHANGED <<expected, claim>>
    <3>1. rpc'[r] = "rmdir" /\ dir' = dir
      BY <2>1 DEF RGoto, TypeOK, Unlink
    <3>2. entries'["recovering"] = NULL /\ entries'["owner"] = NULL /\ entries'["pending"] = NULL
      BY <2>0, <2>1 DEF Unlink, TypeOK, Only
    <3>3. Sight(r)'
      BY <2>0, <2>1, <3>1, <3>2 DEF OneByOne, Sight, Empty
    <3> QED BY <1>4, <2>0, <3>2, <3>3
  <2> QED BY <1>6, <1>11, <2>1 DEF RecoverUnlinks, fs
<1>12. CASE RecoverRmdir(r)
  <2>1. (\A p \in Procs : ~Working(p)) /\ UNCHANGED entries /\ Return(r)
    BY <1>5, <1>12 DEF RecoverRmdir, Rmdir, fs
  <2>2. rpc'[r] = "idle"
    BY <2>1 DEF Return, RGoto, TypeOK
  <2> QED BY <1>4, <2>1, <2>2 DEF OneByOne
<1>13. CASE AfterInspected(r) \/ RecovererCrash(r)
  BY <1>6, <1>13 DEF AfterInspected, RecovererCrash, fs
<1> QED BY <1>7, <1>8, <1>9, <1>10, <1>11, <1>12, <1>13 DEF RecoverStep

-----------------------------------------------------------------------------
(* Nobody leaves the directory without a failure.                          *)

LEMMA AttendedStep ==
    ASSUME LockInv, [Next]_vars
    PROVE  Attended'
<1> USE DEF LockInv
<1>1. ASSUME UNCHANGED <<rpc, expected, claim, overlapped, dead>>, unclean => unclean',
             (dir' /\ ~unclean') => \E p \in Procs : Working(p)'
      PROVE  Attended'
  BY <1>1 DEF Attended
<1>2. ASSUME NEW p \in Procs, NEW w \in BOOLEAN, Start(p, w) PROVE Attended'
  <2>1. UNCHANGED <<dir, unclean, rpc, expected, claim, overlapped, dead>> /\ pc[p] = "idle" /\ \A q \in Procs : q # p => pc'[q] = pc[q]
    BY <1>2 DEF Start, Goto, fs, recoveries, TypeOK
  <2>2. \A q \in Procs : Working(q) => Working(q)'
    BY <2>1 DEF Working
  <2> QED BY <1>1, <2>1, <2>2 DEF Attended
<1>3. ASSUME NEW p \in Procs, AcquireStep(p) \/ ReleaseStep(p) PROVE Attended'
  <2>1. UNCHANGED <<rpc, expected, claim, overlapped, dead>> /\ \A q \in Procs : q # p => pc'[q] = pc[q]
    BY <1>3, ProcessFrame DEF recoveries
  <2>2. unclean => unclean'
    BY <1>3 DEF AcquireStep, ReleaseStep, MakeDir, MakeDirFails, Contended, Wakes, CreatePending, CheckTarget,
       Publish, Validate,
         RollbackPending, RollbackOwner, RollbackDir, RollbackFails, ReleaseChecks, ReleaseUnlinks, ReleaseRmdir
  <2>3. ASSUME dir', ~unclean' PROVE \E q \in Procs : Working(q)'
    <3>1. ~unclean /\ OneByOne
      BY <2>2, <2>3 DEF Attended
    <3>2. CASE Working(p)
      <4>1. Stage(p)
        BY <3>1, <3>2 DEF OneByOne
      <4>2. CASE RollbackDir(p) \/ RollbackFails(p) \/ ReleaseRmdir(p)
        <5>1. pc[p] \in {"unDir", "relRmdir"} => dir /\ Empty
          BY <4>1 DEF Stage, Empty, Names
        <5> QED BY <2>3, <4>2, <5>1 DEF RollbackDir, RollbackFails, ReleaseRmdir, Rmdir, fs
      <4>3. CASE ~(RollbackDir(p) \/ RollbackFails(p) \/ ReleaseRmdir(p))
        BY <1>3, <3>2, <4>3 DEF TypeOK, Working, Goto, AcquireStep, ReleaseStep, MakeDir, MakeDirFails,
           Contended, Wakes, CreatePending,
             CheckTarget, Publish, Validate, RollbackPending, RollbackOwner, ReleaseChecks, ReleaseUnlinks
      <4> QED BY <4>2, <4>3
    <3>3. CASE ~Working(p)
      <4>1. MakeDir(p) \/ MakeDirFails(p) \/ Contended(p) \/ Wakes(p)
        BY <1>3, <3>3 DEF Working, AcquireStep, ReleaseStep, CreatePending, CheckTarget, Publish, Validate,
           RollbackPending,
                RollbackOwner, RollbackDir, RollbackFails, ReleaseChecks, ReleaseUnlinks, ReleaseRmdir
      <4>2. CASE MakeDir(p)
        <5>1. pc'[p] = "create"
          BY <2>3, <4>2 DEF MakeDir, Goto, TypeOK
        <5> QED BY <5>1 DEF Working
      <4>3. CASE UNCHANGED dir
        <5>1. PICK q \in Procs : Working(q)
          BY <2>3, <3>1, <4>3 DEF Attended
        <5>2. q # p
          BY <3>3, <5>1
        <5> QED BY <2>1, <5>1, <5>2 DEF Working
      <4> QED BY <4>1, <4>2, <4>3 DEF MakeDirFails, Contended, Wakes, fs
    <3> QED BY <3>2, <3>3
  <2> QED BY <1>1, <2>1, <2>2, <2>3
<1>4. ASSUME NEW p \in Procs, Crash(p) PROVE Attended'
  BY <1>4 DEF Crash, recoveries, Attended
<1>5. ASSUME NEW o, Inspect(o) \/ InspectStep(o) PROVE Attended'
  <2>1. UNCHANGED <<dir, pc, unclean, rpc, expected, claim, overlapped, dead>>
    BY <1>5, InspectionFrame DEF inspectFrame, fs, acquirers, recoveries
  <2> QED BY <1>1, <2>1 DEF Attended, Working
<1>6. ASSUME NEW r \in Recoverers, (\E t \in Owners : Recover(r, t)) \/ RecoverStep(r) \/ RecovererCrash(r)
      PROVE  Attended'
  <2>1. /\ UNCHANGED <<pc, dead>>
        /\ \A s \in Recoverers : s # r => rpc'[s] = rpc[s] /\ expected'[s] = expected[s] /\ claim'[s] = claim[s]
    BY <1>6, RecoveryFrame
  <2>2. dead # {}
    BY <1>6 DEF Attended, Recover, RecoverStep, FirstInspected, FinalInspected, Claim, AfterInspected,
                RecoverUnlinks, RecoverRmdir, RecovererCrash
  <2>3. unclean /\ unclean'
    <3>1. unclean
      BY <2>2 DEF Attended
    <3> QED BY <1>6, <3>1 DEF Recover, RecoverStep, FirstInspected, FinalInspected, Claim, AfterInspected,
                RecoverUnlinks, RecoverRmdir, RecovererCrash
  <2>4. /\ rpc'[r] # "idle" => expected'[r] \in dead
        /\ rpc'[r] = "idle" => claim'[r] = NULL
    <3> USE DEF TypeOK, Return, RGoto, inspections
    <3>1. CASE \E t \in Owners : Recover(r, t)
      BY <3>1 DEF Recover
    <3>2. CASE Return(r)
      BY <3>2
    <3>3. CASE RecoverStep(r) /\ ~Return(r)
      <4>1. expected' = expected /\ rpc'[r] # "idle" /\ rpc[r] # "idle"
        BY <3>3 DEF RecoverStep, FirstInspected, FinalInspected, Claim, AfterInspected, RecoverUnlinks, RecoverRmdir
      <4> QED BY <4>1 DEF Attended
    <3> QED BY <1>6, <3>1, <3>2, <3>3 DEF RecovererCrash
  <2> QED BY <2>1, <2>2, <2>3, <2>4 DEF Attended
<1>7. CASE UNCHANGED vars
  BY <1>1, <1>7 DEF vars, fs, acquirers, recoveries, Attended, Working
<1> QED BY <1>2, <1>3, <1>4, <1>5, <1>6, <1>7 DEF Next, ObserverNext

-----------------------------------------------------------------------------
(* The lock.                                                               *)

LEMMA LockStarts == Init => LockInv
<1> SUFFICES ASSUME Init PROVE LockInv
  OBVIOUS
<1> USE DEF Init
<1>1. TypeOK
  <2>1. owners \in 0..MaxOwners /\ tries \in [Procs -> 0..MaxTries] /\ removed \in [Owners -> Nat]
    BY BoundsAssumption
  <2> QED BY <2>1 DEF TypeOK, Marker, Empty
<1>2. Tokens
  BY DEF Tokens, Names
<1>3. OnceOnly
  BY DEF OnceOnly, Early, Names
<1>4. OneByOne
  BY DEF OneByOne, Working, Names
<1>5. Attended
  BY DEF Attended
<1> QED BY <1>1, <1>2, <1>3, <1>4, <1>5 DEF LockInv

LEMMA LockSteps ==
    ASSUME LockInv, [Next]_vars
    PROVE  LockInv'
<1> USE DEF LockInv
<1>1. TypeOK'
  <2>1. CASE UNCHANGED vars
    BY <2>1 DEF vars, fs, acquirers, inspections, recoveries, TypeOK, Empty
  <2> QED BY <2>1, ProcsKeepType, InspectionsKeepType, RecoveriesKeepType DEF Next, ObserverNext
<1>2. Tokens'
  BY TokensStep
<1>3. OnceOnly'
  BY OnceOnlyStep
<1>4. ASSUME ~overlapped' PROVE OneByOne'
  <2>1. ~overlapped
    <3>1. CASE \E p \in Procs : (\E w \in BOOLEAN : Start(p, w)) \/ Crash(p)
      BY <1>4, <3>1 DEF Start, Crash, recoveries
    <3>2. CASE \E p \in Procs : AcquireStep(p) \/ ReleaseStep(p)
      BY <1>4, <3>2, ProcessFrame DEF recoveries
    <3>3. CASE \E o : Inspect(o) \/ InspectStep(o)
      BY <1>4, <3>3, InspectionFrame DEF inspectFrame, recoveries
    <3>4. CASE \E r \in Recoverers : (\E t \in Owners : Recover(r, t)) \/ RecoverStep(r) \/ RecovererCrash(r)
      BY <1>4, <3>4 DEF recoverFrame, Recover, RecoverStep, FirstInspected, FinalInspected, Claim, AfterInspected,
                        RecoverUnlinks, RecoverRmdir, RecovererCrash
    <3>5. CASE UNCHANGED vars
      BY <1>4, <3>5 DEF vars, recoveries
    <3> QED BY <3>1, <3>2, <3>3, <3>4, <3>5 DEF Next, ObserverNext
  <2>2. OneByOne
    BY <2>1
  <2>3. CASE UNCHANGED vars
    BY <2>2, <2>3 DEF vars, fs, acquirers, inspections, recoveries, OneByOne, Working, Stage, Sight, Matches,
       Only, Empty
  <2> QED BY <1>4, <2>2, <2>3, ProcessOneByOne, StartOneByOne, InspectionOneByOne, RecoveryOneByOne DEF Next,
     ObserverNext
<1>5. Attended'
  BY AttendedStep
<1> QED BY <1>1, <1>2, <1>3, <1>4, <1>5

\* What LockInv says of the lock directory.
LEMMA LockInvImplies ==
    ASSUME LockInv
    PROVE  FileInv /\ RecoveredOnce /\ (~overlapped => ClaimsExpectedOwner)
<1> USE DEF LockInv
<1>1. HeldIsPublished
  <2> SUFFICES ASSUME NEW p \in Procs, pc[p] \in {"held", "relUnlink"}, ~overlapped
               PROVE  dir /\ Only("owner") /\ entries["owner"] = mine[p]
    BY DEF HeldIsPublished
  <2>1. Working(p) /\ Stage(p)
    BY DEF Working, OneByOne
  <2>2. mine[p] # NULL
    BY DEF Tokens
  <2> QED BY <2>1, <2>2 DEF Stage, Only, Names
<1>2. StuckOnlyAfterFailure
  <2> SUFFICES ASSUME dir, entries["owner"] = NULL, ~unclean
               PROVE  \E p \in Procs : pc[p] \notin {"idle", "mkdir", "sleep", "held"}
    BY DEF StuckOnlyAfterFailure
  <2>1. PICK p \in Procs : Working(p)
    BY DEF Attended
  <2>2. Stage(p) /\ mine[p] # NULL
    BY <2>1 DEF Attended, OneByOne, Tokens, Working
  <2>3. pc[p] # "held"
    BY <2>2 DEF Stage
  <2> QED BY <2>1, <2>3 DEF Working
<1>3. RecoveredOnce
  BY DEF RecoveredOnce, OnceOnly, TypeOK
<1>4. ASSUME ~overlapped PROVE ClaimsExpectedOwner
  BY <1>4 DEF ClaimsExpectedOwner, OneByOne, Sight, Attended
<1> QED BY <1>1, <1>2, <1>3, <1>4 DEF FileInv

\* The invariant of acquisition, release, inspection and recovery.
THEOREM LockInvariant == Spec => []LockInv
BY LockStarts, LockSteps, PTL DEF Spec

\* A holder's marker is published and alone in its directory, and a directory
\* is left without an owner by a failure only, for any number of processes,
\* operators and observers.
THEOREM HolderIsPublished == Spec => []FileInv
BY LockInvariant, LockInvImplies, PTL

\* However many operators recover at the same time, at most one of them
\* reports that it removed a given acquisition.
THEOREM RecoveredAtMostOnce == Spec => []RecoveredOnce
BY LockInvariant, LockInvImplies, PTL

\* Operators that recover one after the other remove the owner they were
\* asked to remove, and no fresh acquisition's marker: what recovery_stale
\* finds violated takes two operators at once.
THEOREM SoleRecoveryFailsClosed == Spec => [](~overlapped => ClaimsExpectedOwner)
BY LockInvariant, LockInvImplies, PTL

-----------------------------------------------------------------------------
(* The scoped lock.                                                        *)

\* Every step of the scoped lock is a step of the lock underneath, or none.
LEMMA ScopedIsLock ==
    ASSUME [ScopedNext]_scopedVars
    PROVE  [Next]_vars
<1>1. ASSUME NEW p \in Procs, ScopedProcess(p) PROVE [Next]_vars
  BY <1>1 DEF ScopedProcess, ScopedStart, ScopedAcquire, WorkReleases, WorkEnds, ScopedRelease,
              ReleaseAgain, ReleaseRefused, ScopedCrash, Next
<1> QED BY <1>1 DEF ScopedNext, scopedVars, Next

\* A step of p that leaves the other processes alone.
LEMMA ScopeStep ==
    ASSUME ScopeOK, NEW p \in Procs,
           scope' \in [Procs -> {"none", "acquire", "work", "release"}],
           handle' \in [Procs -> {"held", "released", "partial"}],
           reported' \in BOOLEAN, reported => reported',
           \A q \in Procs : q # p => pc'[q] = pc[q] /\ scope'[q] = scope[q] /\ handle'[q] = handle[q],
           scope'[p] = "acquire" => pc'[p] \notin {"idle", "held", "relUnlink", "relRmdir"},
           scope'[p] \in {"work", "release"} =>
               IF handle'[p] = "held" THEN pc'[p] \in {"held", "relUnlink", "relRmdir"} ELSE pc'[p] = "idle",
           ~reported' => dead' = {},
           dir' /\ ~reported' => (dir /\ ~Answerable(p)) \/ Answerable(p)'
    PROVE  ScopeOK'
<1>1. ASSUME dir', ~reported' PROVE \E q \in Procs : Answerable(q)'
  <2>1. CASE dir /\ ~Answerable(p)
    <3>1. PICK q \in Procs : Answerable(q)
      BY <1>1, <2>1 DEF ScopeOK
    <3>2. q # p
      BY <2>1, <3>1
    <3> QED BY <3>1, <3>2 DEF Answerable, Working
  <2> QED BY <1>1, <2>1
<1> QED BY <1>1 DEF ScopeOK

LEMMA ScopeSteps ==
    ASSUME LockInv, ScopeOK, [ScopedNext]_scopedVars
    PROVE  ScopeOK'
<1> USE DEF LockInv
<1>1. ASSUME NEW o \in Observers, ObserverNext(o), UNCHANGED scopeVars PROVE ScopeOK'
  <2>1. UNCHANGED <<pc, dead>> /\ (dir' => dir)
    <3>1. CASE Inspect(o) \/ InspectStep(o)
      BY <3>1, InspectionFrame DEF inspectFrame, fs, acquirers
    <3>2. ASSUME o \in Recoverers, (\E t \in Owners : Recover(o, t)) \/ RecoverStep(o) \/ RecovererCrash(o)
          PROVE  UNCHANGED <<pc, dead>> /\ (dir' => dir)
      <4>1. UNCHANGED <<pc, dead>>
        BY <3>2, RecoveryFrame
      <4>2. dir' => dir
        BY <3>2 DEF fs, Unlink, Rename, Rmdir, Recover, RecoverStep, FirstInspected, FinalInspected, Claim,
           AfterInspected,
                    RecoverUnlinks, RecoverRmdir, RecovererCrash
      <4> QED BY <4>1, <4>2
    <3> QED BY <1>1, <3>1, <3>2 DEF ObserverNext
  <2>2. \A p \in Procs : Answerable(p) => Answerable(p)'
    BY <1>1, <2>1 DEF Answerable, Working, scopeVars
  <2> QED BY <1>1, <2>1, <2>2 DEF ScopeOK, scopeVars
<1>2. ASSUME NEW p \in Procs, NEW w \in BOOLEAN, ScopedStart(p, w) PROVE ScopeOK'
  <2>1. /\ pc' = [pc EXCEPT ![p] = "mkdir"] /\ scope' = [scope EXCEPT ![p] = "acquire"] /\ scope[p] = "none"
        /\ UNCHANGED <<dir, dead, handle, reported>>
    BY <1>2 DEF ScopedStart, Start, Goto, Scope, fs
  <2>2. ~Answerable(p)
    BY <2>1 DEF Answerable
  <2>3. pc'[p] = "mkdir" /\ scope'[p] = "acquire" /\ \A q \in Procs : q # p => pc'[q] = pc[q] /\ scope'[q] = scope[q]
    BY <2>1 DEF TypeOK, ScopeOK
  <2>4. scope' \in [Procs -> {"none", "acquire", "work", "release"}]
    BY <2>1 DEF ScopeOK
  <2> QED BY <2>1, <2>2, <2>3, <2>4, ScopeStep DEF ScopeOK
<1>3. ASSUME NEW p \in Procs, ScopedAcquire(p) PROVE ScopeOK'
  <2>1. /\ AcquireStep(p) /\ scope[p] = "acquire" /\ pc[p] \notin {"idle", "held", "relUnlink", "relRmdir"}
        /\ UNCHANGED dead /\ \A q \in Procs : q # p => pc'[q] = pc[q]
    BY <1>3, ProcessFrame DEF ScopedAcquire, ScopeOK
  <2>2. pc'[p] \notin {"relUnlink", "relRmdir"}
    <3> DEFINE Labels == {"idle", "mkdir", "sleep", "create", "check", "publish", "validate", "held",
                          "unPending", "unOwner", "unOwnerStrict", "unDir"}
    <3>1. \E l \in Labels : pc' = [pc EXCEPT ![p] = l]
      BY <2>1 DEF Goto, AcquireStep, MakeDir, MakeDirFails, Contended, Wakes, CreatePending, CheckTarget,
         Publish, Validate,
                  RollbackPending, RollbackOwner, RollbackDir, RollbackFails
    <3> QED BY <3>1 DEF TypeOK
  <2>3. CASE pc'[p] \notin {"held", "idle"} /\ UNCHANGED <<scope, handle, reported>>
    <3>1. dir' => (dir /\ ~Answerable(p)) \/ Answerable(p)'
      <4>1. CASE Working(p)'
        BY <2>1, <2>3, <4>1 DEF Answerable
      <4>2. CASE ~Working(p)'
        <5>1. pc'[p] \in {"mkdir", "sleep"} /\ UNCHANGED dir /\ ~Working(p)
          BY <2>1, <2>3, <4>2 DEF TypeOK, Goto, fs, Working, AcquireStep, MakeDir, MakeDirFails, Contended,
             Wakes, CreatePending, CheckTarget, Publish,
                Validate, RollbackPending, RollbackOwner, RollbackDir, RollbackFails
        <5> QED BY <2>1, <5>1 DEF Answerable
      <4> QED BY <4>1, <4>2
    <3> QED BY <2>1, <2>2, <2>3, <3>1, ScopeStep DEF ScopeOK
  <2>4. CASE pc'[p] = "held" /\ Scope(p, "work") /\ handle' = [handle EXCEPT ![p] = "held"] /\ UNCHANGED reported
    <3>1. /\ scope'[p] = "work" /\ handle'[p] = "held"
          /\ \A q \in Procs : q # p => scope'[q] = scope[q] /\ handle'[q] = handle[q]
          /\ scope' \in [Procs -> {"none", "acquire", "work", "release"}]
          /\ handle' \in [Procs -> {"held", "released", "partial"}]
      BY <2>4 DEF Scope, ScopeOK
    <3>2. Answerable(p)'
      BY <2>4, <3>1 DEF Answerable, Working
    <3> QED BY <2>1, <2>4, <3>1, <3>2, ScopeStep DEF ScopeOK
  <2>5. CASE pc'[p] = "idle" /\ Scope(p, "none") /\ reported' = (reported \/ ~Contended(p)) /\ UNCHANGED handle
    <3>1. /\ scope'[p] = "none" /\ \A q \in Procs : q # p => scope'[q] = scope[q]
          /\ scope' \in [Procs -> {"none", "acquire", "work", "release"}]
      BY <2>5 DEF Scope, ScopeOK
    <3>2. ~reported' => Contended(p) /\ ~reported
      BY <2>5
    <3>3. Contended(p) => UNCHANGED dir /\ ~Answerable(p)
      BY <2>1 DEF Contended, fs, Answerable, Working
    <3>4. reported' \in BOOLEAN
      BY <2>5 DEF ScopeOK
    <3> QED BY <2>1, <2>5, <3>1, <3>2, <3>3, <3>4, ScopeStep DEF ScopeOK
  <2> QED BY <1>3, <2>3, <2>4, <2>5 DEF ScopedAcquire
\* What a call of #release_once does.
<1>4. ASSUME NEW p \in Procs, scope[p] \in {"work", "release"}, handle[p] = "held", ReleaseStep(p), Released(p)
      PROVE  /\ UNCHANGED dead /\ (\A q \in Procs : q # p => pc'[q] = pc[q] /\ handle'[q] = handle[q])
             /\ handle' \in [Procs -> {"held", "released", "partial"}]
             /\ \/ pc'[p] \in {"held", "relUnlink", "relRmdir"} /\ handle'[p] = "held"
                \/ pc'[p] = "idle" /\ handle'[p] = "partial"
                \/ pc'[p] = "idle" /\ handle'[p] = "released" /\ ~dir'
  <2>1. UNCHANGED dead /\ \A q \in Procs : q # p => pc'[q] = pc[q]
    BY <1>4, ProcessFrame
  <2>2. \/ pc'[p] \in {"held", "relUnlink", "relRmdir"} /\ pc[p] # "relRmdir"
        \/ pc'[p] = "idle" /\ pc[p] = "relRmdir"
    BY <1>4 DEF ReleaseStep, ReleaseChecks, ReleaseUnlinks, ReleaseRmdir, Goto, TypeOK
  <2>3. /\ handle'[p] = IF pc[p] # "relRmdir" THEN handle[p] ELSE IF dir /\ ~dir' THEN "released" ELSE "partial"
        /\ \A q \in Procs : q # p => handle'[q] = handle[q]
        /\ handle' \in [Procs -> {"held", "released", "partial"}]
    BY <1>4 DEF Released, ScopeOK
  <2> QED BY <1>4, <2>1, <2>2, <2>3
<1>5. ASSUME NEW p \in Procs, WorkReleases(p) PROVE ScopeOK'
  <2>1. scope[p] = "work" /\ UNCHANGED <<scope, reported>>
    BY <1>5 DEF WorkReleases
  <2>2. /\ UNCHANGED dead /\ (\A q \in Procs : q # p => pc'[q] = pc[q] /\ handle'[q] = handle[q])
        /\ handle' \in [Procs -> {"held", "released", "partial"}]
        /\ \/ pc'[p] \in {"held", "relUnlink", "relRmdir"} /\ handle'[p] = "held"
           \/ pc'[p] = "idle" /\ handle'[p] = "partial"
           \/ pc'[p] = "idle" /\ handle'[p] = "released" /\ ~dir'
    BY <1>4, <1>5 DEF WorkReleases
  <2>3. dir' => Answerable(p)'
    BY <2>1, <2>2 DEF Answerable, Working
  <2> QED BY <2>1, <2>2, <2>3, ScopeStep DEF ScopeOK
<1>6. ASSUME NEW p \in Procs, NEW t, WorkEnds(p, t) PROVE ScopeOK'
  <2>1. scope[p] = "work" /\ scope' = [scope EXCEPT ![p] = "release"] /\ UNCHANGED <<dir, dead, pc, handle, reported>>
    BY <1>6 DEF WorkEnds, Scope, vars, fs, acquirers
  <2>2. /\ scope'[p] = "release" /\ \A q \in Procs : q # p => scope'[q] = scope[q]
        /\ scope' \in [Procs -> {"none", "acquire", "work", "release"}]
    BY <2>1 DEF ScopeOK
  <2>3. Answerable(p) => Answerable(p)'
    BY <2>1, <2>2 DEF Answerable, Working
  <2> QED BY <2>1, <2>2, <2>3, ScopeStep DEF ScopeOK
\* A call that ends, having told its caller of a lock that is left.
<1>7. ASSUME NEW p \in Procs, NEW failed \in BOOLEAN, Report(p, failed), UNCHANGED dead,
             handle' \in [Procs -> {"held", "released", "partial"}],
             \A q \in Procs : q # p => pc'[q] = pc[q] /\ handle'[q] = handle[q],
             ~failed => ~dir' \/ (dir /\ ~Answerable(p))
      PROVE  ScopeOK'
  <2>1. /\ scope'[p] = "none" /\ \A q \in Procs : q # p => scope'[q] = scope[q]
        /\ scope' \in [Procs -> {"none", "acquire", "work", "release"}]
    BY <1>7 DEF Report, Scope, ScopeOK
  <2>2. failed => Outcome(p, failed) \in {"lock", "work_and_release"}
    BY DEF Outcome
  <2>3. reported' \in BOOLEAN /\ (reported \/ failed => reported')
    BY <1>7, <2>2 DEF Report, ScopeOK
  <2> QED BY <1>7, <2>1, <2>3, ScopeStep DEF ScopeOK
<1>8. ASSUME NEW p \in Procs, ScopedRelease(p) PROVE ScopeOK'
  <2>1. scope[p] = "release"
    BY <1>8 DEF ScopedRelease
  <2>2. /\ UNCHANGED dead /\ (\A q \in Procs : q # p => pc'[q] = pc[q] /\ handle'[q] = handle[q])
        /\ handle' \in [Procs -> {"held", "released", "partial"}]
        /\ \/ pc'[p] \in {"held", "relUnlink", "relRmdir"} /\ handle'[p] = "held"
           \/ pc'[p] = "idle" /\ handle'[p] = "partial"
           \/ pc'[p] = "idle" /\ handle'[p] = "released" /\ ~dir'
    BY <1>4, <1>8 DEF ScopedRelease
  <2>3. CASE pc'[p] \in {"relUnlink", "relRmdir"} /\ UNCHANGED <<scope, work_error, reported>>
    <3>1. Answerable(p)'
      BY <2>1, <2>3 DEF Answerable, Working
    <3> QED BY <2>1, <2>2, <2>3, <3>1, ScopeStep DEF ScopeOK
  <2>4. CASE pc'[p] = "held" /\ Report(p, TRUE)
    BY <1>7, <2>2, <2>4
  <2>5. CASE pc'[p] = "idle" /\ Report(p, handle'[p] = "partial")
    <3>1. handle'[p] = "partial" \/ ~dir'
      BY <2>2, <2>5
    <3> QED BY <1>7, <2>2, <2>5, <3>1
  <2> QED BY <1>8, <2>3, <2>4, <2>5 DEF ScopedRelease
<1>9. ASSUME NEW p \in Procs, ReleaseAgain(p) PROVE ScopeOK'
  <2>1. /\ Report(p, handle[p] = "partial") /\ UNCHANGED <<dir, dead, pc, handle>> /\ pc[p] = "idle"
    BY <1>9 DEF ReleaseAgain, ScopeOK, vars, fs, acquirers
  <2>2. handle[p] # "partial" => ~Answerable(p)
    BY <2>1 DEF Answerable, Working
  <2> QED BY <1>7, <2>1, <2>2 DEF ScopeOK
<1>10. ASSUME NEW p \in Procs, ReleaseRefused(p) PROVE ScopeOK'
  <2>1. Report(p, TRUE) /\ UNCHANGED <<dir, dead, pc, handle>>
    BY <1>10 DEF ReleaseRefused, vars, fs, acquirers
  <2> QED BY <1>7, <2>1 DEF ScopeOK
<1>11. ASSUME NEW p \in Procs, ScopedCrash(p) PROVE ScopeOK'
  <2>1. /\ pc' = [pc EXCEPT ![p] = "idle"] /\ scope' = [scope EXCEPT ![p] = "none"] /\ reported' = TRUE /\ UNCHANGED handle
    BY <1>11 DEF ScopedCrash, Crash, Goto, Scope
  <2>2. /\ scope'[p] = "none" /\ \A q \in Procs : q # p => scope'[q] = scope[q] /\ pc'[q] = pc[q]
        /\ scope' \in [Procs -> {"none", "acquire", "work", "release"}]
    BY <2>1 DEF ScopeOK, TypeOK
  <2> QED BY <2>1, <2>2, ScopeStep DEF ScopeOK
<1>12. CASE UNCHANGED scopedVars
  BY <1>12 DEF scopedVars, vars, fs, acquirers, scopeVars, ScopeOK, Answerable, Working
<1> QED BY <1>1, <1>2, <1>3, <1>5, <1>6, <1>8, <1>9, <1>10, <1>11, <1>12 DEF ScopedNext, ScopedProcess

THEOREM ScopedInvariant == ScopedSpec => []ScopedLockInv
<1>1. ScopedInit => ScopedLockInv
  <2> SUFFICES ASSUME ScopedInit PROVE ScopeOK
    BY LockStarts DEF ScopedInit, ScopedLockInv
  <2> QED BY DEF ScopedInit, Init, ScopeOK
<1>2. ASSUME ScopedLockInv, [ScopedNext]_scopedVars PROVE ScopedLockInv'
  BY <1>2, ScopedIsLock, LockSteps, ScopeSteps DEF ScopedLockInv
<1> QED BY <1>1, <1>2, PTL DEF ScopedSpec

\* The callbacks of with_local_file_lock exclude each other while operators
\* recover one by one, and a lock that is left on disk was reported, for any
\* number of processes, operators and acquisitions.
THEOREM ScopedCorrect == ScopedSpec => []ScopedInv
<1>1. ASSUME ScopedLockInv PROVE ScopedInv
  <2>1. WorkExclusive
    <3> SUFFICES ASSUME ~overlapped, NEW p \in Procs, NEW q \in Procs, InWork(p), InWork(q) PROVE p = q
      BY DEF WorkExclusive
    <3>1. Working(p) /\ Working(q)
      BY <1>1 DEF ScopedLockInv, ScopeOK, InWork, Working
    <3> QED BY <1>1, <3>1 DEF ScopedLockInv, LockInv, OneByOne
  <2>2. LeftoverIsReported
    BY <1>1 DEF ScopedLockInv, ScopeOK, Answerable, Working, LeftoverIsReported
  <2> QED BY <2>1, <2>2 DEF ScopedInv
<1> QED BY <1>1, ScopedInvariant, PTL

\* The scoped lock keeps the invariant of the lock directory, and its
\* recoveries report success once.
THEOREM ScopedFileCorrect == ScopedSpec => [](FileInv /\ RecoveredOnce)
<1>1. ScopedLockInv => FileInv /\ RecoveredOnce
  BY LockInvImplies DEF ScopedLockInv
<1> QED BY <1>1, ScopedInvariant, PTL

=============================================================================
