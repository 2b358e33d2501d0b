-------------------------- MODULE MCScopedFileLock --------------------------
(***************************************************************************)
(* TLC instance of the scoped lock and its recovery: two processes and an  *)
(* operator, one process and two operators, or one process and an observer *)
(* that only inspects, as chosen in the initial state.                     *)
(***************************************************************************)
EXTENDS ScopedFileLock

CONSTANTS a, b, r1, r2, i
MCProcs == {a, b}
MCRecoverers == {r1, r2}
MCInspectors == {i}

VARIABLE cast \* who takes part

CastInit == cast \in {{a, b, r1}, {a, r1, r2}, {a, i}} /\ ScopedInit

CastNext ==
    /\ \/ \E p \in Procs \cap cast : ScopedProcess(p)
       \/ \E o \in Observers \cap cast : ObserverNext(o) /\ UNCHANGED scopeVars
    /\ UNCHANGED cast

\* ScopedFairness holds of those who never start too.
CastSpec == CastInit /\ [][CastNext]_<<cast, scopedVars>> /\ ScopedFairness
=============================================================================
