--------------------------- MODULE MCLocalFileLock --------------------------
(* TLC instances of the local filesystem lock. *)
EXTENDS LocalFileLock, TLC

ActorSymmetry == Permutations(Procs) \cup Permutations(Recoverers)
=============================================================================
