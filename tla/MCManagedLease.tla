--------------------------- MODULE MCManagedLease ---------------------------
(***************************************************************************)
(* TLC instance of the managed lease: two clients that differ in name      *)
(* only, in two parts that one run explores side by side.                  *)
(*   "belief"  two acquisitions of each client, none of which waits or     *)
(*             writes, over two lifetimes of a lease;                      *)
(*   "writes"  one acquisition of each client, which may wait and which    *)
(*             writes while it holds the grant, over one lifetime and a    *)
(*             tick.                                                       *)
(***************************************************************************)
EXTENDS ManagedLease, TLC

VARIABLE part

MCInit == part \in {"belief", "writes"} /\ Init

MCNext ==
    /\ Next
    /\ UNCHANGED part
    /\ part = "belief" => writes' = {} /\ wait' \in [Holders -> {FALSE}]
    /\ part = "writes" => rid' \in [Holders -> {0, 1}] /\ now' <= Ttl + 1

MCSpec == MCInit /\ [][MCNext]_<<part, vars>>

ClientSymmetry == Permutations(Holders)
=============================================================================
