------------------------------ MODULE MCRenewal -----------------------------
(* TLC instances of the renewal supervisor. *)
EXTENDS RenewalSupervisor, TLC

CONSTANTS c1, c2
MCCalls == {c1, c2}
AllClockFaults == {"regressed", "unsafe"}
CallSymmetry == Permutations(MCCalls)
=============================================================================
