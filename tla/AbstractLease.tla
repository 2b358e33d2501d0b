---------------------------- MODULE AbstractLease ---------------------------
(***************************************************************************)
(* What every lease authority promises (the `Lease` interface of lease.ts):*)
(* one active grant at a time, each with a token larger than all before.   *)
(* A grant ends by release or by expiry, and expiry may come at any moment *)
(* as far as a caller can tell.  LeaseAuthority implements this;           *)
(* MaintainedXact is built on it.                                          *)
(***************************************************************************)
EXTENDS Integers

CONSTANTS
    Owners, \* holder identities
    NULL

VARIABLES
    owner,  \* holder of the active grant, or NULL
    active, \* its fencing token, or NULL
    minted  \* the largest token granted so far

leaseState == <<owner, active, minted>>

LeaseInit == owner = NULL /\ active = NULL /\ minted = 0

Grant(h) ==
    /\ active = NULL
    /\ owner' = h
    /\ active' = minted + 1
    /\ minted' = minted + 1

\* Release by the owner, or expiry.
Drop ==
    /\ active # NULL
    /\ owner' = NULL
    /\ active' = NULL
    /\ UNCHANGED minted

LeaseNext == (\E h \in Owners : Grant(h)) \/ Drop

LeaseSpec == LeaseInit /\ [][LeaseNext]_leaseState
=============================================================================
