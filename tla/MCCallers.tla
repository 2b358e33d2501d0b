----------------------------- MODULE MCCallers ------------------------------
(***************************************************************************)
(* TLC instance of the two adapters whose calls may take effect after      *)
(* their caller gave up on them: native RPC to the Durable Object, and     *)
(* BeamScale.  A deployment uses one of them, chosen in the initial state; *)
(* the other one stays as it starts.                                       *)
(***************************************************************************)
EXTENDS DoRpcLease, TLC

CONSTANTS BeamCallers, BeamTtl, MaxSequence, MaxEpoch, BeamRequests, MaxOrphans, BeamHorizon

CallerSymmetry == Permutations(Holders)

VARIABLES
    adapter, \* "rpc" or "beamscale"
    service, sequence, epoch, time, request, response, orphans, registry, client \* BeamScaleLease's

beamVars == <<service, sequence, epoch, time, request, response, orphans, registry, client>>

Beam == INSTANCE BeamScaleLease WITH
    Clients <- BeamCallers, Ttl <- BeamTtl, MaxRequest <- BeamRequests, Horizon <- BeamHorizon,
    lease <- service, now <- time

ASSUME BeamAssumption ==
    /\ BeamTtl \in Nat /\ MaxSequence \in Nat /\ NULL \notin BeamCallers
    /\ NULL \notin Beam!Leases /\ NULL \notin Beam!Messages /\ NULL \notin Beam!Replies

CallersInit == adapter \in {"rpc", "beamscale"} /\ Init /\ Beam!BeamInit

\* The RPC clock stops a tick before the horizon, to which a lease may reach.
CallersNext ==
    \/ adapter = "rpc" /\ Next /\ now' < Horizon /\ UNCHANGED <<adapter, beamVars>>
    \/ adapter = "beamscale" /\ Beam!BeamNext /\ UNCHANGED <<adapter, vars>>

\* A BeamScale grant is the service's until its expiry, and releasable.
BeamInv == Beam!BeamInv
=============================================================================
