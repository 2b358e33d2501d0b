--------------------------- MODULE MCAcquireEnds ----------------------------
(***************************************************************************)
(* TLC instance of the adapters that wait for a lease: the Fiducia queue,  *)
(* polling over RPC, and BeamScale with its retry.  A deployment uses one  *)
(* of them, chosen in the initial state; the others stay as they start.    *)
(***************************************************************************)
EXTENDS MCCallers

CONSTANTS FiduciaTtl, FiduciaWait

VARIABLES
    owner, left, queue, at, reply, waits, aborted, waited, sleep, travelling \* FiduciaLease's

fiduciaVars == <<owner, left, queue, at, reply, waits, aborted, waited, sleep, travelling>>

Fiducia == INSTANCE FiduciaLease WITH
    Callers <- Holders, Ttl <- FiduciaTtl, WaitTimeout <- FiduciaWait,
    pc <- at, answer <- reply, wait <- waits, late <- travelling

ASSUME FiduciaAssumption == NULL \notin Fiducia!Answers

WaitInit == adapter \in {"fiducia", "rpc", "beamscale"} /\ Init /\ Fiducia!Init /\ Beam!BeamInit

WaitNext ==
    \/ adapter = "fiducia" /\ Fiducia!Next /\ UNCHANGED <<adapter, vars, beamVars>>
    \/ adapter = "rpc" /\ Next /\ UNCHANGED <<adapter, fiduciaVars, beamVars>>
    \/ adapter = "beamscale" /\ Beam!BeamNext /\ UNCHANGED <<adapter, vars, fiduciaVars>>

\* The fairness of each module, for the adapter in use.
WaitFairness ==
    /\ \A c \in Holders :
        /\ WF_fiduciaVars(adapter = "fiducia" /\ Fiducia!Serve(c))
        /\ WF_fiduciaVars(adapter = "fiducia" /\ Fiducia!Answered(c))
        /\ WF_fiduciaVars(adapter = "fiducia" /\ Fiducia!Wake(c))
        /\ WF_vars(adapter = "rpc" /\ MethodStep(c))
        /\ WF_vars(adapter = "rpc" /\ (Serve(c) \/ RpcFails(c)))
    /\ \A c \in BeamCallers :
        /\ WF_beamVars(adapter = "beamscale" /\ Beam!Serve(c))
        /\ WF_beamVars(adapter = "beamscale" /\ Beam!AcquireStep(c))
    /\ WF_fiduciaVars(adapter = "fiducia" /\ Fiducia!Tick)
    /\ WF_vars(adapter = "rpc" /\ Tick /\ UNCHANGED rpcVars)
    /\ WF_beamVars(adapter = "beamscale" /\ Beam!Tick)

WaitSpec == WaitInit /\ [][WaitNext]_<<adapter, vars, fiduciaVars, beamVars>> /\ WaitFairness

\* An acquire at Fiducia that timed out or was cancelled has left nothing.
EndedLeavesNothing == Fiducia!EndedLeavesNothing

\* Whoever waits for a lease comes to an end: an acquire queued at Fiducia, every
\* method over RPC, and an acquire at BeamScale however often the network fails.
WaitingEnds == Fiducia!AcquireEnds /\ MethodsEnd /\ Beam!AcquireEnds
=============================================================================
