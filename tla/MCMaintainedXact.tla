-------------------------- MODULE MCMaintainedXact --------------------------
(***************************************************************************)
(* TLC instance of the maintained transaction lock, and of the executable  *)
(* model the repository keeps of one call.  `part` is chosen in the initial*)
(* state; the other part stays as it starts.                               *)
(***************************************************************************)
EXTENDS MaintainedXact

CONSTANTS MAX_PERIODIC_RENEWALS, MAX_CONTENTION_RETRIES \* MaintainedOracle

VARIABLES part, s, requireFinalRenewal

Oracle == INSTANCE MaintainedOracle
oracleVars == <<s, requireFinalRenewal>>

\* null is no string.
ASSUME OracleAssumption == NULL \notin {"success", "error"} \cup Oracle!CLEANUP_FAILURES

MaintainedInit ==
    /\ part \in {"code", "oracle"}
    /\ Init
    /\ Oracle!OracleInit /\ (requireFinalRenewal \/ part = "oracle")

MaintainedNext ==
    \/ part = "code" /\ Next /\ UNCHANGED <<part, oracleVars>>
    \/ part = "oracle" /\ Oracle!OracleStep /\ UNCHANGED <<part, vars>>

MaintainedSpec == MaintainedInit /\ [][MaintainedNext]_<<part, vars, oracleVars>> /\ Fairness

\* The assertions of the executable model hold in every state it visits
\* (formal/maintained-model.mjs).
OracleAsserts == Oracle!OracleAsserts
=============================================================================
