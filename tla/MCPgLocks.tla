----------------------------- MODULE MCPgLocks ------------------------------
(* TLC instance of the PostgreSQL lock routines. *)
EXTENDS PgLocks, TLC

CONSTANTS p1, p2, s1, s2
MCCallers == {p1, p2}
MCSessions == {s1, s2}
Scopes == {"transaction", "session"}
\* scope means nothing without the advisory layer
AllModes == {m \in [fiducia : BOOLEAN, pg : BOOLEAN, scope : Scopes, wait : BOOLEAN] : m.pg \/ m.scope = "session"}
MCSymmetry == Permutations(MCCallers) \cup Permutations(MCSessions)
=============================================================================
