----------------------------- MODULE FencingSql -----------------------------
(***************************************************************************)
(* persistence/postgres/fencing.sql: try_advance_fence called by concurrent*)
(* READ COMMITTED transactions that also carry the protected mutation, for *)
(* one (tenant_scope, resource_key).  PostgreSQL's part is the committed   *)
(* row, the row lock (which an uncommitted insert of the same primary key  *)
(* also stands for) and the uncommitted changes of the transaction that    *)
(* holds it.  A transaction may fail anywhere, and a caller may run the    *)
(* same request again when it does not know how the first attempt ended.   *)
(***************************************************************************)
EXTENDS Integers, Sequences, FiniteSets

CONSTANTS Sessions, FenceTokens, OperationIds, Payloads, Malformed, NULL

ASSUME TokensAssumption == FenceTokens \subseteq Nat

VARIABLES
    row, value,         \* committed: the watermark row and the protected state
    lock,               \* the session that holds the row lock, or NULL
    newRow, newValue,   \* uncommitted changes of that session
    pc, incoming,       \* where each session is, and its request
    decision,           \* what try_advance_fence returned to it
    applied             \* history: the mutations committed, in order

sqlVars == <<row, value, lock, newRow, newValue, pc, incoming, decision, applied>>

Fence == INSTANCE FenceStore WITH watermark <- row, state <- value

ASSUME ValuesAssumption ==
    /\ NULL # Malformed /\ NULL \notin Sessions
    /\ NULL \notin Fence!FencedWrites /\ Malformed \notin Fence!FencedWrites

Init ==
    /\ row \in {NULL, Malformed} /\ value = NULL
    /\ lock = NULL
    /\ newRow = NULL /\ newValue = NULL
    /\ pc = [s \in Sessions |-> "idle"]
    /\ incoming = [s \in Sessions |-> NULL]
    /\ decision = [s \in Sessions |-> NULL]
    /\ applied = <<>>

-----------------------------------------------------------------------------
Goto(s, label) == pc' = [pc EXCEPT ![s] = label]

Begin(s, w) ==
    /\ pc[s] = "idle"
    /\ Goto(s, "select")
    /\ incoming' = [incoming EXCEPT ![s] = w]
    /\ decision' = [decision EXCEPT ![s] = NULL]
    /\ UNCHANGED <<row, value, lock, newRow, newValue, applied>>

\* SELECT ... FOR UPDATE: an uncommitted insert is invisible; a committed row
\* is locked, after waiting for the session that holds it.
SelectForUpdate(s) ==
    /\ pc[s] = "select"
    /\ \/ /\ row = NULL
          /\ Goto(s, "insert")
          /\ UNCHANGED lock
       \/ /\ row # NULL /\ lock = NULL
          /\ Goto(s, "compare")
          /\ lock' = s
    /\ UNCHANGED <<row, value, newRow, newValue, incoming, decision, applied>>

\* Mutant: no loop; the session that lost the insert goes on as if it had won.
InsertAssumesWon(s) ==
    /\ pc[s] = "insert"
    /\ lock = NULL
    /\ lock' = s
    /\ newRow' = incoming[s]
    /\ decision' = [decision EXCEPT ![s] = "advanced"]
    /\ Goto(s, "mutate")
    /\ UNCHANGED <<row, value, newValue, incoming, applied>>

\* Mutant: the retry goes back to the INSERT instead of the SELECT.
InsertRetriesInsert(s) ==
    /\ pc[s] = "insert"
    /\ \/ /\ row = NULL /\ lock = NULL
          /\ lock' = s
          /\ newRow' = incoming[s]
          /\ decision' = [decision EXCEPT ![s] = "advanced"]
          /\ Goto(s, "mutate")
       \/ /\ row # NULL
          /\ Goto(s, "insert")
          /\ UNCHANGED <<lock, newRow, decision>>
    /\ UNCHANGED <<row, value, newValue, incoming, applied>>

\* INSERT ... ON CONFLICT DO NOTHING: waits for an uncommitted insert of the
\* same key; a row committed meanwhile sends the loop back to the SELECT.
InsertOnConflict(s) ==
    /\ pc[s] = "insert"
    /\ \/ /\ row = NULL /\ lock = NULL
          /\ lock' = s
          /\ newRow' = incoming[s]
          /\ decision' = [decision EXCEPT ![s] = "advanced"]
          /\ Goto(s, "mutate")
       \/ /\ row # NULL
          /\ Goto(s, "select")
          /\ UNCHANGED <<lock, newRow, decision>>
    /\ UNCHANGED <<row, value, newValue, incoming, applied>>

\* The comparison, on the locked row.  A malformed row raises: see Rollback.
Compare(s) ==
    /\ pc[s] = "compare"
    /\ row # Malformed
    /\ LET d == Fence!evaluateFence(row, incoming[s]) IN
        /\ decision' = [decision EXCEPT ![s] = d]
        /\ IF d = "advanced"
           THEN newRow' = incoming[s] /\ Goto(s, "mutate")
           ELSE UNCHANGED newRow /\ Goto(s, "commit")
    /\ UNCHANGED <<row, value, lock, newValue, incoming, applied>>

\* Mutant: the mutation goes to the database outside the transaction.
MutateAutocommit(s) ==
    /\ pc[s] = "mutate"
    /\ newValue' = incoming[s].payloadSha256
    /\ value' = incoming[s].payloadSha256
    /\ Goto(s, "commit")
    /\ UNCHANGED <<row, lock, newRow, incoming, decision, applied>>

\* The caller's protected mutation, in the same transaction (should_apply).
Mutate(s) ==
    /\ pc[s] = "mutate"
    /\ newValue' = incoming[s].payloadSha256
    /\ Goto(s, "commit")
    /\ UNCHANGED <<row, value, lock, newRow, incoming, decision, applied>>

Unlock(s) ==
    IF lock = s
    THEN lock' = NULL /\ newRow' = NULL /\ newValue' = NULL
    ELSE UNCHANGED <<lock, newRow, newValue>>

Commit(s) ==
    /\ pc[s] = "commit"
    /\ IF newRow # NULL /\ lock = s
       THEN row' = newRow /\ value' = newValue /\ applied' = Append(applied, newRow)
       ELSE UNCHANGED <<row, value, applied>>
    /\ Unlock(s)
    /\ Goto(s, "idle")
    /\ UNCHANGED <<incoming, decision>>

\* An error, a lost connection or a crash before COMMIT took effect.
Rollback(s) ==
    /\ pc[s] # "idle"
    /\ Unlock(s)
    /\ Goto(s, "idle")
    /\ UNCHANGED <<row, value, incoming, decision, applied>>

SessionStep(s) ==
    SelectForUpdate(s) \/ InsertOnConflict(s) \/ Compare(s) \/ Mutate(s) \/ Commit(s)

Next ==
    \E s \in Sessions :
        \/ \E w \in Fence!FencedWrites : Begin(s, w)
        \/ SessionStep(s)
        \/ Rollback(s)

\* A session that can run does; PostgreSQL grants a contended lock in queue
\* order, so a waiter is not passed over forever; a raised error rolls back.
Fairness ==
    \A s \in Sessions :
        /\ SF_sqlVars(SessionStep(s))
        /\ WF_sqlVars(row = Malformed /\ Rollback(s))

Spec == Init /\ [][Next]_sqlVars /\ Fairness

-----------------------------------------------------------------------------
(* Properties.                                                             *)

SqlTypeOK ==
    /\ row \in Fence!FencedWrites \cup {NULL, Malformed}
    /\ newRow \in Fence!FencedWrites \cup {NULL}
    /\ value \in Payloads \cup {NULL} /\ newValue \in Payloads \cup {NULL}
    /\ lock \in Sessions \cup {NULL}
    /\ pc \in [Sessions -> {"idle", "select", "insert", "compare", "mutate", "commit"}]
    /\ incoming \in [Sessions -> Fence!FencedWrites \cup {NULL}]
    /\ decision \in [Sessions -> {"advanced", "stale", "replay", "token_reuse", NULL}]

\* The protected state is the payload of the accepted request, and every
\* accepted mutation carried a strictly larger token than the one before it:
\* no interleaving, first-insert race or retry applies a mutation twice or
\* lets an older token in.
AppliedInTokenOrder ==
    /\ \A i \in 1..(Len(applied) - 1) : applied[i].fencingToken < applied[i + 1].fencingToken
    /\ applied # <<>> => row = applied[Len(applied)] /\ value = row.payloadSha256

\* A decision to apply is taken on the row that is still there at COMMIT: the
\* lock is kept from the comparison to the end of the transaction.
DecidedUnderLock ==
    \A s \in Sessions :
        pc[s] \in {"compare", "mutate", "commit"} =>
            /\ lock = s
            /\ decision[s] = "advanced" /\ pc[s] # "compare" =>
                  newRow = incoming[s] /\ (row = NULL \/ row.fencingToken < newRow.fencingToken)

\* Every interleaving of transactions is a sequence of atomic fenced writes, and
\* a malformed stored watermark is never repaired by a newer token.
ImplementsFenceStore == Fence!StoreSpec

\* No transaction waits forever, also when several race for the first insert.
TransactionsEnd == \A s \in Sessions : pc[s] # "idle" ~> pc[s] = "idle"

\* The invariant of the transactions: the row lock is kept from the decision to
\* the end, and so accepted mutations follow the token order.
SqlInv == SqlTypeOK /\ AppliedInTokenOrder /\ DecidedUnderLock
=============================================================================
