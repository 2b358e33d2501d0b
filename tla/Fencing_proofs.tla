--------------------------- MODULE Fencing_proofs ---------------------------
(***************************************************************************)
(* Where tokens are checked and where they come from.  Concurrent          *)
(* try_advance_fence transactions are a sequence of atomic fenced writes,  *)
(* for any number of sessions and any tokens, operations and payloads; the *)
(* fenced Redlock gives the newest token to the one client whose lock has  *)
(* not run out, for any number of clients and nodes.  The Redis scripts    *)
(* handle tokens as decimal text: their comparison and their carry loop    *)
(* are arithmetic for texts of any length, so the script for fenced writes *)
(* decides as the stores do, and the three lease scripts implement the     *)
(* lease.  The executable model refines both the lease and the store.      *)
(*                                                                         *)
(* The argument for the store: whoever is past the SELECT or the INSERT    *)
(* holds the row lock (DecidedUnderLock), nobody else changes the committed*)
(* row then, so what the comparison found still holds at COMMIT (Prepared);*)
(* and only a transaction that decided to advance has anything to commit   *)
(* (Quiet).                                                                *)
(***************************************************************************)
EXTENDS MCFences, MCRedisAdapters, DecimalText, SequenceTheorems, FiniteSetTheorems, WellFoundedInduction, TLAPS

\* A session that runs has a request, and the lock belongs to one that runs.
Running ==
    /\ \A s \in Sessions : pc[s] # "idle" => incoming[s] \in Fence!FencedWrites
    /\ \A s \in Sessions : lock = s => pc[s] \in {"compare", "mutate", "commit"}

\* Without a decision to advance there are no uncommitted changes.
Quiet ==
    /\ lock = NULL => newRow = NULL
    /\ \A s \in Sessions : pc[s] = "compare" => newRow = NULL /\ row # NULL
    /\ \A s \in Sessions : pc[s] = "commit" /\ decision[s] # "advanced" => newRow = NULL

\* With one, the request and its payload are about to replace a sound, older row.
Prepared ==
    \A s \in Sessions :
        /\ pc[s] = "mutate" => decision[s] = "advanced"
        /\ pc[s] \in {"mutate", "commit"} => row # Malformed
        /\ pc[s] = "commit" /\ decision[s] = "advanced" => newValue = incoming[s].payloadSha256

\* The committed row is the last accepted request.
Recorded ==
    /\ applied \in Seq(Fence!FencedWrites)
    /\ applied = <<>> => row \in {NULL, Malformed}

IInv == SqlInv /\ Running /\ Quiet /\ Prepared /\ Recorded

\* The decision to advance is what evaluateFence says of a missing or older row.
LEMMA AdvancedIffNewer ==
  ASSUME NEW r \in Fence!FencedWrites \cup {NULL}, NEW w \in Fence!FencedWrites
  PROVE  Fence!evaluateFence(r, w) = "advanced" <=> (r = NULL \/ r.fencingToken < w.fencingToken)
  BY TokensAssumption, ValuesAssumption DEF Fence!evaluateFence, Fence!FencedWrites

\* evaluateFence answers with one of its four decisions.
LEMMA DecisionType ==
  ASSUME NEW r, NEW w
  PROVE  Fence!evaluateFence(r, w) \in {"advanced", "stale", "replay", "token_reuse"}
  BY DEF Fence!evaluateFence

\* Nothing runs and nothing is accepted at first.
LEMMA InitIInv == Init => IInv
  BY ValuesAssumption
  DEF Init, IInv, SqlInv, SqlTypeOK, AppliedInTokenOrder, DecidedUnderLock, Running, Quiet, Prepared, Recorded

\* A new transaction has nothing yet.
LEMMA BeginIInv ==
  ASSUME IInv, NEW s \in Sessions, NEW w \in Fence!FencedWrites, Begin(s, w)
  PROVE  IInv'
<1> USE ValuesAssumption DEF IInv, SqlInv, SqlTypeOK, Begin, Goto
<1>1. SqlTypeOK'
  OBVIOUS
<1>2. DecidedUnderLock' /\ AppliedInTokenOrder'
  BY DEF DecidedUnderLock, AppliedInTokenOrder
<1>3. Running' /\ Quiet' /\ Prepared' /\ Recorded'
  BY DEF Running, Quiet, Prepared, Recorded, DecidedUnderLock
<1> QED BY <1>1, <1>2, <1>3

\* The SELECT finds no row, or takes the free lock of the row it finds.
LEMMA SelectIInv ==
  ASSUME IInv, NEW s \in Sessions, SelectForUpdate(s)
  PROVE  IInv'
<1> USE ValuesAssumption DEF IInv, SqlInv, SqlTypeOK, SelectForUpdate, Goto
<1>1. SqlTypeOK'
  OBVIOUS
<1>2. DecidedUnderLock' /\ AppliedInTokenOrder'
  BY DEF DecidedUnderLock, AppliedInTokenOrder
<1>3. Running' /\ Quiet' /\ Prepared' /\ Recorded'
  BY DEF Running, Quiet, Prepared, Recorded, DecidedUnderLock
<1> QED BY <1>1, <1>2, <1>3

\* The INSERT wins an empty table, or goes back to the SELECT.
LEMMA InsertIInv ==
  ASSUME IInv, NEW s \in Sessions, InsertOnConflict(s)
  PROVE  IInv'
<1> USE ValuesAssumption DEF IInv, SqlInv, SqlTypeOK, InsertOnConflict, Goto
<1>1. SqlTypeOK'
  BY DEF Running
<1>2. DecidedUnderLock' /\ AppliedInTokenOrder'
  BY DEF DecidedUnderLock, AppliedInTokenOrder
<1>3. Running' /\ Quiet' /\ Prepared' /\ Recorded'
  BY DEF Running, Quiet, Prepared, Recorded, DecidedUnderLock
<1> QED BY <1>1, <1>2, <1>3

\* The comparison on the locked row.
LEMMA CompareIInv ==
  ASSUME IInv, NEW s \in Sessions, Compare(s)
  PROVE  IInv'
<1> DEFINE d == Fence!evaluateFence(row, incoming[s])
<1>1. /\ lock = s /\ row \in Fence!FencedWrites /\ incoming[s] \in Fence!FencedWrites /\ newRow = NULL
      /\ \A t \in Sessions : pc[t] \in {"compare", "mutate", "commit"} => t = s
  BY DEF IInv, SqlInv, SqlTypeOK, Compare, DecidedUnderLock, Running, Quiet
<1>2. d \in {"advanced", "stale", "replay", "token_reuse"} /\ (d = "advanced" => row.fencingToken < incoming[s].fencingToken)
  BY <1>1, DecisionType, AdvancedIffNewer, ValuesAssumption
<1>3. /\ decision' = [decision EXCEPT ![s] = d]
      /\ IF d = "advanced" THEN newRow' = incoming[s] /\ pc' = [pc EXCEPT ![s] = "mutate"]
                           ELSE newRow' = newRow /\ pc' = [pc EXCEPT ![s] = "commit"]
      /\ UNCHANGED <<row, value, lock, newValue, incoming, applied>> /\ pc[s] = "compare" /\ row # Malformed
  BY DEF Compare, Goto
<1> HIDE DEF d
<1> USE <1>1, <1>2, <1>3, ValuesAssumption DEF IInv, SqlInv, SqlTypeOK
<1>4. SqlTypeOK'
  OBVIOUS
<1>5. DecidedUnderLock' /\ AppliedInTokenOrder'
  BY DEF DecidedUnderLock, AppliedInTokenOrder
<1>6. Running' /\ Quiet' /\ Prepared' /\ Recorded'
  BY DEF Running, Quiet, Prepared, Recorded
<1> QED BY <1>4, <1>5, <1>6

\* The protected mutation, uncommitted.
LEMMA MutateIInv ==
  ASSUME IInv, NEW s \in Sessions, Mutate(s)
  PROVE  IInv'
<1> USE ValuesAssumption DEF IInv, SqlInv, SqlTypeOK, Mutate, Goto
<1>1. SqlTypeOK'
  BY DEF Running, Fence!FencedWrites
<1>2. DecidedUnderLock' /\ AppliedInTokenOrder'
  BY DEF DecidedUnderLock, AppliedInTokenOrder, Prepared
<1>3. Running' /\ Quiet' /\ Prepared' /\ Recorded'
  BY DEF Running, Quiet, Prepared, Recorded, DecidedUnderLock
<1> QED BY <1>1, <1>2, <1>3

\* What a COMMIT that changes anything commits: a sound request, newer than the
\* row it replaces, with its payload.
LEMMA CommitAdvances ==
  ASSUME IInv, NEW s \in Sessions, pc[s] = "commit", newRow # NULL
  PROVE  /\ newRow \in Fence!FencedWrites /\ newValue = newRow.payloadSha256
         /\ row \in Fence!FencedWrites \cup {NULL}
         /\ row = NULL \/ row.fencingToken < newRow.fencingToken
  BY ValuesAssumption
  DEF IInv, SqlInv, SqlTypeOK, DecidedUnderLock, Running, Quiet, Prepared

\* COMMIT of an accepted mutation extends the history in token order.
LEMMA CommitIInv ==
  ASSUME IInv, NEW s \in Sessions, Commit(s)
  PROVE  IInv'
<1> USE ValuesAssumption DEF IInv, SqlInv
<1>1. lock = s /\ \A t \in Sessions : pc[t] \in {"compare", "mutate", "commit"} => t = s
  BY DEF Commit, DecidedUnderLock
<1>2. /\ pc[s] = "commit" /\ pc' = [pc EXCEPT ![s] = "idle"]
      /\ lock' = NULL /\ newRow' = NULL /\ newValue' = NULL /\ UNCHANGED <<incoming, decision>>
  BY <1>1 DEF Commit, Unlock, Goto
<1>3. CASE newRow = NULL
  <2>1. UNCHANGED <<row, value, applied>>
    BY <1>3 DEF Commit
  <2> QED BY <1>1, <1>2, <2>1
          DEF SqlTypeOK, DecidedUnderLock, AppliedInTokenOrder, Running, Quiet, Prepared, Recorded
<1>4. CASE newRow # NULL
  <2>1. row' = newRow /\ value' = newValue /\ applied' = Append(applied, newRow)
    BY <1>1, <1>4 DEF Commit
  <2>2. /\ newRow \in Fence!FencedWrites /\ newValue = newRow.payloadSha256
        /\ row \in Fence!FencedWrites \cup {NULL}
        /\ row = NULL \/ row.fencingToken < newRow.fencingToken
    BY <1>2, <1>4, CommitAdvances
  <2>3. SqlTypeOK'
    BY <1>2, <2>1, <2>2 DEF SqlTypeOK, Fence!FencedWrites
  <2>4. AppliedInTokenOrder' /\ Recorded'
    <3>1. /\ applied' \in Seq(Fence!FencedWrites) /\ Len(applied') = Len(applied) + 1
          /\ applied'[Len(applied')] = newRow /\ applied' # <<>>
          /\ \A i \in 1..Len(applied) : applied'[i] = applied[i]
      BY <2>1, <2>2 DEF Recorded
    <3>2. Len(applied) \in Nat /\ (Len(applied) = 0 <=> applied = <<>>)
      BY EmptySeq, LenProperties DEF Recorded
    <3>3. ASSUME NEW i \in 1..(Len(applied') - 1)
          PROVE  applied'[i].fencingToken < applied'[i + 1].fencingToken
      <4>1. CASE i < Len(applied)
        BY <3>1, <3>2, <4>1 DEF AppliedInTokenOrder
      <4>2. CASE i = Len(applied)
        <5>1. applied # <<>> /\ applied[i] = row /\ applied'[i] = row /\ applied'[i + 1] = newRow
          BY <3>1, <3>2, <4>2 DEF AppliedInTokenOrder
        <5>2. row # NULL
          BY <3>1, <3>2, <4>2, <5>1 DEF Recorded
        <5> QED BY <5>1, <5>2, <2>2
      <4> QED BY <3>1, <3>2, <4>1, <4>2
    <3> QED BY <2>1, <2>2, <3>1, <3>3 DEF AppliedInTokenOrder, Recorded
  <2>5. DecidedUnderLock' /\ Running' /\ Quiet' /\ Prepared'
    BY <1>1, <1>2, <2>1 DEF SqlTypeOK, DecidedUnderLock, Running, Quiet, Prepared
  <2> QED BY <2>3, <2>4, <2>5
<1> QED BY <1>3, <1>4

\* An error or a crash: the changes go with the lock.
LEMMA RollbackIInv ==
  ASSUME IInv, NEW s \in Sessions, Rollback(s)
  PROVE  IInv'
<1> USE ValuesAssumption DEF IInv, SqlInv, SqlTypeOK, Rollback, Goto
<1>1. SqlTypeOK'
  BY DEF Unlock
<1>2. DecidedUnderLock' /\ AppliedInTokenOrder'
  BY DEF Unlock, DecidedUnderLock, AppliedInTokenOrder
<1>3. Running' /\ Quiet' /\ Prepared' /\ Recorded'
  BY DEF Unlock, Running, Quiet, Prepared, Recorded, DecidedUnderLock
<1> QED BY <1>1, <1>2, <1>3

\* Every step of every session preserves the invariant.
LEMMA NextIInv == IInv /\ [Next]_sqlVars => IInv'
<1> SUFFICES ASSUME IInv, [Next]_sqlVars PROVE IInv'
  OBVIOUS
<1>1. ASSUME NEW s \in Sessions, NEW w \in Fence!FencedWrites, Begin(s, w) PROVE IInv'
  BY <1>1, BeginIInv
<1>2. ASSUME NEW s \in Sessions, SessionStep(s) PROVE IInv'
  BY <1>2, SelectIInv, InsertIInv, CompareIInv, MutateIInv, CommitIInv DEF SessionStep
<1>3. ASSUME NEW s \in Sessions, Rollback(s) PROVE IInv'
  BY <1>3, RollbackIInv
<1>4. CASE UNCHANGED sqlVars
  BY <1>4 DEF sqlVars, IInv, SqlInv, SqlTypeOK, AppliedInTokenOrder, DecidedUnderLock, Running, Quiet, Prepared, Recorded
<1> QED BY <1>1, <1>2, <1>3, <1>4 DEF Next

\* The transactions keep the inductive invariant.
THEOREM SqlInvariant == Spec => []IInv
<1>1. Init => IInv
  BY InitIInv
<1>2. IInv /\ [Next]_sqlVars => IInv'
  BY NextIInv
<1> QED BY <1>1, <1>2, PTL DEF Spec

\* The row lock is kept from the decision to the end of the transaction, and the
\* mutations that try_advance_fence lets through have strictly increasing tokens.
THEOREM SqlCorrect == Spec => []SqlInv
<1>1. IInv => SqlInv
  BY DEF IInv
<1> QED BY <1>1, SqlInvariant, PTL

\* A COMMIT is one atomic fenced write; every other step leaves the store alone.
LEMMA StoreStep ==
  ASSUME IInv, [Next]_sqlVars
  PROVE  [Fence!StoreNext]_(Fence!storeVars)
<1>1. ASSUME NEW s \in Sessions, NEW w \in Fence!FencedWrites, Begin(s, w)
      PROVE  UNCHANGED Fence!storeVars
  BY <1>1 DEF Begin, Fence!storeVars
<1>2. ASSUME NEW s \in Sessions, SelectForUpdate(s) \/ InsertOnConflict(s) \/ Compare(s) \/ Mutate(s) \/ Rollback(s)
      PROVE  UNCHANGED Fence!storeVars
  BY <1>2 DEF SelectForUpdate, InsertOnConflict, Compare, Mutate, Rollback, Fence!storeVars
<1>3. ASSUME NEW s \in Sessions, Commit(s)
      PROVE  [Fence!StoreNext]_(Fence!storeVars)
  <2>1. CASE newRow = NULL
    BY <1>3, <2>1 DEF Commit, Fence!storeVars
  <2>2. CASE newRow # NULL
    <3>1. /\ newRow \in Fence!FencedWrites /\ newValue = newRow.payloadSha256
          /\ row \in Fence!FencedWrites \cup {NULL}
          /\ row = NULL \/ row.fencingToken < newRow.fencingToken
      BY <1>3, <2>2, CommitAdvances DEF Commit
    <3>2. Fence!evaluateFence(row, newRow) = "advanced" /\ row # Malformed
      BY <3>1, AdvancedIffNewer, ValuesAssumption
    <3>3. lock = s
      BY <1>3 DEF IInv, SqlInv, DecidedUnderLock, Commit
    <3>4. Fence!FencedWrite(newRow)
      BY <1>3, <2>2, <3>1, <3>2, <3>3 DEF Commit, Fence!FencedWrite
    <3> QED BY <3>1, <3>4 DEF Fence!StoreNext
  <2> QED BY <2>1, <2>2
<1>4. CASE UNCHANGED sqlVars
  BY <1>4 DEF sqlVars, Fence!storeVars
<1> QED BY <1>1, <1>2, <1>3, <1>4 DEF Next, SessionStep

\* Every interleaving of try_advance_fence transactions, with crashes and
\* repeated requests, is a sequence of atomic fenced writes; a malformed row
\* stays as it is.
THEOREM SqlImplementsStore == Spec => ImplementsFenceStore
<1>1. Init => Fence!StoreInit
  BY DEF Init, Fence!StoreInit
<1>2. IInv /\ [Next]_sqlVars => [Fence!StoreNext]_(Fence!storeVars)
  BY StoreStep
<1> QED BY <1>1, <1>2, SqlInvariant, PTL DEF Spec, ImplementsFenceStore, Fence!StoreSpec

-----------------------------------------------------------------------------
(* The fenced Redlock.  The inductive invariant.  A grant that has not run *)
(* out is backed by a quorum of nodes that still have the key of its       *)
(* attempt, and two quorums meet: while a handle is backed no other client *)
(* is given a grant.  A renewal needs a backed handle, however long ago it *)
(* was promised one.                                                       *)

Handles ==
    [pc : {"idle", "locking", "sleeping", "locked", "minting", "held", "extending", "extended", "unreleased"},
     began : Nat, started : Nat, expiration : Nat, token : Nat \cup {None}, wakeAt : Nat, nth : Nat]

\* Node n has the key of the attempt c counts as nth, at least until t.
Backs(n, c, nth, t) ==
    key[n] # None /\ key[n].owner = c /\ key[n].nth = nth /\ now < key[n].until /\ t <= key[n].until

Backed(c, nth, t) == \E S \in Quorum : \A n \in S : Backs(n, c, nth, t)

HandleOK(c, h) ==
    /\ h.pc \in {"locked", "minting", "held", "extending", "extended"} /\ now < h.expiration => Backed(c, h.nth, h.expiration)
    /\ h.pc = "extended" /\ now < h.wakeAt => Backed(c, h.nth, h.wakeAt)
    /\ h.pc \in {"locked", "minting", "held", "extending"} => h.expiration <= now + Ttl
    /\ h.pc = "extended" => h.wakeAt <= now + Ttl
    /\ h.pc \in {"held", "extending", "extended", "unreleased"} /\ Backed(c, h.nth, 0) => h.token = newest
    /\ h.pc = "minting" /\ h.token # None /\ Backed(c, h.nth, 0) => newest < h.token
    /\ h.token # None => h.token <= counter
    /\ h.pc \in {"held", "extending", "extended", "unreleased"} => h.token # None
    /\ h.pc \in {"idle", "locking", "sleeping", "locked"} => h.token = None
    /\ h.pc \in {"locking", "extending"} => h.began <= now
    /\ h.pc = "unreleased" => h.expiration = 0

RedlockTypeOK ==
    /\ key \in [Nodes -> Keys \cup {None}]
    /\ counter \in Nat /\ now \in Nat /\ newest \in Nat
    /\ client \in [Clients -> Handles]

RedlockIInv ==
    /\ RedlockTypeOK
    /\ newest <= counter
    /\ \A c \in Clients : HandleOK(c, client[c])

\* Two quorums have a node in common.
LEMMA QuorumsMeet ==
    ASSUME NEW S \in Quorum, NEW T \in Quorum
    PROVE  \E n \in Nodes : n \in S /\ n \in T
<1>1. /\ S \in SUBSET Nodes /\ T \in SUBSET Nodes
      /\ 2 * Cardinality(S) > Cardinality(Nodes) /\ 2 * Cardinality(T) > Cardinality(Nodes)
  BY DEF Quorum
<1>2. IsFiniteSet(Nodes)
  BY RedlockAssumption
<1>3. IsFiniteSet(S) /\ IsFiniteSet(T)
  BY <1>1, <1>2, FS_Subset
<1>4. S \cup T \in SUBSET Nodes
  BY <1>1
<1>5. IsFiniteSet(S \cup T) /\ Cardinality(S \cup T) <= Cardinality(Nodes)
  BY <1>2, <1>4, FS_Subset
<1>6. Cardinality(S \cup T) = Cardinality(S) + Cardinality(T) - Cardinality(S \cap T)
  BY <1>3, FS_Union
<1>7. /\ Cardinality(S) \in Nat /\ Cardinality(T) \in Nat /\ Cardinality(Nodes) \in Nat
      /\ Cardinality(S \cup T) \in Nat
  BY <1>2, <1>3, <1>5, FS_CardinalityType
<1>8. ASSUME S \cap T = {} PROVE FALSE
  <2>1. Cardinality(S \cap T) = 0
    BY <1>8, FS_EmptySet
  <2> QED BY <1>1, <1>5, <1>6, <1>7, <2>1
<1> QED BY <1>1, <1>8

\* At most one client has a quorum.
LEMMA OneBacked ==
    ASSUME NEW c, NEW d, NEW i, NEW j, NEW t, NEW u, Backed(c, i, t), Backed(d, j, u)
    PROVE  c = d
<1>1. PICK S \in Quorum : \A n \in S : Backs(n, c, i, t)
  BY DEF Backed
<1>2. PICK T \in Quorum : \A n \in T : Backs(n, d, j, u)
  BY DEF Backed
<1>3. PICK n \in Nodes : n \in S /\ n \in T
  BY QuorumsMeet
<1> QED BY <1>1, <1>2, <1>3 DEF Backs

\* Until when a key is promised matters less than that it has not run out.
LEMMA BackedAtAll ==
    ASSUME RedlockTypeOK, NEW c, NEW i, NEW t, Backed(c, i, t)
    PROVE  Backed(c, i, 0)
<1>1. PICK S \in Quorum : \A n \in S : Backs(n, c, i, t)
  BY DEF Backed
<1>2. \A n \in S : Backs(n, c, i, 0)
  BY <1>1 DEF Backs, RedlockTypeOK, Keys, Quorum
<1> QED BY <1>1, <1>2 DEF Backed

\* Client c sets free keys and touches its own: nobody else is backed otherwise.
LEMMA OthersBacked ==
    ASSUME RedlockTypeOK, NEW c, UNCHANGED now,
           \A n \in Nodes : \/ key'[n] = key[n]
                            \/ /\ Free(n) \/ (key[n] # None /\ key[n].owner = c)
                               /\ key'[n] = None \/ key'[n].owner = c
    PROVE  \A d, i, t : d # c => (Backed(d, i, t) <=> Backed(d, i, t)')
<1> SUFFICES ASSUME NEW d, NEW i, NEW t, d # c PROVE Backed(d, i, t) <=> Backed(d, i, t)'
  OBVIOUS
<1>1. \A n \in Nodes : Backs(n, d, i, t) <=> Backs(n, d, i, t)'
  BY DEF Backs, Free, RedlockTypeOK, Keys
<1>2. \A S \in Quorum : S \subseteq Nodes
  BY DEF Quorum
<1> QED BY <1>1, <1>2 DEF Backed, Quorum

\* A step of client c: what is to be shown of it is about its handle, and that a
\* new grant is backed.
LEMMA RedlockMoves ==
    ASSUME RedlockIInv, NEW c \in Clients, NEW h \in Handles, UNCHANGED now,
           client' = [client EXCEPT ![c] = h],
           key' \in [Nodes -> Keys \cup {None}],
           \A n \in Nodes : \/ key'[n] = key[n]
                            \/ /\ Free(n) \/ (key[n] # None /\ key[n].owner = c)
                               /\ key'[n] = None \/ key'[n].owner = c,
           counter' \in Nat, counter <= counter', newest' \in Nat, newest' <= counter',
           newest' = newest \/ Backed(c, client[c].nth, 0),
           HandleOK(c, h)'
    PROVE  RedlockIInv'
<1>1. RedlockTypeOK'
  BY DEF RedlockIInv, RedlockTypeOK
<1>2. client'[c] = h
  BY DEF RedlockIInv, RedlockTypeOK
<1>3. HandleOK(c, client[c])'
  BY <1>2 DEF HandleOK, Backed, Backs
<1>4. ASSUME NEW d \in Clients, d # c PROVE HandleOK(d, client[d])'
  <2>1. PICK g : g = client[d]
    OBVIOUS
  <2>2. g \in Handles /\ client'[d] = g /\ HandleOK(d, g) /\ counter \in Nat /\ now \in Nat
    BY <1>4, <2>1 DEF RedlockIInv, RedlockTypeOK
  <2>3. \A i, t : Backed(d, i, t) <=> Backed(d, i, t)'
    BY <1>4, OthersBacked DEF RedlockIInv
  <2>4. newest' = newest \/ ~Backed(d, g.nth, 0)
    BY <1>4, OneBacked DEF RedlockIInv
  <2>5. HandleOK(d, g)'
    <3>1. g.token # None => g.token \in Nat
      BY <2>2 DEF Handles
    <3> QED BY <2>2, <2>3, <2>4, <3>1 DEF HandleOK
  <2> QED BY <2>2, <2>5 DEF HandleOK, Backed, Backs
<1> QED BY <1>1, <1>3, <1>4 DEF RedlockIInv

\* What the invariant says of one client.
LEMMA RedlockClient ==
    ASSUME RedlockIInv, NEW c \in Clients
    PROVE  /\ client[c] \in Handles /\ HandleOK(c, client[c])
           /\ client[c].nth \in Nat /\ client[c].began \in Nat /\ client[c].started \in Nat
           /\ client[c].expiration \in Nat /\ client[c].wakeAt \in Nat /\ client[c].token \in Nat \cup {None}
           /\ now \in Nat /\ counter \in Nat /\ newest \in Nat /\ newest <= counter
           /\ Ttl \in Nat /\ RetryInterval \in Nat /\ WaitTimeout \in Nat /\ None \notin Nat /\ None \notin Keys
           /\ key \in [Nodes -> Keys \cup {None}]
  BY RedlockAssumption DEF RedlockIInv, RedlockTypeOK, Handles

\* A handle of an attempt without a lock.
LEMMA Unlocked ==
    ASSUME NEW pc_ \in {"idle", "locking"}, NEW i \in Nat, None \notin Nat
    PROVE  /\ At(pc_, i) \in Handles
           /\ At(pc_, i).pc = pc_ /\ At(pc_, i).token = None /\ At(pc_, i).nth = i
           /\ At(pc_, i).began = 0
  BY DEF At, Handles

\* The keys after c has set some that are free or its own.
LEMMA SetKeys ==
    ASSUME RedlockIInv, NEW c \in Clients, NEW S \in SUBSET Nodes, key' = Set(S, c),
           \A n \in S : Free(n) \/ (key[n] # None /\ key[n].owner = c)
    PROVE  /\ key' \in [Nodes -> Keys \cup {None}]
           /\ \A n \in Nodes : \/ key'[n] = key[n]
                               \/ /\ Free(n) \/ (key[n] # None /\ key[n].owner = c)
                                  /\ key'[n] = None \/ key'[n].owner = c
           /\ \A n \in S : key'[n] # None /\ key'[n].owner = c /\ key'[n].nth = client[c].nth /\ key'[n].until = now + Ttl
           /\ \A n \in Nodes \ S : key'[n] = key[n]
<1>1. PICK k : k = [owner |-> c, nth |-> client[c].nth, until |-> now + Ttl]
  OBVIOUS
<1>2. k \in Keys /\ k # None /\ k.owner = c /\ k.nth = client[c].nth /\ k.until = now + Ttl
  BY <1>1, RedlockClient DEF Keys
<1>3. key' = [n \in Nodes |-> IF n \in S THEN k ELSE key[n]]
  BY <1>1 DEF Set
<1> QED BY <1>2, <1>3, RedlockClient

\* The keys after c has freed its own on some nodes.
LEMMA ClearedKeys ==
    ASSUME RedlockIInv, NEW c \in Clients, NEW S, key' = Cleared(S, c)
    PROVE  /\ key' \in [Nodes -> Keys \cup {None}]
           /\ \A n \in Nodes : \/ key'[n] = key[n]
                               \/ /\ Free(n) \/ (key[n] # None /\ key[n].owner = c)
                                  /\ key'[n] = None \/ key'[n].owner = c
           /\ \A n \in Nodes : key'[n] = key[n] \/ key'[n] = None
  BY RedlockClient DEF Cleared, Own, Free

\* A step that leaves the keys and the counters alone.
LEMMA KeysAlone ==
    ASSUME RedlockIInv, NEW c \in Clients, NEW h \in Handles, UNCHANGED <<key, now, newest>>,
           client' = [client EXCEPT ![c] = h], counter' \in Nat, counter <= counter', HandleOK(c, h)'
    PROVE  RedlockIInv'
<1>1. /\ key' \in [Nodes -> Keys \cup {None}] /\ newest' \in Nat /\ newest' <= counter'
      /\ \A n \in Nodes : key'[n] = key[n]
  BY RedlockClient
<1> QED BY <1>1, RedlockMoves

\* A step that changes keys only.
LEMMA KeysOnly ==
    ASSUME RedlockIInv, NEW c \in Clients, NEW h \in Handles, UNCHANGED <<counter, now, newest>>,
           client' = [client EXCEPT ![c] = h],
           key' \in [Nodes -> Keys \cup {None}],
           \A n \in Nodes : \/ key'[n] = key[n]
                            \/ /\ Free(n) \/ (key[n] # None /\ key[n].owner = c)
                               /\ key'[n] = None \/ key'[n].owner = c,
           HandleOK(c, h)'
    PROVE  RedlockIInv'
<1>1. counter' \in Nat /\ counter <= counter' /\ newest' \in Nat /\ newest' <= counter' /\ newest' = newest /\ UNCHANGED now
  BY RedlockClient
<1> QED BY <1>1, RedlockMoves

\* acquire gives up and frees what it can.
LEMMA GiveUpKeeps ==
    ASSUME RedlockIInv, NEW c \in Clients, GiveUp(c)
    PROVE  RedlockIInv'
<1>1. PICK S \in SUBSET Nodes : key' = Cleared(S, c)
  BY DEF GiveUp
<1>2. PICK h : h = At("idle", client[c].nth)
  OBVIOUS
<1>3. h \in Handles /\ h.pc = "idle" /\ h.token = None
  BY <1>2, Unlocked, RedlockClient
<1>4. UNCHANGED <<counter, now, newest>> /\ client' = [client EXCEPT ![c] = h]
  BY <1>2 DEF GiveUp, Becomes
<1>5. HandleOK(c, h)'
  BY <1>3 DEF HandleOK
<1> QED BY <1>1, <1>3, <1>4, <1>5, ClearedKeys, KeysOnly

\* An attempt begins.
LEMMA StartsKeep ==
    ASSUME RedlockIInv, NEW c \in Clients, Start(c) \/ Wake(c)
    PROVE  RedlockIInv'
<1>1. /\ UNCHANGED <<key, counter, now, newest>> /\ client[c].token = None
      /\ counter' \in Nat /\ counter <= counter'
  BY RedlockClient DEF Start, Wake, HandleOK
<1>2. CASE Start(c)
  <2>1. PICK g : g = At("locking", client[c].nth + 1)
    OBVIOUS
  <2>2. g \in Handles /\ g.pc = "locking" /\ g.token = None
    BY <2>1, Unlocked, RedlockClient
  <2>3. PICK h : h = [g EXCEPT !.began = now, !.started = now]
    OBVIOUS
  <2>4. h \in Handles /\ h.pc = "locking" /\ h.token = None /\ h.began = now
    BY <2>2, <2>3, RedlockClient DEF Handles
  <2>5. client' = [client EXCEPT ![c] = h]
    BY <1>2, <2>1, <2>3 DEF Start, Becomes
  <2>6. HandleOK(c, h)'
    BY <1>1, <2>4, RedlockClient DEF HandleOK
  <2> QED BY <1>1, <2>4, <2>5, <2>6, KeysAlone
<1>3. CASE Wake(c)
  <2>1. PICK h : h = [client[c] EXCEPT !.pc = "locking", !.began = now, !.nth = client[c].nth + 1, !.wakeAt = 0]
    OBVIOUS
  <2>2. PICK g : g = [client[c] EXCEPT !.pc = "locking", !.began = now]
    OBVIOUS
  <2>3. g \in Handles /\ g.pc = "locking" /\ g.token = None /\ g.began = now /\ g.nth = client[c].nth
    BY <1>1, <2>2, RedlockClient DEF Handles
  <2>4. h = [g EXCEPT !.nth = client[c].nth + 1, !.wakeAt = 0]
    BY <2>1, <2>2
  <2>5. client[c].nth + 1 \in Nat
    BY RedlockClient
  <2>6. h \in Handles /\ h.pc = "locking" /\ h.token = None /\ h.began = now
    BY <2>3, <2>4, <2>5 DEF Handles
  <2>7. client' = [client EXCEPT ![c] = h]
    BY <1>3, <2>1 DEF Wake, Becomes
  <2>8. HandleOK(c, h)'
    BY <1>1, <2>6, RedlockClient DEF HandleOK
  <2> QED BY <1>1, <2>6, <2>7, <2>8, KeysAlone
<1> QED BY <1>2, <1>3

\* redlock.acquire resolves: a quorum has the key, from no earlier than the call on.
LEMMA QuorumAcquiredKeeps ==
    ASSUME RedlockIInv, NEW c \in Clients, QuorumAcquired(c)
    PROVE  RedlockIInv'
<1>1. PICK S \in Quorum : (\A n \in S : Free(n)) /\ key' = Set(S, c)
  BY DEF QuorumAcquired
<1>2. S \in SUBSET Nodes
  BY DEF Quorum
<1>3. PICK h : h = [client[c] EXCEPT !.pc = "locked", !.expiration = client[c].began + Ttl]
  OBVIOUS
<1>4. /\ client[c].pc = "locking" /\ client' = [client EXCEPT ![c] = h] /\ UNCHANGED <<counter, now, newest>>
  BY <1>3 DEF QuorumAcquired, Becomes
<1>5. client[c].token = None /\ client[c].began <= now /\ client[c].began + Ttl \in Nat
  BY <1>4, RedlockClient DEF HandleOK
<1>6. /\ h \in Handles /\ h.pc = "locked" /\ h.token = None /\ h.nth = client[c].nth
      /\ h.expiration = client[c].began + Ttl
  BY <1>3, <1>5, RedlockClient DEF Handles
<1>7. /\ key' \in [Nodes -> Keys \cup {None}]
      /\ \A n \in Nodes : \/ key'[n] = key[n]
                          \/ /\ Free(n) \/ (key[n] # None /\ key[n].owner = c)
                             /\ key'[n] = None \/ key'[n].owner = c
      /\ \A n \in S : key'[n] # None /\ key'[n].owner = c /\ key'[n].nth = client[c].nth /\ key'[n].until = now + Ttl
  BY <1>1, <1>2, SetKeys
<1>8. now < h.expiration => \A n \in S : Backs(n, c, h.nth, h.expiration)'
  BY <1>4, <1>5, <1>6, <1>7, RedlockClient DEF Backs
<1>9. HandleOK(c, h)'
  <2>1. h.expiration <= now + Ttl
    BY <1>5, <1>6, RedlockClient
  <2> QED BY <1>1, <1>4, <1>6, <1>8, <2>1 DEF HandleOK, Backed, Quorum
<1> QED BY <1>4, <1>6, <1>7, <1>9, KeysOnly

\* It rejects, whatever keys it has set.
LEMMA QuorumRefusedKeeps ==
    ASSUME RedlockIInv, NEW c \in Clients, QuorumRefused(c)
    PROVE  RedlockIInv'
<1>1. PICK S \in SUBSET {n \in Nodes : Free(n)} : key' = Set(S, c)
  BY DEF QuorumRefused
<1>2. client[c].pc = "locking" /\ UNCHANGED <<counter, now, newest>>
  BY DEF QuorumRefused
<1>3. client[c].token = None
  BY <1>2, RedlockClient DEF HandleOK
<1>4. PICK h \in Handles : h.pc \in {"idle", "sleeping"} /\ h.token = None /\ client' = [client EXCEPT ![c] = h]
  <2>1. CASE Becomes(c, At("idle", client[c].nth))
    <3>1. PICK h : h = At("idle", client[c].nth)
      OBVIOUS
    <3>2. h \in Handles /\ h.pc = "idle" /\ h.token = None
      BY <3>1, Unlocked, RedlockClient
    <3> QED BY <2>1, <3>1, <3>2 DEF Becomes
  <2>2. ASSUME NEW w \in Nat, Becomes(c, [client[c] EXCEPT !.pc = "sleeping", !.wakeAt = w])
        PROVE  \E h \in Handles : h.pc \in {"idle", "sleeping"} /\ h.token = None /\ client' = [client EXCEPT ![c] = h]
    <3>1. PICK h : h = [client[c] EXCEPT !.pc = "sleeping", !.wakeAt = w]
      OBVIOUS
    <3>2. h \in Handles /\ h.pc = "sleeping" /\ h.token = None
      BY <1>3, <3>1, RedlockClient DEF Handles
    <3> QED BY <2>2, <3>1, <3>2 DEF Becomes
  <2>3. PICK left : left = WaitTimeout - (now - client[c].started)
    OBVIOUS
  <2>4. PICK w : w = now + (IF RetryInterval < left THEN RetryInterval ELSE left)
    OBVIOUS
  <2>5. left > 0 => w \in Nat
    BY <2>3, <2>4, RedlockClient
  <2>6. \/ Becomes(c, At("idle", client[c].nth))
        \/ left > 0 /\ Becomes(c, [client[c] EXCEPT !.pc = "sleeping", !.wakeAt = w])
    BY <2>3, <2>4 DEF QuorumRefused
  <2> QED BY <2>1, <2>2, <2>5, <2>6
<1>5. HandleOK(c, h)'
  BY <1>4 DEF HandleOK
<1>6. S \in SUBSET Nodes /\ \A n \in S : Free(n)
  BY <1>1
<1>7. /\ key' \in [Nodes -> Keys \cup {None}]
      /\ \A n \in Nodes : \/ key'[n] = key[n]
                          \/ /\ Free(n) \/ (key[n] # None /\ key[n].owner = c)
                             /\ key'[n] = None \/ key'[n].owner = c
  BY <1>1, <1>6, SetKeys
<1> QED BY <1>2, <1>4, <1>5, <1>7, KeysOnly

\* The lock is looked at, and the token asked for; it is larger than any before.
LEMMA MintingKeeps ==
    ASSUME RedlockIInv, NEW c \in Clients, Locked(c) \/ Mint(c)
    PROVE  RedlockIInv'
<1>1. CASE /\ client[c].pc = "locked" /\ UNCHANGED <<key, counter, now, newest>>
           /\ Becomes(c, [client[c] EXCEPT !.pc = "minting"])
  <2>1. PICK h : h = [client[c] EXCEPT !.pc = "minting"]
    OBVIOUS
  <2>2. /\ h \in Handles /\ h.pc = "minting" /\ h.nth = client[c].nth /\ h.expiration = client[c].expiration
        /\ h.token = client[c].token
    BY <2>1, RedlockClient DEF Handles
  <2>3. h.token = None /\ (now < h.expiration => Backed(c, h.nth, h.expiration)) /\ h.expiration <= now + Ttl
    BY <1>1, <2>2, RedlockClient DEF HandleOK
  <2>4. HandleOK(c, h)
    BY <2>2, <2>3 DEF HandleOK
  <2>5. HandleOK(c, h)'
    BY <1>1, <2>4 DEF HandleOK, Backed, Backs, Quorum
  <2>6. client' = [client EXCEPT ![c] = h] /\ counter' \in Nat /\ counter <= counter'
    BY <1>1, <2>1, RedlockClient DEF Becomes
  <2> QED BY <1>1, <2>2, <2>5, <2>6, KeysAlone
<1>2. CASE Mint(c)
  <2>1. PICK h : h = [client[c] EXCEPT !.token = counter + 1]
    OBVIOUS
  <2>2. /\ client[c].pc = "minting" /\ counter' = counter + 1 /\ client' = [client EXCEPT ![c] = h]
        /\ UNCHANGED <<key, now, newest>>
    BY <1>2, <2>1 DEF Mint, Becomes
  <2>3. /\ h \in Handles /\ h.pc = "minting" /\ h.nth = client[c].nth /\ h.expiration = client[c].expiration
        /\ h.token = counter + 1
    BY <2>1, <2>2, RedlockClient DEF Handles
  <2>4. (now < h.expiration => Backed(c, h.nth, h.expiration)) /\ h.expiration <= now + Ttl
    BY <2>2, <2>3, RedlockClient DEF HandleOK
  <2>5. now < h.expiration => Backed(c, h.nth, h.expiration)'
    BY <2>2, <2>4 DEF Backed, Backs, Quorum
  <2>6. newest < counter + 1 /\ counter' \in Nat /\ counter <= counter' /\ h.token <= counter'
    BY <2>2, <2>3, RedlockClient
  <2>7. HandleOK(c, h)'
    BY <2>2, <2>3, <2>4, <2>5, <2>6 DEF HandleOK
  <2> QED BY <2>2, <2>3, <2>6, <2>7, KeysAlone
<1> QED BY <1>1, <1>2, GiveUpKeeps DEF Locked

\* The token has come and the lock is still valid: nobody else was granted since.
LEMMA MintedKeeps ==
    ASSUME RedlockIInv, NEW c \in Clients, Minted(c)
    PROVE  RedlockIInv'
<1>1. CASE GiveUp(c)
  BY <1>1, GiveUpKeeps
<1>2. CASE ~GiveUp(c)
  <2>1. PICK h : h = [client[c] EXCEPT !.pc = "held"]
    OBVIOUS
  <2>2. /\ client[c].pc = "minting" /\ client[c].token # None /\ client[c].expiration > now
        /\ client' = [client EXCEPT ![c] = h] /\ UNCHANGED <<key, counter, now>>
        /\ newest' = IF client[c].token > newest THEN client[c].token ELSE newest
    BY <1>2, <2>1 DEF Minted, Becomes, validExpiration
  <2>3. /\ h \in Handles /\ h.pc = "held" /\ h.nth = client[c].nth /\ h.expiration = client[c].expiration
        /\ h.token = client[c].token
    BY <2>1, RedlockClient DEF Handles
  <2>4. now < client[c].expiration
    BY <2>2, RedlockClient
  <2>5. Backed(c, h.nth, h.expiration) /\ h.expiration <= now + Ttl
    BY <2>2, <2>3, <2>4, RedlockClient DEF HandleOK
  <2>6. Backed(c, client[c].nth, 0)
    BY <2>3, <2>5, BackedAtAll DEF RedlockIInv
  <2>7. newest < client[c].token /\ client[c].token \in Nat /\ client[c].token <= counter
    BY <2>2, <2>6, RedlockClient DEF HandleOK
  <2>8. newest' = h.token /\ newest' \in Nat /\ newest' <= counter' /\ counter' \in Nat /\ counter <= counter'
    BY <2>2, <2>3, <2>7, RedlockClient
  <2>9. Backed(c, h.nth, h.expiration)'
    BY <2>2, <2>5 DEF Backed, Backs, Quorum
  <2>10. HandleOK(c, h)'
    BY <2>2, <2>3, <2>5, <2>7, <2>8, <2>9 DEF HandleOK
  <2>11. key' \in [Nodes -> Keys \cup {None}] /\ \A n \in Nodes : key'[n] = key[n]
    BY <2>2, RedlockClient
  <2> QED BY <2>2, <2>3, <2>6, <2>8, <2>10, <2>11, RedlockMoves
<1> QED BY <1>1, <1>2

\* A renewal begins, and its answer is looked at.
LEMMA RenewKeeps ==
    ASSUME RedlockIInv, NEW c \in Clients, StartRenew(c) \/ Extended(c)
    PROVE  RedlockIInv'
<1>1. CASE StartRenew(c)
  <2>1. PICK h : h = [client[c] EXCEPT !.pc = "extending", !.began = now]
    OBVIOUS
  <2>2. /\ client[c].pc \in {"held", "unreleased"} /\ client' = [client EXCEPT ![c] = h]
        /\ UNCHANGED <<key, counter, now, newest>>
    BY <1>1, <2>1 DEF StartRenew, Becomes
  <2>3. /\ h \in Handles /\ h.pc = "extending" /\ h.nth = client[c].nth /\ h.expiration = client[c].expiration
        /\ h.token = client[c].token /\ h.began = now
    BY <2>1, RedlockClient DEF Handles
  <2>4. /\ now < h.expiration => Backed(c, h.nth, h.expiration)
        /\ Backed(c, h.nth, 0) => h.token = newest
        /\ h.token # None /\ h.token <= counter /\ h.expiration <= now + Ttl
    BY <2>2, <2>3, RedlockClient DEF HandleOK
  <2>5. HandleOK(c, h)
    BY <2>3, <2>4, RedlockClient DEF HandleOK
  <2>6. HandleOK(c, h)' /\ counter' \in Nat /\ counter <= counter'
    BY <2>2, <2>5, RedlockClient DEF HandleOK, Backed, Backs, Quorum
  <2> QED BY <2>2, <2>3, <2>6, KeysAlone
<1>2. CASE Extended(c) /\ ~GiveUp(c)
  <2>1. PICK h : h = [client[c] EXCEPT !.pc = "held", !.expiration = client[c].wakeAt, !.wakeAt = 0]
    OBVIOUS
  <2>2. /\ client[c].pc = "extended" /\ client' = [client EXCEPT ![c] = h]
        /\ UNCHANGED <<key, counter, now, newest>>
    BY <1>2, <2>1 DEF Extended, Becomes
  <2>3. PICK g : g = [client[c] EXCEPT !.pc = "held", !.expiration = client[c].wakeAt]
    OBVIOUS
  <2>4. /\ g \in Handles /\ g.pc = "held" /\ g.nth = client[c].nth /\ g.expiration = client[c].wakeAt
        /\ g.token = client[c].token
    BY <2>3, RedlockClient DEF Handles
  <2>5. h = [g EXCEPT !.wakeAt = 0]
    BY <2>1, <2>3
  <2>6. /\ h \in Handles /\ h.pc = "held" /\ h.nth = client[c].nth /\ h.expiration = client[c].wakeAt
        /\ h.token = client[c].token
    BY <2>4, <2>5 DEF Handles
  <2>7. /\ now < h.expiration => Backed(c, h.nth, h.expiration)
        /\ Backed(c, h.nth, 0) => h.token = newest
        /\ h.token # None /\ h.token <= counter /\ h.expiration <= now + Ttl
    BY <2>2, <2>6, RedlockClient DEF HandleOK
  <2>8. HandleOK(c, h)
    BY <2>6, <2>7 DEF HandleOK
  <2>9. HandleOK(c, h)' /\ counter' \in Nat /\ counter <= counter'
    BY <2>2, <2>8, RedlockClient DEF HandleOK, Backed, Backs, Quorum
  <2> QED BY <2>2, <2>6, <2>9, KeysAlone
<1> QED BY <1>1, <1>2, GiveUpKeeps

\* The nodes that still have the key extend it: a quorum of them had it, so the
\* handle was backed all along, and no newer token was granted.
LEMMA ExtendKeeps ==
    ASSUME RedlockIInv, NEW c \in Clients, Extend(c)
    PROVE  RedlockIInv'
<1>1. PICK S \in SUBSET {n \in Nodes : ~Free(n) /\ Own(n, c)} :
        /\ key' = Set(S, c)
        /\ \/ /\ S \in Quorum
              /\ Becomes(c, [client[c] EXCEPT !.pc = "extended", !.wakeAt = client[c].began + Ttl])
           \/ Becomes(c, At("idle", client[c].nth))
  BY DEF Extend
<1>2. client[c].pc = "extending" /\ UNCHANGED <<counter, now, newest>>
  BY DEF Extend
<1>3. S \in SUBSET Nodes /\ \A n \in S : ~Free(n) /\ Own(n, c)
  BY <1>1
<1>4. \A n \in S : Backs(n, c, client[c].nth, 0)
  BY <1>3, RedlockClient DEF Free, Own, Backs, Keys
<1>5. /\ key' \in [Nodes -> Keys \cup {None}]
      /\ \A n \in Nodes : \/ key'[n] = key[n]
                          \/ /\ Free(n) \/ (key[n] # None /\ key[n].owner = c)
                             /\ key'[n] = None \/ key'[n].owner = c
      /\ \A n \in S : key'[n] # None /\ key'[n].owner = c /\ key'[n].nth = client[c].nth /\ key'[n].until = now + Ttl
  <2>1. \A n \in S : key[n] # None /\ key[n].owner = c
    BY <1>4 DEF Backs
  <2> QED BY <1>1, <1>3, <2>1, SetKeys
<1>6. CASE Becomes(c, At("idle", client[c].nth))
  <2>1. PICK h : h = At("idle", client[c].nth)
    OBVIOUS
  <2>2. h \in Handles /\ h.pc = "idle" /\ h.token = None
    BY <2>1, Unlocked, RedlockClient
  <2>3. client' = [client EXCEPT ![c] = h] /\ HandleOK(c, h)'
    BY <1>6, <2>1, <2>2 DEF Becomes, HandleOK
  <2> QED BY <1>2, <1>5, <2>2, <2>3, KeysOnly
<1>7. CASE /\ S \in Quorum
           /\ Becomes(c, [client[c] EXCEPT !.pc = "extended", !.wakeAt = client[c].began + Ttl])
  <2>1. PICK w : w = client[c].began + Ttl
    OBVIOUS
  <2>2. PICK h : h = [client[c] EXCEPT !.pc = "extended", !.wakeAt = w]
    OBVIOUS
  <2>3. client' = [client EXCEPT ![c] = h]
    BY <1>7, <2>1, <2>2 DEF Becomes
  <2>4. w \in Nat /\ w <= now + Ttl
    BY <1>2, <2>1, RedlockClient DEF HandleOK
  <2>5. /\ h \in Handles /\ h.pc = "extended" /\ h.nth = client[c].nth /\ h.token = client[c].token /\ h.wakeAt = w
        /\ h.expiration = client[c].expiration
    BY <2>2, <2>4, RedlockClient DEF Handles
  <2>6. Backed(c, client[c].nth, 0)
    BY <1>4, <1>7 DEF Backed
  <2>7. h.token = newest /\ h.token # None /\ h.token <= counter
    BY <1>2, <2>5, <2>6, RedlockClient DEF HandleOK
  <2>8. ASSUME NEW t \in Nat, t <= now + Ttl, now < t PROVE Backed(c, h.nth, t)'
    <3>1. \A n \in S : Backs(n, c, h.nth, t)'
      BY <1>2, <1>5, <2>5, <2>8, RedlockClient DEF Backs
    <3> QED BY <1>7, <3>1 DEF Backed, Quorum
  <2>9. HandleOK(c, h)'
    <3>1. h.expiration \in Nat /\ h.expiration <= now + Ttl /\ h.wakeAt \in Nat /\ h.wakeAt <= now + Ttl
      BY <1>2, <2>4, <2>5, RedlockClient DEF HandleOK
    <3>2. /\ now < h.expiration => Backed(c, h.nth, h.expiration)'
          /\ now < h.wakeAt => Backed(c, h.nth, h.wakeAt)'
      BY <2>8, <3>1
    <3> QED BY <1>2, <2>5, <2>7, <3>1, <3>2 DEF HandleOK
  <2> QED BY <1>2, <1>5, <2>3, <2>5, <2>9, KeysOnly
<1> QED BY <1>1, <1>6, <1>7

\* A release frees keys; one that throws leaves a handle nobody counts on.
LEMMA ReleaseKeeps ==
    ASSUME RedlockIInv, NEW c \in Clients, Release(c)
    PROVE  RedlockIInv'
<1>1. PICK S \in SUBSET Nodes : key' = Cleared(S, c)
  BY DEF Release
<1>2. client[c].pc \in {"held", "unreleased"} /\ UNCHANGED <<counter, now, newest>>
  BY DEF Release
<1>3. /\ key' \in [Nodes -> Keys \cup {None}]
      /\ \A n \in Nodes : \/ key'[n] = key[n]
                          \/ /\ Free(n) \/ (key[n] # None /\ key[n].owner = c)
                             /\ key'[n] = None \/ key'[n].owner = c
      /\ \A n \in Nodes : key'[n] = key[n] \/ key'[n] = None
  BY <1>1, ClearedKeys
<1>4. CASE Becomes(c, At("idle", client[c].nth))
  <2>1. PICK h : h = At("idle", client[c].nth)
    OBVIOUS
  <2>2. h \in Handles /\ h.pc = "idle" /\ h.token = None
    BY <2>1, Unlocked, RedlockClient
  <2>3. client' = [client EXCEPT ![c] = h] /\ HandleOK(c, h)'
    BY <1>4, <2>1, <2>2 DEF Becomes, HandleOK
  <2> QED BY <1>2, <1>3, <2>2, <2>3, KeysOnly
<1>5. CASE Becomes(c, [client[c] EXCEPT !.pc = "unreleased", !.expiration = 0])
  <2>1. PICK h : h = [client[c] EXCEPT !.pc = "unreleased", !.expiration = 0]
    OBVIOUS
  <2>2. client' = [client EXCEPT ![c] = h]
    BY <1>5, <2>1 DEF Becomes
  <2>3. h \in Handles /\ h.pc = "unreleased" /\ h.nth = client[c].nth /\ h.token = client[c].token /\ h.expiration = 0
    BY <2>1, RedlockClient DEF Handles
  <2>4. \A n \in Nodes : Backs(n, c, h.nth, 0)' => Backs(n, c, h.nth, 0)
    BY <1>2, <1>3 DEF Backs
  <2>5. Backed(c, h.nth, 0)' => Backed(c, h.nth, 0)
    BY <2>4 DEF Backed, Quorum
  <2>6. (Backed(c, h.nth, 0) => h.token = newest) /\ h.token # None /\ h.token <= counter
    BY <1>2, <2>3, RedlockClient DEF HandleOK
  <2>7. HandleOK(c, h)'
    BY <1>2, <2>3, <2>5, <2>6 DEF HandleOK
  <2> QED BY <1>2, <1>3, <2>2, <2>3, <2>7, KeysOnly
<1> QED BY <1>4, <1>5 DEF Release

\* Time passes: keys run out, and no sooner than the handles they back.
LEMMA RedlockTickKeeps ==
    ASSUME RedlockIInv, Tick
    PROVE  RedlockIInv'
<1>1. now' = now + 1 /\ UNCHANGED <<key, counter, client, newest>> /\ now \in Nat
  BY DEF Tick, RedlockIInv, RedlockTypeOK
<1>2. RedlockTypeOK' /\ newest' <= counter'
  BY <1>1 DEF RedlockIInv, RedlockTypeOK
<1>3. ASSUME NEW c \in Clients PROVE HandleOK(c, client[c])'
  <2>1. PICK g : g = client[c]
    OBVIOUS
  <2>2. g \in Handles /\ HandleOK(c, g) /\ client'[c] = g
    BY <1>1, <2>1, RedlockClient
  <2>3. ASSUME NEW i, NEW t \in Nat PROVE (now' < t /\ Backed(c, i, t)) => Backed(c, i, t)'
    <3>1. now' < t => \A n \in Nodes : Backs(n, c, i, t) => Backs(n, c, i, t)'
      BY <1>1, RedlockClient DEF Backs, Keys
    <3> QED BY <3>1 DEF Backed, Quorum
  <2>4. ASSUME NEW i PROVE Backed(c, i, 0)' => Backed(c, i, 0)
    <3>1. \A n \in Nodes : Backs(n, c, i, 0)' => Backs(n, c, i, 0)
      BY <1>1, RedlockClient DEF Backs, Keys
    <3> QED BY <3>1 DEF Backed, Quorum
  <2>5. /\ g.expiration \in Nat /\ g.wakeAt \in Nat /\ g.began \in Nat
    BY <2>2 DEF Handles
  <2>6. /\ now' < g.expiration => now < g.expiration
        /\ now' < g.wakeAt => now < g.wakeAt
        /\ g.began <= now => g.began <= now'
        /\ g.expiration <= now + Ttl => g.expiration <= now' + Ttl
        /\ g.wakeAt <= now + Ttl => g.wakeAt <= now' + Ttl
    BY <1>1, <2>5, RedlockAssumption
  <2>7. HandleOK(c, g)'
    BY <1>1, <2>2, <2>3, <2>4, <2>5, <2>6 DEF HandleOK
  <2> QED BY <2>2, <2>7 DEF HandleOK, Backed, Backs
<1> QED BY <1>2, <1>3 DEF RedlockIInv

\* No client has a handle at first.
LEMMA RedlockStarts == RedlockInit => RedlockIInv
<1> SUFFICES ASSUME RedlockInit PROVE RedlockIInv
  OBVIOUS
<1>1. PICK h : h = At("idle", 0)
  OBVIOUS
<1>2. h \in Handles /\ h.pc = "idle" /\ h.token = None
  BY <1>1, Unlocked, RedlockAssumption
<1>3. client = [c \in Clients |-> h]
  BY <1>1 DEF RedlockInit
<1>4. RedlockTypeOK
  BY <1>2, <1>3 DEF RedlockInit, RedlockTypeOK
<1>5. \A c \in Clients : HandleOK(c, client[c])
  <2>1. \A c \in Clients : HandleOK(c, h)
    BY <1>2 DEF HandleOK
  <2> QED BY <1>3, <2>1
<1> QED BY <1>4, <1>5 DEF RedlockIInv, RedlockInit

\* Every step keeps the invariant.
LEMMA RedlockSteps == RedlockIInv /\ [RedlockNext]_vars => RedlockIInv'
<1> SUFFICES ASSUME RedlockIInv, [RedlockNext]_vars PROVE RedlockIInv'
  OBVIOUS
<1>1. CASE UNCHANGED vars
  BY <1>1 DEF vars, RedlockIInv, RedlockTypeOK, HandleOK, Backed, Backs
<1>2. ASSUME NEW c \in Clients, MintFails(c) PROVE RedlockIInv'
  BY <1>2, GiveUpKeeps DEF MintFails
<1> QED BY <1>1, <1>2, StartsKeep, QuorumAcquiredKeeps, QuorumRefusedKeeps, MintingKeeps, MintedKeeps,
           RenewKeeps, ExtendKeeps, ReleaseKeeps, RedlockTickKeeps DEF RedlockNext

\* redlock.ts: the holder of a grant that has not run out has the newest token
\* of all grants, for any number of clients and nodes and whatever the nodes,
\* the token authority and the clock do between two of its steps.
THEOREM RedlockNewest == RedlockSpec => []LiveGrantIsNewest
<1>1. RedlockIInv => LiveGrantIsNewest
  <2> SUFFICES ASSUME RedlockIInv, NEW c \in Clients, client[c].pc \in {"held", "extending", "extended"},
                      now < client[c].expiration
               PROVE  client[c].token = newest
    BY DEF LiveGrantIsNewest
  <2>1. Backed(c, client[c].nth, client[c].expiration)
    BY RedlockClient DEF HandleOK
  <2>2. Backed(c, client[c].nth, 0)
    BY <2>1, BackedAtAll DEF RedlockIInv
  <2> QED BY <2>2, RedlockClient DEF HandleOK
<1> QED BY <1>1, RedlockStarts, RedlockSteps, PTL DEF RedlockSpec

-----------------------------------------------------------------------------
(* The executable model of leases and fencing.                             *)

\* The record of the executable model.
OracleStateType(x) ==
    x \in [now : 0..MaxTime, holder : OracleClients \cup {NULL}, holderAlive : BOOLEAN, leaseFence : 0..MaxFence,
           expiresAt : Nat, lastFence : 0..MaxFence, tokens : [OracleClients -> 0..MaxFence],
           resourceFence : 0..MaxFence, resourceValue : Values \cup {0}]

\* Nothing is left to expire between two steps, and a holder's fence is a token.
OracleSettled(x) ==
    x.holder # NULL => x.now < x.expiresAt /\ x.leaseFence \in 1..MaxFence

\* What was written is one of the values.
OracleWritten(x) == x.resourceFence # 0 => x.resourceValue \in Values

\* The inductive invariant of the executable model.
OracleSound(x) == OracleStateType(x) /\ OracleSettled(x) /\ OracleWritten(x)

\* Hence `expire` at the start of a step finds nothing to do.
LEMMA ExpireIdle ==
  ASSUME NEW x, OracleSound(x)
  PROVE  Oracle!expire(x) = x
  BY DEF OracleSound, OracleStateType, OracleSettled, Oracle!expire

\* The initial state is sound.
LEMMA OracleFirst == OracleSound(Oracle!initialState)
<1> USE OracleAssumption
<1> DEFINE x == Oracle!initialState
<1>1. x.tokens \in [OracleClients -> 0..MaxFence]
  BY DEF Oracle!initialState
<1> QED BY <1>1 DEF OracleSound, OracleStateType, OracleSettled, OracleWritten, Oracle!initialState

\* What the lease and the store see of a state.
SameStore(x, y) == y.resourceFence = x.resourceFence /\ y.resourceValue = x.resourceValue

\* Freeing the lease.
LEMMA FreedSound ==
  ASSUME NEW x, OracleStateType(x), OracleWritten(x)
  PROVE  LET y == Oracle!freed(x) IN
         OracleSound(y) /\ y.holder = NULL /\ y.lastFence = x.lastFence /\ SameStore(x, y)
<1> USE OracleAssumption
<1> DEFINE z1 == [x EXCEPT !.holder = NULL]
           z2 == [z1 EXCEPT !.holderAlive = FALSE]
           z3 == [z2 EXCEPT !.leaseFence = 0]
           z4 == [z3 EXCEPT !.expiresAt = 0]
<1>1. Oracle!freed(x) = z4
  BY DEF Oracle!freed, OracleStateType
<1>2. OracleStateType(z1) /\ z1.holder = NULL /\ z1.lastFence = x.lastFence /\ SameStore(x, z1)
  BY DEF OracleStateType, SameStore
<1> HIDE DEF z1
<1>3. OracleStateType(z2) /\ z2.holder = NULL /\ z2.lastFence = x.lastFence /\ SameStore(x, z2)
  BY <1>2 DEF OracleStateType, SameStore
<1> HIDE DEF z2
<1>4. OracleStateType(z3) /\ z3.holder = NULL /\ z3.lastFence = x.lastFence /\ SameStore(x, z3)
  BY <1>3 DEF OracleStateType, SameStore
<1> HIDE DEF z3
<1>5. OracleStateType(z4) /\ z4.holder = NULL /\ z4.lastFence = x.lastFence /\ SameStore(x, z4)
  BY <1>4 DEF OracleStateType, SameStore
<1> HIDE DEF z4
<1> QED BY <1>1, <1>5 DEF OracleSound, OracleSettled, OracleWritten, SameStore

\* A step that grants nothing and writes nothing: the lease stays or ends.
Keeps(x, y) ==
    /\ OracleSound(y) /\ y.lastFence = x.lastFence /\ SameStore(x, y)
    /\ y.holder = NULL \/ (y.holder = x.holder /\ y.leaseFence = x.leaseFence)

\* Time passes, and may end the lease.
LEMMA TickKeeps ==
  ASSUME NEW x, NEW y, OracleSound(x), x.now < MaxTime, y = Oracle!expire([x EXCEPT !.now = @ + 1])
  PROVE  Keeps(x, y)
<1> USE OracleAssumption
<1> DEFINE z == [x EXCEPT !.now = @ + 1]
<1>1. /\ OracleStateType(z) /\ z.now = x.now + 1 /\ z.holder = x.holder /\ z.leaseFence = x.leaseFence
      /\ z.lastFence = x.lastFence /\ SameStore(x, z)
      /\ z.holder # NULL => z.leaseFence \in 1..MaxFence
      /\ OracleWritten(z)
  BY DEF OracleSound, OracleStateType, OracleSettled, SameStore, OracleWritten
<1> HIDE DEF z
<1>2. CASE z.holder # NULL /\ z.now >= z.expiresAt
  <2>1. y = Oracle!freed(z)
    BY <1>2 DEF Oracle!expire, z
  <2> QED BY <1>1, <2>1, FreedSound DEF Keeps, SameStore
<1>3. CASE ~(z.holder # NULL /\ z.now >= z.expiresAt)
  <2>1. y = z
    BY <1>3 DEF Oracle!expire, z
  <2>2. z.now \in Int /\ z.expiresAt \in Int
    BY <1>1 DEF OracleStateType
  <2>3. OracleSettled(z)
    BY <1>1, <1>3, <2>2 DEF OracleSettled
  <2> QED BY <1>1, <2>1, <2>3 DEF OracleSound, Keeps
<1> QED BY <1>2, <1>3

\* A renewal never shortens the lease below the clock.
LEMMA RenewKeepsLease ==
  ASSUME NEW x, NEW y, OracleSound(x), Oracle!isActive(x),
         y = [x EXCEPT !.expiresAt = Oracle!Least(MaxTime + TTL, @ + 1)]
  PROVE  Keeps(x, y)
<1> USE OracleAssumption
<1> DEFINE e == Oracle!Least(MaxTime + TTL, x.expiresAt + 1)
<1>1. x.now \in 0..MaxTime /\ x.expiresAt \in Nat /\ x.now < x.expiresAt
  BY DEF OracleSound, OracleStateType, OracleSettled, Oracle!isActive
<1>2. e \in Nat /\ x.now < e
  BY <1>1 DEF Oracle!Least
<1> HIDE DEF e
<1>3. y = [x EXCEPT !.expiresAt = e]
  BY DEF e
<1>4. OracleStateType(y) /\ y.now = x.now /\ y.expiresAt = e /\ y.holder = x.holder /\ y.leaseFence = x.leaseFence
      /\ y.lastFence = x.lastFence /\ SameStore(x, y)
  BY <1>2, <1>3 DEF OracleSound, OracleStateType, SameStore
<1>5. OracleSettled(y)
  BY <1>2, <1>4 DEF OracleSound, OracleSettled
<1> QED BY <1>4, <1>5 DEF Keeps, OracleSound, OracleWritten, SameStore

\* A crashed holder keeps its lease until it expires.
LEMMA CrashKeeps ==
  ASSUME NEW x, NEW y, OracleSound(x), y = [x EXCEPT !.holderAlive = FALSE]
  PROVE  Keeps(x, y)
<1>1. OracleStateType(y) /\ y.now = x.now /\ y.expiresAt = x.expiresAt /\ y.holder = x.holder
      /\ y.leaseFence = x.leaseFence /\ y.lastFence = x.lastFence /\ SameStore(x, y)
  BY DEF OracleSound, OracleStateType, SameStore
<1>2. OracleSettled(y)
  BY <1>1 DEF OracleSound, OracleSettled
<1> QED BY <1>1, <1>2 DEF Keeps, OracleSound, OracleWritten, SameStore

\* A grant.
Grants(x, y, c) ==
    /\ OracleSound(y) /\ SameStore(x, y)
    /\ x.holder = NULL /\ y.holder = c
    /\ y.lastFence = x.lastFence + 1 /\ y.leaseFence = x.lastFence + 1

\* acquire grants the next fence.
LEMMA AcquireGrants ==
  ASSUME NEW x, NEW y, OracleSound(x), NEW c \in OracleClients, x.holder = NULL, x.lastFence < MaxFence,
         y = [x EXCEPT !.lastFence = @ + 1, !.leaseFence = x.lastFence + 1,
                      !.holder = c, !.holderAlive = TRUE,
                      !.expiresAt = Oracle!Least(MaxTime + TTL, x.now + TTL),
                      !.tokens[c] = x.lastFence + 1]
  PROVE  Grants(x, y, c)
<1> USE OracleAssumption
<1> DEFINE e == Oracle!Least(MaxTime + TTL, x.now + TTL)
           f == x.lastFence + 1
           tk == [x.tokens EXCEPT ![c] = f]
           z1 == [x EXCEPT !.lastFence = f]
           z2 == [z1 EXCEPT !.leaseFence = f]
           z3 == [z2 EXCEPT !.holder = c]
           z4 == [z3 EXCEPT !.holderAlive = TRUE]
           z5 == [z4 EXCEPT !.expiresAt = e]
           z6 == [z5 EXCEPT !.tokens = tk]
<1>1. x.now \in 0..MaxTime /\ x.lastFence \in 0..MaxFence /\ x.tokens \in [OracleClients -> 0..MaxFence]
  BY DEF OracleSound, OracleStateType
<1>2. e \in Nat /\ x.now < e /\ f \in 1..MaxFence
  BY <1>1 DEF Oracle!Least
<1>3. tk \in [OracleClients -> 0..MaxFence]
  BY <1>1, <1>2
<1>4. y = z6
  BY DEF OracleSound, OracleStateType
<1> HIDE DEF e, f, tk
<1> DEFINE P(z) == OracleStateType(z) /\ z.now = x.now /\ SameStore(x, z)
<1>5. P(z1) /\ z1.lastFence = f
  BY <1>2 DEF OracleSound, OracleStateType, SameStore
<1> HIDE DEF z1
<1>6. P(z2) /\ z2.lastFence = f /\ z2.leaseFence = f
  BY <1>5, <1>2 DEF OracleStateType, SameStore
<1> HIDE DEF z2
<1>7. P(z3) /\ z3.lastFence = f /\ z3.leaseFence = f /\ z3.holder = c
  BY <1>6 DEF OracleStateType, SameStore
<1> HIDE DEF z3
<1>8. P(z4) /\ z4.lastFence = f /\ z4.leaseFence = f /\ z4.holder = c
  BY <1>7 DEF OracleStateType, SameStore
<1> HIDE DEF z4
<1>9. P(z5) /\ z5.lastFence = f /\ z5.leaseFence = f /\ z5.holder = c /\ z5.expiresAt = e
  BY <1>8, <1>2 DEF OracleStateType, SameStore
<1> HIDE DEF z5
<1>10. P(z6) /\ z6.lastFence = f /\ z6.leaseFence = f /\ z6.holder = c /\ z6.expiresAt = e
  BY <1>9, <1>3 DEF OracleStateType, SameStore
<1> HIDE DEF z6
<1>11. OracleSettled(y)
  BY <1>2, <1>4, <1>10 DEF OracleSettled
<1>12. OracleSound(y) /\ SameStore(x, y) /\ y.holder = c /\ y.lastFence = f /\ y.leaseFence = f
  BY <1>4, <1>10, <1>11 DEF OracleSound, OracleWritten, SameStore
<1> QED BY <1>12 DEF Grants, f

\* A write.
Writes(x, y, v) ==
    /\ OracleSound(y)
    /\ y.holder = x.holder /\ y.leaseFence = x.leaseFence /\ y.lastFence = x.lastFence
    /\ y.resourceFence = x.leaseFence /\ y.resourceFence \in 1..MaxFence /\ y.resourceValue = v
    /\ \/ x.leaseFence > x.resourceFence
       \/ x.leaseFence = x.resourceFence /\ v = x.resourceValue

\* write takes a fresh fence or an exact replay.
LEMMA WriteWrites ==
  ASSUME NEW x, NEW y, OracleSound(x), NEW c \in OracleClients, NEW v \in Values,
         Oracle!isActive(x), x.holder = c, x.tokens[c] = x.leaseFence,
         \/ x.tokens[c] > x.resourceFence
         \/ x.tokens[c] = x.resourceFence /\ v = x.resourceValue,
         y = [x EXCEPT !.resourceFence = x.tokens[c], !.resourceValue = v]
  PROVE  Writes(x, y, v)
<1> DEFINE z == [x EXCEPT !.resourceFence = x.leaseFence]
           w == [z EXCEPT !.resourceValue = v]
<1>1. y = w
  BY DEF OracleSound, OracleStateType
<1>2. x.leaseFence \in 1..MaxFence /\ x.now < x.expiresAt
  BY DEF OracleSound, OracleSettled, Oracle!isActive
<1>3. OracleStateType(z) /\ z.now = x.now /\ z.expiresAt = x.expiresAt /\ z.holder = x.holder
      /\ z.leaseFence = x.leaseFence /\ z.lastFence = x.lastFence /\ z.resourceFence = x.leaseFence
  BY DEF OracleSound, OracleStateType
<1> HIDE DEF z
<1>4. OracleStateType(w) /\ w.now = x.now /\ w.expiresAt = x.expiresAt /\ w.holder = x.holder
      /\ w.leaseFence = x.leaseFence /\ w.lastFence = x.lastFence /\ w.resourceFence = x.leaseFence
      /\ w.resourceValue = v
  BY <1>3 DEF OracleStateType
<1> HIDE DEF w
<1>5. OracleSettled(y)
  BY <1>1, <1>2, <1>4 DEF OracleSettled
<1> QED BY <1>1, <1>2, <1>4, <1>5 DEF Writes, OracleSound, OracleWritten

\* What a step of the oracle is.
LEMMA OracleMoves ==
  ASSUME NEW x, OracleSound(x), x = oracle, Oracle!step(Oracle!expire(oracle)), NEW y, y = oracle'
  PROVE  \/ Keeps(x, y)
         \/ \E c \in OracleClients : Grants(x, y, c)
         \/ \E v \in Values : Writes(x, y, v)
<1>1. Oracle!step(x)
  BY ExpireIdle
<1>2. CASE Oracle!tick(x)
  BY <1>2, TickKeeps DEF Oracle!tick
<1>3. ASSUME NEW c \in OracleClients, Oracle!acquire(x, c) PROVE Grants(x, y, c)
  BY <1>3, AcquireGrants DEF Oracle!acquire
<1>4. ASSUME NEW c \in OracleClients, Oracle!renew(x, c) PROVE Keeps(x, y)
  BY <1>4, RenewKeepsLease DEF Oracle!renew
<1>5. ASSUME NEW c \in OracleClients, Oracle!release(x, c) PROVE Keeps(x, y)
  BY <1>5, FreedSound DEF Oracle!release, Keeps, OracleSound
<1>6. ASSUME NEW c \in OracleClients, Oracle!crash(x, c) PROVE Keeps(x, y)
  BY <1>6, CrashKeeps DEF Oracle!crash
<1>7. ASSUME NEW c \in OracleClients, NEW v \in Values, Oracle!write(x, c, v) PROVE Writes(x, y, v)
  BY <1>7, WriteWrites DEF Oracle!write
<1> QED BY <1>1, <1>2, <1>3, <1>4, <1>5, <1>6, <1>7 DEF Oracle!step

\* Soundness is inductive.
LEMMA OracleSoundStep ==
  ASSUME OracleSound(oracle), [Oracle!step(Oracle!expire(oracle))]_oracle
  PROVE  OracleSound(oracle)'
<1>1. PICK x, y : x = oracle /\ y = oracle'
  OBVIOUS
<1>2. OracleSound(y)
  BY <1>1, OracleMoves DEF Keeps, Grants, Writes
<1> QED BY <1>1, <1>2

\* Every step is one of the abstract lease, or changes nothing of it.
LEMMA OracleLeaseStep ==
  ASSUME OracleSound(oracle), [Oracle!step(Oracle!expire(oracle))]_oracle
  PROVE  [Oracle!Lease!LeaseNext]_(Oracle!Lease!leaseState)
<1> USE OracleAssumption
<1>1. PICK x, y : x = oracle /\ y = oracle'
  OBVIOUS
<1>2. x.leaseFence \in Nat /\ x.lastFence \in Nat /\ OracleSound(x)
  BY <1>1 DEF OracleSound, OracleStateType
<1>3. CASE x = y
  BY <1>1, <1>3 DEF Oracle!Lease!leaseState
<1>4. CASE Keeps(x, y) /\ y.holder = NULL
  <2>1. CASE x.holder = NULL
    BY <1>1, <1>4, <2>1 DEF Keeps, Oracle!Lease!leaseState
  <2>2. CASE x.holder # NULL
    <3>1. Oracle!Lease!Drop
      BY <1>1, <1>2, <1>4, <2>2 DEF Keeps, Oracle!Lease!Drop
    <3> QED BY <3>1 DEF Oracle!Lease!LeaseNext
  <2> QED BY <2>1, <2>2
<1>5. CASE Keeps(x, y) /\ y.holder = x.holder /\ y.leaseFence = x.leaseFence
  BY <1>1, <1>5 DEF Keeps, Oracle!Lease!leaseState
<1>6. ASSUME NEW c \in OracleClients, Grants(x, y, c) PROVE Oracle!Lease!LeaseNext
  <2>1. Oracle!Lease!Grant(c)
    BY <1>1, <1>2, <1>6 DEF Grants, Oracle!Lease!Grant
  <2> QED BY <2>1 DEF Oracle!Lease!LeaseNext
<1>7. ASSUME NEW v \in Values, Writes(x, y, v) PROVE UNCHANGED Oracle!Lease!leaseState
  BY <1>1, <1>7 DEF Writes, Oracle!Lease!leaseState
<1> QED BY <1>1, <1>2, <1>3, <1>4, <1>5, <1>6, <1>7, OracleMoves DEF Keeps

\* Every step is a fenced write of the store, or changes nothing of it.
LEMMA OracleStoreStep ==
  ASSUME OracleSound(oracle), [Oracle!step(Oracle!expire(oracle))]_oracle
  PROVE  [Oracle!Store!StoreNext]_(Oracle!Store!storeVars)
<1> USE OracleAssumption
<1>1. PICK x, y : x = oracle /\ y = oracle'
  OBVIOUS
<1>2. x.leaseFence \in Nat /\ x.resourceFence \in 0..MaxFence /\ OracleSound(x)
  BY <1>1 DEF OracleSound, OracleStateType
<1>3. CASE SameStore(x, y)
  BY <1>1, <1>3 DEF SameStore, Oracle!Store!storeVars
<1>4. ASSUME NEW v \in Values, Writes(x, y, v) PROVE [Oracle!Store!StoreNext]_(Oracle!Store!storeVars)
  <2> DEFINE w == [fencingToken |-> y.resourceFence, operationId |-> "op", payloadSha256 |-> v]
             old == [fencingToken |-> x.resourceFence, operationId |-> "op", payloadSha256 |-> x.resourceValue]
  <2>1. w \in Oracle!Store!FencedWrites
    BY <1>4 DEF Writes, Oracle!Store!FencedWrites
  <2>2. y.resourceFence # 0 /\ y.resourceValue = v
    BY <1>4 DEF Writes
  <2>3. CASE x.resourceFence = 0
    <3>1. Oracle!Store!evaluateFence(NULL, w) = "advanced"
      BY DEF Oracle!Store!evaluateFence
    <3>2. Oracle!Store!FencedWrite(w)
      BY <1>1, <2>2, <2>3, <3>1, ValuesAssumption DEF Oracle!Store!FencedWrite
    <3> QED BY <2>1, <3>2 DEF Oracle!Store!StoreNext
  <2>4. CASE x.resourceFence # 0 /\ x.leaseFence > x.resourceFence
    <3>1. old \in Oracle!Store!FencedWrites
      BY <1>2, <2>4 DEF Oracle!Store!FencedWrites, OracleSound, OracleWritten
    <3>2. old # NULL /\ old # Malformed
      <4> HIDE DEF old
      <4> QED BY <3>1
    <3>3. w.fencingToken \in Int /\ old.fencingToken \in Int /\ w.fencingToken > old.fencingToken
      BY <1>2, <1>4, <2>4 DEF Writes
    <3>4. Oracle!Store!evaluateFence(old, w) = "advanced"
      <4> HIDE DEF old, w
      <4> QED BY <3>2, <3>3 DEF Oracle!Store!evaluateFence
    <3>5. Oracle!Store!FencedWrite(w)
      BY <1>1, <2>2, <2>4, <3>2, <3>4 DEF Oracle!Store!FencedWrite
    <3> QED BY <2>1, <3>5 DEF Oracle!Store!StoreNext
  <2>5. CASE x.leaseFence = x.resourceFence /\ v = x.resourceValue
    BY <1>1, <1>4, <2>5 DEF Writes, Oracle!Store!storeVars
  <2> QED BY <1>4, <2>3, <2>4, <2>5 DEF Writes
<1> QED BY <1>1, <1>2, <1>3, <1>4, OracleMoves DEF Keeps, Grants, SameStore

\* What the language ports are compared with promises what is shown of the code: for
\* any clients, values, ttl and bounds, every grant of the executable model is one
\* of the abstract lease, and every write it accepts is a fenced write of the
\* store (formal/model.mjs).
THEOREM OracleRefinesBoth == Oracle!OracleSpec => OracleRefines
<1>1. oracle = Oracle!initialState => OracleSound(oracle) /\ Oracle!Lease!LeaseInit /\ Oracle!Store!StoreInit
  BY OracleFirst DEF Oracle!initialState, Oracle!Lease!LeaseInit, Oracle!Store!StoreInit
<1> QED BY <1>1, OracleSoundStep, OracleLeaseStep, OracleStoreStep, PTL
    DEF Oracle!OracleSpec, OracleRefines, Oracle!OracleRefines, Oracle!OracleImplementsLease,
        Oracle!OracleImplementsStore, Oracle!Lease!LeaseSpec, Oracle!Store!StoreSpec

-----------------------------------------------------------------------------
(* Decimal texts.  Induction is over a set of numbers (SetInduction).      *)

\* Every nonempty set of numbers has a least one.
LEMMA NatMin ==
    ASSUME NEW T \in SUBSET Nat, T # {}
    PROVE \E x \in T : \A y \in T : x <= y
<1> DEFINE R == {ss \in Nat \X Nat : ss[1] < ss[2]}
<1>1. IsWellFoundedOn(R, Nat)
  BY NatLessThanWellFounded DEF OpToRel
<1> HIDE DEF R
<1>2. PICK x \in T : \A y \in T : ~(<<y, x>> \in R)
  BY <1>1, WFMin
<1>3. \A y \in T : ~(y < x)
  BY <1>2 DEF R
<1> QED BY <1>3

\* Induction, over a set of numbers.
LEMMA SetInduction ==
    ASSUME NEW S, 0 \in S, \A n \in Nat : n \in S => n + 1 \in S
    PROVE  \A n \in Nat : n \in S
<1> DEFINE T == {n \in Nat : n \notin S}
<1>1. SUFFICES ASSUME T # {} PROVE FALSE
  OBVIOUS
<1>2. PICK x \in T : \A y \in T : x <= y
  BY <1>1, NatMin
<1>3. x # 0 /\ x - 1 \in Nat /\ x - 1 \notin T
  BY <1>2
<1> QED BY <1>2, <1>3

\* How to go from each position to the next.
StepRule(g, N, S) == g \in [1..N -> [S -> S]]

\* What comes of the rule g from a.
StepFunction(f, g, N, S, a) ==
    f \in [0..N -> S] /\ f[0] = a /\ \A k \in 1..N : f[k] = g[k][f[k - 1]]

\* A function defined step by step exists.
LEMMA Stepwise ==
  ASSUME NEW N \in Nat, NEW S, NEW a \in S, NEW g, StepRule(g, N, S)
  PROVE  \E f : StepFunction(f, g, N, S, a)
<1> USE DEF StepRule, StepFunction
<1> DEFINE P(n) == \E f \in [0..n -> S] : f[0] = a /\ \A k \in 1..n : f[k] = g[k][f[k - 1]]
           T == {n \in Nat : n <= N => P(n)}
<1>1. 0 \in T
  <2> DEFINE f == [k \in 0..0 |-> a]
  <2>1. f \in [0..0 -> S] /\ f[0] = a /\ 1..0 = {}
    OBVIOUS
  <2> QED BY <2>1
<1>2. ASSUME NEW n \in Nat, n \in T PROVE n + 1 \in T
  <2> SUFFICES ASSUME n + 1 <= N PROVE P(n + 1)
    OBVIOUS
  <2>1. PICK f \in [0..n -> S] : f[0] = a /\ \A k \in 1..n : f[k] = g[k][f[k - 1]]
    BY <1>2
  <2> DEFINE h == [k \in 0..(n + 1) |-> IF k = n + 1 THEN g[n + 1][f[n]] ELSE f[k]]
  <2>2. n + 1 \in 1..N /\ g[n + 1] \in [S -> S] /\ f[n] \in S
    OBVIOUS
  <2>3. h \in [0..(n + 1) -> S]
    BY <2>2
  <2>4. h[0] = a
    BY <2>1
  <2>5. ASSUME NEW k \in 1..(n + 1) PROVE h[k] = g[k][h[k - 1]]
    <3>1. CASE k = n + 1
      <4>1. h[k] = g[n + 1][f[n]] /\ h[k - 1] = f[n]
        BY <3>1
      <4> QED BY <3>1, <4>1
    <3>2. CASE k # n + 1
      <4>1. h[k] = f[k] /\ h[k - 1] = f[k - 1] /\ k \in 1..n
        BY <3>2
      <4> QED BY <2>1, <4>1
    <3> QED BY <3>1, <3>2
  <2> QED BY <2>3, <2>4, <2>5
<1> HIDE DEF T
<1>3. \A n \in Nat : n \in T
  BY <1>1, <1>2, SetInduction
<1> QED BY <1>3 DEF T

\* Decimal texts.
Digits == Seq(0..9)

\* Digit by digit.
LEMMA Prefix ==
  ASSUME NEW ds \in Digits
  PROVE  /\ PrefixValues(ds) \in [0..Len(ds) -> Nat]
         /\ PrefixValues(ds)[0] = 0
         /\ \A n \in 1..Len(ds) : PrefixValues(ds)[n] = 10 * PrefixValues(ds)[n - 1] + ds[n]
<1> DEFINE N == Len(ds)
           E(f) == [n \in 0..N |-> IF n = 0 THEN 0 ELSE 10 * f[n - 1] + ds[n]]
           v == CHOOSE f : f = E(f)
<1>0. N \in Nat /\ \A n \in 1..N : ds[n] \in 0..9
  BY DEF Digits
<1>1. PrefixValues(ds) = v
  BY DEF PrefixValues
<1> HIDE DEF N
<1>2. \E f : f = E(f)
  <2> DEFINE g == [k \in 1..N |-> [x \in Nat |-> 10 * x + ds[k]]]
  <2>1. g \in [1..N -> [Nat -> Nat]]
    BY <1>0
  <2>2. \A k \in 1..N, x \in Nat : g[k][x] = 10 * x + ds[k]
    OBVIOUS
  <2> HIDE DEF g
  <2>3. N \in Nat /\ StepRule(g, N, Nat)
    BY <1>0, <2>1 DEF StepRule
  <2>4. PICK f : StepFunction(f, g, N, Nat, 0)
    BY <2>3, Stepwise
  <2>5. ASSUME NEW n \in 0..N PROVE f[n] = E(f)[n]
    <3> USE DEF StepFunction
    <3>1. CASE n = 0
      BY <3>1, <2>4
    <3>2. CASE n # 0
      <4>1. n \in 1..N /\ n - 1 \in 0..N /\ f[n - 1] \in Nat
        BY <3>2, <1>0, <2>4
      <4> QED BY <4>1, <3>2, <2>2, <2>4
    <3> QED BY <3>1, <3>2
  <2>6. f = E(f)
    BY <2>4, <2>5 DEF StepFunction
  <2> QED BY <2>6
<1>3. v = E(v)
  BY <1>2
<1> HIDE DEF v
<1>4. v[0] = 0 /\ \A n \in 1..N : v[n] = 10 * v[n - 1] + ds[n]
  <2>1. ASSUME NEW n \in 0..N PROVE v[n] = IF n = 0 THEN 0 ELSE 10 * v[n - 1] + ds[n]
    BY <1>3
  <2> QED BY <2>1, <1>0
<1>5. \A n \in 0..N : v[n] \in Nat
  <2> DEFINE T == {n \in Nat : n <= N => v[n] \in Nat}
  <2>1. 0 \in T
    BY <1>4
  <2>2. ASSUME NEW n \in Nat, n \in T PROVE n + 1 \in T
    BY <2>2, <1>4, <1>0
  <2> HIDE DEF T
  <2>4. \A n \in Nat : n \in T
    BY <2>1, <2>2, SetInduction
  <2> QED BY <2>4, <1>0 DEF T
<1>6. v \in [0..N -> Nat]
  BY <1>3, <1>5
<1> QED BY <1>1, <1>4, <1>6 DEF N

\* A text denotes a number.
LEMMA ValueNat == ASSUME NEW ds \in Digits PROVE Value(ds) \in Nat
<1>1. Len(ds) \in 0..Len(ds)
  BY DEF Digits
<1> QED BY <1>1, Prefix DEF Value

\* One digit more.
LEMMA NextDigit ==
  ASSUME NEW p \in Nat, NEW q \in Nat, NEW d \in 0..9, NEW e \in 0..9
  PROVE  /\ p > q => 10 * p + d > 10 * q + e
         /\ d > e => 10 * p + d > 10 * p + e
         /\ p > 0 => 10 * p + d > 0
  OBVIOUS

\* Who is ahead at aligned positions is ahead at the end: 10 * (v + 1) > 10 * v + 9.
LEMMA AheadStays ==
  ASSUME NEW a \in Digits, NEW b \in Digits, NEW i \in 0..Len(a), NEW j \in 0..Len(b),
         Len(a) - i = Len(b) - j, PrefixValues(a)[i] > PrefixValues(b)[j]
  PROVE  Value(a) > Value(b)
<1> DEFINE va == PrefixValues(a)
           vb == PrefixValues(b)
           T == {n \in Nat : i + n <= Len(a) => va[i + n] > vb[j + n]}
<1>1. /\ Len(a) \in Nat /\ Len(b) \in Nat
      /\ \A n \in 1..Len(a) : a[n] \in 0..9
      /\ \A n \in 1..Len(b) : b[n] \in 0..9
  BY DEF Digits
<1>2. /\ \A n \in 0..Len(a) : va[n] \in Nat
      /\ \A n \in 0..Len(b) : vb[n] \in Nat
      /\ \A n \in 1..Len(a) : va[n] = 10 * va[n - 1] + a[n]
      /\ \A n \in 1..Len(b) : vb[n] = 10 * vb[n - 1] + b[n]
  BY Prefix
<1> HIDE DEF va, vb
<1>3. 0 \in T
  BY <1>1 DEF va, vb
<1>4. ASSUME NEW n \in Nat, n \in T PROVE n + 1 \in T
  <2> SUFFICES ASSUME i + (n + 1) <= Len(a) PROVE va[i + (n + 1)] > vb[j + (n + 1)]
    OBVIOUS
  <2>1. /\ i + (n + 1) \in 1..Len(a) /\ j + (n + 1) \in 1..Len(b)
        /\ (i + (n + 1)) - 1 = i + n /\ (j + (n + 1)) - 1 = j + n
        /\ i + n \in 0..Len(a) /\ j + n \in 0..Len(b)
    BY <1>1
  <2>2. va[i + n] > vb[j + n]
    BY <1>4, <1>1
  <2>3. va[i + (n + 1)] = 10 * va[i + n] + a[i + (n + 1)]
    BY <2>1, <1>2
  <2>4. vb[j + (n + 1)] = 10 * vb[j + n] + b[j + (n + 1)]
    BY <2>1, <1>2
  <2>5. va[i + n] \in Nat /\ vb[j + n] \in Nat /\ a[i + (n + 1)] \in 0..9 /\ b[j + (n + 1)] \in 0..9
    BY <2>1, <1>1, <1>2
  <2>6. 10 * va[i + n] + a[i + (n + 1)] > 10 * vb[j + n] + b[j + (n + 1)]
    BY <2>2, <2>5, NextDigit
  <2> QED BY <2>3, <2>4, <2>6
<1> HIDE DEF T
<1>5. \A n \in Nat : n \in T
  BY <1>3, <1>4, SetInduction
<1>6. Len(a) - i \in Nat /\ i + (Len(a) - i) = Len(a) /\ j + (Len(a) - i) = Len(b)
  BY <1>1
<1>7. va[Len(a)] > vb[Len(b)]
  <2>1. PICK n \in Nat : n = Len(a) - i
    BY <1>6
  <2>2. n \in T /\ i + n = Len(a) /\ j + n = Len(b)
    BY <2>1, <1>5, <1>6
  <2>3. va[i + n] > vb[j + n]
    BY <2>2, <1>1 DEF T
  <2> QED BY <2>2, <2>3
<1> QED BY <1>7 DEF Value, va, vb

\* Equal prefixes denote equal numbers.
LEMMA SamePrefix ==
  ASSUME NEW a \in Digits, NEW b \in Digits, NEW m \in Nat, m <= Len(a), m <= Len(b),
         \A k \in 1..m : a[k] = b[k]
  PROVE  PrefixValues(a)[m] = PrefixValues(b)[m]
<1> DEFINE va == PrefixValues(a)
           vb == PrefixValues(b)
           T == {n \in Nat : n <= m => va[n] = vb[n]}
<1>1. Len(a) \in Nat /\ Len(b) \in Nat
  BY DEF Digits
<1>2. /\ va[0] = 0 /\ vb[0] = 0
      /\ \A n \in 1..Len(a) : va[n] = 10 * va[n - 1] + a[n]
      /\ \A n \in 1..Len(b) : vb[n] = 10 * vb[n - 1] + b[n]
  BY Prefix
<1> HIDE DEF va, vb
<1>3. 0 \in T
  BY <1>2
<1>4. ASSUME NEW n \in Nat, n \in T PROVE n + 1 \in T
  <2> SUFFICES ASSUME n + 1 <= m PROVE va[n + 1] = vb[n + 1]
    OBVIOUS
  <2>1. n + 1 \in 1..Len(a) /\ n + 1 \in 1..Len(b) /\ n + 1 \in 1..m /\ (n + 1) - 1 = n /\ va[n] = vb[n]
    BY <1>1, <1>4
  <2>2. va[n + 1] = 10 * va[n] + a[n + 1] /\ vb[n + 1] = 10 * vb[n] + b[n + 1]
    BY <2>1, <1>2
  <2>3. a[n + 1] = b[n + 1]
    BY <2>1
  <2> QED BY <2>1, <2>2, <2>3
<1> HIDE DEF T
<1>5. \A n \in Nat : n \in T
  BY <1>3, <1>4, SetInduction
<1> QED BY <1>5 DEF T, va, vb

\* On texts of equal length the comparison of characters is that of numbers.
LEMMA LexIsGreater ==
  ASSUME NEW a \in Digits, NEW b \in Digits, Len(a) = Len(b), LexGreater(a, b)
  PROVE  Value(a) > Value(b)
<1>1. Len(a) \in Nat /\ \A n \in 1..Len(a) : a[n] \in 0..9 /\ b[n] \in 0..9
  BY DEF Digits
<1>2. PICK i \in 1..Len(a) : a[i] > b[i] /\ \A j \in 1..(i - 1) : a[j] = b[j]
  BY DEF LexGreater
<1>3. i - 1 \in Nat /\ i - 1 \in 0..Len(a) /\ i - 1 <= Len(b) /\ i \in 0..Len(a) /\ i \in 1..Len(b)
  BY <1>1
<1>4. PrefixValues(a)[i - 1] = PrefixValues(b)[i - 1]
  BY <1>1, <1>2, <1>3, SamePrefix
<1>5. /\ PrefixValues(a)[i] = 10 * PrefixValues(a)[i - 1] + a[i]
      /\ PrefixValues(b)[i] = 10 * PrefixValues(b)[i - 1] + b[i]
      /\ PrefixValues(a)[i - 1] \in Nat
  BY <1>3, Prefix
<1>6. PrefixValues(a)[i] > PrefixValues(b)[i]
  <2>1. a[i] \in 0..9 /\ b[i] \in 0..9
    BY <1>1
  <2>2. 10 * PrefixValues(a)[i - 1] + a[i] > 10 * PrefixValues(a)[i - 1] + b[i]
    BY <1>2, <1>5, <2>1, NextDigit
  <2> QED BY <1>4, <1>5, <2>2
<1> QED BY <1>3, <1>6, AheadStays

\* One of two different texts of equal length is the greater one.
LEMMA LexTotal ==
  ASSUME NEW a \in Digits, NEW b \in Digits, Len(a) = Len(b), ~LexGreater(a, b), ~LexGreater(b, a)
  PROVE  a = b
<1>1. Len(a) \in Nat /\ \A n \in 1..Len(a) : a[n] \in 0..9 /\ b[n] \in 0..9
  BY DEF Digits
<1> DEFINE T == {n \in 1..Len(a) : a[n] # b[n]}
<1>2. CASE T = {}
  BY <1>1, <1>2 DEF Digits
<1>3. CASE T # {}
  <2>1. PICK i \in T : \A k \in T : i <= k
    <3>1. T \in SUBSET Nat
      BY <1>1
    <3> HIDE DEF T
    <3> QED BY <1>3, <3>1, NatMin
  <2>2. \A j \in 1..(i - 1) : a[j] = b[j]
    BY <1>1, <2>1
  <2>3. a[i] > b[i] \/ b[i] > a[i]
    BY <1>1, <2>1
  <2> QED BY <2>1, <2>2, <2>3 DEF LexGreater
<1> QED BY <1>2, <1>3

\* A number that does not start with a zero is at least one from there on.
LEMMA LeadingDigit ==
  ASSUME NEW a \in Digits, Len(a) > 0, a[1] # 0
  PROVE  \A n \in 1..Len(a) : PrefixValues(a)[n] > 0
<1> DEFINE va == PrefixValues(a)
           T == {n \in Nat : n + 1 <= Len(a) => va[n + 1] > 0}
<1>1. Len(a) \in Nat /\ \A n \in 1..Len(a) : a[n] \in 0..9
  BY DEF Digits
<1>2. /\ va[0] = 0
      /\ \A n \in 0..Len(a) : va[n] \in Nat
      /\ \A n \in 1..Len(a) : va[n] = 10 * va[n - 1] + a[n]
  BY Prefix
<1> HIDE DEF va
<1>3. 0 \in T
  <2>1. va[1] = 10 * va[0] + a[1]
    BY <1>1, <1>2
  <2> QED BY <1>1, <1>2, <2>1
<1>4. ASSUME NEW n \in Nat, n \in T PROVE n + 1 \in T
  <2> SUFFICES ASSUME (n + 1) + 1 <= Len(a) PROVE va[(n + 1) + 1] > 0
    OBVIOUS
  <2>1. (n + 1) + 1 \in 1..Len(a) /\ n + 1 \in 0..Len(a) /\ ((n + 1) + 1) - 1 = n + 1 /\ va[n + 1] > 0
    BY <1>1, <1>4
  <2>2. va[(n + 1) + 1] = 10 * va[n + 1] + a[(n + 1) + 1]
    BY <2>1, <1>2
  <2>3. va[n + 1] \in Nat /\ a[(n + 1) + 1] \in 0..9
    BY <1>1, <1>2, <2>1
  <2>4. 10 * va[n + 1] + a[(n + 1) + 1] > 0
    BY <2>1, <2>3, NextDigit
  <2> QED BY <2>2, <2>4
<1> HIDE DEF T
<1>5. \A n \in Nat : n \in T
  BY <1>3, <1>4, SetInduction
<1>6. ASSUME NEW n \in 1..Len(a) PROVE va[n] > 0
  <2>1. n - 1 \in T /\ (n - 1) + 1 = n
    BY <1>1, <1>5
  <2> QED BY <2>1, <1>1 DEF T
<1> QED BY <1>6 DEF va

\* The longer text is the greater number, if it does not start with a zero.
LEMMA LongerIsGreater ==
  ASSUME NEW a \in Digits, NEW b \in Digits, Len(a) > Len(b), a[1] # 0
  PROVE  Value(a) > Value(b)
<1>1. Len(a) \in Nat /\ Len(b) \in Nat
  BY DEF Digits
<1> DEFINE i == Len(a) - Len(b)
<1>2. i \in 0..Len(a) /\ i \in 1..Len(a) /\ Len(a) - i = Len(b) - 0 /\ 0 \in 0..Len(b)
  BY <1>1
<1>3. PrefixValues(a)[i] > 0 /\ PrefixValues(b)[0] = 0
  BY <1>1, <1>2, LeadingDigit, Prefix
<1> HIDE DEF i
<1>4. PrefixValues(a)[i] > PrefixValues(b)[0]
  BY <1>3
<1> QED BY <1>2, <1>4, AheadStays

\* Leading zeros count for nothing.
LEMMA ZeroPrefix ==
  ASSUME NEW a \in Digits, NEW m \in Nat, m <= Len(a), \A k \in 1..m : a[k] = 0
  PROVE  PrefixValues(a)[m] = 0
<1> DEFINE va == PrefixValues(a)
           T == {n \in Nat : n <= m => va[n] = 0}
<1>1. Len(a) \in Nat
  BY DEF Digits
<1>2. va[0] = 0 /\ \A n \in 1..Len(a) : va[n] = 10 * va[n - 1] + a[n]
  BY Prefix
<1> HIDE DEF va
<1>3. 0 \in T
  BY <1>2
<1>4. ASSUME NEW n \in Nat, n \in T PROVE n + 1 \in T
  <2> SUFFICES ASSUME n + 1 <= m PROVE va[n + 1] = 0
    OBVIOUS
  <2>1. n + 1 \in 1..Len(a) /\ n + 1 \in 1..m /\ (n + 1) - 1 = n /\ va[n] = 0
    BY <1>1, <1>4
  <2>2. va[n + 1] = 10 * va[n] + a[n + 1] /\ a[n + 1] = 0
    BY <2>1, <1>2
  <2> QED BY <2>1, <2>2
<1> HIDE DEF T
<1>5. \A n \in Nat : n \in T
  BY <1>3, <1>4, SetInduction
<1> QED BY <1>5 DEF T, va

\* Equal digits after positions of equal value denote the same number.
LEMMA SameTail ==
  ASSUME NEW a \in Digits, NEW b \in Digits, NEW i \in 0..Len(a),
         Len(b) = Len(a) - i, PrefixValues(a)[i] = 0,
         \A k \in 1..Len(b) : b[k] = a[i + k]
  PROVE  Value(a) = Value(b)
<1> DEFINE va == PrefixValues(a)
           vb == PrefixValues(b)
           T == {n \in Nat : n <= Len(b) => va[i + n] = vb[n]}
<1>1. Len(a) \in Nat /\ Len(b) \in Nat
  BY DEF Digits
<1>2. /\ vb[0] = 0 /\ va[i] = 0
      /\ \A n \in 1..Len(a) : va[n] = 10 * va[n - 1] + a[n]
      /\ \A n \in 1..Len(b) : vb[n] = 10 * vb[n - 1] + b[n]
  BY Prefix
<1> HIDE DEF va, vb
<1>3. 0 \in T
  <2>1. i + 0 = i
    BY <1>1
  <2> QED BY <2>1, <1>2
<1>4. ASSUME NEW n \in Nat, n \in T PROVE n + 1 \in T
  <2> SUFFICES ASSUME n + 1 <= Len(b) PROVE va[i + (n + 1)] = vb[n + 1]
    OBVIOUS
  <2>1. /\ i + (n + 1) \in 1..Len(a) /\ n + 1 \in 1..Len(b) /\ (n + 1) - 1 = n
        /\ (i + (n + 1)) - 1 = i + n /\ n <= Len(b)
    BY <1>1
  <2>2. va[i + n] = vb[n]
    BY <1>4, <2>1
  <2>3. va[i + (n + 1)] = 10 * va[i + n] + a[i + (n + 1)] /\ vb[n + 1] = 10 * vb[n] + b[n + 1]
    BY <2>1, <1>2
  <2>4. b[n + 1] = a[i + (n + 1)]
    BY <2>1
  <2> QED BY <2>2, <2>3, <2>4
<1> HIDE DEF T
<1>5. \A n \in Nat : n \in T
  BY <1>3, <1>4, SetInduction
<1>6. PICK n \in Nat : n = Len(b)
  BY <1>1
<1>7. va[i + n] = vb[n]
  BY <1>1, <1>5, <1>6 DEF T
<1>8. i + n = Len(a)
  BY <1>1, <1>6
<1> QED BY <1>6, <1>7, <1>8 DEF Value, va, vb

\* The text of zero.
LEMMA ZeroText ==
  LET z == <<0>> IN
  z \in Digits /\ Len(z) = 1 /\ z[1] = 0 /\ z # <<>> /\ PrefixValues(z)[1] = 0 /\ Value(z) = 0
<1>1. PICK z : z = <<0>>
  OBVIOUS
<1>2. z \in Digits /\ Len(z) = 1 /\ z[1] = 0 /\ z # <<>>
  BY <1>1 DEF Digits
<1>3. 1 \in Nat /\ 1 <= Len(z) /\ \A k \in 1..1 : z[k] = 0
  BY <1>2
<1>4. PrefixValues(z)[1] = 0
  BY <1>2, <1>3, ZeroPrefix
<1> QED BY <1>1, <1>2, <1>4 DEF Value

-----------------------------------------------------------------------------
(* The Redis script.                                                       *)

\* Two facts about lengths.
LEMMA NotOne == /\ \A m, n \in Nat : m > n /\ n > 0 => m # 1
                /\ \A m \in Nat : m > 0 => (m = 1 <=> ~(m > 1))
  OBVIOUS

\* The script's texts are those of DecimalText.
LEMMA ScriptDecimals ==
    /\ \A ds : Script!Value(ds) = Value(ds)
    /\ \A a, b : Script!LexGreater(a, b) = LexGreater(a, b)
<1>1. \A ds : Script!Value(ds) = Value(ds)
  BY DEF Script!Value, Script!PrefixValues, Value, PrefixValues
<1>2. \A a, b : Script!LexGreater(a, b) = LexGreater(a, b)
  BY DEF Script!LexGreater, LexGreater
<1> QED BY <1>1, <1>2

\* A decimal without a redundant zero.
Canonical(ds) == ds \in Digits /\ ds # <<>> /\ (ds[1] = 0 => Len(ds) = 1)

\* The order of texts is the order of the numbers they denote.
LEMMA CompareIsNumeric ==
  ASSUME NEW a, NEW b, Canonical(a), Canonical(b)
  PROVE  LET order == Script!compare_decimal(a, b) IN
         /\ Value(a) \in Nat /\ Value(b) \in Nat
         /\ order \in {-1, 0, 1}
         /\ order = 1 <=> Value(a) > Value(b)
         /\ order = -1 <=> Value(a) < Value(b)
         /\ order = 0 <=> a = b
<1>1. a \in Digits /\ b \in Digits /\ Len(a) \in Nat /\ Len(b) \in Nat /\ Len(a) > 0 /\ Len(b) > 0
  BY DEF Canonical, Digits
<1>2. Value(a) \in Nat /\ Value(b) \in Nat
  BY <1>1, ValueNat
<1>3. CASE Len(a) < Len(b)
  <2>1. b[1] # 0
    <3>1. Len(b) # 1
      BY <1>1, <1>3, SMTT(20)
    <3> QED BY <3>1 DEF Canonical
  <2>2. Value(b) > Value(a) /\ a # b
    BY <1>1, <1>3, <2>1, LongerIsGreater
  <2>3. Script!compare_decimal(a, b) = -1
    BY <1>1, <1>3 DEF Script!compare_decimal
  <2> QED BY <1>2, <2>2, <2>3
<1>4. CASE Len(a) > Len(b)
  <2>1. a[1] # 0
    <3>1. Len(a) # 1
      BY <1>1, <1>4, NotOne
    <3> QED BY <3>1 DEF Canonical
  <2>2. Value(a) > Value(b) /\ a # b
    BY <1>1, <1>4, <2>1, LongerIsGreater
  <2>3. Script!compare_decimal(a, b) = 1
    BY <1>1, <1>4 DEF Script!compare_decimal
  <2> QED BY <1>2, <2>2, <2>3
<1>5. CASE Len(a) = Len(b)
  <2>1. LexGreater(a, b) => Value(a) > Value(b)
    BY <1>1, <1>5, LexIsGreater
  <2>2. LexGreater(b, a) => Value(b) > Value(a)
    BY <1>1, <1>5, LexIsGreater
  <2>3. ~LexGreater(a, b) /\ ~LexGreater(b, a) => a = b
    BY <1>1, <1>5, LexTotal
  <2>4. ~(LexGreater(a, b) /\ LexGreater(b, a))
    BY <1>2, <2>1, <2>2
  <2>5. ~(Len(a) < Len(b)) /\ ~(Len(a) > Len(b))
    BY <1>1, <1>5
  <2>6. CASE LexGreater(a, b)
    <3>1. Script!compare_decimal(a, b) = 1
      BY <1>5, <2>4, <2>5, <2>6, ScriptDecimals DEF Script!compare_decimal
    <3> QED BY <1>2, <2>1, <2>6, <3>1
  <2>7. CASE LexGreater(b, a)
    <3>1. Script!compare_decimal(a, b) = -1
      BY <1>5, <2>4, <2>5, <2>7, ScriptDecimals DEF Script!compare_decimal
    <3> QED BY <1>2, <2>2, <2>7, <3>1
  <2>8. CASE ~LexGreater(a, b) /\ ~LexGreater(b, a)
    <3>1. Script!compare_decimal(a, b) = 0
      BY <2>5, <2>8, ScriptDecimals DEF Script!compare_decimal
    <3> QED BY <1>2, <2>3, <2>8, <3>1
  <2> QED BY <2>6, <2>7, <2>8
<1> QED BY <1>1, <1>3, <1>4, <1>5

\* What the script takes for a canonical token is what fence.ts takes for one: a
\* text that is no larger than the limit.
LEMMA CanonicalAlike ==
  ASSUME NEW t \in Texts
  PROVE  /\ Script!canonical_token(t) <=> Script!fencingTokenText(t)
         /\ Script!canonical_token(t) => Canonical(t) /\ Value(t) \in 0..Value(TokenLimit)
<1> USE ScriptAssumption
<1>1. CASE t = BAD
  BY <1>1 DEF Script!canonical_token, Script!fencingTokenText
<1>2. CASE t # BAD
  <2>1. t \in Digits /\ TokenLimit \in Digits /\ t # NULL
    BY <1>2 DEF Digits
  <2>2. Canonical(TokenLimit) /\ Len(TokenLimit) \in Nat /\ Len(TokenLimit) > 0 /\ Len(t) \in Nat /\ (t # <<>> => Len(t) > 0)
    BY <2>1 DEF Canonical, Digits
  <2>3. Value(t) \in Nat /\ Value(TokenLimit) \in Nat
    BY <2>1, ValueNat
  <2>4. CASE ~Canonical(t)
    <3>1. t = <<>> \/ (t[1] = 0 /\ Len(t) # 1)
      BY <2>1, <2>4 DEF Canonical
    <3>2. CASE t = <<>>
      BY <3>2 DEF Script!canonical_token, Script!fencingTokenText
    <3>3. CASE t # <<>> /\ t[1] = 0 /\ Len(t) # 1
      <4>1. Len(t) > 1
        BY <3>3, <2>2, NotOne
      <4> QED BY <3>3, <4>1 DEF Script!canonical_token, Script!fencingTokenText
    <3> QED BY <2>4, <3>1, <3>2, <3>3
  <2>5. CASE Canonical(t)
    <3>1. Len(t) > Len(TokenLimit) => Value(t) > Value(TokenLimit)
      <4>1. Len(t) > Len(TokenLimit) => t[1] # 0
        <5>1. Len(t) > Len(TokenLimit) => Len(t) # 1
          BY <2>2, NotOne
        <5> QED BY <5>1, <2>5 DEF Canonical
      <4> QED BY <4>1, <2>1, LongerIsGreater
    <3>2. Len(t) < Len(TokenLimit) => Value(TokenLimit) > Value(t)
      <4>1. Len(t) < Len(TokenLimit) => TokenLimit[1] # 0
        <5>1. Len(t) > 0
          BY <2>2, <2>5 DEF Canonical
        <5>2. Len(t) < Len(TokenLimit) => Len(TokenLimit) # 1
          <6>1. Len(t) < Len(TokenLimit) => Len(TokenLimit) > Len(t)
            BY <2>2
          <6> QED BY <2>2, <5>1, <6>1, NotOne
        <5> QED BY <5>2, <2>2 DEF Canonical
      <4>2. Len(t) < Len(TokenLimit) => Len(TokenLimit) > Len(t)
        BY <2>2
      <4> QED BY <4>1, <4>2, <2>1, LongerIsGreater
    <3>3. Len(t) = Len(TokenLimit) /\ LexGreater(t, TokenLimit) => Value(t) > Value(TokenLimit)
      BY <2>1, LexIsGreater
    <3>4. Len(t) = Len(TokenLimit) /\ ~LexGreater(t, TokenLimit) => Value(t) <= Value(TokenLimit)
      <4>1. CASE Len(t) = Len(TokenLimit) /\ LexGreater(TokenLimit, t)
        BY <4>1, <2>1, <2>3, LexIsGreater
      <4>2. CASE Len(t) = Len(TokenLimit) /\ ~LexGreater(t, TokenLimit) /\ ~LexGreater(TokenLimit, t)
        BY <4>2, <2>1, <2>3, LexTotal
      <4> QED BY <4>1, <4>2
    <3>5. Value(t) <= Value(TokenLimit) <=>
             Len(t) <= Len(TokenLimit) /\ ~(Len(t) = Len(TokenLimit) /\ LexGreater(t, TokenLimit))
      BY <2>2, <2>3, <3>1, <3>2, <3>3, <3>4
    <3>6. t # <<>> /\ (t[1] = 0 => Len(t) = 1) /\ ~(Len(t) > 1 /\ t[1] = 0)
      <4>1. t # <<>> /\ (t[1] = 0 => Len(t) = 1)
        BY <2>5 DEF Canonical
      <4>2. Len(t) = 1 => ~(Len(t) > 1)
        BY <4>1, <2>2, NotOne
      <4> QED BY <4>1, <4>2
    <3>7. Script!canonical_token(t) <=> Value(t) <= Value(TokenLimit)
      BY <1>2, <2>1, <3>5, <3>6, ScriptDecimals DEF Script!canonical_token
    <3>8. Script!fencingTokenText(t) <=> Value(t) <= Value(TokenLimit)
      BY <1>2, <3>6, ScriptDecimals DEF Script!fencingTokenText
    <3> QED BY <2>3, <2>5, <3>7, <3>8
  <2> QED BY <2>4, <2>5
<1> QED BY <1>1, <1>2

\* HSET leaves the fields of the request.
LEMMA HSetFields ==
  ASSUME NEW r \in Script!Requests
  PROVE  LET h == Script!HSet(r) IN
         /\ DOMAIN h = Script!Fields /\ h # NULL /\ h # BAD
         /\ h.fencing_token = r.token /\ h.operation_id = r.op /\ h.payload_sha256 = r.sha
         /\ h.holder = r.meta /\ h.lease_id = r.meta
<1>1. /\ DOMAIN Script!HSet(r) = Script!Fields
      /\ Script!HSet(r).fencing_token = r.token /\ Script!HSet(r).operation_id = r.op
      /\ Script!HSet(r).payload_sha256 = r.sha
      /\ Script!HSet(r).holder = r.meta /\ Script!HSet(r).lease_id = r.meta
  BY DEF Script!HSet, Script!Fields
<1>2. Script!HSet(r) \in {Script!HSet(q) : q \in Script!Requests}
  OBVIOUS
<1>3. Script!HSet(r) # NULL /\ Script!HSet(r) # BAD
  BY <1>2, ScriptAssumption
<1> QED BY <1>1, <1>3

\* The script and the helpers refuse the same requests.
LEMMA RefusedAlike ==
  ASSUME NEW r \in Script!Requests
  PROVE  /\ r.keys = "tagged" => (Script!RequestRefused(r) <=> ~Script!fencedWriteRequest(r))
         /\ ~Script!RequestRefused(r) =>
              /\ r.op \in OperationIds /\ r.sha \in Payloads /\ r.meta \notin Defects
              /\ Script!canonical_token(r.token) /\ Canonical(r.token) /\ Value(r.token) \in 0..Value(TokenLimit)
<1> USE ScriptAssumption
<1>1. r.token \in Texts /\ r.op \in OperationIds \cup Defects /\ r.sha \in Payloads \cup Defects
      /\ r.meta \in {NULL} \cup Defects
  BY DEF Script!Requests
<1>2. NULL \notin Defects
  OBVIOUS
<1>3. Script!canonical_token(r.token) <=> Script!fencingTokenText(r.token)
  BY <1>1, CanonicalAlike
<1>4. Script!canonical_token(r.token) => Canonical(r.token) /\ Value(r.token) \in 0..Value(TokenLimit)
  BY <1>1, CanonicalAlike
<1>5. r.keys = "tagged" => (Script!RequestRefused(r) <=> ~Script!fencedWriteRequest(r))
  <2>1. Script!validateOptionalField(r.meta) <=> r.meta \notin Defects
    BY <1>2 DEF Script!validateOptionalField, Script!validateField
  <2> QED BY <1>3, <2>1 DEF Script!RequestRefused, Script!fencedWriteRequest, Script!requestRecord, Script!validateField
<1>6. ~Script!RequestRefused(r) =>
        Script!canonical_token(r.token) /\ r.op \notin Defects /\ r.sha \notin Defects /\ r.meta \notin Defects
  BY DEF Script!RequestRefused
<1> QED BY <1>1, <1>4, <1>5, <1>6

\* What an accepted request leaves is a sound pair.
LEMMA WrittenIsSound ==
  ASSUME NEW r \in Script!Requests, ~Script!RequestRefused(r)
  PROVE  ~Script!Damaged(Script!HSet(r), r.sha) /\ r.sha # NULL
<1> USE ScriptAssumption
<1> DEFINE h == Script!HSet(r)
<1>1. /\ DOMAIN h = Script!Fields /\ h # NULL /\ h # BAD
      /\ h.fencing_token = r.token /\ h.operation_id = r.op /\ h.payload_sha256 = r.sha
      /\ h.holder = r.meta /\ h.lease_id = r.meta
  BY HSetFields
<1>2. r.op \in OperationIds /\ r.sha \in Payloads /\ r.meta \notin Defects /\ Script!canonical_token(r.token)
  BY RefusedAlike
<1> HIDE DEF h
<1>3. r.sha # NULL /\ r.sha # BAD /\ r.op \notin Defects /\ r.sha \notin Defects
  BY <1>2
<1>4. \A f \in Script!Fields \ {"fencing_token"} : h[f] \notin Defects
  BY <1>1, <1>2, <1>3 DEF Script!Fields
<1>5. ~Script!Damaged(h, r.sha)
  BY <1>1, <1>2, <1>3, <1>4 DEF Script!Damaged
<1> QED BY <1>3, <1>5 DEF h

\* The two keys of a resource: damaged from the start, absent, or left by an
\* accepted request.
ScriptPair ==
    \/ Script!PairRefused
    \/ hash = NULL /\ string = NULL
    \/ \E r \in Script!Requests : ~Script!RequestRefused(r) /\ hash = Script!HSet(r) /\ string = r.sha

\* The keys start absent or damaged.
LEMMA ScriptPairInit == Script!RedisFenceInit => ScriptPair
<1> SUFFICES ASSUME Script!RedisFenceInit PROVE ScriptPair
  OBVIOUS
<1>1. PICK pair \in {<<NULL, NULL>>} \cup CorruptPairs : hash = pair[1] /\ string = pair[2]
  BY DEF Script!RedisFenceInit
<1>2. CASE pair = <<NULL, NULL>>
  BY <1>1, <1>2 DEF ScriptPair
<1>3. CASE pair \in CorruptPairs
  BY <1>1, <1>3, ScriptAssumption DEF ScriptPair, Script!PairRefused
<1> QED BY <1>1, <1>2, <1>3

\* The script writes both keys or none, for a request it accepts.
LEMMA ScriptPairStep ==
  ASSUME ScriptPair, [Script!RedisFenceNext]_(Script!fenceVars)
  PROVE  ScriptPair'
<1>1. CASE UNCHANGED Script!fenceVars
  BY <1>1 DEF ScriptPair, Script!fenceVars, Script!PairRefused
<1>2. ASSUME NEW r \in Script!Requests, Script!Decision(r) = "advanced", hash' = Script!HSet(r), string' = r.sha
      PROVE ScriptPair'
  <2>1. ~Script!RequestRefused(r)
    BY <1>2 DEF Script!Decision
  <2> QED BY <1>2, <2>1 DEF ScriptPair
<1> QED BY <1>1, <1>2 DEF Script!RedisFenceNext, Script!FencedWrite

\* Both decide alike on what an accepted request left.
LEMMA DecideAlike ==
  ASSUME NEW q \in Script!Requests, ~Script!RequestRefused(q), hash = Script!HSet(q), string = q.sha,
         NEW r \in Script!Requests, ~Script!RequestRefused(r)
  PROVE  Script!Decision(r) =
         Script!Fence!evaluateFence(Script!Abstract(q.token, q.op, q.sha), Script!Abstract(r.token, r.op, r.sha))
<1> USE ScriptAssumption
<1> DEFINE old == Script!Abstract(q.token, q.op, q.sha)
           new == Script!Abstract(r.token, r.op, r.sha)
           order == Script!compare_decimal(r.token, q.token)
<1>1. ~Script!PairRefused
  BY WrittenIsSound DEF Script!PairRefused
<1>2. hash # NULL /\ hash.fencing_token = q.token /\ hash.operation_id = q.op /\ hash.payload_sha256 = q.sha
  BY HSetFields
<1>3. Canonical(q.token) /\ Canonical(r.token) /\ Value(q.token) \in 0..Value(TokenLimit)
      /\ q.op \in OperationIds /\ q.sha \in Payloads
  BY RefusedAlike
<1>4. /\ Value(r.token) \in Nat /\ Value(q.token) \in Nat
      /\ order \in {-1, 0, 1}
      /\ order = 1 <=> Value(r.token) > Value(q.token)
      /\ order = -1 <=> Value(r.token) < Value(q.token)
      /\ order = 0 <=> r.token = q.token
  BY <1>3, CompareIsNumeric
<1>5. /\ old.fencingToken = Value(q.token) /\ old.operationId = q.op /\ old.payloadSha256 = q.sha
      /\ new.fencingToken = Value(r.token) /\ new.operationId = r.op /\ new.payloadSha256 = r.sha
      /\ old = new <=> Value(q.token) = Value(r.token) /\ q.op = r.op /\ q.sha = r.sha
  BY ScriptDecimals DEF Script!Abstract
<1>6. old # NULL
  <2>1. old \in Script!Fence!FencedWrites
    BY <1>3, ScriptDecimals DEF Script!Abstract, Script!Fence!FencedWrites
  <2> HIDE DEF old
  <2> QED BY <2>1
<1>7. Script!Decision(r) =
        CASE order > 0 -> "advanced"
          [] order < 0 -> "stale"
          [] order = 0 /\ r.op = q.op /\ r.sha = q.sha -> "replay"
          [] OTHER -> "token_reuse"
  BY <1>1, <1>2 DEF Script!Decision
<1> HIDE DEF old, new, order
<1>8. CASE order = 1
  <2>1. Script!Decision(r) = "advanced"
    BY <1>7, <1>8
  <2>2. new.fencingToken > old.fencingToken
    BY <1>4, <1>5, <1>8
  <2>3. new # old /\ ~(new.fencingToken < old.fencingToken)
    BY <1>4, <1>5, <1>8
  <2>4. Script!Fence!evaluateFence(old, new) = "advanced"
    BY <1>6, <2>2, <2>3 DEF Script!Fence!evaluateFence
  <2> QED BY <2>1, <2>4 DEF old, new
<1>9. CASE order = -1
  <2>1. Script!Decision(r) = "stale"
    BY <1>7, <1>9
  <2>2. new.fencingToken < old.fencingToken
    BY <1>4, <1>5, <1>9
  <2>3. new # old /\ ~(new.fencingToken > old.fencingToken)
    BY <1>4, <1>5, <1>9
  <2>4. Script!Fence!evaluateFence(old, new) = "stale"
    BY <1>6, <2>2, <2>3 DEF Script!Fence!evaluateFence
  <2> QED BY <2>1, <2>4 DEF old, new
<1>10. CASE order = 0
  <2>1. Script!Decision(r) = IF r.op = q.op /\ r.sha = q.sha THEN "replay" ELSE "token_reuse"
    BY <1>7, <1>10
  <2>2. ~(new.fencingToken > old.fencingToken) /\ ~(new.fencingToken < old.fencingToken)
    BY <1>4, <1>5, <1>10
  <2>3. old = new <=> r.op = q.op /\ r.sha = q.sha
    BY <1>4, <1>5, <1>10
  <2>4. Script!Fence!evaluateFence(old, new) = IF r.op = q.op /\ r.sha = q.sha THEN "replay" ELSE "token_reuse"
    BY <1>6, <2>2, <2>3 DEF Script!Fence!evaluateFence
  <2> QED BY <2>1, <2>4 DEF old, new
<1> QED BY <1>4, <1>8, <1>9, <1>10

\* Comparing texts and comparing bigints decide alike.
LEMMA PairDecidesAlike == ScriptPair => Script!MirrorsDecideAlike
<1> SUFFICES ASSUME ScriptPair, NEW r \in Script!Requests, ~Script!PairRefused, r.keys = "tagged"
             PROVE  Script!Decision(r) = Script!HelperDecision(r)
  BY DEF Script!MirrorsDecideAlike
<1>1. Script!RequestRefused(r) <=> ~Script!fencedWriteRequest(r)
  BY RefusedAlike
<1>2. CASE Script!RequestRefused(r)
  BY <1>1, <1>2 DEF Script!Decision, Script!HelperDecision
<1>3. CASE ~Script!RequestRefused(r) /\ hash = NULL
  BY <1>1, <1>3 DEF Script!Decision, Script!HelperDecision, Script!Fence!evaluateFence
<1>4. CASE ~Script!RequestRefused(r) /\ hash # NULL
  <2>1. PICK q \in Script!Requests : ~Script!RequestRefused(q) /\ hash = Script!HSet(q) /\ string = q.sha
    BY <1>4 DEF ScriptPair
  <2>2. hash.fencing_token = q.token /\ hash.operation_id = q.op /\ hash.payload_sha256 = q.sha
    BY <2>1, HSetFields
  <2>3. Script!HelperDecision(r) =
          Script!Fence!evaluateFence(Script!Abstract(q.token, q.op, q.sha), Script!Abstract(r.token, r.op, r.sha))
    BY <1>1, <1>4, <2>2 DEF Script!HelperDecision
  <2> QED BY <1>4, <2>1, <2>3, DecideAlike
<1> QED BY <1>2, <1>3, <1>4

\* README: the helpers of fence.ts "are semantic mirrors of the SQL and Redis
\* adapters": in every state the script can reach, with any texts as tokens and any
\* limit, comparing texts by length and then by character decides like comparing
\* bigints (fenced-write.lua, fence.ts).
THEOREM MirrorsAlike == Script!RedisFenceSpec => []MirrorsDecideAlike
<1>1. ScriptPair => MirrorsDecideAlike
  BY PairDecidesAlike DEF MirrorsDecideAlike
<1> QED BY <1>1, ScriptPairInit, ScriptPairStep, PTL DEF Script!RedisFenceSpec

\* A script run is a fenced write of the abstract store or changes nothing of it.
LEMMA ScriptStoreStep ==
  ASSUME ScriptPair, [Script!RedisFenceNext]_(Script!fenceVars)
  PROVE  [Script!Fence!StoreNext]_(Script!Fence!storeVars)
<1> USE ScriptAssumption
<1>1. CASE UNCHANGED Script!fenceVars
  BY <1>1 DEF Script!fenceVars, Script!Fence!storeVars, Script!PairRefused
<1>2. ASSUME NEW r \in Script!Requests, Script!Decision(r) = "advanced", hash' = Script!HSet(r), string' = r.sha
      PROVE  Script!Fence!StoreNext
  <2> DEFINE new == Script!Abstract(r.token, r.op, r.sha)
  <2>1. ~Script!RequestRefused(r) /\ ~Script!PairRefused
    BY <1>2 DEF Script!Decision
  <2>2. r.op \in OperationIds /\ r.sha \in Payloads /\ Value(r.token) \in 0..Value(TokenLimit)
    BY <2>1, RefusedAlike
  <2>3. new \in Script!Fence!FencedWrites /\ new.payloadSha256 = r.sha
    BY <2>2, ScriptDecimals DEF Script!Abstract, Script!Fence!FencedWrites
  <2>4. ~Script!PairRefused'
    BY <1>2, <2>1, WrittenIsSound DEF Script!PairRefused
  <2>5. /\ hash' # NULL /\ hash'.fencing_token = r.token
        /\ hash'.operation_id = r.op /\ hash'.payload_sha256 = r.sha
    BY <1>2, HSetFields
  <2>6. CASE hash = NULL
    <3>1. Script!Fence!evaluateFence(NULL, new) = "advanced"
      BY DEF Script!Fence!evaluateFence
    <3>2. Script!Fence!FencedWrite(new)
      BY <1>2, <2>1, <2>3, <2>4, <2>5, <2>6, <3>1, ValuesAssumption DEF Script!Fence!FencedWrite
    <3> QED BY <2>3, <3>2 DEF Script!Fence!StoreNext
  <2>7. CASE hash # NULL
    <3>1. PICK q \in Script!Requests : ~Script!RequestRefused(q) /\ hash = Script!HSet(q) /\ string = q.sha
      BY <2>1, <2>7 DEF ScriptPair
    <3> DEFINE old == Script!Abstract(q.token, q.op, q.sha)
    <3>2. hash.fencing_token = q.token /\ hash.operation_id = q.op /\ hash.payload_sha256 = q.sha
      BY <3>1, HSetFields
    <3>3. Script!Fence!evaluateFence(old, new) = "advanced"
      BY <1>2, <2>1, <3>1, DecideAlike
    <3>4. old # Malformed
      <4>1. q.op \in OperationIds /\ q.sha \in Payloads /\ Value(q.token) \in 0..Value(TokenLimit)
        BY <3>1, RefusedAlike
      <4>2. old \in Script!Fence!FencedWrites
        BY <4>1, ScriptDecimals DEF Script!Abstract, Script!Fence!FencedWrites
      <4> HIDE DEF old
      <4> QED BY <4>2
    <3>5. Script!Fence!FencedWrite(new)
      BY <1>2, <2>1, <2>3, <2>4, <2>5, <2>7, <3>2, <3>3, <3>4 DEF Script!Fence!FencedWrite
    <3> QED BY <2>3, <3>5 DEF Script!Fence!StoreNext
  <2> QED BY <2>6, <2>7
<1> QED BY <1>1, <1>2 DEF Script!RedisFenceNext, Script!FencedWrite

\* The Redis script implements the atomic fence, for any texts, limit, requests and
\* damaged pairs: watermark and protected value change together and only for a
\* strictly newer token, and a damaged pair is never repaired (fenced-write.lua).
THEOREM ScriptImplementsStore == Script!RedisFenceSpec => RedisFenceImplementsStore
<1>1. Script!RedisFenceInit => Script!Fence!StoreInit
  <2> SUFFICES ASSUME Script!RedisFenceInit PROVE Script!Fence!StoreInit
    OBVIOUS
  <2>1. PICK pair \in {<<NULL, NULL>>} \cup CorruptPairs : hash = pair[1] /\ string = pair[2]
    BY DEF Script!RedisFenceInit
  <2>2. CASE pair = <<NULL, NULL>>
    <3>1. hash = NULL /\ string = NULL
      BY <2>1, <2>2
    <3> QED BY <3>1 DEF Script!Fence!StoreInit
  <2>3. CASE pair \in CorruptPairs
    <3>1. Script!PairRefused
      BY <2>1, <2>3, ScriptAssumption DEF Script!PairRefused
    <3> QED BY <3>1 DEF Script!Fence!StoreInit
  <2> QED BY <2>1, <2>2, <2>3
<1> QED BY <1>1, ScriptPairInit, ScriptPairStep, ScriptStoreStep, PTL
    DEF Script!RedisFenceSpec, RedisFenceImplementsStore, Script!RedisFenceImplementsStore, Script!Fence!StoreSpec

-----------------------------------------------------------------------------
(* The Redis lease.                                                        *)

\* The scripts' texts are those of DecimalText.
LEMMA RedisDecimals ==
    /\ \A ds : Redis!Value(ds) = Value(ds)
    /\ \A a, b : Redis!LexGreater(a, b) = LexGreater(a, b)
<1>1. \A ds : Redis!Value(ds) = Value(ds)
  BY DEF Redis!Value, Redis!PrefixValues, Value, PrefixValues
<1>2. \A a, b : Redis!LexGreater(a, b) = LexGreater(a, b)
  BY DEF Redis!LexGreater, LexGreater
<1> QED BY <1>1, <1>2

\* The carry is 1 at first, and then 1 after a sum of ten.
LEMMA CarryLoop ==
  ASSUME NEW ds \in Digits
  PROVE  LET c == Redis!Carry(ds) IN
         /\ c \in [0..Len(ds) -> 0..1]
         /\ c[0] = 1
         /\ \A n \in 1..Len(ds) : c[n] = IF ds[Len(ds) + 1 - n] + c[n - 1] >= 10 THEN 1 ELSE 0
<1> DEFINE N == Len(ds)
           E(f) == [n \in 0..N |-> IF n = 0 THEN 1 ELSE IF ds[N + 1 - n] + f[n - 1] >= 10 THEN 1 ELSE 0]
           v == CHOOSE f : f = E(f)
<1>0. N \in Nat /\ \A n \in 1..N : ds[n] \in 0..9
  BY DEF Digits
<1>1. Redis!Carry(ds) = v
  BY DEF Redis!Carry
<1> HIDE DEF N
<1>2. \E f : f = E(f)
  <2> DEFINE g == [k \in 1..N |-> [x \in 0..1 |-> IF ds[N + 1 - k] + x >= 10 THEN 1 ELSE 0]]
             S == 0..1
  <2>1. g \in [1..N -> [S -> S]] /\ 1 \in S
    OBVIOUS
  <2>2. \A k \in 1..N, x \in 0..1 : g[k][x] = IF ds[N + 1 - k] + x >= 10 THEN 1 ELSE 0
    OBVIOUS
  <2> HIDE DEF g
  <2>3. N \in Nat /\ StepRule(g, N, S)
    BY <1>0, <2>1 DEF StepRule
  <2> HIDE DEF S
  <2>4. PICK f : StepFunction(f, g, N, S, 1)
    BY <2>1, <2>3, Stepwise
  <2>5. ASSUME NEW n \in 0..N PROVE f[n] = E(f)[n]
    <3> USE DEF StepFunction
    <3>1. CASE n = 0
      BY <3>1, <2>4
    <3>2. CASE n # 0
      <4>1. n \in 1..N /\ n - 1 \in 0..N /\ f[n - 1] \in 0..1
        BY <3>2, <1>0, <2>4 DEF S
      <4> QED BY <4>1, <3>2, <2>2, <2>4
    <3> QED BY <3>1, <3>2
  <2>6. f = E(f)
    BY <2>4, <2>5 DEF StepFunction
  <2> QED BY <2>6
<1>3. v = E(v)
  BY <1>2
<1> HIDE DEF v
<1>4. v[0] = 1 /\ \A n \in 1..N : v[n] = IF ds[N + 1 - n] + v[n - 1] >= 10 THEN 1 ELSE 0
  <2>1. ASSUME NEW n \in 0..N PROVE v[n] = IF n = 0 THEN 1 ELSE IF ds[N + 1 - n] + v[n - 1] >= 10 THEN 1 ELSE 0
    BY <1>3
  <2> QED BY <2>1, <1>0
<1>5. \A n \in 0..N : v[n] \in 0..1
  <2>1. ASSUME NEW n \in 0..N PROVE v[n] \in 0..1
    <3>1. CASE n = 0
      BY <3>1, <1>4
    <3>2. CASE n # 0
      <4>1. n \in 1..N
        BY <3>2, <1>0
      <4> QED BY <4>1, <1>4
    <3> QED BY <3>1, <3>2
  <2> QED BY <2>1
<1>6. v \in [0..N -> 0..1]
  BY <1>3, <1>5
<1> QED BY <1>1, <1>4, <1>6 DEF N

\* One digit of the sum.
LEMMA SumDigit ==
  ASSUME NEW v \in Nat, NEW d \in 0..9, NEW c \in 0..1, NEW in \in 0..1, NEW s \in 0..9,
         d + in = 10 * c + s
  PROVE  10 * (v + c) + s = (10 * v + d) + in
  OBVIOUS

\* Digits with their carries add up: C[n] is what comes into position n from the
\* right, and r is the sum behind `off` leading digits.
LEMMA CarriedSum ==
  ASSUME NEW ds \in Digits, NEW r \in Digits, NEW C \in [0..Len(ds) -> 0..1], NEW off \in 0..1,
         Len(r) = Len(ds) + off,
         \A n \in 1..Len(ds) : ds[n] + C[n] = 10 * C[n - 1] + r[off + n],
         PrefixValues(r)[off] = C[0], C[Len(ds)] = 1
  PROVE  Value(r) = Value(ds) + 1
<1> DEFINE N == Len(ds)
           v == PrefixValues(ds)
           w == PrefixValues(r)
           T == {n \in Nat : n <= N => w[off + n] = v[n] + C[n]}
<1>1. N \in Nat /\ (\A n \in 1..N : ds[n] \in 0..9) /\ (\A n \in 1..(N + off) : r[n] \in 0..9)
  BY DEF Digits
<1>2. /\ \A n \in 0..N : v[n] \in Nat
      /\ v[0] = 0
      /\ \A n \in 1..N : v[n] = 10 * v[n - 1] + ds[n]
      /\ \A n \in 1..(N + off) : w[n] = 10 * w[n - 1] + r[n]
  BY Prefix
<1> HIDE DEF v, w
<1>3. 0 \in T
  <2>1. C[0] \in 0..1 /\ off + 0 = off /\ w[off] = C[0]
    BY <1>1 DEF w
  <2> QED BY <2>1, <1>2
<1>4. ASSUME NEW n \in Nat, n \in T PROVE n + 1 \in T
  <2> SUFFICES ASSUME n + 1 <= N PROVE w[off + (n + 1)] = v[n + 1] + C[n + 1]
    OBVIOUS
  <2>1. /\ n + 1 \in 1..N /\ n \in 0..N /\ n + 1 \in 0..N /\ (n + 1) - 1 = n /\ off + (n + 1) \in 1..(N + off)
        /\ (off + (n + 1)) - 1 = off + n
    BY <1>1
  <2>2. w[off + (n + 1)] = 10 * w[off + n] + r[off + (n + 1)]
    BY <2>1, <1>2
  <2>3. v[n + 1] = 10 * v[n] + ds[n + 1]
    BY <2>1, <1>2
  <2>4. ds[n + 1] + C[n + 1] = 10 * C[n] + r[off + (n + 1)]
    BY <2>1
  <2>5. w[off + n] = v[n] + C[n]
    BY <1>1, <1>4, <2>1
  <2>6. /\ v[n] \in Nat /\ ds[n + 1] \in 0..9 /\ C[n] \in 0..1 /\ C[n + 1] \in 0..1
        /\ r[off + (n + 1)] \in 0..9
    BY <1>1, <1>2, <2>1
  <2>7. PICK a \in Nat, d \in 0..9, co \in 0..1, ci \in 0..1, s \in 0..9 :
           a = v[n] /\ d = ds[n + 1] /\ co = C[n] /\ ci = C[n + 1] /\ s = r[off + (n + 1)]
    BY <2>6
  <2>8. 10 * (a + co) + s = (10 * a + d) + ci
    <3>1. d + ci = 10 * co + s
      BY <2>4, <2>7
    <3> QED BY <3>1, SumDigit
  <2> QED BY <2>2, <2>3, <2>5, <2>7, <2>8
<1> HIDE DEF T
<1>5. \A n \in Nat : n \in T
  BY <1>3, <1>4, SetInduction
<1>6. PICK m \in Nat : m = N
  BY <1>1
<1>7. w[off + m] = v[m] + C[m]
  BY <1>1, <1>5, <1>6 DEF T
<1>8. off + m = Len(r) /\ m = Len(ds) /\ C[m] = 1
  BY <1>6
<1> QED BY <1>7, <1>8 DEF Value, v, w

\* The carry loop adds one, and keeps a canonical text canonical.
LEMMA IncrementByOne ==
  ASSUME NEW ds, Canonical(ds)
  PROVE  LET r == Redis!Increment(ds) IN Canonical(r) /\ r[1] # 0 /\ Value(r) = Value(ds) + 1
<1> DEFINE N == Len(ds)
           c == Redis!Carry(ds)
           next == [i \in 1..N |-> IF ds[i] + c[N - i] >= 10 THEN (ds[i] + c[N - i]) - 10 ELSE ds[i] + c[N - i]]
           C == [i \in 0..N |-> c[N - i]]
           r == Redis!Increment(ds)
<1>0. ds \in Digits /\ N \in Nat /\ N > 0 /\ \A n \in 1..N : ds[n] \in 0..9
  BY DEF Canonical, Digits
<1>1. /\ c \in [0..N -> 0..1] /\ c[0] = 1
      /\ \A n \in 1..N : c[n] = IF ds[N + 1 - n] + c[n - 1] >= 10 THEN 1 ELSE 0
  BY <1>0, CarryLoop
<1>2. r = IF c[N] = 1 THEN <<1>> \o next ELSE next
  BY DEF Redis!Increment
<1> HIDE DEF N, c, r
<1>3. ASSUME NEW i \in 1..N
      PROVE  /\ next[i] \in 0..9 /\ C[i] \in 0..1 /\ C[i - 1] \in 0..1
             /\ ds[i] + C[i] = 10 * C[i - 1] + next[i]
  <2>1. /\ N - i \in 0..N /\ N - (i - 1) \in 1..N /\ N - (i - 1) \in 0..N /\ i \in 0..N /\ i - 1 \in 0..N
        /\ N + 1 - (N - (i - 1)) = i /\ (N - (i - 1)) - 1 = N - i
    BY <1>0
  <2>2. C[i] = c[N - i] /\ C[i - 1] = c[N - (i - 1)]
    BY <2>1
  <2>3. c[N - (i - 1)] = IF ds[i] + c[N - i] >= 10 THEN 1 ELSE 0
    BY <1>1, <2>1
  <2>4. c[N - i] \in 0..1 /\ ds[i] \in 0..9
    BY <1>0, <1>1, <2>1
  <2>5. next[i] = IF ds[i] + c[N - i] >= 10 THEN (ds[i] + c[N - i]) - 10 ELSE ds[i] + c[N - i]
    OBVIOUS
  <2> HIDE DEF next, C
  <2>6. CASE ds[i] + c[N - i] >= 10
    <3>1. c[N - (i - 1)] = 1 /\ next[i] = (ds[i] + c[N - i]) - 10
      BY <2>3, <2>5, <2>6
    <3> QED BY <2>2, <2>4, <2>6, <3>1
  <2>7. CASE ~(ds[i] + c[N - i] >= 10)
    <3>1. c[N - (i - 1)] = 0 /\ next[i] = ds[i] + c[N - i]
      BY <2>3, <2>5, <2>7
    <3> QED BY <2>2, <2>4, <2>7, <3>1
  <2> QED BY <2>6, <2>7
<1>4. /\ C \in [0..N -> 0..1] /\ C[N] = 1 /\ C[0] = c[N]
  <2>1. \A i \in 0..N : N - i \in 0..N
    BY <1>0
  <2>2. N - N = 0 /\ N - 0 = N /\ N \in 0..N /\ 0 \in 0..N
    BY <1>0
  <2> QED BY <1>1, <2>1, <2>2
<1>5. next \in Seq(0..9) /\ Len(next) = N
  <2>1. \A i \in 1..N : next[i] \in 0..9
    BY <1>3
  <2>2. DOMAIN next = 1..N /\ next = [i \in 1..N |-> next[i]]
    OBVIOUS
  <2> HIDE DEF next
  <2>3. next \in [1..N -> 0..9]
    BY <2>1, <2>2
  <2> QED BY <1>0, <2>3
<1> HIDE DEF next, C
<1>6. CASE c[N] = 1
  <2>1. r = <<1>> \o next
    BY <1>2, <1>6
  <2>2. r \in Seq(0..9) /\ Len(r) = N + 1 /\ r[1] = 1 /\ \A n \in 1..N : r[1 + n] = next[n]
    BY <1>0, <1>5, <2>1
  <2>3. r \in Digits /\ Canonical(r) /\ r[1] # 0
    BY <1>0, <2>2 DEF Digits, Canonical
  <2>4. PrefixValues(r)[1] = C[0]
    <3>1. PrefixValues(r)[0] = 0 /\ PrefixValues(r)[1] = 10 * PrefixValues(r)[0] + r[1]
      <4>1. 1 \in 1..Len(r) /\ 1 - 1 = 0
        BY <1>0, <2>2
      <4>2. PrefixValues(r)[0] = 0 /\ \A n \in 1..Len(r) : PrefixValues(r)[n] = 10 * PrefixValues(r)[n - 1] + r[n]
        BY <2>3, Prefix
      <4> QED BY <4>1, <4>2
    <3> QED BY <3>1, <2>2, <1>4, <1>6
  <2>5. \A n \in 1..N : ds[n] + C[n] = 10 * C[n - 1] + r[1 + n]
    BY <1>3, <2>2
  <2>6. Value(r) = Value(ds) + 1
    <3>1. /\ ds \in Digits /\ r \in Digits /\ C \in [0..Len(ds) -> 0..1] /\ 1 \in 0..1
          /\ Len(r) = Len(ds) + 1
          /\ \A n \in 1..Len(ds) : ds[n] + C[n] = 10 * C[n - 1] + r[1 + n]
          /\ PrefixValues(r)[1] = C[0] /\ C[Len(ds)] = 1
      BY <1>0, <1>4, <2>2, <2>3, <2>4, <2>5 DEF N
    <3> QED BY <3>1, CarriedSum
  <2> QED BY <2>3, <2>6 DEF r
<1>7. CASE c[N] # 1
  <2>1. r = next
    BY <1>2, <1>7
  <2>2. c[N] = 0
    BY <1>0, <1>1, <1>7
  <2>3. r \in Digits /\ Len(r) = N /\ \A n \in 1..N : r[0 + n] = next[n]
    BY <1>0, <1>5, <2>1 DEF Digits
  <2>4. PrefixValues(r)[0] = C[0]
    BY <1>4, <2>2, <2>3, Prefix
  <2>5. \A n \in 1..N : ds[n] + C[n] = 10 * C[n - 1] + r[0 + n]
    BY <1>3, <2>3
  <2>6. Value(r) = Value(ds) + 1
    BY <1>0, <1>4, <2>3, <2>4, <2>5, CarriedSum DEF N
  <2>7. r[1] # 0
    <3>1. 1 \in 1..N /\ 1 - 1 = 0 /\ r[1] = next[1]
      BY <1>0, <2>1
    <3>2. ds[1] + C[1] = 10 * C[0] + r[1] /\ C[1] \in 0..1 /\ r[1] \in 0..9 /\ ds[1] \in 0..9
      BY <1>0, <1>3, <3>1
    <3>3. C[0] = 0
      BY <1>4, <2>2
    <3>4. CASE ds[1] # 0
      BY <3>2, <3>3, <3>4
    <3>5. CASE ds[1] = 0
      <4>1. N = 1
        BY <3>5 DEF Canonical, N
      <4>2. C[1] = 1
        BY <4>1, <1>4
      <4> QED BY <3>2, <3>3, <4>2
    <3> QED BY <3>4, <3>5
  <2>8. Canonical(r)
    BY <1>0, <2>3, <2>7 DEF Canonical, Digits
  <2> QED BY <2>6, <2>7, <2>8 DEF r
<1> QED BY <1>6, <1>7

\* Without its leading zeros a text is canonical and denotes the same number.
LEMMA StripKeepsValue ==
  ASSUME NEW ds \in Digits
  PROVE  Canonical(Redis!StripZeros(ds)) /\ Value(Redis!StripZeros(ds)) = Value(ds)
<1> DEFINE N == Len(ds)
           nonzero == {i \in 1..N : ds[i] # 0}
<1>1. N \in Nat /\ \A n \in 1..N : ds[n] \in 0..9
  BY DEF Digits
<1>2. CASE nonzero = {}
  <2>1. PICK z : z = <<0>>
    OBVIOUS
  <2>2. Redis!StripZeros(ds) = z
    BY <1>2, <2>1 DEF Redis!StripZeros
  <2>3. z \in Digits /\ Len(z) = 1 /\ z[1] = 0 /\ z # <<>> /\ PrefixValues(z)[1] = 0
    BY <2>1, ZeroText
  <2>4. PrefixValues(ds)[N] = 0
    <3>1. \A k \in 1..N : ds[k] = 0
      BY <1>2
    <3>2. N <= Len(ds)
      BY <1>1
    <3> QED BY <1>1, <3>1, <3>2, ZeroPrefix
  <2> QED BY <2>2, <2>3, <2>4 DEF Value, Canonical
<1>3. CASE nonzero # {}
  <2> DEFINE m == CHOOSE i \in nonzero : \A j \in nonzero : i <= j
             s == SubSeq(ds, m, N)
  <2>1. m \in nonzero /\ \A j \in nonzero : m <= j
    <3>1. nonzero \in SUBSET Nat
      BY <1>1
    <3> HIDE DEF nonzero
    <3>2. \E i \in nonzero : \A j \in nonzero : i <= j
      BY <1>3, <3>1, NatMin
    <3> QED BY <3>2
  <2>2. Redis!StripZeros(ds) = s
    BY <1>3 DEF Redis!StripZeros
  <2> HIDE DEF m
  <2>3. m \in 1..N /\ ds[m] # 0 /\ \A k \in 1..(m - 1) : ds[k] = 0
    BY <1>1, <2>1
  <2>4. m - 1 \in 0..N /\ m - 1 \in Nat /\ m - 1 <= Len(ds)
    BY <1>1, <2>3
  <2>5. PrefixValues(ds)[m - 1] = 0
    BY <2>3, <2>4, ZeroPrefix
  <2>6. /\ s \in Digits /\ Len(s) = N - (m - 1) /\ Len(s) \in Nat /\ Len(s) > 0
        /\ \A k \in 1..Len(s) : s[k] = ds[(m - 1) + k]
    BY <1>1, <2>3 DEF Digits
  <2> HIDE DEF s
  <2>7. Value(ds) = Value(s)
    BY <2>4, <2>5, <2>6, SameTail
  <2>8. s[1] # 0
    BY <2>3, <2>4, <2>6
  <2>9. Canonical(s)
    <3>1. s # <<>>
      BY <2>6
    <3> QED BY <2>6, <2>8, <3>1 DEF Canonical
  <2> QED BY <2>2, <2>7, <2>9
<1> QED BY <1>2, <1>3

\* A token that is not past the ceiling is no larger than it.
LEMMA WithinCeiling ==
  ASSUME NEW t, Canonical(t), Canonical(Ceiling), ~Redis!Exhausted(t)
  PROVE  Value(t) <= Value(Ceiling)
<1>1. Len(t) \in Nat /\ Len(Ceiling) \in Nat
  BY DEF Canonical, Digits
<1>2. Script!compare_decimal(t, Ceiling) # 1
  <2>1. ~(Len(t) > Len(Ceiling)) /\ ~(Len(t) = Len(Ceiling) /\ LexGreater(t, Ceiling))
    BY RedisDecimals DEF Redis!Exhausted
  <2> QED BY <1>1, <2>1, ScriptDecimals DEF Script!compare_decimal
<1> QED BY <1>2, CompareIsNumeric

\* The lock hash, and what a client sends.
LockHash == [holder : Clients, token : Digits, expires : Nat]
Bodies == [op : {"acquire", "renew", "release"}, holder : Clients, token : Digits \cup {None}]
CallerFields == {"pc", "request", "response", "grant", "started", "wait", "wakeAt", "nth"}

\* The counter is absent, corrupt or digits; a lock hash carries its value.
LockCarriesFence ==
    /\ time \in Nat /\ origin \in Nat
    /\ fence \in {None, CORRUPT} \cup (Digits \ {<<>>})
    /\ redisLock \in {None, CORRUPT} \cup LockHash
    /\ redisLock \in LockHash => fence = redisLock.token /\ Canonical(fence)
    /\ fence \in {None, CORRUPT} => origin = 0

\* A token that was given to c: the counter has moved past it, or it is the
\* newest one and the lock, while it is kept, is c's.
Given(c, t) ==
    /\ Canonical(t) /\ fence \in Digits
    /\ \/ Value(t) < Value(fence)
       \/ t = fence /\ (redisLock \in LockHash => redisLock.holder = c)

\* A client sends under its own name, and the token it is given or holds is its own.
OwnRecord(c, k) ==
    /\ k = [f \in CallerFields |-> k[f]]
    /\ k.request \in {None} \cup Bodies
    /\ k.request # None => k.request.holder = c
    /\ k.pc = "acquiring" /\ k.response # None /\ k.response.kind \in {"granted", "replayed"} =>
           Given(c, k.response.token)
    /\ k.pc \in {"held", "recovering", "renewing"} =>
           k.grant = [token |-> k.grant.token, expires |-> k.grant.expires] /\ Given(c, k.grant.token)

LeaseInv ==
    /\ LockCarriesFence
    /\ orphans \subseteq Bodies
    /\ caller = [c \in Clients |-> caller[c]]
    /\ \A c \in Clients : OwnRecord(c, caller[c])

\* A token is minted one past the counter, canonical and within the ceiling.
LEMMA MintsNext ==
  ASSUME LockCarriesFence, Redis!CanMint
  PROVE  LET t == Redis!NextToken IN
         /\ Canonical(t) /\ t[1] # 0 /\ t \in Digits /\ t # <<>> /\ t \notin {None, CORRUPT}
         /\ Value(t) = (IF fence = None THEN 0 ELSE Value(fence)) + 1
         /\ Value(t) <= Value(Ceiling) /\ Value(t) \in Nat /\ fence # CORRUPT
<1> DEFINE ds == IF fence = None THEN <<0>> ELSE fence
           t == Redis!NextToken
<1>1. fence \in {None} \cup (Digits \ {<<>>}) /\ fence # CORRUPT /\ ~Redis!Exhausted(t)
  BY DEF LockCarriesFence, Redis!CanMint
<1>2. t = Redis!Increment(Redis!StripZeros(ds))
  BY DEF Redis!NextToken
<1>3. ds \in Digits /\ Value(ds) = IF fence = None THEN 0 ELSE Value(fence)
  BY <1>1, ZeroText
<1> HIDE DEF ds
<1>4. Canonical(t) /\ t[1] # 0 /\ Value(t) = Value(ds) + 1
  BY <1>2, <1>3, StripKeepsValue, IncrementByOne
<1>5. t \in Digits /\ t # <<>>
  BY <1>4 DEF Canonical
<1>6. t \notin {None, CORRUPT} /\ Canonical(Ceiling)
  BY <1>5, RedisAssumption DEF Digits, Canonical
<1>7. Value(t) <= Value(Ceiling)
  BY <1>1, <1>4, <1>6, WithinCeiling
<1>8. Value(t) \in Nat
  BY <1>5, ValueNat
<1> QED BY <1>1, <1>3, <1>4, <1>5, <1>6, <1>7, <1>8

\* A live lock is a lock hash that has not run out.
LEMMA LiveHash ==
  ASSUME LockCarriesFence
  PROVE  /\ Redis!Live <=> redisLock \in LockHash /\ time < redisLock.expires
         /\ Redis!Live => Redis!Present
         /\ redisLock \in LockHash => redisLock \notin {None, CORRUPT} /\ redisLock.token \in Digits
                                       /\ redisLock.holder \in Clients /\ fence \notin {None, CORRUPT}
<1>1. redisLock \in LockHash => redisLock \notin {None, CORRUPT}
  BY RedisAssumption DEF LockHash, Digits
<1>2. redisLock \in LockHash => redisLock.token \in Digits /\ redisLock.holder \in Clients /\ fence = redisLock.token
  BY DEF LockHash, LockCarriesFence
<1>3. redisLock \in LockHash => fence \notin {None, CORRUPT}
  BY <1>2, RedisAssumption DEF Digits
<1>4. Redis!Live <=> redisLock \in LockHash /\ time < redisLock.expires
  BY <1>1 DEF Redis!Live, Redis!Present, LockCarriesFence
<1> QED BY <1>1, <1>2, <1>3, <1>4 DEF Redis!Live

\* The abstract lease, as the refinement maps it.
LeaseOwner == IF Redis!Live THEN redisLock.holder ELSE None
LeaseToken == IF Redis!Live THEN Redis!Value(redisLock.token) - origin ELSE None
LeaseCount == IF fence \in {None, CORRUPT} THEN 0 ELSE Redis!Value(fence) - origin

\* What a step of the abstract lease is, in these terms.
LEMMA LeaseSteps ==
  /\ LeaseOwner' = LeaseOwner /\ LeaseToken' = LeaseToken /\ LeaseCount' = LeaseCount =>
       [Redis!Abs!LeaseNext]_(Redis!Abs!leaseState)
  /\ LeaseToken = None /\ LeaseOwner' \in Clients /\ LeaseToken' = LeaseCount + 1 /\ LeaseCount' = LeaseCount + 1 =>
       [Redis!Abs!LeaseNext]_(Redis!Abs!leaseState)
  /\ LeaseToken # None /\ LeaseOwner' = None /\ LeaseToken' = None /\ LeaseCount' = LeaseCount =>
       [Redis!Abs!LeaseNext]_(Redis!Abs!leaseState)
<1>1. Redis!Abs!leaseState = <<LeaseOwner, LeaseToken, LeaseCount>>
  BY DEF Redis!Abs!leaseState, LeaseOwner, LeaseToken, LeaseCount
<1>2. Redis!Abs!Drop <=> LeaseToken # None /\ LeaseOwner' = None /\ LeaseToken' = None /\ LeaseCount' = LeaseCount
  BY DEF Redis!Abs!Drop, LeaseOwner, LeaseToken, LeaseCount
<1>3. \A h : Redis!Abs!Grant(h) <=>
         LeaseToken = None /\ LeaseOwner' = h /\ LeaseToken' = LeaseCount + 1 /\ LeaseCount' = LeaseCount + 1
  BY DEF Redis!Abs!Grant, LeaseOwner, LeaseToken, LeaseCount
<1>4. LeaseOwner' = LeaseOwner /\ LeaseToken' = LeaseToken /\ LeaseCount' = LeaseCount =>
        (Redis!Abs!leaseState)' = Redis!Abs!leaseState
  BY DEF Redis!Abs!leaseState, LeaseOwner, LeaseToken, LeaseCount
<1>5. Redis!Abs!LeaseNext <=> (\E h \in Clients : Redis!Abs!Grant(h)) \/ Redis!Abs!Drop
  BY DEF Redis!Abs!LeaseNext
<1> QED BY <1>2, <1>3, <1>4, <1>5

\* What a script changes: nothing, or it grants, extends or deletes.
GrantsLease(b) ==
    /\ ~Redis!Present /\ Redis!CanMint
    /\ fence' = Redis!NextToken
    /\ redisLock' = [holder |-> b.holder, token |-> Redis!NextToken, expires |-> time + Ttl]
ExtendsLease(b) ==
    /\ b.op = "renew" /\ Redis!Matches(b)
    /\ redisLock' = [redisLock EXCEPT !.expires = time + Ttl] /\ fence' = fence
DeletesLease(b) ==
    /\ Redis!Matches(b) /\ redisLock' = None /\ fence' = fence

LEMMA ScriptCases ==
  ASSUME NEW b \in Bodies, Redis!Run(b)
  PROVE  \/ redisLock' = redisLock /\ fence' = fence
         \/ GrantsLease(b) \/ ExtendsLease(b) \/ DeletesLease(b)
<1>1. CASE b.op = "acquire" /\ Redis!AcquireScript(b)
  BY <1>1 DEF Redis!AcquireScript, Redis!redisVars, GrantsLease
<1>2. CASE b.op = "renew" /\ Redis!RenewScript(b)
  BY <1>2 DEF Redis!RenewScript, ExtendsLease
<1>3. CASE b.op = "release" /\ Redis!ReleaseScript(b)
  BY <1>3 DEF Redis!ReleaseScript, DeletesLease
<1> QED BY <1>1, <1>2, <1>3 DEF Redis!Run

\* What a change of the counter must be.
CountsByOne ==
    fence' # fence =>
        /\ Redis!Value(fence') = (IF fence = None THEN 0 ELSE Redis!Value(fence)) + 1
        /\ Head(fence') # 0
        /\ Redis!Value(fence') <= Redis!Value(Ceiling)

\* What a script leaves in place: the counter and its lock, the tokens given
\* out, and the abstract lease.
KeepsLease ==
    /\ LockCarriesFence'
    /\ \A c \in Clients : \A t : Given(c, t) => Given(c, t)'
    /\ CountsByOne
    /\ [Redis!Abs!LeaseNext]_(Redis!Abs!leaseState)

LEMMA GrantKeeps ==
  ASSUME LockCarriesFence, NEW b \in Bodies, GrantsLease(b), time' = time, origin' = origin
  PROVE  KeepsLease /\ Given(b.holder, fence)'
<1> DEFINE t == Redis!NextToken
<1>1. /\ Canonical(t) /\ t[1] # 0 /\ t \in Digits /\ t # <<>> /\ t \notin {None, CORRUPT}
      /\ Value(t) = (IF fence = None THEN 0 ELSE Value(fence)) + 1
      /\ Value(t) <= Value(Ceiling) /\ Value(t) \in Nat /\ fence # CORRUPT
  BY MintsNext DEF GrantsLease
<1>2. fence' = t /\ redisLock' = [holder |-> b.holder, token |-> t, expires |-> time + Ttl] /\ ~Redis!Present
  BY DEF GrantsLease
<1> HIDE DEF t
<1>3. time \in Nat /\ origin \in Nat /\ Ttl \in Nat /\ Ttl > 0 /\ time + Ttl \in Nat /\ time < time + Ttl /\ b.holder \in Clients
  BY RedisAssumption DEF LockCarriesFence, Bodies, Redis!Options
<1>4. /\ redisLock' \in LockHash /\ redisLock'.token = t /\ redisLock'.holder = b.holder
      /\ redisLock'.expires = time + Ttl
  BY <1>1, <1>2, <1>3 DEF LockHash
<1>5. LockCarriesFence'
  BY <1>1, <1>2, <1>3, <1>4 DEF LockCarriesFence
<1>6. Given(b.holder, fence)'
  BY <1>1, <1>2, <1>4 DEF Given
<1>7. ASSUME NEW c \in Clients, NEW u, Given(c, u) PROVE Given(c, u)'
  <2>1. Canonical(u) /\ fence \in Digits /\ (Value(u) < Value(fence) \/ u = fence) /\ u \in Digits
    BY <1>7 DEF Given, Canonical
  <2>2. fence # None /\ Value(u) \in Nat /\ Value(fence) \in Nat
    BY <2>1, RedisAssumption, ValueNat DEF Digits
  <2>3. Value(u) < Value(t)
    BY <1>1, <2>1, <2>2
  <2> QED BY <1>1, <1>2, <2>1, <2>3 DEF Given
<1>8. CountsByOne
  BY <1>1, <1>2, RedisDecimals DEF CountsByOne, Digits
<1>9. [Redis!Abs!LeaseNext]_(Redis!Abs!leaseState)
  <2>1. ~Redis!Live
    BY <1>2 DEF Redis!Live
  <2>2. Redis!Live'
    <3>1. redisLock' \notin {None, CORRUPT}
      BY <1>4, RedisAssumption DEF LockHash, Digits
    <3> QED BY <1>3, <1>4, <3>1 DEF Redis!Live, Redis!Present
  <2>3. LeaseToken = None /\ LeaseOwner' = b.holder /\ LeaseToken' = Value(t) - origin
    BY <1>4, <2>1, <2>2, RedisDecimals DEF LeaseToken, LeaseOwner
  <2>4. LeaseCount' = Value(t) - origin
    BY <1>1, <1>2, RedisDecimals DEF LeaseCount
  <2>5. LeaseCount + 1 = Value(t) - origin
    <3>1. CASE fence = None
      BY <1>1, <1>3, <3>1 DEF LeaseCount, LockCarriesFence
    <3>2. CASE fence # None
      <4>1. LeaseCount = Value(fence) - origin /\ Value(fence) \in Nat
        BY <1>1, <3>2, RedisDecimals, ValueNat DEF LeaseCount, LockCarriesFence
      <4> QED BY <1>1, <1>3, <3>2, <4>1
    <3> QED BY <3>1, <3>2
  <2> QED BY <1>3, <2>3, <2>4, <2>5, LeaseSteps
<1> QED BY <1>5, <1>6, <1>7, <1>8, <1>9 DEF KeepsLease

\* Extending a lock leaves its holder and its token.
LEMMA ExtensionKeeps ==
  ASSUME LockCarriesFence, NEW b, ExtendsLease(b), time' = time, origin' = origin
  PROVE  KeepsLease
<1>1. Redis!Live /\ redisLock' = [redisLock EXCEPT !.expires = time + Ttl] /\ fence' = fence
  BY DEF ExtendsLease, Redis!Matches
<1>2. redisLock \in LockHash
  BY <1>1, LiveHash
<1>3. time \in Nat /\ Ttl \in Nat /\ Ttl > 0 /\ time + Ttl \in Nat /\ time < time + Ttl
  BY RedisAssumption DEF LockCarriesFence, Redis!Options
<1>4. /\ redisLock' \in LockHash /\ redisLock'.token = redisLock.token /\ redisLock'.holder = redisLock.holder
      /\ redisLock'.expires = time + Ttl
  BY <1>1, <1>2, <1>3 DEF LockHash
<1>5. LockCarriesFence'
  BY <1>1, <1>2, <1>3, <1>4 DEF LockCarriesFence
<1>6. ASSUME NEW c \in Clients, NEW u, Given(c, u) PROVE Given(c, u)'
  BY <1>1, <1>2, <1>4, <1>6 DEF Given
<1>7. CountsByOne
  BY <1>1 DEF CountsByOne
<1>8. [Redis!Abs!LeaseNext]_(Redis!Abs!leaseState)
  <2>1. Redis!Live'
    <3>1. redisLock' \notin {None, CORRUPT}
      BY <1>4, RedisAssumption DEF LockHash, Digits
    <3> QED BY <1>3, <1>4, <3>1 DEF Redis!Live, Redis!Present
  <2>2. LeaseOwner' = LeaseOwner /\ LeaseToken' = LeaseToken /\ LeaseCount' = LeaseCount
    BY <1>1, <1>4, <2>1, RedisDecimals DEF LeaseOwner, LeaseToken, LeaseCount
  <2> QED BY <2>2, LeaseSteps
<1> QED BY <1>5, <1>6, <1>7, <1>8 DEF KeepsLease

\* The lease ends when its lock is deleted or runs out.
LEMMA LeaseEnds ==
  ASSUME LockCarriesFence, LockCarriesFence', fence' = fence, origin' = origin,
         ~Redis!Live' \/ (Redis!Live /\ redisLock' = redisLock)
  PROVE  [Redis!Abs!LeaseNext]_(Redis!Abs!leaseState)
<1>1. LeaseCount' = LeaseCount
  BY RedisDecimals DEF LeaseCount
<1>2. CASE ~Redis!Live /\ ~Redis!Live'
  <2>1. LeaseOwner' = LeaseOwner /\ LeaseToken' = LeaseToken
    BY <1>2 DEF LeaseOwner, LeaseToken
  <2> QED BY <1>1, <2>1, LeaseSteps
<1>3. CASE Redis!Live /\ ~Redis!Live'
  <2>1. LeaseOwner' = None /\ LeaseToken' = None
    BY <1>3 DEF LeaseOwner, LeaseToken
  <2>2. LeaseToken # None
    <3>1. redisLock.token \in Digits
      BY <1>3, LiveHash
    <3>2. Value(redisLock.token) - origin \in Int
      BY <3>1, ValueNat DEF LockCarriesFence
    <3>3. LeaseToken = Value(redisLock.token) - origin
      BY <1>3, RedisDecimals DEF LeaseToken
    <3> QED BY <3>2, <3>3, RedisAssumption
  <2> QED BY <1>1, <2>1, <2>2, LeaseSteps
<1>4. CASE Redis!Live /\ Redis!Live' /\ redisLock' = redisLock
  <2>1. LeaseOwner' = LeaseOwner /\ LeaseToken' = LeaseToken
    BY <1>4, RedisDecimals DEF LeaseOwner, LeaseToken
  <2> QED BY <1>1, <2>1, LeaseSteps
<1> QED BY <1>2, <1>3, <1>4

\* Neither deleting the lock nor the passing of time takes a token back.
LEMMA EndKeeps ==
  ASSUME LockCarriesFence, fence' = fence, origin' = origin, time' \in Nat, time' >= time,
         redisLock' = None \/ redisLock' = redisLock
  PROVE  KeepsLease
<1>1. LockCarriesFence'
  <2>1. CASE redisLock' = None
    <3>1. None \notin LockHash
      BY RedisAssumption DEF LockHash, Digits
    <3> QED BY <2>1, <3>1 DEF LockCarriesFence
  <2>2. CASE redisLock' = redisLock
    BY <2>2 DEF LockCarriesFence
  <2> QED BY <2>1, <2>2
<1>2. ASSUME NEW c \in Clients, NEW u, Given(c, u) PROVE Given(c, u)'
  <2>1. None \notin LockHash
    BY RedisAssumption DEF LockHash, Digits
  <2> QED BY <1>2, <2>1 DEF Given
<1>3. CountsByOne
  BY DEF CountsByOne
<1>4. ~Redis!Live' \/ (Redis!Live /\ redisLock' = redisLock)
  <2>1. CASE redisLock' = None
    BY <2>1 DEF Redis!Live, Redis!Present
  <2>2. CASE redisLock' = redisLock /\ redisLock' # None
    <3>1. CASE redisLock \in LockHash
      <4>1. redisLock.expires \in Nat /\ time \in Nat /\ redisLock \notin {None, CORRUPT}
        BY <3>1, LiveHash DEF LockHash, LockCarriesFence
      <4> QED BY <2>2, <3>1, <4>1 DEF Redis!Live, Redis!Present
    <3>2. CASE redisLock \notin LockHash
      BY <2>2, <3>2 DEF Redis!Live, Redis!Present, LockCarriesFence
    <3> QED BY <3>1, <3>2
  <2> QED BY <2>1, <2>2
<1>5. [Redis!Abs!LeaseNext]_(Redis!Abs!leaseState)
  BY <1>1, <1>4, LeaseEnds
<1> QED BY <1>1, <1>2, <1>3, <1>5 DEF KeepsLease

\* Every script keeps the lease.
LEMMA ScriptKeeps ==
  ASSUME LockCarriesFence, NEW b \in Bodies, Redis!Run(b), time' = time, origin' = origin
  PROVE  KeepsLease
<1>1. time' \in Nat /\ time' >= time
  BY DEF LockCarriesFence
<1>2. CASE redisLock' = redisLock /\ fence' = fence
  BY <1>1, <1>2, EndKeeps
<1>3. CASE GrantsLease(b)
  BY <1>3, GrantKeeps
<1>4. CASE ExtendsLease(b)
  BY <1>4, ExtensionKeeps
<1>5. CASE DeletesLease(b)
  BY <1>1, <1>5, EndKeeps DEF DeletesLease
<1> QED BY <1>2, <1>3, <1>4, <1>5, ScriptCases

\* Only a renewal that names the token extends a lock that lives.
LEMMA ScriptExtends ==
  ASSUME LockCarriesFence, NEW b \in Bodies, Redis!Run(b),
         Redis!Live, redisLock' # None, redisLock'.token = redisLock.token, redisLock'.expires # redisLock.expires
  PROVE  b.op = "renew" /\ b.token = redisLock.token
<1>1. CASE redisLock' = redisLock
  BY <1>1
<1>2. CASE GrantsLease(b)
  BY <1>2 DEF GrantsLease, Redis!Live
<1>3. CASE ExtendsLease(b)
  BY <1>3 DEF ExtendsLease, Redis!Matches
<1>4. CASE DeletesLease(b)
  BY <1>4 DEF DeletesLease
<1> QED BY <1>1, <1>2, <1>3, <1>4, ScriptCases

\* A token an acquire is answered with is the caller's own.
LEMMA AnswerGives ==
  ASSUME LockCarriesFence, NEW b \in Bodies, Redis!Run(b), time' = time, origin' = origin,
         Redis!Answer(b).kind \in {"granted", "replayed"}, NEW t, t = Redis!Answer(b).token
  PROVE  Given(b.holder, t)'
<1>0. b.holder \in Clients /\ b.op \in {"acquire", "renew", "release"}
  BY DEF Bodies
<1>1. CASE b.op = "renew"
  <2>1. Redis!Answer(b) = Redis!RenewAnswer(b)
    BY <1>1 DEF Redis!Answer
  <2> QED BY <2>1 DEF Redis!RenewAnswer
<1>2. CASE b.op = "release"
  <2>1. Redis!Answer(b) = Redis!ReleaseAnswer(b)
    BY <1>2 DEF Redis!Answer
  <2> QED BY <2>1 DEF Redis!ReleaseAnswer
<1>3. CASE b.op = "acquire"
  <2> DEFINE a == Redis!Answer(b)
  <2>1. a = Redis!AcquireAnswer(b) /\ Redis!AcquireScript(b)
    BY <1>3 DEF Redis!Answer, Redis!Run
  <2>2. CASE Redis!Present
    <3>1. Redis!Live /\ redisLock.holder = b.holder /\ a.token = redisLock.token
      BY <2>1, <2>2, LiveHash DEF Redis!AcquireAnswer
    <3>2. redisLock' = redisLock /\ fence' = fence
      BY <2>1, <2>2 DEF Redis!AcquireScript, Redis!redisVars
    <3>3. t = fence /\ Canonical(fence) /\ fence \in Digits
      BY <3>1, LiveHash DEF LockCarriesFence
    <3> QED BY <3>1, <3>2, <3>3 DEF Given
  <2>3. CASE ~Redis!Present /\ ~Redis!CanMint
    BY <2>1, <2>3 DEF Redis!AcquireAnswer, Redis!Live
  <2>4. CASE ~Redis!Present /\ Redis!CanMint
    <3>1. GrantsLease(b)
      BY <2>1, <2>4 DEF Redis!AcquireScript, GrantsLease
    <3>2. a.token = Redis!NextToken /\ fence' = Redis!NextToken
      BY <2>1, <2>4, <3>1 DEF Redis!AcquireAnswer, Redis!Live, GrantsLease
    <3>3. Given(b.holder, fence)'
      BY <3>1, GrantKeeps
    <3> QED BY <3>2, <3>3
  <2> QED BY <2>2, <2>3, <2>4
<1> QED BY <1>0, <1>1, <1>2, <1>3

\* A record stays the client's own while nothing takes a token back.
LEMMA OwnStays ==
  ASSUME NEW c \in Clients, NEW k, OwnRecord(c, k), \A t : Given(c, t) => Given(c, t)'
  PROVE  OwnRecord(c, k)'
  BY DEF OwnRecord

\* One client moves.
LEMMA CallerMoves ==
  ASSUME LeaseInv, KeepsLease, orphans' \subseteq Bodies, NEW c \in Clients, NEW k,
         caller' = [caller EXCEPT ![c] = k], OwnRecord(c, k)'
  PROVE  LeaseInv'
<1>1. caller = [x \in Clients |-> caller[x]]
  BY DEF LeaseInv
<1>2. caller' = [x \in Clients |-> caller'[x]] /\ caller'[c] = k /\ \A x \in Clients : x # c => caller'[x] = caller[x]
  BY <1>1
<1>3. ASSUME NEW x \in Clients PROVE OwnRecord(x, caller[x])'
  <2>1. CASE x = c
    <3>1. caller'[x] = k
      BY <1>2, <2>1
    <3> QED BY <2>1, <3>1
  <2>2. CASE x # c
    <3>1. PICK r : r = caller[x]
      OBVIOUS
    <3>2. OwnRecord(x, r) /\ (\A t : Given(x, t) => Given(x, t)') /\ caller'[x] = r
      BY <1>2, <2>2, <3>1 DEF LeaseInv, KeepsLease
    <3>3. OwnRecord(x, r)'
      BY <3>2, OwnStays
    <3> QED BY <3>2, <3>3
  <2> QED BY <2>1, <2>2
<1> QED BY <1>2, <1>3 DEF LeaseInv, KeepsLease

\* The records At makes, and those Goes makes.
LEMMA Shapes ==
  /\ \A p, n : LET k == Redis!At(p, n) IN
       k = [f \in CallerFields |-> k[f]] /\ k.pc = p /\ k.request = None /\ k.response = None /\ k.grant = None
  /\ \A c, op, t : LET b == Redis!Body(op, c, t) IN b.op = op /\ b.holder = c /\ b.token = t
  /\ \A c \in Clients, op \in {"acquire", "renew", "release"}, t \in Digits \cup {None} : Redis!Body(op, c, t) \in Bodies
<1>1. ASSUME NEW p, NEW n
      PROVE  LET k == Redis!At(p, n) IN
             k = [f \in CallerFields |-> k[f]] /\ k.pc = p /\ k.request = None /\ k.response = None /\ k.grant = None
  BY DEF Redis!At, CallerFields
<1>2. \A c, op, t : LET b == Redis!Body(op, c, t) IN b.op = op /\ b.holder = c /\ b.token = t
  BY DEF Redis!Body
<1>3. \A c \in Clients, op \in {"acquire", "renew", "release"}, t \in Digits \cup {None} : Redis!Body(op, c, t) \in Bodies
  BY DEF Redis!Body, Bodies
<1> QED BY <1>1, <1>2, <1>3

\* A record At makes depends on no variable.
LEMMA ConstantAt == \A p, n : Redis!At(p, n)' = Redis!At(p, n)
  BY DEF Redis!At

\* A client that holds nothing and waits for nothing.
LEMMA AtIsOwn ==
  ASSUME NEW c \in Clients, NEW p, NEW n, p \notin {"held", "recovering", "renewing"}
  PROVE  OwnRecord(c, Redis!At(p, n)) /\ OwnRecord(c, Redis!At(p, n))'
<1>1. PICK k : k = Redis!At(p, n)
  OBVIOUS
<1>2. k = [f \in CallerFields |-> k[f]] /\ k.pc = p /\ k.request = None /\ k.response = None
  BY <1>1, Shapes
<1>3. OwnRecord(c, k)
  BY <1>2 DEF OwnRecord
<1>4. OwnRecord(c, k)'
  BY <1>2 DEF OwnRecord
<1>5. Redis!At(p, n)' = Redis!At(p, n)
  BY DEF Redis!At
<1> QED BY <1>1, <1>3, <1>4, <1>5

\* A client that goes on with a request of its own.
LEMMA GoesIsOwn ==
  ASSUME LeaseInv, NEW c \in Clients, NEW p, NEW b, NEW g, b \in {None} \cup Bodies, b # None => b.holder = c,
         p \in {"held", "recovering", "renewing"} =>
             g = [token |-> g.token, expires |-> g.expires] /\ Given(c, g.token)',
         Redis!Goes(c, p, b, g), KeepsLease, orphans' \subseteq Bodies
  PROVE  LeaseInv'
<1>1. PICK k : k = caller[c]
  OBVIOUS
<1>2. k = [f \in CallerFields |-> k[f]]
  BY <1>1 DEF LeaseInv, OwnRecord
<1> DEFINE r == [k EXCEPT !.pc = p, !.request = b, !.response = None, !.grant = g]
<1>3. caller' = [caller EXCEPT ![c] = r]
  BY <1>1 DEF Redis!Goes, LeaseInv
<1>4. r = [f \in CallerFields |-> r[f]] /\ r.pc = p /\ r.request = b /\ r.response = None /\ r.grant = g
  BY <1>2 DEF CallerFields
<1> HIDE DEF r
<1>5. PICK n : n = r
  OBVIOUS
<1>6. OwnRecord(c, n)'
  BY <1>4, <1>5 DEF OwnRecord
<1>7. caller' = [caller EXCEPT ![c] = n]
  BY <1>3, <1>5
<1> QED BY <1>6, <1>7, CallerMoves

\* Nobody moves.
LEMMA NobodyMoves ==
  ASSUME LeaseInv, KeepsLease, orphans' \subseteq Bodies, caller' = caller
  PROVE  LeaseInv'
<1>1. ASSUME NEW x \in Clients PROVE OwnRecord(x, caller[x])'
  <2>1. PICK r : r = caller[x]
    OBVIOUS
  <2>2. OwnRecord(x, r) /\ (\A t : Given(x, t) => Given(x, t)') /\ caller'[x] = r
    BY <2>1 DEF LeaseInv, KeepsLease
  <2>3. OwnRecord(x, r)'
    BY <2>2, OwnStays
  <2> QED BY <2>2, <2>3
<1> QED BY <1>1 DEF LeaseInv, KeepsLease

\* Nothing of Redis changes.
LEMMA QuietKeeps ==
  ASSUME LockCarriesFence, redisLock' = redisLock, fence' = fence, time' = time, origin' = origin
  PROVE  KeepsLease
<1>1. time' \in Nat /\ time' >= time
  BY DEF LockCarriesFence
<1> QED BY <1>1, EndKeeps

\* A request is answered.
LEMMA ServeStep ==
  ASSUME LeaseInv, NEW c \in Clients, Redis!Serve(c)
  PROVE  LeaseInv' /\ KeepsLease
<1>1. PICK k, b, a : k = caller[c] /\ b = caller[c].request /\ a = Redis!Answer(caller[c].request)
  OBVIOUS
<1>2. /\ b # None /\ Redis!Run(b) /\ time' = time /\ origin' = origin /\ orphans' = orphans
      /\ a = Redis!Answer(b)
  BY <1>1 DEF Redis!Serve
<1>3. LockCarriesFence /\ OwnRecord(c, k) /\ orphans \subseteq Bodies /\ b \in Bodies /\ b.holder = c
  BY <1>1, <1>2 DEF LeaseInv, OwnRecord
<1>4. KeepsLease
  BY <1>2, <1>3, ScriptKeeps
<1>5. PICK t : t = a.token
  OBVIOUS
<1>6. a.kind \in {"granted", "replayed"} => Given(c, t)'
  BY <1>2, <1>3, <1>5, AnswerGives
<1> DEFINE m == [k EXCEPT !.response = a]
           r == [m EXCEPT !.request = None]
<1>7. m = [f \in CallerFields |-> m[f]] /\ m.pc = k.pc /\ m.response = a /\ m.grant = k.grant
  BY <1>3 DEF OwnRecord, CallerFields
<1>8. caller' = [caller EXCEPT ![c] = r]
  <2>1. caller = [x \in Clients |-> caller[x]]
    BY <1>3 DEF LeaseInv
  <2>2. caller' = [caller EXCEPT ![c].response = a, ![c].request = None]
    BY <1>1 DEF Redis!Serve
  <2> QED BY <1>1, <2>1, <2>2
<1> HIDE DEF m
<1>9. /\ r = [f \in CallerFields |-> r[f]] /\ r.pc = k.pc /\ r.response = a /\ r.grant = k.grant /\ r.request = None
  BY <1>7 DEF CallerFields
<1> HIDE DEF r
<1>10. PICK n : n = r
  OBVIOUS
<1>11. k.pc \in {"held", "recovering", "renewing"} =>
           k.grant = [token |-> k.grant.token, expires |-> k.grant.expires] /\ Given(c, k.grant.token)'
  BY <1>3, <1>4 DEF OwnRecord, KeepsLease
<1>12. OwnRecord(c, n)'
  BY <1>5, <1>6, <1>9, <1>10, <1>11 DEF OwnRecord
<1>13. caller' = [caller EXCEPT ![c] = n] /\ orphans' \subseteq Bodies
  BY <1>2, <1>3, <1>8, <1>10
<1>14. LeaseInv'
  BY <1>4, <1>12, <1>13, CallerMoves
<1> QED BY <1>4, <1>14

\* An abandoned request arrives.
LEMMA OrphanStep ==
  ASSUME LeaseInv, NEW b \in orphans, Redis!ServeOrphan(b)
  PROVE  LeaseInv' /\ KeepsLease
<1>1. b \in Bodies /\ Redis!Run(b) /\ time' = time /\ origin' = origin /\ orphans' \subseteq Bodies /\ caller' = caller
  BY DEF LeaseInv, Redis!ServeOrphan
<1>2. KeepsLease
  BY <1>1, ScriptKeeps DEF LeaseInv
<1> QED BY <1>1, <1>2, NobodyMoves

\* Time passes.
LEMMA TickStep ==
  ASSUME LeaseInv, Redis!Tick
  PROVE  LeaseInv' /\ KeepsLease
<1>1. /\ time' = time + 1 /\ redisLock' = redisLock /\ fence' = fence /\ origin' = origin /\ orphans' = orphans
      /\ caller' = caller
  BY DEF Redis!Tick, Redis!redisVars
<1>2. time' \in Nat /\ time' >= time
  BY <1>1 DEF LeaseInv, LockCarriesFence
<1>3. KeepsLease
  BY <1>1, <1>2, EndKeeps DEF LeaseInv
<1>4. orphans' \subseteq Bodies
  BY <1>1 DEF LeaseInv
<1> QED BY <1>1, <1>3, <1>4, NobodyMoves

\* A request fails on its way there or back.
LEMMA ErrorStep ==
  ASSUME LeaseInv, NEW c \in Clients, Redis!TransportError(c)
  PROVE  LeaseInv' /\ KeepsLease
<1>1. redisLock' = redisLock /\ fence' = fence /\ time' = time /\ origin' = origin
  BY DEF Redis!TransportError, Redis!redisVars
<1>2. KeepsLease
  BY <1>1, QuietKeeps DEF LeaseInv
<1>3. orphans' \subseteq Bodies
  BY ZenonT(30) DEF LeaseInv, OwnRecord, Redis!TransportError
<1>4. PICK p, n : p = (IF caller[c].pc = "releasing" THEN "idle" ELSE "failed") /\ n = caller[c].nth
  OBVIOUS
<1>5. CASE caller' = [caller EXCEPT ![c] = Redis!At(p, n)]
  <2>1. OwnRecord(c, Redis!At(p, n))'
    BY <1>4, AtIsOwn
  <2>2. PICK k : k = Redis!At(p, n) /\ OwnRecord(c, k)'
    BY <2>1, ConstantAt
  <2> QED BY <1>2, <1>3, <1>5, <2>2, CallerMoves
<1>6. CASE caller[c].pc = "renewing" /\ Redis!Goes(c, "held", None, caller[c].grant)
  <2>1. PICK g, t : g = caller[c].grant /\ t = caller[c].grant.token
    OBVIOUS
  <2>2. g = [token |-> g.token, expires |-> g.expires] /\ Given(c, t) /\ t = g.token
    BY <1>6, <2>1 DEF LeaseInv, OwnRecord
  <2>3. Given(c, g.token)'
    BY <1>2, <2>2 DEF KeepsLease
  <2>4. Redis!Goes(c, "held", None, g)
    BY <1>6, <2>1
  <2> QED BY <1>2, <1>3, <2>2, <2>3, <2>4, GoesIsOwn
<1> QED BY <1>4, <1>5, <1>6 DEF Redis!TransportError

\* A client gives up or has nothing more to do.
LEMMA SettleStep ==
  ASSUME LeaseInv, KeepsLease, orphans' = orphans, NEW c \in Clients, NEW p, NEW n,
         p \notin {"held", "recovering", "renewing"}, caller' = [caller EXCEPT ![c] = Redis!At(p, n)]
  PROVE  LeaseInv'
<1>1. OwnRecord(c, Redis!At(p, n))'
  BY AtIsOwn
<1>2. PICK k : k = Redis!At(p, n) /\ OwnRecord(c, k)'
  BY <1>1, ConstantAt
<1>3. orphans' \subseteq Bodies
  BY DEF LeaseInv
<1> QED BY <1>2, <1>3, CallerMoves

\* acquire starts.
LEMMA StartAcquireStep ==
  ASSUME LeaseInv, NEW c \in Clients, Redis!StartAcquire(c)
  PROVE  LeaseInv' /\ KeepsLease
<1>1. redisLock' = redisLock /\ fence' = fence /\ time' = time /\ origin' = origin /\ orphans' = orphans
  BY DEF Redis!StartAcquire, Redis!redisVars
<1>2. KeepsLease
  BY <1>1, QuietKeeps DEF LeaseInv
<1>3. PICK w, n, s : caller' = [caller EXCEPT ![c] =
           [Redis!At("acquiring", n) EXCEPT !.request = Redis!Body("acquire", c, None), !.wait = w, !.started = s]]
  BY DEF Redis!StartAcquire
<1>4. PICK b : b = Redis!Body("acquire", c, None)
  OBVIOUS
<1>5. b \in Bodies /\ b.holder = c
  BY <1>4, Shapes
<1>6. PICK k : k = [Redis!At("acquiring", n) EXCEPT !.request = b, !.wait = w, !.started = s]
  OBVIOUS
<1>7. k = [f \in CallerFields |-> k[f]] /\ k.pc = "acquiring" /\ k.request = b /\ k.response = None
  BY <1>6 DEF Redis!At, CallerFields
<1>8. OwnRecord(c, k)'
  BY <1>5, <1>7 DEF OwnRecord
<1>9. orphans' \subseteq Bodies /\ caller' = [caller EXCEPT ![c] = k]
  BY <1>1, <1>3, <1>4, <1>6 DEF LeaseInv
<1> QED BY <1>2, <1>8, <1>9, CallerMoves

\* A client holds a grant.
LEMMA HeldStep ==
  ASSUME LeaseInv, KeepsLease, orphans' = orphans, NEW c \in Clients, NEW n, NEW g,
         g = [token |-> g.token, expires |-> g.expires], Given(c, g.token)',
         caller' = [caller EXCEPT ![c] = [Redis!At("held", n) EXCEPT !.grant = g]]
  PROVE  LeaseInv'
<1>1. PICK k : k = [Redis!At("held", n) EXCEPT !.grant = g]
  OBVIOUS
<1>2. k = [f \in CallerFields |-> k[f]] /\ k.pc = "held" /\ k.request = None /\ k.response = None /\ k.grant = g
  BY <1>1 DEF Redis!At, CallerFields
<1>3. OwnRecord(c, k)'
  BY <1>2 DEF OwnRecord
<1>4. orphans' \subseteq Bodies /\ caller' = [caller EXCEPT ![c] = k]
  BY <1>1 DEF LeaseInv
<1> QED BY <1>3, <1>4, CallerMoves

\* acquire reads its answer.
LEMMA AcquireAnsweredStep ==
  ASSUME LeaseInv, NEW c \in Clients, Redis!AcquireAnswered(c)
  PROVE  LeaseInv' /\ KeepsLease
<1>1. redisLock' = redisLock /\ fence' = fence /\ time' = time /\ origin' = origin /\ orphans' = orphans
  BY DEF Redis!AcquireAnswered, Redis!redisVars
<1>2. KeepsLease
  BY <1>1, QuietKeeps DEF LeaseInv
<1>3. PICK k, r, n : k = caller[c] /\ r = caller[c].response /\ n = caller[c].nth
  OBVIOUS
<1>4. OwnRecord(c, k) /\ k.pc = "acquiring" /\ k.response = r /\ r # None
  BY <1>3 DEF LeaseInv, Redis!AcquireAnswered
<1>5. PICK g : g = Redis!GrantOf(r)
  OBVIOUS
<1>6. g = [token |-> g.token, expires |-> g.expires] /\ g.token = r.token
  BY <1>5 DEF Redis!GrantOf
<1>7. r.kind \in {"granted", "replayed"} => Given(c, g.token) /\ Given(c, g.token)' /\ g.token \in Digits
  <2>1. PICK t : t = g.token
    OBVIOUS
  <2>2. r.kind \in {"granted", "replayed"} => Given(c, t)
    BY <1>4, <1>6, <2>1 DEF OwnRecord
  <2>3. Given(c, t) => Given(c, t)' /\ t \in Digits
    BY <1>2 DEF KeepsLease, Given, Canonical
  <2> QED BY <2>1, <2>2, <2>3
<1>8. CASE caller' = [caller EXCEPT ![c] = Redis!At("failed", n)]
  BY <1>1, <1>2, <1>8, SettleStep
<1>9. CASE r.kind = "granted" /\ caller' = [caller EXCEPT ![c] = [Redis!At("held", n) EXCEPT !.grant = g]]
  BY <1>1, <1>2, <1>6, <1>7, <1>9, HeldStep
<1>10. CASE r.kind = "replayed" /\ Redis!Goes(c, "recovering", Redis!Body("renew", c, r.token), g)
  <2>1. PICK b : b = Redis!Body("renew", c, r.token)
    OBVIOUS
  <2>2. b \in Bodies /\ b.holder = c
    BY <1>6, <1>7, <1>10, <2>1, Shapes
  <2>3. Redis!Goes(c, "recovering", b, g) /\ Given(c, g.token)'
    BY <1>7, <1>10, <2>1
  <2>4. LeaseInv'
    BY <1>1, <1>2, <1>6, <2>2, <2>3, GoesIsOwn DEF LeaseInv
  <2> QED BY <1>2, <2>4
<1>11. CASE caller' = [caller EXCEPT ![c] = [@ EXCEPT !.pc = "sleeping", !.response = None, !.wakeAt = time + RetryInterval]]
  <2>1. PICK s : s = time + RetryInterval
    OBVIOUS
  <2>2. PICK q : q = [k EXCEPT !.pc = "sleeping", !.response = None, !.wakeAt = s]
    OBVIOUS
  <2>3. q = [f \in CallerFields |-> q[f]] /\ q.pc = "sleeping" /\ q.request = k.request /\ q.response = None
    BY <1>4, <2>2 DEF OwnRecord, CallerFields
  <2>4. OwnRecord(c, q)'
    BY <1>4, <2>3 DEF OwnRecord
  <2>5. orphans' \subseteq Bodies /\ caller' = [caller EXCEPT ![c] = q]
    <3>1. caller = [x \in Clients |-> caller[x]] /\ orphans \subseteq Bodies
      BY DEF LeaseInv
    <3> QED BY <1>1, <1>3, <1>11, <2>1, <2>2, <3>1
  <2>6. LeaseInv'
    BY <1>2, <2>4, <2>5, CallerMoves
  <2> QED BY <1>2, <2>6
<1>12. \/ caller' = [caller EXCEPT ![c] = Redis!At("failed", n)]
       \/ r.kind = "granted" /\ caller' = [caller EXCEPT ![c] = [Redis!At("held", n) EXCEPT !.grant = g]]
       \/ r.kind = "replayed" /\ Redis!Goes(c, "recovering", Redis!Body("renew", c, r.token), g)
       \/ caller' = [caller EXCEPT ![c] = [@ EXCEPT !.pc = "sleeping", !.response = None, !.wakeAt = time + RetryInterval]]
  BY <1>3, <1>5 DEF Redis!AcquireAnswered
<1> QED BY <1>2, <1>8, <1>9, <1>10, <1>11, <1>12

\* A sleeping acquire tries again.
LEMMA WakeStep ==
  ASSUME LeaseInv, NEW c \in Clients, Redis!Wake(c)
  PROVE  LeaseInv' /\ KeepsLease
<1>1. redisLock' = redisLock /\ fence' = fence /\ time' = time /\ origin' = origin /\ orphans' = orphans
  BY DEF Redis!Wake, Redis!redisVars
<1>2. KeepsLease
  BY <1>1, QuietKeeps DEF LeaseInv
<1>3. PICK b : b = Redis!Body("acquire", c, None)
  OBVIOUS
<1>4. b \in Bodies /\ b.holder = c /\ Redis!Goes(c, "acquiring", b, None)
  BY <1>3, Shapes DEF Redis!Wake
<1>5. LeaseInv'
  BY <1>1, <1>2, <1>4, GoesIsOwn DEF LeaseInv
<1> QED BY <1>2, <1>5

\* renew starts.
LEMMA StartRenewStep ==
  ASSUME LeaseInv, NEW c \in Clients, Redis!StartRenew(c)
  PROVE  LeaseInv' /\ KeepsLease
<1>1. redisLock' = redisLock /\ fence' = fence /\ time' = time /\ origin' = origin /\ orphans' = orphans
  BY DEF Redis!StartRenew, Redis!redisVars
<1>2. KeepsLease
  BY <1>1, QuietKeeps DEF LeaseInv
<1>3. PICK g, t : g = caller[c].grant /\ t = caller[c].grant.token
  OBVIOUS
<1>4. g = [token |-> g.token, expires |-> g.expires] /\ Given(c, t) /\ t = g.token
  BY <1>3 DEF LeaseInv, OwnRecord, Redis!StartRenew
<1>5. Given(c, t)' /\ t \in Digits
  BY <1>2, <1>4 DEF KeepsLease, Given, Canonical
<1>6. PICK b : b = Redis!Body("renew", c, t)
  OBVIOUS
<1>7. b \in Bodies /\ b.holder = c /\ Redis!Goes(c, "renewing", b, g)
  BY <1>3, <1>5, <1>6, Shapes DEF Redis!StartRenew
<1>8. Given(c, g.token)'
  BY <1>4, <1>5
<1>9. LeaseInv'
  BY <1>1, <1>2, <1>4, <1>7, <1>8, GoesIsOwn DEF LeaseInv
<1> QED BY <1>2, <1>9

\* renew reads its answer.
LEMMA RenewAnsweredStep ==
  ASSUME LeaseInv, NEW c \in Clients, Redis!RenewAnswered(c)
  PROVE  LeaseInv' /\ KeepsLease
<1>1. redisLock' = redisLock /\ fence' = fence /\ time' = time /\ origin' = origin /\ orphans' = orphans
  BY DEF Redis!RenewAnswered, Redis!redisVars
<1>2. KeepsLease
  BY <1>1, QuietKeeps DEF LeaseInv
<1>3. PICK g, n : g = caller[c].grant /\ n = caller[c].nth
  OBVIOUS
<1>4. g = [token |-> g.token, expires |-> g.expires] /\ Given(c, g.token)
  BY <1>3 DEF LeaseInv, OwnRecord, Redis!RenewAnswered
<1>5. PICK h : h = [g EXCEPT !.expires = time + caller[c].response.pttl]
  OBVIOUS
<1>6. h = [token |-> h.token, expires |-> h.expires] /\ h.token = g.token
  BY <1>4, <1>5
<1>7. Given(c, h.token)'
  BY <1>2, <1>4, <1>6 DEF KeepsLease
<1>8. CASE caller' = [caller EXCEPT ![c] = [Redis!At("held", n) EXCEPT !.grant = h]]
  BY <1>1, <1>2, <1>6, <1>7, <1>8, HeldStep
<1>9. CASE caller' = [caller EXCEPT ![c] = Redis!At("failed", n)]
  BY <1>1, <1>2, <1>9, SettleStep
<1>10. \/ caller' = [caller EXCEPT ![c] = [Redis!At("held", n) EXCEPT !.grant = h]]
       \/ caller' = [caller EXCEPT ![c] = Redis!At("failed", n)]
  BY <1>3, <1>5 DEF Redis!RenewAnswered
<1> QED BY <1>2, <1>8, <1>9, <1>10

\* release starts.
LEMMA StartReleaseStep ==
  ASSUME LeaseInv, NEW c \in Clients, Redis!StartRelease(c)
  PROVE  LeaseInv' /\ KeepsLease
<1>1. redisLock' = redisLock /\ fence' = fence /\ time' = time /\ origin' = origin /\ orphans' = orphans
  BY DEF Redis!StartRelease, Redis!redisVars
<1>2. KeepsLease
  BY <1>1, QuietKeeps DEF LeaseInv
<1>3. PICK t : t = caller[c].grant.token
  OBVIOUS
<1>4. Given(c, t)
  BY <1>3 DEF LeaseInv, OwnRecord, Redis!StartRelease
<1>5. t \in Digits
  BY <1>4 DEF Given, Canonical
<1>6. PICK b : b = Redis!Body("release", c, t)
  OBVIOUS
<1>7. b \in Bodies /\ b.holder = c /\ Redis!Goes(c, "releasing", b, None)
  BY <1>3, <1>5, <1>6, Shapes DEF Redis!StartRelease
<1>8. orphans' \subseteq Bodies
  BY <1>1 DEF LeaseInv
<1>9. LeaseInv'
  BY <1>2, <1>7, <1>8, GoesIsOwn
<1> QED BY <1>2, <1>9

\* release reads its answer.
LEMMA ReleaseAnsweredStep ==
  ASSUME LeaseInv, NEW c \in Clients, Redis!ReleaseAnswered(c)
  PROVE  LeaseInv' /\ KeepsLease
<1>1. redisLock' = redisLock /\ fence' = fence /\ time' = time /\ origin' = origin /\ orphans' = orphans
  BY DEF Redis!ReleaseAnswered, Redis!redisVars
<1>2. KeepsLease
  BY <1>1, QuietKeeps DEF LeaseInv
<1>3. PICK n : n = caller[c].nth
  OBVIOUS
<1>4. caller' = [caller EXCEPT ![c] = Redis!At("idle", n)]
  BY <1>3 DEF Redis!ReleaseAnswered
<1> QED BY <1>1, <1>2, <1>4, SettleStep

\* Every step keeps the invariant and is a step of the abstract lease.
LEMMA RedisStep ==
  ASSUME LeaseInv, [Redis!RedisNext]_Redis!vars
  PROVE  LeaseInv' /\ KeepsLease
<1>1. ASSUME NEW c \in Clients,
             \/ Redis!Serve(c) \/ Redis!TransportError(c) \/ Redis!StartAcquire(c) \/ Redis!AcquireAnswered(c)
             \/ Redis!Wake(c) \/ Redis!StartRenew(c) \/ Redis!RenewAnswered(c)
             \/ Redis!StartRelease(c) \/ Redis!ReleaseAnswered(c)
      PROVE  LeaseInv' /\ KeepsLease
  BY <1>1, ServeStep, ErrorStep, StartAcquireStep, AcquireAnsweredStep, WakeStep, StartRenewStep,
     RenewAnsweredStep, StartReleaseStep, ReleaseAnsweredStep
<1>2. CASE \E b \in orphans : Redis!ServeOrphan(b)
  BY <1>2, OrphanStep
<1>3. CASE Redis!Tick
  BY <1>3, TickStep
<1>4. CASE UNCHANGED Redis!vars
  <2>1. /\ redisLock' = redisLock /\ fence' = fence /\ time' = time /\ origin' = origin /\ orphans' = orphans
        /\ caller' = caller
    BY <1>4 DEF Redis!vars, Redis!redisVars
  <2>2. KeepsLease /\ orphans' \subseteq Bodies
    BY <2>1, QuietKeeps DEF LeaseInv
  <2> QED BY <2>1, <2>2, NobodyMoves
<1> QED BY <1>1, <1>2, <1>3, <1>4 DEF Redis!RedisNext

\* The initial states satisfy it.
LEMMA RedisStart == Redis!RedisInit => LeaseInv
<1> SUFFICES ASSUME Redis!RedisInit PROVE LeaseInv
  OBVIOUS
<1>1. fence \in {None, CORRUPT} \cup (Digits \ {<<>>})
  BY RedisAssumption DEF Redis!RedisInit, Digits
<1>2. origin \in Nat /\ (fence \in {None, CORRUPT} => origin = 0)
  BY <1>1, ValueNat, RedisDecimals DEF Redis!RedisInit
<1>3. redisLock \in {None, CORRUPT} /\ redisLock \notin LockHash
  BY RedisAssumption DEF Redis!RedisInit, LockHash, Digits
<1>4. LockCarriesFence
  BY <1>1, <1>2, <1>3 DEF LockCarriesFence, Redis!RedisInit
<1>5. ASSUME NEW c \in Clients PROVE OwnRecord(c, caller[c])
  <2>1. caller[c] = Redis!At("idle", 0)
    BY DEF Redis!RedisInit
  <2> QED BY <2>1, AtIsOwn
<1> QED BY <1>4, <1>5 DEF LeaseInv, Redis!RedisInit

\* The tokens Redis gives out stay with whom it gave them to.
THEOREM RedisInductive == Redis!RedisSpec => []LeaseInv
<1>1. LeaseInv /\ [Redis!RedisNext]_Redis!vars => LeaseInv'
  BY RedisStep
<1> QED BY <1>1, RedisStart, PTL DEF Redis!RedisSpec

\* While a client holds a grant, Redis keeps that grant or a newer one
\* (upstash-redis.ts), for any clients, any ceiling and any initial counter.
THEOREM HeldIsNewest == Redis!RedisSpec => []HeldIsCurrentOrOlder
<1>1. LeaseInv => HeldIsCurrentOrOlder
  <2> SUFFICES ASSUME LeaseInv, NEW c \in Clients, caller[c].pc = "held", Redis!Live
               PROVE  \/ redisLock.holder = c /\ redisLock.token = caller[c].grant.token
                      \/ Redis!Value(caller[c].grant.token) < Redis!Value(redisLock.token)
    BY DEF HeldIsCurrentOrOlder, Redis!HeldIsCurrentOrOlder
  <2>1. redisLock \in LockHash /\ fence = redisLock.token
    BY LiveHash DEF LeaseInv, LockCarriesFence
  <2>2. Given(c, caller[c].grant.token)
    BY DEF LeaseInv, OwnRecord
  <2> QED BY <2>1, <2>2, RedisDecimals DEF Given
<1> QED BY <1>1, RedisInductive, PTL

\* The carry loop and the comparison by length and text are arithmetic on tokens
\* of any length, and only a renewal that names the token extends a lease.
THEOREM ScriptStepsHold == Redis!RedisSpec => ScriptSteps
<1>1. LeaseInv /\ [Redis!RedisNext]_Redis!vars => [CountsByOne]_Redis!vars
  BY RedisStep DEF KeepsLease
<1>2. LeaseInv /\ [Redis!RedisNext]_Redis!vars =>
        [(Redis!Live /\ redisLock' # None /\ redisLock'.token = redisLock.token /\ redisLock'.expires # redisLock.expires) =>
            \E b \in orphans \cup {caller[c].request : c \in Clients} :
                b # None /\ b.op = "renew" /\ b.token = redisLock.token]_Redis!vars
  <2> SUFFICES ASSUME LeaseInv, Redis!RedisNext,
                      Redis!Live, redisLock' # None, redisLock'.token = redisLock.token,
                      redisLock'.expires # redisLock.expires
               PROVE  \E b \in orphans \cup {caller[c].request : c \in Clients} :
                          b # None /\ b.op = "renew" /\ b.token = redisLock.token
    OBVIOUS
  <2>1. CASE \E b \in orphans : Redis!ServeOrphan(b)
    <3>1. PICK b \in orphans : Redis!ServeOrphan(b)
      BY <2>1
    <3>2. b \in Bodies /\ Redis!Run(b) /\ LockCarriesFence
      BY <3>1 DEF LeaseInv, Redis!ServeOrphan
    <3>3. b.op = "renew" /\ b.token = redisLock.token
      BY <3>2, ScriptExtends
    <3>4. b # None
      BY <3>2, RedisAssumption DEF Bodies, Digits
    <3> QED BY <3>3, <3>4
  <2>2. CASE \E c \in Clients : Redis!Serve(c)
    <3>1. PICK c \in Clients : Redis!Serve(c)
      BY <2>2
    <3>2. PICK b : b = caller[c].request
      OBVIOUS
    <3>3. b # None /\ Redis!Run(b)
      BY <3>1, <3>2 DEF Redis!Serve
    <3>4. b \in Bodies /\ LockCarriesFence
      BY <3>2, <3>3 DEF LeaseInv, OwnRecord
    <3>5. b.op = "renew" /\ b.token = redisLock.token
      BY <3>3, <3>4, ScriptExtends
    <3> QED BY <3>2, <3>3, <3>5
  <2>3. CASE redisLock' = redisLock
    BY <2>3
  <2> QED BY <2>1, <2>2, <2>3
       DEF Redis!RedisNext, Redis!TransportError, Redis!StartAcquire, Redis!AcquireAnswered, Redis!Wake,
           Redis!StartRenew, Redis!RenewAnswered, Redis!StartRelease, Redis!ReleaseAnswered, Redis!Tick, Redis!redisVars
<1> QED BY <1>1, <1>2, RedisInductive, PTL
     DEF ScriptSteps, Redis!ScriptSteps, Redis!FenceCountsByOne, Redis!OnlyRenewalExtends, CountsByOne, Redis!RedisSpec

\* The scripts implement the lease every caller is written against.
THEOREM ScriptsImplementLease == Redis!RedisSpec => RedisImplementsLease
<1>1. Redis!RedisInit => Redis!Abs!LeaseInit
  <2> SUFFICES ASSUME Redis!RedisInit PROVE Redis!Abs!LeaseInit
    OBVIOUS
  <2>1. ~Redis!Live
    BY DEF Redis!RedisInit, Redis!Live, Redis!Present
  <2>2. (IF fence \in {None, CORRUPT} THEN 0 ELSE Redis!Value(fence) - origin) = 0
    <3>1. CASE fence \in {None, CORRUPT}
      BY <3>1
    <3>2. CASE fence \notin {None, CORRUPT}
      <4>1. fence \in Digits /\ origin = Redis!Value(fence)
        BY <3>2, RedisAssumption DEF Redis!RedisInit, Digits
      <4>2. Redis!Value(fence) \in Nat
        BY <4>1, ValueNat, RedisDecimals
      <4> QED BY <3>2, <4>1, <4>2
    <3> QED BY <3>1, <3>2
  <2> QED BY <2>1, <2>2 DEF Redis!Abs!LeaseInit
<1>2. LeaseInv /\ [Redis!RedisNext]_Redis!vars => [Redis!Abs!LeaseNext]_(Redis!Abs!leaseState)
  BY RedisStep DEF KeepsLease
<1> QED BY <1>1, <1>2, RedisInductive, PTL
     DEF Redis!RedisSpec, RedisImplementsLease, Redis!RedisImplementsLease, Redis!Abs!LeaseSpec
=============================================================================
