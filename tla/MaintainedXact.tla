--------------------------- MODULE MaintainedXact ---------------------------
(***************************************************************************)
(* withMaintainedXactLock (maintained.ts): a lease kept alive by a         *)
(* concurrent maintainer around one PostgreSQL transaction that holds the  *)
(* advisory lock of the same key.  Callers run concurrently against one    *)
(* lease authority (AbstractLease) and one PostgreSQL server (external).   *)
(*                                                                         *)
(* A call is named by the fencing token of its grant; so is the server     *)
(* transaction it opens, which can outlive the call: a connection that is  *)
(* destroyed, or a COMMIT whose answer is lost, is settled by the server   *)
(* later.                                                                  *)
(***************************************************************************)
EXTENDS Integers, Sequences

CONSTANTS
    Callers,  \* processes using the same lock key
    MaxToken, \* bound: number of grants
    MaxPolls, \* tries of the advisory lock before waitTimeoutMs has elapsed
    NULL

ASSUME BoundsAssumption == MaxToken \in Nat /\ MaxPolls \in Nat
ASSUME NullAssumption == NULL \notin Callers /\ NULL \notin Nat

VARIABLES
    owner, active, minted, \* the lease authority
    pc,        \* where each call is
    keeper,    \* where its LeaseMaintainer is
    token,     \* the token of its grant, or NULL
    polls,     \* advisory-lock tries left
    txns,      \* server transactions, by token
    pgLock,    \* the transaction that holds the advisory lock, or NULL
    pooled,    \* connections given back to the pool as reusable, by token
    commits,   \* history: tokens of the committed transactions, in order
    releases   \* history: lease.release calls, by token

Tokens == 1..MaxToken

Authority == INSTANCE AbstractLease WITH Owners <- Callers

leaseState == <<owner, active, minted>>
callState == <<pc, keeper, token, polls>>
serverState == <<txns, pgLock, commits>>
vars == <<leaseState, callState, serverState, pooled, releases>>

Init ==
    /\ Authority!LeaseInit
    /\ pc = [c \in Callers |-> "idle"]
    /\ keeper = [c \in Callers |-> "off"]
    /\ token = [c \in Callers |-> NULL]
    /\ polls = [c \in Callers |-> 0]
    /\ txns = [t \in Tokens |-> "none"]
    /\ pgLock = NULL
    /\ pooled = {}
    /\ commits = <<>>
    /\ releases = [t \in Tokens |-> 0]

-----------------------------------------------------------------------------
(* The authority as a caller sees it.                                      *)

Holds(c) == active = token[c]

Expire ==
    /\ Authority!Drop
    /\ UNCHANGED <<callState, serverState, pooled, releases>>

(* The server.                                                             *)

\* Mutant: the session-scoped lock function, which only a lost session frees.
FreeLockWithSession(t) ==
    pgLock' = IF pgLock = t /\ txns'[t] = "aborted" THEN NULL ELSE pgLock

\* pg_try_advisory_xact_lock: the lock goes with the transaction.
FreeLock(t) == pgLock' = IF pgLock = t THEN NULL ELSE pgLock

\* A transaction the server has not ended.
Pending == {"open", "failed", "committing"}

\* No call uses the connection any more: it crashed, or released it.
Abandoned(t) == \A c \in Callers : token[c] = t => pc[c] = "release"

\* The server ends a transaction on its own: connection lost or destroyed,
\* or COMMIT failed.
ServerAborts(t) ==
    /\ txns[t] \in Pending
    /\ txns' = [txns EXCEPT ![t] = "aborted"]
    /\ FreeLock(t)
    /\ UNCHANGED <<leaseState, callState, pooled, commits, releases>>

ServerCommits(t) ==
    /\ txns[t] = "committing"
    /\ txns' = [txns EXCEPT ![t] = "committed"]
    /\ commits' = Append(commits, t)
    /\ FreeLock(t)
    /\ UNCHANGED <<leaseState, callState, pooled, releases>>

-----------------------------------------------------------------------------
(* One call.  Goto moves the main line; the maintainer moves beside it.    *)

Goto(c, label) == pc' = [pc EXCEPT ![c] = label]

\* An inner error: the maintainer is stopped, then the transaction is undone.
Fails(c) == Goto(c, "unwind")

\* acquireLease returned a grant; wait = FALSE allows a single try of the lock.
Acquire(c, wait) ==
    /\ pc[c] = "idle"
    /\ minted < MaxToken
    /\ Authority!Grant(c)
    /\ token' = [token EXCEPT ![c] = minted + 1]
    /\ polls' = [polls EXCEPT ![c] = IF wait THEN MaxPolls ELSE 0]
    /\ keeper' = [keeper EXCEPT ![c] = "sleep"]
    /\ Goto(c, "begin")
    /\ UNCHANGED <<serverState, pooled, releases>>

\* The grant names another holder or TTL than requested: released at once.
AcquireMismatch(c) ==
    /\ pc[c] = "idle"
    /\ minted < MaxToken
    /\ Authority!Grant(c)
    /\ token' = [token EXCEPT ![c] = minted + 1]
    /\ Goto(c, "release")
    /\ UNCHANGED <<keeper, polls, serverState, pooled, releases>>

\* The grant is not well-formed: `transport`, and there is nothing to release by.
AcquireMalformed(c) ==
    /\ pc[c] = "idle"
    /\ minted < MaxToken
    /\ Authority!Grant(c)
    /\ UNCHANGED <<callState, serverState, pooled, releases>>

\* pool.connect() and BEGIN; a failed BEGIN may have reached the server.
Begin(c) ==
    /\ pc[c] = "begin"
    /\ \/ /\ txns' = [txns EXCEPT ![token[c]] = "open"]
          /\ Goto(c, "lock") \/ Fails(c)
       \/ Fails(c) /\ UNCHANGED txns
    /\ UNCHANGED <<leaseState, keeper, token, polls, pgLock, commits, pooled, releases>>

\* One round of acquireMaintainedXactLock.  It throws when the maintainer has
\* failed, on contention without wait or with the budget elapsed, and whenever
\* the query fails, which may have taken the lock.
TryLock(c) ==
    /\ pc[c] = "lock"
    /\ \/ /\ keeper[c] # "failed"
          /\ txns[token[c]] = "open" /\ pgLock = NULL
          /\ pgLock' = token[c]
          /\ Goto(c, "work") \/ Fails(c)
          /\ UNCHANGED polls
       \/ /\ keeper[c] # "failed"
          /\ txns[token[c]] = "open" /\ pgLock # NULL
          /\ polls[c] > 0
          /\ polls' = [polls EXCEPT ![c] = @ - 1]
          /\ Goto(c, "lockSleep")
          /\ UNCHANGED pgLock
       \/ Fails(c) /\ UNCHANGED <<pgLock, polls>>
    /\ UNCHANGED <<leaseState, keeper, token, txns, commits, pooled, releases>>

\* sleepOrRenewalFailure
LockSleepEnds(c) ==
    /\ pc[c] = "lockSleep"
    /\ \/ keeper[c] = "failed" /\ Fails(c)
       \/ keeper[c] # "failed" /\ Goto(c, "lock")
    /\ UNCHANGED <<leaseState, keeper, token, polls, serverState, pooled, releases>>

\* Work may fail, may ignore the abort signal, and may swallow the error of a
\* statement, which leaves PostgreSQL with a failed transaction, its lock gone.
WorkEnds(c) ==
    /\ pc[c] = "work"
    /\ Goto(c, "stop") \/ Fails(c)
    /\ \/ txns[token[c]] = "open" /\ txns' = [txns EXCEPT ![token[c]] = "failed"] /\ FreeLock(token[c])
       \/ UNCHANGED <<txns, pgLock>>
    /\ UNCHANGED <<leaseState, keeper, token, polls, commits, pooled, releases>>

\* Mutant: a failed maintainer never settles its task.
StopWaitsOnFailed(c) ==
    /\ pc[c] \in {"stop", "unwind"}
    /\ keeper[c] = "sleep"
    /\ keeper' = [keeper EXCEPT ![c] = "off"]
    /\ Goto(c, IF pc[c] = "unwind" THEN "rollback" ELSE "final")
    /\ UNCHANGED <<leaseState, token, polls, serverState, pooled, releases>>

\* Mutant: maintainer.failure is not looked at after stop().
StopIgnoresFailure(c) ==
    /\ pc[c] \in {"stop", "unwind"}
    /\ keeper[c] \in {"sleep", "failed"}
    /\ keeper' = [keeper EXCEPT ![c] = IF @ = "failed" THEN @ ELSE "off"]
    /\ Goto(c, IF pc[c] = "unwind" THEN "rollback" ELSE "final")
    /\ UNCHANGED <<leaseState, token, polls, serverState, pooled, releases>>

\* maintainer.stop() waits for a renewal in flight; its failure is an inner
\* failure.
StopMaintainer(c) ==
    /\ pc[c] \in {"stop", "unwind"}
    /\ keeper[c] \in {"sleep", "failed"}
    /\ keeper' = [keeper EXCEPT ![c] = IF @ = "failed" THEN @ ELSE "off"]
    /\ Goto(c, IF pc[c] = "unwind" \/ keeper[c] = "failed" THEN "rollback" ELSE "final")
    /\ UNCHANGED <<leaseState, token, polls, serverState, pooled, releases>>

\* Mutant: no renewal before COMMIT.
FinalRenewalSkipped(c) ==
    /\ pc[c] = "final"
    /\ Goto(c, "confirmed")
    /\ UNCHANGED <<leaseState, keeper, token, polls, serverState, pooled, releases>>

\* The mandatory renewal after work: answered by the authority, or failed.
FinalRenewal(c) ==
    /\ pc[c] = "final"
    /\ \/ Holds(c) /\ Goto(c, "confirmed")
       \/ Goto(c, "rollback")
    /\ UNCHANGED <<leaseState, keeper, token, polls, serverState, pooled, releases>>

\* Mutant: the connection of a failed call goes back to the pool as reusable.
RollbackKeepsClient(c) ==
    /\ pc[c] = "rollback"
    /\ \/ txns' = [txns EXCEPT ![token[c]] = "aborted"] /\ FreeLock(token[c])
       \/ UNCHANGED <<txns, pgLock>>
    /\ pooled' = pooled \cup {token[c]}
    /\ Goto(c, "release")
    /\ UNCHANGED <<leaseState, keeper, token, polls, commits, releases>>

\* ROLLBACK, when BEGIN succeeded, and client.release(poison = true): if the
\* server did not hear ROLLBACK it notices the destroyed connection later.
RollbackXact(c) ==
    /\ pc[c] = "rollback"
    /\ \/ /\ txns[token[c]] \in {"open", "failed"}
          /\ txns' = [txns EXCEPT ![token[c]] = "aborted"]
          /\ FreeLock(token[c])
       \/ UNCHANGED <<txns, pgLock>>
    /\ Goto(c, "release")
    /\ UNCHANGED <<leaseState, keeper, token, polls, commits, pooled, releases>>

\* COMMIT is sent.  PostgreSQL answers COMMIT of a failed transaction with
\* success and rolls it back.
SendCommit(c) ==
    /\ pc[c] = "confirmed"
    /\ \/ /\ txns[token[c]] = "failed"
          /\ txns' = [txns EXCEPT ![token[c]] = "rolledback"]
          /\ FreeLock(token[c])
       \/ /\ txns[token[c]] # "failed"
          /\ txns' = [txns EXCEPT ![token[c]] = IF @ = "open" THEN "committing" ELSE @]
          /\ UNCHANGED pgLock
    /\ Goto(c, "commit")
    /\ UNCHANGED <<leaseState, keeper, token, polls, commits, pooled, releases>>

\* Mutant: an error of COMMIT leaves without settle().
CommitErrorUnsettled(c) ==
    /\ pc[c] = "commit"
    /\ \/ txns[token[c]] = "committed" /\ Goto(c, "release")
       \/ Goto(c, "idle")
    /\ UNCHANGED <<leaseState, keeper, token, polls, serverState, pooled, releases>>

\* The answer to COMMIT: only success returns the connection unpoisoned.
CommitAnswered(c) ==
    /\ pc[c] = "commit"
    /\ \/ /\ txns[token[c]] \in {"committed", "rolledback"}
          /\ pooled' = pooled \cup {token[c]}
       \/ UNCHANGED pooled
    /\ Goto(c, "release")
    /\ UNCHANGED <<leaseState, keeper, token, polls, serverState, releases>>

\* settle(): release the lease; whatever comes back, the call ends.  The request
\* may be lost, so the lease may stay until it expires.
ReleaseLease(c) ==
    /\ pc[c] = "release"
    /\ releases' = [releases EXCEPT ![token[c]] = @ + 1]
    /\ \/ Holds(c) /\ Authority!Drop
       \/ UNCHANGED leaseState
    /\ Goto(c, "idle")
    /\ token' = [token EXCEPT ![c] = NULL]
    /\ keeper' = [keeper EXCEPT ![c] = "off"]
    /\ polls' = [polls EXCEPT ![c] = 0]
    /\ UNCHANGED <<serverState, pooled>>

-----------------------------------------------------------------------------
(* The LeaseMaintainer of a call.                                          *)

KeeperGoto(c, label) == keeper' = [keeper EXCEPT ![c] = label]

\* The interval elapsed before stop() was called: a renewal is sent.
KeeperWakes(c) ==
    /\ keeper[c] = "sleep"
    /\ pc[c] \notin {"stop", "unwind"}
    /\ KeeperGoto(c, "renewing")
    /\ UNCHANGED <<leaseState, pc, token, polls, serverState, pooled, releases>>

\* The authority answers; the lease may end before the answer arrives.
KeeperServed(c) ==
    /\ keeper[c] = "renewing"
    /\ KeeperGoto(c, IF Holds(c) THEN "renewed" ELSE "refused")
    /\ UNCHANGED <<leaseState, pc, token, polls, serverState, pooled, releases>>

\* A refusal, a changed grant or a transport error is a failure, for good.
KeeperAnswered(c) ==
    /\ \/ keeper[c] = "renewed" /\ KeeperGoto(c, "sleep")
       \/ keeper[c] \in {"renewing", "renewed", "refused"} /\ KeeperGoto(c, "failed")
    /\ UNCHANGED <<leaseState, pc, token, polls, serverState, pooled, releases>>

\* The process dies; its connection goes with it.
Crash(c) ==
    /\ pc[c] # "idle"
    /\ Goto(c, "idle")
    /\ KeeperGoto(c, "off")
    /\ token' = [token EXCEPT ![c] = NULL]
    /\ polls' = [polls EXCEPT ![c] = 0]
    /\ UNCHANGED <<leaseState, serverState, pooled, releases>>

CallStep(c) ==
    \/ Begin(c) \/ TryLock(c) \/ LockSleepEnds(c) \/ WorkEnds(c)
    \/ StopMaintainer(c) \/ FinalRenewal(c) \/ RollbackXact(c)
    \/ SendCommit(c) \/ CommitAnswered(c) \/ ReleaseLease(c)

KeeperStep(c) == KeeperWakes(c) \/ KeeperServed(c) \/ KeeperAnswered(c)

Next ==
    \/ \E c \in Callers :
        \/ \E wait \in BOOLEAN : Acquire(c, wait)
        \/ AcquireMismatch(c) \/ AcquireMalformed(c)
        \/ CallStep(c) \/ KeeperStep(c) \/ Crash(c)
    \/ \E t \in Tokens : ServerAborts(t) \/ ServerCommits(t)
    \/ Expire

\* Awaited promises settle, work ends, and the server finishes the
\* transactions whose client is gone.  Nothing is assumed of acquisitions.
Fairness ==
    /\ \A c \in Callers : WF_vars(CallStep(c)) /\ WF_vars(KeeperServed(c) \/ KeeperAnswered(c))
    /\ \A t \in Tokens :
        /\ WF_vars(Abandoned(t) /\ ServerAborts(t))
        /\ WF_vars(txns[t] = "committing" /\ (ServerAborts(t) \/ ServerCommits(t)))

Spec == Init /\ [][Next]_vars /\ Fairness

-----------------------------------------------------------------------------
(* Properties.                                                             *)

TypeOK ==
    /\ owner \in Callers \cup {NULL}
    /\ active \in Tokens \cup {NULL} /\ minted \in 0..MaxToken
    /\ pc \in [Callers -> {"idle", "begin", "lock", "lockSleep", "work", "stop", "unwind",
                           "final", "confirmed", "rollback", "commit", "release"}]
    /\ keeper \in [Callers -> {"off", "sleep", "renewing", "renewed", "refused", "failed"}]
    /\ token \in [Callers -> Tokens \cup {NULL}]
    /\ polls \in [Callers -> 0..MaxPolls]
    /\ txns \in [Tokens -> {"none", "committed", "aborted", "rolledback"} \cup Pending]
    /\ pgLock \in Tokens \cup {NULL}
    /\ pooled \subseteq Tokens
    /\ commits \in Seq(Tokens)
    /\ releases \in [Tokens -> Nat]

\* Transactions commit in the order of their fencing tokens, although each
\* lease may expire at any moment, also between the final renewal and COMMIT,
\* and COMMIT may be answered late or never: the advisory lock held from before
\* the final renewal keeps every younger holder out until the server is done.
CommitsInTokenOrder ==
    \A i, j \in DOMAIN commits : i < j => commits[i] < commits[j]

\* A renewal failure the maintainer saw, however late, keeps its transaction
\* from being committed.
NoCommitAfterLoss ==
    \A c \in Callers :
        keeper[c] = "failed" => txns[token[c]] \notin {"committing", "committed"}

\* A connection goes back to the pool as reusable only when the server has ended
\* its transaction and its advisory lock is gone.
PoolIsClean == \A t \in pooled : txns[t] \notin Pending /\ pgLock # t

\* Every call that was given a well-formed grant and ends without crashing
\* released its lease, once.
ReleasedOnce ==
    [][\A c \in Callers :
          (pc[c] # "idle" /\ pc'[c] = "idle" /\ ~Crash(c)) =>
              /\ releases[token[c]] = 0
              /\ releases'[token[c]] = 1]_vars

\* Every call returns: stop() cannot wait forever and the wait for the advisory
\* lock is bounded, also when other calls crash holding it.
CallsEnd == \A c \in Callers : pc[c] # "idle" ~> pc[c] = "idle"

\* The advisory lock is never lost to a crashed, poisoned or abandoned session.
LockReclaimed == pgLock # NULL ~> pgLock = NULL
=============================================================================
