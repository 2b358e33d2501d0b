----------------------------- MODULE FiduciaLease ---------------------------
(***************************************************************************)
(* Callers of FiduciaLease (fiducia.ts) and the queue of the Fiducia node  *)
(* they talk to.  The node is external: a request with `wait` is queued,   *)
(* the head of the queue is granted as soon as the lock is free, whether   *)
(* or not its caller is still polling, and cancel answers what it found.   *)
(* A caller is one logical acquisition (one request id).                   *)
(*                                                                         *)
(* Times are counted down, so no bound on the clock is needed.             *)
(***************************************************************************)
EXTENDS Integers, Sequences, SequencesExt

CONSTANTS
    Callers,
    Ttl, RetryInterval, WaitTimeout, \* opts
    NULL

VARIABLES
    owner, left, queue, \* node: granted caller, its time left, the queue
    pc,       \* where each caller is
    answer,   \* the node's answer to the call it awaits, or NULL
    wait,     \* acquire's `wait`
    aborted,  \* opts.signal.aborted
    waited,   \* time since acquire started, up to the budget
    sleep,    \* time left to sleep
    late      \* acquire requests given up by their caller, still travelling

nodeVars == <<owner, left, queue>>
callerVars == <<pc, answer, wait, aborted, waited, sleep>>
vars == <<nodeVars, callerVars, late>>

Polling == {"acquiring", "sleeping", "cancelling", "releasing_raced"}
Ended == {"contention", "timeout", "cancelled", "transport", "lost", "released"}

Answers == {"acquired", "queued", "raced", "cancelled", "released", "no_grant", "renewed"}

-----------------------------------------------------------------------------
(* The node.                                                               *)

\* Nobody is queued twice.
Without(q, c) == IF Contains(q, c) THEN RemoveAt(q, CHOOSE i \in 1..Len(q) : q[i] = c) ELSE q

AcquireAnswer(c) ==
    IF owner = c \/ (owner = NULL /\ (queue # <<>> => Head(queue) = c)) THEN "acquired" ELSE "queued"

AcquireAtNode(c) ==
    \/ /\ AcquireAnswer(c) = "acquired"
       /\ owner' = c
       /\ left' = IF owner = c THEN left ELSE Ttl
       /\ queue' = Without(queue, c)
    \/ /\ AcquireAnswer(c) = "queued"
       /\ queue' = IF wait[c] /\ ~Contains(queue, c) THEN Append(queue, c) ELSE queue
       /\ UNCHANGED <<owner, left>>

Promote ==
    /\ owner = NULL /\ queue # <<>>
    /\ owner' = Head(queue) /\ left' = Ttl /\ queue' = Tail(queue)
    /\ UNCHANGED <<callerVars, late>>

CancelAtNode(c) == queue' = Without(queue, c) /\ UNCHANGED <<owner, left>>

ReleaseAtNode(c) ==
    /\ owner' = IF owner = c THEN NULL ELSE owner
    /\ left' = IF owner = c THEN 0 ELSE left
    /\ UNCHANGED queue

\* What a call is answered, by the place the caller waits at.
Answer(c) ==
    CASE pc[c] = "acquiring" -> AcquireAnswer(c)
      [] pc[c] = "cancelling" -> IF owner = c THEN "raced" ELSE "cancelled"
      [] pc[c] = "releasing_raced" -> IF owner = c THEN "released" ELSE "no_grant"
      [] pc[c] = "renewing" -> IF owner = c THEN "renewed" ELSE "no_grant"
      [] pc[c] = "releasing" -> IF owner = c THEN "released" ELSE "no_grant"

Serve(c) ==
    /\ pc[c] \in {"acquiring", "cancelling", "releasing_raced", "renewing", "releasing"}
    /\ answer[c] = NULL
    /\ answer' = [answer EXCEPT ![c] = Answer(c)]
    /\ \/ pc[c] = "acquiring" /\ AcquireAtNode(c)
       \/ pc[c] = "cancelling" /\ CancelAtNode(c)
       \/ pc[c] = "renewing" /\ left' = (IF owner = c THEN Ttl ELSE left) /\ UNCHANGED <<owner, queue>>
       \/ pc[c] \in {"releasing_raced", "releasing"} /\ ReleaseAtNode(c)
    /\ UNCHANGED <<pc, wait, aborted, waited, sleep, late>>

ServeLate(c) ==
    /\ AcquireAtNode(c)
    /\ late' = late \ {c}
    /\ UNCHANGED callerVars

-----------------------------------------------------------------------------
(* The caller.                                                             *)

Goto(c, label) ==
    /\ pc' = [pc EXCEPT ![c] = label]
    /\ answer' = [answer EXCEPT ![c] = NULL]

\* #post throws: the request may be lost, may have been served, or (an
\* acquire) may be served later.
PostFails(c) ==
    /\ pc[c] \in {"acquiring", "cancelling", "releasing_raced", "renewing", "releasing"}
    /\ late' \in {late} \cup (IF pc[c] = "acquiring" /\ answer[c] = NULL THEN {late \cup {c}} ELSE {})
    /\ Goto(c, "transport")
    /\ UNCHANGED <<nodeVars, wait, aborted, waited, sleep>>

\* An abort that came before the first request ends acquire at once.
Start(c) ==
    /\ pc[c] = "idle"
    /\ wait' \in {[wait EXCEPT ![c] = w] : w \in BOOLEAN}
    /\ Goto(c, IF aborted[c] THEN "cancelled" ELSE "acquiring")
    /\ UNCHANGED <<nodeVars, aborted, waited, sleep, late>>

\* Mutant: the wait budget is never looked at.
AnsweredQueuedNoBudget(c) ==
    /\ pc[c] = "acquiring" /\ answer[c] = "queued"
    /\ \/ ~wait[c] /\ Goto(c, "contention") /\ UNCHANGED sleep
       \/ wait[c] /\ aborted[c] /\ Goto(c, "cancelling") /\ UNCHANGED sleep
       \/ /\ wait[c] /\ ~aborted[c]
          /\ Goto(c, "sleeping")
          /\ sleep' = [sleep EXCEPT ![c] = RetryInterval]
    /\ UNCHANGED <<nodeVars, wait, aborted, waited, late>>

AnsweredQueued(c) ==
    /\ pc[c] = "acquiring" /\ answer[c] = "queued"
    /\ \/ ~wait[c] /\ Goto(c, "contention") /\ UNCHANGED sleep
       \/ /\ wait[c] /\ (aborted[c] \/ waited[c] + RetryInterval > WaitTimeout)
          /\ Goto(c, "cancelling") /\ UNCHANGED sleep
       \/ /\ wait[c] /\ ~aborted[c] /\ waited[c] + RetryInterval <= WaitTimeout
          /\ Goto(c, "sleeping")
          /\ sleep' = [sleep EXCEPT ![c] = RetryInterval]
    /\ UNCHANGED <<nodeVars, wait, aborted, waited, late>>

AnsweredAcquired(c) ==
    /\ pc[c] = "acquiring" /\ answer[c] = "acquired"
    /\ Goto(c, "held")
    /\ UNCHANGED <<nodeVars, wait, aborted, waited, sleep, late>>

\* The budget is not looked at before the poll after a sleep.
Wake(c) ==
    /\ pc[c] = "sleeping" /\ (sleep[c] = 0 \/ aborted[c])
    /\ Goto(c, IF aborted[c] THEN "cancelling" ELSE "acquiring")
    /\ UNCHANGED <<nodeVars, wait, aborted, waited, sleep, late>>

\* #cancelBeforeTerminal: the terminal error, fixed when cancelling began and
\* thrown once the request is surely gone.
Terminal(c) == IF aborted[c] THEN "cancelled" ELSE "timeout"

\* Mutant: a raced grant counts as cancelled.
CancelAnsweredIgnoresGrant(c) ==
    /\ pc[c] = "cancelling" /\ answer[c] # NULL
    /\ Goto(c, Terminal(c))
    /\ UNCHANGED <<nodeVars, wait, aborted, waited, sleep, late>>

CancelAnswered(c) ==
    /\ pc[c] = "cancelling"
    /\ \/ answer[c] = "cancelled" /\ Goto(c, Terminal(c))
       \/ answer[c] = "raced" /\ Goto(c, "releasing_raced")
       \/ answer[c] = "raced" /\ Goto(c, "transport") \* malformed grant
    /\ UNCHANGED <<nodeVars, wait, aborted, waited, sleep, late>>

RacedReleased(c) ==
    /\ pc[c] = "releasing_raced"
    /\ \/ answer[c] = "released" /\ Goto(c, Terminal(c))
       \/ answer[c] = "no_grant" /\ Goto(c, "transport")
    /\ UNCHANGED <<nodeVars, wait, aborted, waited, sleep, late>>

Renew(c) ==
    /\ pc[c] = "held"
    /\ Goto(c, "renewing")
    /\ UNCHANGED <<nodeVars, wait, aborted, waited, sleep, late>>

RenewAnswered(c) ==
    /\ pc[c] = "renewing" /\ answer[c] # NULL
    /\ Goto(c, IF answer[c] = "renewed" THEN "held" ELSE "lost")
    /\ UNCHANGED <<nodeVars, wait, aborted, waited, sleep, late>>

Release(c) ==
    /\ pc[c] = "held"
    /\ Goto(c, "releasing")
    /\ UNCHANGED <<nodeVars, wait, aborted, waited, sleep, late>>

ReleaseAnswered(c) ==
    /\ pc[c] = "releasing" /\ answer[c] # NULL
    /\ Goto(c, "released")
    /\ UNCHANGED <<nodeVars, wait, aborted, waited, sleep, late>>

\* The signal is read before a request, after its answer and during a sleep; an
\* abort while the request is being cancelled changes nothing.
Abort(c) ==
    /\ ~aborted[c] /\ pc[c] \in {"idle", "acquiring", "sleeping"}
    /\ aborted' = [aborted EXCEPT ![c] = TRUE]
    /\ UNCHANGED <<nodeVars, pc, answer, wait, waited, sleep, late>>

Counting == left > 0 \/ \E c \in Callers : pc[c] \in Polling /\ (waited[c] < WaitTimeout \/ sleep[c] > 0)

\* One unit of time; the lease ends when its time is up.
Tick ==
    /\ Counting
    /\ left' = IF left > 0 THEN left - 1 ELSE 0
    /\ owner' = IF left <= 1 THEN NULL ELSE owner
    /\ waited' = [c \in Callers |-> IF pc[c] \in Polling /\ waited[c] < WaitTimeout THEN waited[c] + 1 ELSE waited[c]]
    /\ sleep' = [c \in Callers |-> IF sleep[c] > 0 THEN sleep[c] - 1 ELSE 0]
    /\ UNCHANGED <<queue, pc, answer, wait, aborted, late>>

-----------------------------------------------------------------------------
Init ==
    /\ owner = NULL /\ left = 0 /\ queue = <<>> /\ late = {}
    /\ pc = [c \in Callers |-> "idle"]
    /\ answer = [c \in Callers |-> NULL]
    /\ wait = [c \in Callers |-> FALSE]
    /\ aborted = [c \in Callers |-> FALSE]
    /\ waited = [c \in Callers |-> 0]
    /\ sleep = [c \in Callers |-> 0]

Answered(c) ==
    AnsweredQueued(c) \/ AnsweredAcquired(c) \/ CancelAnswered(c) \/ RacedReleased(c)
        \/ RenewAnswered(c) \/ ReleaseAnswered(c)

Next ==
    \/ \E c \in Callers : \/ Start(c) \/ Serve(c) \/ PostFails(c) \/ Answered(c) \/ Wake(c)
                          \/ Renew(c) \/ Release(c) \/ Abort(c)
    \/ \E c \in late : ServeLate(c)
    \/ Promote
    \/ Tick

\* fetch settles (an answer or an error), settled promises and timers run, and
\* time passes.  Nothing is assumed of callers that hold or of the queue.
Fairness ==
    /\ WF_vars(Tick)
    /\ \A c \in Callers : WF_vars(Serve(c)) /\ WF_vars(Answered(c)) /\ WF_vars(Wake(c))

Spec == Init /\ [][Next]_vars /\ Fairness

-----------------------------------------------------------------------------
(* Properties.                                                             *)

\* The promise at the head of fiducia.ts: an acquire that ends in a timeout or
\* a cancellation has reconciled a raced grant; the node neither has it queued
\* nor will grant it, so no lock is left to a caller that has gone.
EndedLeavesNothing ==
    \A c \in Callers : pc[c] \in {"timeout", "cancelled"} =>
        owner # c /\ ~Contains(queue, c) /\ c \notin late

\* Every acquire comes to an end, whatever is queued before it and whenever it
\* is cancelled: polling is bounded by the wait budget.
AcquireEnds == \A c \in Callers : pc[c] \in Polling ~> pc[c] \notin Polling
=============================================================================
