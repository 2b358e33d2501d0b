-------------------------- MODULE RenewalSupervisor -------------------------
(***************************************************************************)
(* LeaseRenewalSupervisor (renewal.ts) beside the authority it renews at.  *)
(* `clock` is physical time: the supervisor reads it through the injected  *)
(* monotonic clock, the authority expires the lease by it.  checkpoint()   *)
(* is asynchronous and nothing serialises its callers: between the         *)
(* decision, the microtask that calls lease.renew, the authority's step    *)
(* and the continuation that accepts the answer, every other call may run. *)
(***************************************************************************)
EXTENDS Integers, FiniteSets

CONSTANTS
    Calls,          \* checkpoint() invocations that may overlap
    Ttl,            \* ttlMs of the acquired grant
    renewEveryMs, safetyMarginMs, \* the policy
    Distortions,    \* how an adapter may falsify an answer
    ClockFaults,    \* how a clock reading may be wrong
    MaxClock,       \* MAX_RENEWAL_CLOCK_MS
    Horizon,        \* bound: physical time stops there
    NULL, BAD       \* BAD: a value its validation refuses

LossReasons ==
    {"invalid_policy", "clock_regression", "expired", "renewal_failed", "identity_changed", "token_changed",
     "deadline_missing", "deadline_invalid", "deadline_regressed", "completion_after_deadline",
     "deadline_overflow", "invalid_ttl"}

AllDistortions ==
    {"open_properties", "key_or_holder", "token_range", "ttl_range", "undefined_deadline",
     "identity", "token", "deadline", "no_deadline", "short_ttl"}

ASSUME RenewalAssumption ==
    /\ Ttl \in Nat /\ renewEveryMs \in Nat /\ safetyMarginMs \in Nat
    /\ MaxClock \in Nat /\ Horizon \in Nat
    /\ NULL \notin Int /\ BAD \notin Int /\ NULL \notin LossReasons
    /\ Distortions \subseteq AllDistortions

VARIABLES
    deadline, ttlMs, \* leaseExpiresMs (or NULL) and ttlMs of #grant
    localDeadlineMs, nextRenewalMs, lastObservedMs,
    loss,            \* the recorded reason, or NULL
    call,            \* per call: idle, due, sent, or the answer awaited
    clock, expires,  \* physical time; the lease's end at the authority
    granted,         \* ghost: when the authority granted #grant
    history          \* ghost: what happened so far

supervisor == <<deadline, ttlMs, localDeadlineMs, nextRenewalMs, lastObservedMs, loss>>
renewalVars == <<supervisor, call, clock, expires, granted, history>>

-----------------------------------------------------------------------------
(* Validation and scheduling.                                              *)

Safe(v) == v # BAD /\ v \in 0..MaxClock

\* renewEveryMs < ttl, so at + renewEveryMs is in range when at + ttl is.
ScheduleProblem(at, ttl) ==
    IF ttl = 0 THEN "invalid_ttl"
    ELSE IF renewEveryMs >= ttl \/ safetyMarginMs >= ttl THEN "invalid_policy"
    ELSE IF ~Safe(at + ttl) THEN "deadline_overflow"
    ELSE NULL

\* Mutant: the margin is not taken off the deadline.
ScheduleWithoutMargin(at, ttl) ==
    [bad |-> ScheduleProblem(at, ttl),
     deadline |-> at + ttl,
     next |-> at + renewEveryMs]

\* Mutant: the due time may be the time of the schedule itself.
ScheduleDueAtOnce(at, ttl) ==
    [bad |-> ScheduleProblem(at, ttl),
     deadline |-> at + ttl,
     next |-> at]

\* nextRenewalMs > at follows from the two policy checks.
makeSchedule(at, ttl) ==
    LET due == at + ttl - safetyMarginMs IN
    [bad |-> ScheduleProblem(at, ttl),
     deadline |-> at + ttl,
     next |-> IF at + renewEveryMs < due THEN at + renewEveryMs ELSE due]

\* Both are objects with exactly the declared own data properties.
closedOwnDataProperties(g) == g.closed

snapshotPolicy == Safe(renewEveryMs) /\ renewEveryMs > 0 /\ Safe(safetyMarginMs) /\ safetyMarginMs > 0

\* The first thing wrong with a value that should be a grant, or NULL.
snapshotGrant(g) ==
    IF ~closedOwnDataProperties(g) \/ g.who = BAD THEN "identity_changed"
    ELSE IF g.token = BAD THEN "token_changed"
    ELSE IF g.ttl = BAD \/ g.ttl = 0 THEN "invalid_ttl"
    ELSE IF g.deadline = BAD THEN "deadline_invalid"
    ELSE NULL

validateDeadlineProgress(renewed) ==
    IF deadline # NULL /\ renewed = NULL THEN "deadline_missing"
    ELSE IF deadline # NULL /\ renewed <= deadline THEN "deadline_regressed"
    ELSE NULL

-----------------------------------------------------------------------------
(* What the supervisor is given: clock readings and answers.               *)

Readings ==
    {clock} \cup {lastObservedMs - 1 : f \in ClockFaults \cap {"regressed"}}
            \cup {BAD : f \in ClockFaults \cap {"unsafe"}}

\* An authority reports its deadline always or never, unless distorted.
Honest(at) ==
    [phase |-> "answered", closed |-> TRUE, who |-> "self", token |-> "same", ttl |-> Ttl, at |-> at,
     deadline |-> IF deadline = NULL THEN NULL ELSE at + Ttl]

Distort(g, how) ==
    CASE how = "open_properties"   -> [g EXCEPT !.closed = FALSE]
      [] how = "key_or_holder"     -> [g EXCEPT !.who = BAD]
      [] how = "token_range"       -> [g EXCEPT !.token = BAD]
      [] how = "ttl_range"         -> [g EXCEPT !.ttl = BAD]
      [] how = "undefined_deadline"-> [g EXCEPT !.deadline = BAD]
      [] how = "identity"          -> [g EXCEPT !.who = "other"]
      [] how = "token"             -> [g EXCEPT !.token = "other"]
      [] how = "deadline"          -> [g EXCEPT !.deadline = g.at + Ttl]
      [] how = "no_deadline"       -> [g EXCEPT !.deadline = NULL]
      [] how = "short_ttl"         -> [g EXCEPT !.ttl = safetyMarginMs]

Idle == [phase |-> "idle"]
Due == [phase |-> "due"]
Sent == [phase |-> "sent"]
Refused == [phase |-> "refused"]

Answers ==
    [phase : {"answered"}, closed : BOOLEAN, who : {"self", "other", BAD}, token : {"same", "other", BAD},
     ttl : {Ttl, safetyMarginMs, BAD}, at : Nat, deadline : Nat \cup {NULL, BAD}]

Record(reason) ==
    /\ loss' = IF loss = NULL THEN reason ELSE loss
    /\ UNCHANGED <<deadline, ttlMs, localDeadlineMs, nextRenewalMs>>

-----------------------------------------------------------------------------
(* decide, and the calls built on it.  `Decided` is the decision it gives. *)

Decided(r) ==
    IF loss # NULL THEN loss
    ELSE IF ~Safe(r) THEN "deadline_overflow"
    ELSE IF r < lastObservedMs THEN "clock_regression"
    ELSE IF r >= localDeadlineMs THEN "expired"
    ELSE IF r >= nextRenewalMs THEN "renew_now"
    ELSE "wait"

decide(r) ==
    /\ IF Decided(r) \in {"renew_now", "wait"}
       THEN UNCHANGED <<deadline, ttlMs, localDeadlineMs, nextRenewalMs, loss>>
       ELSE Record(Decided(r))
    /\ lastObservedMs' = IF Decided(r) \in {"renew_now", "wait", "expired"} /\ loss = NULL
                         THEN r ELSE lastObservedMs

\* decide() or assertLive() by the protected work.
AssertLive ==
    \E r \in Readings :
        /\ decide(r)
        /\ UNCHANGED <<call, clock, expires, granted, history>>

\* The synchronous part of checkpoint().
Checkpoint(c) ==
    /\ call[c] = Idle
    /\ \E r \in Readings :
        /\ decide(r)
        /\ call' = IF Decided(r) = "renew_now" THEN [call EXCEPT ![c] = Due] ELSE call
        /\ history' = [history EXCEPT !.overlapped =
               @ \/ (Decided(r) = "renew_now" /\ \E d \in Calls \ {c} : call[d] # Idle)]
    /\ UNCHANGED <<clock, expires, granted>>

\* The microtask that hands the frozen grant to the adapter.
CallAuthority(c) ==
    /\ call[c] = Due
    /\ call' = [call EXCEPT ![c] = Sent]
    /\ UNCHANGED <<supervisor, clock, expires, granted, history>>

\* External: the authority renews a lease that has not run out, the adapter
\* may falsify the answer, and a call may fail on either side of the step.
AuthorityRenews(c) ==
    /\ call[c] = Sent
    /\ clock < expires
    /\ expires' = clock + Ttl
    /\ \E a \in {Honest(clock), Refused} \cup {Distort(Honest(clock), how) : how \in Distortions} :
        /\ call' = [call EXCEPT ![c] = a]
        /\ history' = [history EXCEPT !.falsified = @ \/ a # Honest(clock)]
    /\ UNCHANGED <<supervisor, clock, granted>>

AuthorityRefuses(c) ==
    /\ call[c] = Sent
    /\ call' = [call EXCEPT ![c] = Refused]
    /\ UNCHANGED <<supervisor, clock, expires, granted, history>>

-----------------------------------------------------------------------------
(* The continuation of checkpoint(): the catch clause, or acceptRenewal.   *)

RenewalFailed(c) ==
    /\ call[c] = Refused
    /\ Record("renewal_failed")
    /\ call' = [call EXCEPT ![c] = Idle]
    /\ UNCHANGED <<lastObservedMs, clock, expires, granted, history>>

\* Why an answer read at r is not accepted, or NULL.
Objection(r, g) ==
    IF ~Safe(r) THEN "deadline_overflow"
    ELSE IF snapshotGrant(g) # NULL THEN snapshotGrant(g)
    ELSE IF r < lastObservedMs THEN "clock_regression"
    ELSE IF r >= localDeadlineMs THEN "completion_after_deadline"
    ELSE IF g.who # "self" THEN "identity_changed"
    ELSE IF g.token # "same" THEN "token_changed"
    ELSE IF validateDeadlineProgress(g.deadline) # NULL THEN validateDeadlineProgress(g.deadline)
    ELSE makeSchedule(r, g.ttl).bad

Accept(r, g) ==
    LET s == makeSchedule(r, g.ttl) IN
    /\ deadline' = g.deadline
    /\ ttlMs' = g.ttl
    /\ localDeadlineMs' = s.deadline
    /\ nextRenewalMs' = s.next
    /\ granted' = g.at
    /\ UNCHANGED loss

\* Mutant: a lost supervisor still looks at the answer.
acceptRenewalAlways(r, g) ==
    IF Objection(r, g) = NULL
    THEN Accept(r, g) /\ lastObservedMs' = r
    ELSE Record(Objection(r, g)) /\ UNCHANGED <<granted, lastObservedMs>>

acceptRenewal(r, g) ==
    \/ /\ loss # NULL
       /\ UNCHANGED <<supervisor, granted>>
    \/ /\ loss = NULL
       /\ Objection(r, g) = NULL
       /\ Accept(r, g)
       /\ lastObservedMs' = r
    \/ /\ loss = NULL
       /\ Objection(r, g) # NULL
       /\ Record(Objection(r, g))
       /\ lastObservedMs' = IF Safe(r) /\ snapshotGrant(g) = NULL /\ r >= lastObservedMs
                            THEN r ELSE lastObservedMs
       /\ UNCHANGED granted

Answered(c) ==
    /\ call[c].phase = "answered"
    /\ \E r \in Readings : acceptRenewal(r, call[c])
    /\ call' = [call EXCEPT ![c] = Idle]
    /\ UNCHANGED <<clock, expires, history>>

Tick ==
    /\ clock < Horizon
    /\ clock' = clock + 1
    /\ UNCHANGED <<supervisor, call, expires, granted, history>>

-----------------------------------------------------------------------------
(* The constructor: the grant was issued at 1, and reached the process     *)
(* some time later (the answer to acquire takes time as well).             *)

RenewalInit ==
    /\ clock \in 1..Ttl
    /\ expires = 1 + Ttl
    /\ granted = 1
    /\ snapshotPolicy
    /\ makeSchedule(clock, Ttl).bad = NULL
    /\ deadline \in {NULL, 1 + Ttl}
    /\ ttlMs = Ttl
    /\ localDeadlineMs = makeSchedule(clock, Ttl).deadline
    /\ nextRenewalMs = makeSchedule(clock, Ttl).next
    /\ lastObservedMs = clock
    /\ loss = NULL
    /\ call = [c \in Calls |-> Idle]
    /\ history = [overlapped |-> FALSE, falsified |-> FALSE]

RenewalNext ==
    \/ AssertLive
    \/ \E c \in Calls : \/ Checkpoint(c) \/ CallAuthority(c) \/ AuthorityRenews(c)
                        \/ AuthorityRefuses(c) \/ RenewalFailed(c) \/ Answered(c)
    \/ Tick

RenewalSpec == RenewalInit /\ [][RenewalNext]_renewalVars

-----------------------------------------------------------------------------
(* Properties.                                                             *)

RenewalTypeOK ==
    /\ deadline \in Nat \cup {NULL} /\ ttlMs \in Nat
    /\ localDeadlineMs \in 0..MaxClock /\ nextRenewalMs \in 0..MaxClock
    /\ lastObservedMs \in Nat /\ clock \in Nat
    /\ expires \in Nat /\ granted \in Nat
    /\ loss \in LossReasons \cup {NULL}
    /\ call \in [Calls -> {Idle, Due, Sent, Refused} \cup Answers]
    /\ history \in [overlapped : BOOLEAN, falsified : BOOLEAN]

\* The sizing rule of docs/lease-renewal.md: when the grant took no longer than
\* the safety margin to travel from the authority to the supervisor, a
\* checkpoint that says "wait", so sends nothing, is inside the lease the
\* authority keeps.  (The local deadline itself overshoots that lease.)
WaitIsOwned ==
    (Decided(clock) = "wait" /\ localDeadlineMs - ttlMs <= granted + safetyMarginMs)
        => clock < expires

\* Nothing brings a lost supervisor back: an answer that was on its way when
\* the loss was recorded, however good, changes neither the grant nor the
\* deadlines, and the first reason stays.
LossIsTerminal == [][loss # NULL => UNCHANGED supervisor]_renewalVars

\* A renewal only counts while the lease it renews is locally alive: the
\* local deadline moves only before it has been reached.
NoLateExtension ==
    [][localDeadlineMs' # localDeadlineMs => clock < localDeadlineMs]_renewalVars

\* Callers that do not overlap their checkpoints never lose a lease to its own
\* renewal: with honest answers each one reports a later deadline, because no
\* renewal is due at the time the one before completed.
SequentialNeverRegresses ==
    loss = "deadline_regressed" => history.overlapped \/ history.falsified

\* The schedule stays in the range of the clock and inside the lease.
RenewalInv == RenewalTypeOK /\ WaitIsOwned

\* Neither a recorded loss nor a deadline that has passed is ever undone.
NoRevival == LossIsTerminal /\ NoLateExtension
=============================================================================
