----------------------- MODULE RenewalSupervisor_proofs ---------------------
(***************************************************************************)
(* The renewal supervisor, for any number of overlapping checkpoints, any  *)
(* policy, any faulty clock and any falsified answers.                     *)
(***************************************************************************)
EXTENDS RenewalSupervisor, TLAPS

\* When the current schedule was made.
ScheduledAt == localDeadlineMs - Ttl

\* The schedule is the one makeSchedule computes, for the acquired TTL.
Scheduled ==
    /\ ttlMs = Ttl
    /\ granted <= ScheduledAt /\ ScheduledAt <= clock /\ lastObservedMs <= clock
    /\ ScheduledAt < nextRenewalMs /\ nextRenewalMs <= localDeadlineMs - safetyMarginMs

\* The authority keeps the lease for a TTL from each of its grants.
Kept ==
    /\ granted + Ttl <= expires
    /\ \A c \in Calls : call[c] \in Answers => call[c].at <= clock /\ call[c].at + Ttl <= expires

\* Calls that never overlapped: the one under way was due, and still is.
OneByOne ==
    ~history.overlapped =>
        /\ \A c, d \in Calls : call[c] # Idle /\ call[d] # Idle => c = d
        /\ loss = NULL => \A c \in Calls :
            /\ call[c] # Idle => nextRenewalMs <= clock
            /\ call[c] \in Answers => nextRenewalMs <= call[c].at

\* Honest answers: a deadline, where one is reported, is the authority's.
Truthful ==
    ~history.falsified =>
        /\ deadline \in {NULL, granted + Ttl}
        /\ \A c \in Calls : call[c] \in Answers => call[c].deadline \in {NULL, call[c].at + Ttl}

SupervisorInv == snapshotPolicy /\ RenewalTypeOK /\ Scheduled /\ Kept /\ OneByOne /\ Truthful /\ SequentialNeverRegresses

-----------------------------------------------------------------------------
(* Clock readings, decisions and answers.                                  *)

LEMMA Phases ==
  /\ Idle # Due /\ Idle # Sent /\ Idle # Refused /\ Due # Sent /\ Sent # Refused
  /\ Idle \notin Answers /\ Due \notin Answers /\ Sent \notin Answers /\ Refused \notin Answers
<1>1. /\ Idle.phase = "idle" /\ Due.phase = "due" /\ Sent.phase = "sent" /\ Refused.phase = "refused"
      /\ \A a \in Answers : a.phase = "answered"
  BY DEF Idle, Due, Sent, Refused, Answers
<1> QED BY <1>1

\* A reading that passes the checks of decide is the time.
LEMMA ReadingIsTime ==
  ASSUME RenewalTypeOK, NEW r \in Readings, Safe(r), ~(r < lastObservedMs)
  PROVE  r = clock
<1>1. lastObservedMs \in Nat
  BY DEF RenewalTypeOK
<1> QED BY <1>1 DEF Readings, Safe

\* decide leaves the schedule alone; it may record that the lease is lost.
LEMMA Deciding ==
  ASSUME RenewalTypeOK, NEW r \in Readings, decide(r)
  PROVE  /\ UNCHANGED <<deadline, ttlMs, localDeadlineMs, nextRenewalMs>>
         /\ lastObservedMs' \in {lastObservedMs, clock}
         /\ loss' \in LossReasons \cup {NULL} /\ (loss # NULL => loss' = loss)
         /\ loss' = "deadline_regressed" => loss = "deadline_regressed"
         /\ Decided(r) = "renew_now" /\ loss = NULL => nextRenewalMs <= clock
<1>1. UNCHANGED <<deadline, ttlMs, localDeadlineMs, nextRenewalMs>>
  BY DEF decide, Record
<1>2. ASSUME loss = NULL, Decided(r) \in {"renew_now", "wait", "expired"} PROVE r = clock
  <2>1. Safe(r) /\ ~(r < lastObservedMs)
    BY <1>2 DEF Decided
  <2> QED BY <2>1, ReadingIsTime
<1>3. lastObservedMs' \in {lastObservedMs, clock}
  BY <1>2 DEF decide
<1>4. loss \in LossReasons \cup {NULL}
  BY DEF RenewalTypeOK
<1>5. loss = NULL => Decided(r) \in {"deadline_overflow", "clock_regression", "expired", "renew_now", "wait"}
  BY DEF Decided
<1>6. loss' \in LossReasons \cup {NULL} /\ (loss # NULL => loss' = loss)
  BY <1>4, <1>5 DEF decide, Record, LossReasons
<1>7. loss' = "deadline_regressed" => loss = "deadline_regressed"
  BY <1>5 DEF decide, Record
<1>8. Decided(r) = "renew_now" /\ loss = NULL => nextRenewalMs <= clock
  <2> SUFFICES ASSUME Decided(r) = "renew_now", loss = NULL PROVE nextRenewalMs <= clock
    OBVIOUS
  <2>1. r = clock /\ r >= nextRenewalMs
    BY <1>2 DEF Decided
  <2>2. nextRenewalMs \in Nat /\ clock \in Nat
    BY RenewalAssumption DEF RenewalTypeOK
  <2> QED BY <2>1, <2>2
<1> QED BY <1>1, <1>3, <1>6, <1>7, <1>8

\* Whatever an adapter answers is an answer, with the time of the renewal.
LEMMA AnswersTyped ==
  ASSUME RenewalTypeOK, NEW a, a = Honest(clock) \/ \E how \in Distortions : a = Distort(Honest(clock), how)
  PROVE  a \in Answers /\ a.at = clock
<1> USE RenewalAssumption
<1>1. clock \in Nat
  BY DEF RenewalTypeOK
<1>2. Honest(clock) \in Answers /\ Honest(clock).at = clock
  BY <1>1 DEF Honest, Answers
<1>3. ASSUME NEW g \in Answers, g.at = clock, NEW how \in AllDistortions
      PROVE  Distort(g, how) \in Answers /\ Distort(g, how).at = clock
  <2> DEFINE Sound(b) == b \in Answers /\ b.at = clock
  <2>1. Sound([g EXCEPT !.closed = FALSE])
    BY <1>3 DEF Answers
  <2>2. \A v \in {"self", "other", BAD} : Sound([g EXCEPT !.who = v])
    BY <1>3 DEF Answers
  <2>3. \A v \in {"same", "other", BAD} : Sound([g EXCEPT !.token = v])
    BY <1>3 DEF Answers
  <2>4. \A v \in {Ttl, safetyMarginMs, BAD} : Sound([g EXCEPT !.ttl = v])
    BY <1>3 DEF Answers
  <2>5. \A v \in Nat \cup {NULL, BAD} : Sound([g EXCEPT !.deadline = v])
    BY <1>3 DEF Answers
  <2>6. g.at + Ttl \in Nat
    BY <1>1, <1>3
  <2> HIDE DEF Sound
  <2>7. Sound(Distort(g, how))
    BY <2>1, <2>2, <2>3, <2>4, <2>5, <2>6 DEF AllDistortions, Distort
  <2> QED BY <2>7 DEF Sound
<1> QED BY <1>2, <1>3

-----------------------------------------------------------------------------
(* The steps.                                                              *)

LEMMA AssertLiveKeeps ==
  ASSUME SupervisorInv, AssertLive
  PROVE  SupervisorInv'
<1>1. PICK r \in Readings : decide(r)
  BY DEF AssertLive
<1>2. /\ UNCHANGED <<deadline, ttlMs, localDeadlineMs, nextRenewalMs>>
      /\ lastObservedMs' \in {lastObservedMs, clock}
      /\ loss' \in LossReasons \cup {NULL} /\ (loss # NULL => loss' = loss)
      /\ loss' = "deadline_regressed" => loss = "deadline_regressed"
  BY <1>1, Deciding DEF SupervisorInv
<1>3. UNCHANGED <<call, clock, expires, granted, history>>
  BY DEF AssertLive
<1>4. RenewalTypeOK'
  BY <1>2, <1>3 DEF SupervisorInv, RenewalTypeOK
<1>5. Scheduled'
  BY <1>2, <1>3 DEF SupervisorInv, RenewalTypeOK, Scheduled, ScheduledAt
<1>6. Kept' /\ OneByOne' /\ Truthful'
  BY <1>2, <1>3 DEF SupervisorInv, Kept, OneByOne, Truthful
<1>7. SequentialNeverRegresses'
  BY <1>2, <1>3 DEF SupervisorInv, SequentialNeverRegresses
<1> QED BY <1>4, <1>5, <1>6, <1>7 DEF SupervisorInv

LEMMA CheckpointKeeps ==
  ASSUME SupervisorInv, NEW c \in Calls, Checkpoint(c)
  PROVE  SupervisorInv'
<1>1. PICK r \in Readings :
        /\ decide(r)
        /\ call' = IF Decided(r) = "renew_now" THEN [call EXCEPT ![c] = Due] ELSE call
        /\ history' = [history EXCEPT !.overlapped =
               @ \/ (Decided(r) = "renew_now" /\ \E d \in Calls \ {c} : call[d] # Idle)]
  BY DEF Checkpoint
<1>2. /\ UNCHANGED <<deadline, ttlMs, localDeadlineMs, nextRenewalMs, clock, expires, granted>>
      /\ lastObservedMs' \in {lastObservedMs, clock}
      /\ loss' \in LossReasons \cup {NULL} /\ (loss # NULL => loss' = loss)
      /\ loss' = "deadline_regressed" => loss = "deadline_regressed"
      /\ Decided(r) = "renew_now" /\ loss = NULL => nextRenewalMs <= clock
  BY <1>1, Deciding DEF SupervisorInv, Checkpoint
<1>3. /\ RenewalTypeOK /\ call \in [Calls -> {Idle, Due, Sent, Refused} \cup Answers] /\ call[c] = Idle
      /\ history \in [overlapped : BOOLEAN, falsified : BOOLEAN]
  BY DEF SupervisorInv, RenewalTypeOK, Checkpoint
<1>4. /\ history' \in [overlapped : BOOLEAN, falsified : BOOLEAN] /\ history'.falsified = history.falsified
      /\ ~history'.overlapped =>
            ~history.overlapped /\ (Decided(r) = "renew_now" => \A d \in Calls \ {c} : call[d] = Idle)
  BY <1>1, <1>3
<1>5. /\ call' \in [Calls -> {Idle, Due, Sent, Refused} \cup Answers]
      /\ \A d \in Calls : call'[d] = call[d] \/ (d = c /\ call'[d] = Due /\ Decided(r) = "renew_now")
  BY <1>1, <1>3
<1>6. RenewalTypeOK'
  BY <1>2, <1>3, <1>4, <1>5 DEF RenewalTypeOK
<1>7. Scheduled'
  BY <1>2 DEF SupervisorInv, RenewalTypeOK, Scheduled, ScheduledAt
<1>8. Kept' /\ Truthful'
  BY <1>2, <1>4, <1>5, Phases DEF SupervisorInv, Kept, Truthful
<1>9. OneByOne'
  BY <1>2, <1>4, <1>5, Phases DEF SupervisorInv, OneByOne
<1>10. SequentialNeverRegresses'
  BY <1>1, <1>2, <1>3 DEF SupervisorInv, SequentialNeverRegresses
<1> QED BY <1>6, <1>7, <1>8, <1>9, <1>10 DEF SupervisorInv

LEMMA CallKeeps ==
  ASSUME SupervisorInv, NEW c \in Calls, CallAuthority(c) \/ AuthorityRefuses(c)
  PROVE  SupervisorInv'
<1>1. /\ UNCHANGED <<deadline, ttlMs, localDeadlineMs, nextRenewalMs, lastObservedMs, loss, clock, expires, granted, history>>
      /\ call[c] # Idle /\ (call' = [call EXCEPT ![c] = Sent] \/ call' = [call EXCEPT ![c] = Refused])
  BY Phases DEF CallAuthority, AuthorityRefuses, supervisor
<1>2. call \in [Calls -> {Idle, Due, Sent, Refused} \cup Answers]
  BY DEF SupervisorInv, RenewalTypeOK
<1>3. /\ call' \in [Calls -> {Idle, Due, Sent, Refused} \cup Answers]
      /\ \A d \in Calls : call'[d] = call[d] \/ (d = c /\ call'[d] \in {Sent, Refused})
  BY <1>1, <1>2
<1>4. RenewalTypeOK'
  BY <1>1, <1>3 DEF SupervisorInv, RenewalTypeOK
<1>5. Scheduled' /\ SequentialNeverRegresses'
  BY <1>1 DEF SupervisorInv, Scheduled, ScheduledAt, SequentialNeverRegresses
<1>6. Kept' /\ Truthful'
  BY <1>1, <1>3, Phases DEF SupervisorInv, Kept, Truthful
<1>7. OneByOne'
  BY <1>1, <1>3, Phases DEF SupervisorInv, OneByOne
<1> QED BY <1>4, <1>5, <1>6, <1>7 DEF SupervisorInv

\* The authority renews: the lease only gets longer, and the answer that
\* leaves it is dated now.
LEMMA AuthorityRenewsKeeps ==
  ASSUME SupervisorInv, NEW c \in Calls, AuthorityRenews(c)
  PROVE  SupervisorInv'
<1>1. /\ UNCHANGED <<deadline, ttlMs, localDeadlineMs, nextRenewalMs, lastObservedMs, loss, clock, granted>>
      /\ call[c] = Sent /\ expires' = clock + Ttl
  BY DEF AuthorityRenews, supervisor
<1>2. PICK a : /\ a = Refused \/ a = Honest(clock) \/ \E how \in Distortions : a = Distort(Honest(clock), how)
               /\ call' = [call EXCEPT ![c] = a]
               /\ history' = [history EXCEPT !.falsified = @ \/ a # Honest(clock)]
  BY DEF AuthorityRenews
<1>3. /\ RenewalTypeOK /\ call \in [Calls -> {Idle, Due, Sent, Refused} \cup Answers]
      /\ history \in [overlapped : BOOLEAN, falsified : BOOLEAN]
  BY DEF SupervisorInv, RenewalTypeOK
<1>4. a = Refused \/ (a \in Answers /\ a.at = clock)
  BY <1>2, <1>3, AnswersTyped
<1>5. /\ history' \in [overlapped : BOOLEAN, falsified : BOOLEAN] /\ history'.overlapped = history.overlapped
      /\ ~history'.falsified => ~history.falsified /\ a = Honest(clock)
  BY <1>2, <1>3
<1>6. /\ call' \in [Calls -> {Idle, Due, Sent, Refused} \cup Answers]
      /\ \A d \in Calls : call'[d] = IF d = c THEN a ELSE call[d]
  BY <1>2, <1>3, <1>4
<1>7. clock \in Nat /\ Ttl \in Nat /\ expires \in Nat /\ granted \in Nat
  BY RenewalAssumption DEF SupervisorInv, RenewalTypeOK
<1>8. RenewalTypeOK'
  BY <1>1, <1>3, <1>5, <1>6, <1>7 DEF RenewalTypeOK
<1>9. Scheduled' /\ SequentialNeverRegresses'
  BY <1>1, <1>5 DEF SupervisorInv, Scheduled, ScheduledAt, SequentialNeverRegresses
<1>10. Kept'
  <2>1. granted <= clock
    BY <1>3, <1>7, RenewalAssumption DEF SupervisorInv, Scheduled, ScheduledAt, RenewalTypeOK
  <2>2. granted + Ttl <= clock + Ttl
    BY <1>7, <2>1
  <2>3. ASSUME NEW d \in Calls, call'[d] \in Answers PROVE call'[d].at <= clock /\ call'[d].at + Ttl <= clock + Ttl
    <3>1. call'[d].at \in Nat /\ call'[d].at <= clock
      BY <1>4, <1>6, <1>7, <2>3, Phases DEF SupervisorInv, Kept, Answers
    <3> QED BY <1>7, <3>1
  <2> QED BY <1>1, <2>2, <2>3 DEF Kept
<1>11. OneByOne'
  BY <1>1, <1>4, <1>5, <1>6, Phases DEF SupervisorInv, OneByOne
<1>12. Truthful'
  <2>1. Honest(clock).at = clock /\ Honest(clock).deadline \in {NULL, clock + Ttl}
    BY DEF Honest
  <2> QED BY <1>1, <1>4, <1>5, <1>6, <2>1, Phases DEF SupervisorInv, Truthful
<1> QED BY <1>8, <1>9, <1>10, <1>11, <1>12 DEF SupervisorInv

LEMMA RenewalFailedKeeps ==
  ASSUME SupervisorInv, NEW c \in Calls, RenewalFailed(c)
  PROVE  SupervisorInv'
<1>1. /\ UNCHANGED <<deadline, ttlMs, localDeadlineMs, nextRenewalMs, lastObservedMs, clock, expires, granted, history>>
      /\ loss' = (IF loss = NULL THEN "renewal_failed" ELSE loss) /\ call' = [call EXCEPT ![c] = Idle]
  BY DEF RenewalFailed, Record
<1>2. call \in [Calls -> {Idle, Due, Sent, Refused} \cup Answers] /\ loss \in LossReasons \cup {NULL}
  BY DEF SupervisorInv, RenewalTypeOK
<1>3. /\ call' \in [Calls -> {Idle, Due, Sent, Refused} \cup Answers] /\ loss' \in LossReasons /\ loss' # NULL
      /\ \A d \in Calls : call'[d] = IF d = c THEN Idle ELSE call[d]
  BY <1>1, <1>2, RenewalAssumption DEF LossReasons
<1>4. RenewalTypeOK'
  BY <1>1, <1>3 DEF SupervisorInv, RenewalTypeOK
<1>5. Scheduled' /\ SequentialNeverRegresses'
  BY <1>1 DEF SupervisorInv, Scheduled, ScheduledAt, SequentialNeverRegresses
<1>6. Kept' /\ Truthful'
  BY <1>1, <1>3, Phases DEF SupervisorInv, Kept, Truthful
<1>7. OneByOne'
  BY <1>1, <1>3, Phases DEF SupervisorInv, OneByOne
<1> QED BY <1>4, <1>5, <1>6, <1>7 DEF SupervisorInv

\* An answer without objection is read in time, and renews for the same TTL.
LEMMA NoObjection ==
  ASSUME RenewalTypeOK, NEW r \in Readings, NEW g \in Answers, Objection(r, g) = NULL
  PROVE  /\ r = clock /\ r < localDeadlineMs /\ g.ttl = Ttl /\ g.deadline \in Nat \cup {NULL}
         /\ renewEveryMs < Ttl /\ safetyMarginMs < Ttl /\ Safe(r + Ttl)
<1> USE RenewalAssumption DEF LossReasons
<1>1. /\ Safe(r) /\ snapshotGrant(g) = NULL /\ ~(r < lastObservedMs) /\ ~(r >= localDeadlineMs)
      /\ ScheduleProblem(r, g.ttl) = NULL
  BY DEF Objection, makeSchedule
<1>2. r = clock
  BY <1>1, ReadingIsTime
<1>3. g.ttl # BAD /\ g.ttl # 0 /\ g.deadline # BAD
  BY <1>1 DEF snapshotGrant
<1>4. ~(renewEveryMs >= g.ttl) /\ ~(safetyMarginMs >= g.ttl) /\ Safe(r + g.ttl)
  BY <1>1 DEF ScheduleProblem
<1>5. g.ttl \in {Ttl, safetyMarginMs, BAD} /\ g.deadline \in Nat \cup {NULL, BAD}
  BY DEF Answers
<1>6. g.ttl = Ttl
  BY <1>3, <1>4, <1>5
<1>7. clock \in Nat /\ localDeadlineMs \in Nat
  BY DEF RenewalTypeOK
<1> QED BY <1>1, <1>2, <1>3, <1>4, <1>5, <1>6, <1>7

\* An objection is a reason, and "deadline_regressed" is about the deadlines.
LEMMA Objecting ==
  ASSUME NEW r, NEW g, Objection(r, g) # NULL
  PROVE  /\ Objection(r, g) \in LossReasons
         /\ Objection(r, g) = "deadline_regressed" => deadline # NULL /\ g.deadline # NULL /\ g.deadline <= deadline
<1> USE RenewalAssumption DEF LossReasons
<1>1. snapshotGrant(g) \in {"identity_changed", "token_changed", "invalid_ttl", "deadline_invalid", NULL}
  BY DEF snapshotGrant
<1>2. /\ validateDeadlineProgress(g.deadline) \in {"deadline_missing", "deadline_regressed", NULL}
      /\ validateDeadlineProgress(g.deadline) = "deadline_regressed" =>
            deadline # NULL /\ g.deadline # NULL /\ g.deadline <= deadline
  BY DEF validateDeadlineProgress
<1>3. makeSchedule(r, g.ttl).bad \in {"invalid_ttl", "invalid_policy", "deadline_overflow", NULL}
  BY DEF makeSchedule, ScheduleProblem
<1>4. \/ Objection(r, g) \in {"deadline_overflow", "clock_regression", "completion_after_deadline", "identity_changed", "token_changed"}
      \/ Objection(r, g) = snapshotGrant(g)
      \/ Objection(r, g) = validateDeadlineProgress(g.deadline)
      \/ Objection(r, g) = makeSchedule(r, g.ttl).bad
  BY DEF Objection
<1> QED BY <1>1, <1>2, <1>3, <1>4

\* The continuation of checkpoint(): the answer is ignored, accepted or fatal.
LEMMA AnsweredKeeps ==
  ASSUME SupervisorInv, NEW c \in Calls, Answered(c)
  PROVE  SupervisorInv'
<1>1. /\ RenewalTypeOK /\ call \in [Calls -> {Idle, Due, Sent, Refused} \cup Answers]
      /\ clock \in Nat /\ Ttl \in Nat /\ granted \in Nat /\ localDeadlineMs \in Nat /\ nextRenewalMs \in Nat
      /\ lastObservedMs \in Nat
  BY RenewalAssumption DEF SupervisorInv, RenewalTypeOK
<1>2. PICK g \in Answers : g = call[c]
  BY <1>1 DEF Answered, Idle, Due, Sent, Refused
<1>3. PICK r \in Readings : acceptRenewal(r, g)
  BY <1>2 DEF Answered
<1>4. UNCHANGED <<clock, expires, history>> /\ call' = [call EXCEPT ![c] = Idle]
  BY DEF Answered
<1>5. /\ call' \in [Calls -> {Idle, Due, Sent, Refused} \cup Answers]
      /\ \A d \in Calls : call'[d] = IF d = c THEN Idle ELSE call[d]
  BY <1>1, <1>4
<1>6. CASE loss # NULL /\ UNCHANGED <<supervisor, granted>>
  <2>1. UNCHANGED <<deadline, ttlMs, localDeadlineMs, nextRenewalMs, lastObservedMs, loss, granted>>
    BY <1>6 DEF supervisor
  <2>2. RenewalTypeOK'
    BY <1>1, <1>4, <1>5, <2>1 DEF RenewalTypeOK
  <2>3. Scheduled' /\ SequentialNeverRegresses'
    BY <1>4, <2>1 DEF SupervisorInv, Scheduled, ScheduledAt, SequentialNeverRegresses
  <2>4. Kept' /\ Truthful'
    BY <1>4, <1>5, <2>1, Phases DEF SupervisorInv, Kept, Truthful
  <2>5. OneByOne'
    BY <1>4, <1>5, <1>6, <2>1, Phases DEF SupervisorInv, OneByOne
  <2> QED BY <2>2, <2>3, <2>4, <2>5 DEF SupervisorInv
<1>7. CASE loss = NULL /\ Objection(r, g) = NULL /\ Accept(r, g) /\ lastObservedMs' = r
  <2>1. /\ r = clock /\ r < localDeadlineMs /\ g.ttl = Ttl /\ g.deadline \in Nat \cup {NULL}
        /\ renewEveryMs < Ttl /\ safetyMarginMs < Ttl /\ Safe(r + Ttl)
    BY <1>1, <1>7, NoObjection
  <2>2. /\ deadline' = g.deadline /\ ttlMs' = Ttl /\ localDeadlineMs' = clock + Ttl
        /\ nextRenewalMs' = (IF clock + renewEveryMs < clock + Ttl - safetyMarginMs
                             THEN clock + renewEveryMs ELSE clock + Ttl - safetyMarginMs)
        /\ granted' = g.at /\ loss' = loss /\ lastObservedMs' = clock
    BY <1>7, <2>1 DEF Accept, makeSchedule
  <2>3. g.at \in Nat /\ g.at <= clock /\ g.at + Ttl <= expires
    BY <1>2 DEF SupervisorInv, Kept, Answers
  <2>4. renewEveryMs \in Nat /\ safetyMarginMs \in Nat /\ renewEveryMs > 0
    BY RenewalAssumption DEF SupervisorInv, snapshotPolicy
  <2>5. /\ localDeadlineMs' \in 0..MaxClock /\ nextRenewalMs' \in 0..MaxClock
        /\ clock < nextRenewalMs' /\ nextRenewalMs' <= clock + Ttl - safetyMarginMs
    BY <1>1, <2>1, <2>2, <2>4, RenewalAssumption DEF Safe
  <2>6. RenewalTypeOK'
    BY <1>1, <1>4, <1>5, <1>7, <2>1, <2>2, <2>3, <2>5 DEF RenewalTypeOK
  <2>7. Scheduled'
    <3>1. ScheduledAt' = clock
      BY <1>1, <2>2 DEF ScheduledAt
    <3>2. nextRenewalMs' <= localDeadlineMs' - safetyMarginMs
      <4>1. localDeadlineMs' = clock + Ttl /\ nextRenewalMs' <= clock + Ttl - safetyMarginMs
        BY <2>2, <2>5
      <4>2. clock \in Int /\ Ttl \in Int /\ safetyMarginMs \in Int /\ nextRenewalMs' \in Int /\ localDeadlineMs' \in Int
        BY <1>1, <2>4, <2>5
      <4> QED BY <4>1, <4>2
    <3>3. clock <= clock
      BY <1>1
    <3> QED BY <1>4, <2>2, <2>3, <2>5, <3>1, <3>2, <3>3 DEF Scheduled
  <2>8. Kept'
    BY <1>4, <1>5, <2>2, <2>3, Phases DEF SupervisorInv, Kept
  <2>9. OneByOne'
    BY <1>2, <1>4, <1>5, Phases DEF SupervisorInv, OneByOne
  <2>10. Truthful'
    BY <1>2, <1>4, <1>5, <2>2, Phases DEF SupervisorInv, Truthful
  <2>11. SequentialNeverRegresses'
    BY <1>4, <2>2 DEF SupervisorInv, SequentialNeverRegresses
  <2> QED BY <2>6, <2>7, <2>8, <2>9, <2>10, <2>11 DEF SupervisorInv
<1>8. CASE /\ loss = NULL /\ Objection(r, g) # NULL /\ Record(Objection(r, g)) /\ UNCHANGED granted
           /\ lastObservedMs' = IF Safe(r) /\ snapshotGrant(g) = NULL /\ r >= lastObservedMs THEN r ELSE lastObservedMs
  <2>1. /\ UNCHANGED <<deadline, ttlMs, localDeadlineMs, nextRenewalMs, granted>>
        /\ loss' = Objection(r, g) /\ loss' \in LossReasons /\ loss' # NULL
    BY <1>8, Objecting DEF Record
  <2>2. lastObservedMs' \in {lastObservedMs, clock}
    <3>1. CASE Safe(r) /\ r >= lastObservedMs
      <4>1. ~(r < lastObservedMs)
        BY <1>1, <3>1 DEF Safe
      <4> QED BY <1>1, <1>8, <3>1, <4>1, ReadingIsTime
    <3> QED BY <1>8, <3>1
  <2>3. RenewalTypeOK'
    BY <1>1, <1>4, <1>5, <2>1, <2>2 DEF RenewalTypeOK
  <2>4. Scheduled'
    BY <1>1, <1>4, <2>1, <2>2 DEF SupervisorInv, Scheduled, ScheduledAt
  <2>5. Kept' /\ Truthful'
    BY <1>4, <1>5, <2>1, Phases DEF SupervisorInv, Kept, Truthful
  <2>6. OneByOne'
    BY <1>4, <1>5, <2>1, Phases DEF SupervisorInv, OneByOne
  <2>7. SequentialNeverRegresses'
    <3> SUFFICES ASSUME Objection(r, g) = "deadline_regressed", ~history.overlapped, ~history.falsified PROVE FALSE
      BY <1>4, <2>1 DEF SequentialNeverRegresses
    <3>1. deadline # NULL /\ g.deadline # NULL /\ g.deadline <= deadline
      BY <1>8, Objecting
    <3>2. deadline = granted + Ttl /\ g.deadline = g.at + Ttl
      BY <1>2, <3>1 DEF SupervisorInv, Truthful
    <3>3. nextRenewalMs <= g.at /\ g.at \in Nat
      BY <1>2, <1>8 DEF SupervisorInv, OneByOne, Answers
    <3>4. granted < nextRenewalMs
      BY <1>1 DEF SupervisorInv, Scheduled, ScheduledAt
    <3> QED BY <1>1, <3>1, <3>2, <3>3, <3>4
  <2> QED BY <2>3, <2>4, <2>5, <2>6, <2>7 DEF SupervisorInv
<1> QED BY <1>3, <1>6, <1>7, <1>8 DEF acceptRenewal

LEMMA TickKeeps ==
  ASSUME SupervisorInv, Tick
  PROVE  SupervisorInv'
<1>1. /\ UNCHANGED <<deadline, ttlMs, localDeadlineMs, nextRenewalMs, lastObservedMs, loss, call, expires, granted, history>>
      /\ clock' = clock + 1
  BY DEF Tick, supervisor
<1>2. /\ clock \in Nat /\ clock' \in Nat /\ clock <= clock'
      /\ lastObservedMs \in Nat /\ nextRenewalMs \in Nat /\ ScheduledAt \in Int /\ \A c \in Calls : call[c] \in Answers => call[c].at \in Nat
  BY <1>1, RenewalAssumption DEF SupervisorInv, RenewalTypeOK, ScheduledAt, Answers
<1>3. RenewalTypeOK'
  BY <1>1, <1>2 DEF SupervisorInv, RenewalTypeOK
<1>4. Scheduled'
  <2>1. ScheduledAt' = ScheduledAt
    BY <1>1 DEF ScheduledAt
  <2>2. ScheduledAt <= clock' /\ lastObservedMs <= clock'
    BY <1>2 DEF SupervisorInv, Scheduled
  <2> QED BY <1>1, <2>1, <2>2 DEF SupervisorInv, Scheduled
<1>5. Kept'
  BY <1>1, <1>2 DEF SupervisorInv, Kept
<1>6. OneByOne'
  BY <1>1, <1>2 DEF SupervisorInv, OneByOne
<1>7. Truthful' /\ SequentialNeverRegresses'
  BY <1>1 DEF SupervisorInv, Truthful, SequentialNeverRegresses
<1> QED BY <1>3, <1>4, <1>5, <1>6, <1>7 DEF SupervisorInv

LEMMA SupervisorStarts ==
  ASSUME RenewalInit
  PROVE  SupervisorInv
<1> USE RenewalAssumption
<1>1. /\ clock \in Nat /\ 1 <= clock /\ granted = 1 /\ expires = 1 + Ttl /\ ttlMs = Ttl /\ lastObservedMs = clock /\ loss = NULL
      /\ deadline \in {NULL, 1 + Ttl} /\ call = [c \in Calls |-> Idle] /\ snapshotPolicy
      /\ history = [overlapped |-> FALSE, falsified |-> FALSE]
  BY DEF RenewalInit
<1>2. ScheduleProblem(clock, Ttl) = NULL /\ localDeadlineMs = clock + Ttl
      /\ nextRenewalMs = (IF clock + renewEveryMs < clock + Ttl - safetyMarginMs
                          THEN clock + renewEveryMs ELSE clock + Ttl - safetyMarginMs)
  BY DEF RenewalInit, makeSchedule
<1>3. ~(renewEveryMs >= Ttl) /\ ~(safetyMarginMs >= Ttl) /\ Safe(clock + Ttl)
  BY <1>2 DEF ScheduleProblem, LossReasons
<1>4. renewEveryMs > 0 /\ safetyMarginMs > 0
  BY <1>1 DEF snapshotPolicy
<1>5. /\ localDeadlineMs \in 0..MaxClock /\ nextRenewalMs \in 0..MaxClock
      /\ clock < nextRenewalMs /\ nextRenewalMs <= localDeadlineMs - safetyMarginMs
  BY <1>1, <1>2, <1>3, <1>4 DEF Safe
<1>6. ScheduledAt = clock
  BY <1>1, <1>2 DEF ScheduledAt
<1>7. RenewalTypeOK
  BY <1>1, <1>5 DEF RenewalTypeOK
<1>8. Scheduled
  BY <1>1, <1>5, <1>6 DEF Scheduled
<1>9. Kept /\ OneByOne /\ Truthful
  BY <1>1, Phases DEF Kept, OneByOne, Truthful
<1>10. SequentialNeverRegresses
  BY <1>1, RenewalAssumption DEF SequentialNeverRegresses, LossReasons
<1> QED BY <1>1, <1>7, <1>8, <1>9, <1>10 DEF SupervisorInv

LEMMA SupervisorSteps ==
  ASSUME SupervisorInv, [RenewalNext]_renewalVars
  PROVE  SupervisorInv'
<1>1. CASE UNCHANGED renewalVars
  BY <1>1
  DEF renewalVars, supervisor, SupervisorInv, RenewalTypeOK, Scheduled, ScheduledAt, Kept, OneByOne, Truthful, SequentialNeverRegresses
<1> QED BY <1>1, AssertLiveKeeps, CheckpointKeeps, CallKeeps, AuthorityRenewsKeeps, RenewalFailedKeeps, AnsweredKeeps, TickKeeps
        DEF RenewalNext

\* Schedules, answers and the authority's lease fit together in every run.
THEOREM SupervisorInvariant == RenewalSpec => []SupervisorInv
BY SupervisorStarts, SupervisorSteps, PTL DEF RenewalSpec

\* The sizing rule of docs/lease-renewal.md, for every policy the constructor
\* accepts: a checkpoint that says "wait" is inside the authority's lease when
\* the grant travelled no longer than the safety margin (renewal.ts decide).
THEOREM WaitsInsideLease == RenewalSpec => []RenewalInv
<1>1. ASSUME SupervisorInv PROVE RenewalInv
  <2> SUFFICES ASSUME Decided(clock) = "wait", localDeadlineMs - ttlMs <= granted + safetyMarginMs PROVE clock < expires
    BY <1>1 DEF SupervisorInv, RenewalInv, WaitIsOwned
  <2>1. /\ clock \in Nat /\ nextRenewalMs \in Nat /\ localDeadlineMs \in Nat /\ granted \in Nat /\ expires \in Nat
        /\ Ttl \in Nat /\ safetyMarginMs \in Nat
    BY <1>1, RenewalAssumption DEF SupervisorInv, RenewalTypeOK
  <2>2. ~(clock >= nextRenewalMs)
    BY RenewalAssumption, <1>1 DEF Decided, SupervisorInv, RenewalTypeOK, LossReasons
  <2>3. /\ nextRenewalMs <= localDeadlineMs - safetyMarginMs /\ granted + Ttl <= expires
        /\ localDeadlineMs - Ttl <= granted + safetyMarginMs
    BY <1>1 DEF SupervisorInv, Scheduled, Kept
  <2> QED BY <2>1, <2>2, <2>3
<1> QED BY <1>1, SupervisorInvariant, PTL

\* Callers that do not overlap their checkpoints never lose a lease to its own
\* renewal, for every policy (renewal.ts validateDeadlineProgress).
THEOREM OneByOneNeverRegresses == RenewalSpec => []SequentialNeverRegresses
<1>1. SupervisorInv => SequentialNeverRegresses
  BY DEF SupervisorInv
<1> QED BY <1>1, SupervisorInvariant, PTL

\* Neither a recorded loss nor a passed deadline is undone, however late and
\* however good an answer is (renewal.ts acceptRenewal).
THEOREM LostStaysLost == RenewalSpec => NoRevival
<1> DEFINE A == loss # NULL => UNCHANGED supervisor
           B == localDeadlineMs' # localDeadlineMs => clock < localDeadlineMs
<1>1. ASSUME SupervisorInv, [RenewalNext]_renewalVars PROVE [A]_renewalVars
  BY <1>1
  DEF RenewalNext, AssertLive, Checkpoint, decide, Decided, Record, CallAuthority, AuthorityRenews, AuthorityRefuses,
      RenewalFailed, Answered, acceptRenewal, Tick, supervisor
<1>2. ASSUME SupervisorInv, [RenewalNext]_renewalVars PROVE [B]_renewalVars
  <2> SUFFICES ASSUME RenewalNext, localDeadlineMs' # localDeadlineMs PROVE clock < localDeadlineMs
    BY <1>2
  <2>1. PICK c \in Calls : Answered(c)
    BY DEF RenewalNext, AssertLive, Checkpoint, decide, Record, CallAuthority, AuthorityRenews, AuthorityRefuses,
           RenewalFailed, Tick, supervisor
  <2>2. PICK r \in Readings : acceptRenewal(r, call[c])
    BY <2>1 DEF Answered
  <2>3. Objection(r, call[c]) = NULL
    BY <2>2 DEF acceptRenewal, Record, supervisor
  <2>4. call[c] \in Answers
    BY <1>2, <2>1 DEF Answered, SupervisorInv, RenewalTypeOK, Idle, Due, Sent, Refused
  <2> QED BY <1>2, <2>3, <2>4, NoObjection DEF SupervisorInv
<1>3. ASSUME SupervisorInv, [RenewalNext]_renewalVars PROVE [A]_renewalVars /\ [B]_renewalVars
  BY <1>1, <1>2, <1>3
<1> QED BY <1>3, SupervisorInvariant, PTL DEF RenewalSpec, NoRevival, LossIsTerminal, NoLateExtension
=============================================================================
