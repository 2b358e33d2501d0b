------------------------ MODULE LeaseAuthority_proofs -----------------------
(***************************************************************************)
(* Proofs about the lease authority, for every set of holders, request ids *)
(* and TTLs, every minting ceiling and every horizon.  The inductive       *)
(* invariant is the type invariant with ActiveLeaseIsNewest; the action    *)
(* properties follow from it step by step.                                 *)
(*                                                                         *)
(* Then proofs about the HTTP boundary, for every configuration, body and  *)
(* framing.  BoundaryInv says what has been checked at each stage; that a  *)
(* text prefix ending in a slash is a prefix component by component is an  *)
(* induction over components, along their offsets in the text.             *)
(***************************************************************************)
EXTENDS MCDurableObject, SequenceTheorems, WellFoundedInduction, TLAPS

Inv == AuthorityTypeOK /\ ActiveLeaseIsNewest

\* The authority starts with an empty, well-formed row.
LEMMA InitInv == AuthorityInit => Inv
  BY NumbersAssumption, HoldersAssumption
  DEF AuthorityInit, Inv, AuthorityTypeOK, ActiveLeaseIsNewest, Tokens

\* acquire keeps the row well-formed, whichever of its five answers it gives.
LEMMA AcquireInv ==
  ASSUME Inv, NEW h \in Holders, NEW r \in RequestIds \cup {NULL}, NEW ttl \in Ttls,
         Acquire(h, r, ttl)
  PROVE  Inv'
<1> USE NumbersAssumption, HoldersAssumption, NullAssumption DEF Inv, Tokens
<1>1. CASE AcquireRejected(ttl) /\ UNCHANGED now
  BY <1>1 DEF AcquireRejected, lease, AuthorityTypeOK, ActiveLeaseIsNewest
<1>2. CASE AcquireRefused(h, r) /\ UNCHANGED now
  BY <1>2 DEF AcquireRefused, lease, AuthorityTypeOK, ActiveLeaseIsNewest
<1>3. CASE AcquireReplayed(h, r) /\ UNCHANGED now
  BY <1>3 DEF AcquireReplayed, Replays, Live, AuthorityTypeOK, ActiveLeaseIsNewest
<1>4. CASE AcquireExhausted /\ UNCHANGED now
  BY <1>4 DEF AcquireExhausted, lease, AuthorityTypeOK, ActiveLeaseIsNewest
<1>5. CASE AcquireGranted(h, r, ttl) /\ UNCHANGED now
  <2>1. AuthorityTypeOK'
    BY <1>5 DEF AcquireGranted, InHorizon, AuthorityTypeOK
  <2>2. ActiveLeaseIsNewest'
    BY <1>5 DEF AcquireGranted, InHorizon, AuthorityTypeOK, ActiveLeaseIsNewest
  <2> QED BY <2>1, <2>2
<1> QED BY <1>1, <1>2, <1>3, <1>4, <1>5 DEF Acquire

\* Every step of the authority, of any caller, preserves the invariant.
LEMMA NextInv == Inv /\ [AuthorityNext]_authorityVars => Inv'
<1> SUFFICES ASSUME Inv, [AuthorityNext]_authorityVars PROVE Inv'
  OBVIOUS
<1> USE NumbersAssumption, HoldersAssumption, NullAssumption
<1>1. ASSUME NEW h \in Holders, NEW r \in RequestIds \cup {NULL}, NEW ttl \in Ttls, Acquire(h, r, ttl)
      PROVE  Inv'
  BY <1>1, AcquireInv
<1>2. ASSUME NEW h \in Holders, NEW t \in Tokens, NEW ttl \in Ttls, Renew(h, t, ttl)
      PROVE  Inv'
  BY <1>2 DEF Renew, Owns, InHorizon, clearLease, lease, Inv, AuthorityTypeOK, ActiveLeaseIsNewest, Tokens
<1>3. ASSUME NEW h \in Holders, NEW t \in Tokens, Release(h, t)
      PROVE  Inv'
  BY <1>3 DEF Release, clearLease, lease, Inv, AuthorityTypeOK, ActiveLeaseIsNewest, Tokens
<1>4. CASE AlarmDue
  BY <1>4 DEF AlarmDue, AlarmHandler, clearLease, lease, Inv, AuthorityTypeOK, ActiveLeaseIsNewest, Tokens
<1>5. CASE AlarmRepeated
  BY <1>5 DEF AlarmRepeated, AlarmHandler, clearLease, lease, Inv, AuthorityTypeOK, ActiveLeaseIsNewest, Tokens
<1>6. CASE Tick
  BY <1>6 DEF Tick, lease, Inv, AuthorityTypeOK, ActiveLeaseIsNewest, Tokens
<1>7. CASE UNCHANGED authorityVars
  BY <1>7 DEF authorityVars, Inv, AuthorityTypeOK, ActiveLeaseIsNewest, Tokens
<1> QED BY <1>1, <1>2, <1>3, <1>4, <1>5, <1>6, <1>7 DEF AuthorityNext

\* The authority's storage is always well-formed, tokens stay within the minting
\* ceiling, and the active lease carries the newest token.
THEOREM AuthorityInvariant == AuthoritySpec => []Inv
<1>1. AuthorityInit => Inv
  BY InitInv
<1>2. Inv /\ [AuthorityNext]_authorityVars => Inv'
  BY NextInv
<1> QED BY <1>1, <1>2, PTL DEF AuthoritySpec

\* Type correctness of the row, the alarm and the clock.
THEOREM AuthorityTypeCorrect == AuthoritySpec => []AuthorityTypeOK
<1>1. Inv => AuthorityTypeOK
  BY DEF Inv
<1> QED BY <1>1, AuthorityInvariant, PTL

\* The active lease carries the newest token ever minted (clearLease, nextToken).
THEOREM ActiveLeaseNewest == AuthoritySpec => []ActiveLeaseIsNewest
<1>1. Inv => ActiveLeaseIsNewest
  BY DEF Inv
<1> QED BY <1>1, AuthorityInvariant, PTL

TokenStep == token' \in {token, NULL} \/ (next_token < token' /\ token' = next_token')

\* No released, expired or superseded token becomes active again, for every
\* interleaving of callers and alarms.
THEOREM TokensNeverReturn == AuthoritySpec => TokenNeverReturns
<1>1. Inv /\ [AuthorityNext]_authorityVars => [TokenStep]_authorityVars
  <2> SUFFICES ASSUME Inv, AuthorityNext PROVE TokenStep
    BY DEF TokenStep, authorityVars
  <2> USE DEF TokenStep, clearLease, lease
  <2>1. ASSUME NEW h \in Holders, NEW r \in RequestIds \cup {NULL}, NEW ttl \in Ttls, Acquire(h, r, ttl)
        PROVE  TokenStep
    BY <2>1, NumbersAssumption
    DEF Acquire, AcquireRejected, AcquireRefused, AcquireReplayed, AcquireExhausted, AcquireGranted,
        Inv, AuthorityTypeOK
  <2>2. ASSUME NEW h \in Holders, NEW t \in Tokens, NEW ttl \in Ttls, Renew(h, t, ttl)
        PROVE  TokenStep
    BY <2>2 DEF Renew
  <2>3. ASSUME NEW h \in Holders, NEW t \in Tokens, Release(h, t)
        PROVE  TokenStep
    BY <2>3 DEF Release
  <2>4. CASE AlarmDue \/ AlarmRepeated \/ Tick
    BY <2>4 DEF AlarmDue, AlarmRepeated, AlarmHandler, Tick
  <2> QED BY <2>1, <2>2, <2>3, <2>4 DEF AuthorityNext
<1> QED BY <1>1, AuthorityInvariant, PTL DEF AuthoritySpec, TokenNeverReturns, TokenStep

KeepStep ==
    (holder # NULL /\ now < expires_ms) =>
        (holder' = holder /\ token' = token) \/ holder' = NULL

\* An unexpired lease passes to no other holder and to no new token.
THEOREM LiveLeaseKept == AuthoritySpec => LiveLeaseNotStolen
<1>1. Inv /\ [AuthorityNext]_authorityVars => [KeepStep]_authorityVars
  <2> SUFFICES ASSUME Inv, AuthorityNext, holder # NULL, now < expires_ms
               PROVE  (holder' = holder /\ token' = token) \/ holder' = NULL
    BY DEF KeepStep, authorityVars
  <2> USE DEF clearLease, lease
  <2>1. Live
    BY NullAssumption, NumbersAssumption DEF Live, Inv, ActiveLeaseIsNewest, AuthorityTypeOK
  <2>2. ASSUME NEW h \in Holders, NEW r \in RequestIds \cup {NULL}, NEW ttl \in Ttls, Acquire(h, r, ttl)
        PROVE  holder' = holder /\ token' = token
    BY <2>1, <2>2
    DEF Acquire, AcquireRejected, AcquireRefused, AcquireReplayed, AcquireExhausted, AcquireGranted
  <2>3. ASSUME NEW h \in Holders, NEW t \in Tokens, NEW ttl \in Ttls, Renew(h, t, ttl)
        PROVE  (holder' = holder /\ token' = token) \/ holder' = NULL
    BY <2>3 DEF Renew
  <2>4. ASSUME NEW h \in Holders, NEW t \in Tokens, Release(h, t)
        PROVE  (holder' = holder /\ token' = token) \/ holder' = NULL
    BY <2>4 DEF Release
  <2>5. CASE AlarmDue \/ AlarmRepeated \/ Tick
    BY <2>5 DEF AlarmDue, AlarmRepeated, AlarmHandler, Tick
  <2> QED BY <2>2, <2>3, <2>4, <2>5 DEF AuthorityNext
<1> QED BY <1>1, AuthorityInvariant, PTL DEF AuthoritySpec, LiveLeaseNotStolen, KeepStep

DeadStep == (Expired /\ token' = token) => expires_ms' = expires_ms

\* An expired lease is never revived, by any message, however late.
THEOREM ExpiredLeaseDead == AuthoritySpec => ExpiredStaysDead
<1>1. Inv /\ [AuthorityNext]_authorityVars => [DeadStep]_authorityVars
  <2> SUFFICES ASSUME Inv, AuthorityNext, Expired, token' = token
               PROVE  expires_ms' = expires_ms
    BY DEF DeadStep, authorityVars
  <2> USE NullAssumption, NumbersAssumption DEF clearLease, lease, Tokens
  <2>1. /\ token \in Nat /\ token = next_token /\ next_token \in Nat
        /\ expires_ms \in Nat /\ now \in Nat /\ expires_ms <= now
    BY DEF Expired, Inv, ActiveLeaseIsNewest, AuthorityTypeOK
  <2>2. ASSUME NEW h \in Holders, NEW r \in RequestIds \cup {NULL}, NEW ttl \in Ttls, Acquire(h, r, ttl)
        PROVE  expires_ms' = expires_ms
    BY <2>1, <2>2
    DEF Acquire, AcquireRejected, AcquireRefused, AcquireReplayed, AcquireExhausted, AcquireGranted
  <2>3. ASSUME NEW h \in Holders, NEW t \in Tokens, NEW ttl \in Ttls, Renew(h, t, ttl)
        PROVE  expires_ms' = expires_ms
    BY <2>1, <2>3 DEF Renew, Owns
  <2>4. ASSUME NEW h \in Holders, NEW t \in Tokens, Release(h, t)
        PROVE  expires_ms' = expires_ms
    BY <2>1, <2>4 DEF Release
  <2>5. CASE AlarmDue \/ AlarmRepeated \/ Tick
    BY <2>1, <2>5 DEF AlarmDue, AlarmRepeated, AlarmHandler, Tick
  <2> QED BY <2>2, <2>3, <2>4, <2>5 DEF AuthorityNext
<1> QED BY <1>1, AuthorityInvariant, PTL DEF AuthoritySpec, ExpiredStaysDead, DeadStep

\* The abstract variables of a row.
LEMMA AbstractRow ==
  ASSUME Inv
  PROVE  /\ Live <=> (holder # NULL /\ now < expires_ms)
         /\ Live => token = next_token /\ token \in Nat /\ token # NULL
  BY NullAssumption, NumbersAssumption
  DEF Inv, Live, ActiveLeaseIsNewest, AuthorityTypeOK, Tokens

\* A step that keeps row and liveness is a stutter of the abstract lease; one
\* that ends a live row is a Drop.
LEMMA QuietStep ==
  ASSUME Inv, UNCHANGED next_token,
         Live' => Live /\ holder' = holder /\ token' = token
  PROVE  [Abs!LeaseNext]_(Abs!leaseState)
<1>1. CASE Live /\ Live'
  BY <1>1 DEF Abs!leaseState
<1>2. CASE ~Live /\ ~Live'
  BY <1>2 DEF Abs!leaseState
<1>3. CASE Live /\ ~Live'
  BY <1>3, AbstractRow DEF Abs!LeaseNext, Abs!Drop
<1> QED BY <1>1, <1>2, <1>3

\* Only a granted acquire adds to the abstract lease.
LEMMA GrantStep ==
  ASSUME Inv, Inv', NEW h \in Holders, NEW r \in RequestIds \cup {NULL}, NEW ttl \in Ttls,
         ValidTtl(ttl), AcquireGranted(h, r, ttl), UNCHANGED now
  PROVE  Abs!LeaseNext
<1>1. ~Live /\ Live'
  BY NullAssumption, NumbersAssumption, HoldersAssumption
  DEF AcquireGranted, Live, ValidTtl, Inv, AuthorityTypeOK
<1>2. Abs!Grant(h)
  BY <1>1 DEF Abs!Grant, AcquireGranted
<1> QED BY <1>2 DEF Abs!LeaseNext

\* The Durable Object implements the abstract lease: initial states map to the
\* initial state, every handler, alarm and clock step to a Grant, a Drop or a
\* stutter.
THEOREM AuthorityImplementsLease == AuthoritySpec => ImplementsLease
<1>1. AuthorityInit => Abs!LeaseInit
  BY DEF AuthorityInit, Abs!LeaseInit, Live
<1>2. Inv /\ Inv' /\ [AuthorityNext]_authorityVars => [Abs!LeaseNext]_(Abs!leaseState)
  <2> SUFFICES ASSUME Inv, Inv', [AuthorityNext]_authorityVars
               PROVE  [Abs!LeaseNext]_(Abs!leaseState)
    OBVIOUS
  <2> DEFINE Quiet == UNCHANGED next_token /\ (Live' => Live /\ holder' = holder /\ token' = token)
  <2> USE NullAssumption, NumbersAssumption DEF lease, clearLease, Live
  <2>1. ASSUME NEW h \in Holders, NEW r \in RequestIds \cup {NULL}, NEW ttl \in Ttls, Acquire(h, r, ttl)
        PROVE  [Abs!LeaseNext]_(Abs!leaseState)
    <3>1. CASE ValidTtl(ttl) /\ AcquireGranted(h, r, ttl)
      BY <2>1, <3>1, GrantStep DEF Acquire
    <3>2. CASE AcquireRejected(ttl) \/ AcquireRefused(h, r) \/ AcquireReplayed(h, r) \/ AcquireExhausted
      <4>1. Quiet
        BY <2>1, <3>2 DEF Acquire, AcquireRejected, AcquireRefused, AcquireReplayed, AcquireExhausted
      <4> QED BY <4>1, QuietStep
    <3> QED BY <2>1, <3>1, <3>2 DEF Acquire
  <2>2. ASSUME NEW h \in Holders, NEW t \in Tokens, NEW ttl \in Ttls, Renew(h, t, ttl)
        PROVE  Quiet
    BY <2>2, HoldersAssumption DEF Renew, Owns
  <2>3. ASSUME NEW h \in Holders, NEW t \in Tokens, Release(h, t)
        PROVE  Quiet
    BY <2>3 DEF Release
  <2>4. CASE AlarmDue \/ AlarmRepeated
    <3>1. Quiet
      BY <2>4 DEF AlarmDue, AlarmRepeated, AlarmHandler
    <3> QED BY <3>1, QuietStep
  <2>5. CASE Tick
    <3>1. Quiet
      BY <2>5 DEF Tick, Inv, AuthorityTypeOK
    <3> QED BY <3>1, QuietStep
  <2>6. CASE UNCHANGED authorityVars
    <3>1. Quiet
      BY <2>6 DEF authorityVars
    <3> QED BY <3>1, QuietStep
  <2> QED BY <2>1, <2>2, <2>3, <2>4, <2>5, <2>6, QuietStep DEF AuthorityNext
<1> QED BY <1>1, <1>2, AuthorityInvariant, PTL DEF AuthoritySpec, ImplementsLease, Abs!LeaseSpec

-----------------------------------------------------------------------------
(* Induction over numbers, and functions defined step by step              *)

\* Every nonempty set of numbers has a least one.
LEMMA NatMin ==
    ASSUME NEW T \in SUBSET Nat, T # {}
    PROVE \E x \in T : \A y \in T : x <= y
<1> DEFINE R == {ss \in Nat \X Nat : ss[1] < ss[2]}
<1>1. IsWellFoundedOn(R, Nat)
  BY NatLessThanWellFounded DEF OpToRel
<1> HIDE DEF R
<1>2. PICK x \in T : \A y \in T : ~(<<y, x>> \in R)
  BY <1>1, WFMin
<1>3. \A y \in T : ~(y < x)
  BY <1>2 DEF R
<1> QED BY <1>3

\* Induction, over a set of numbers.
LEMMA SetInduction ==
    ASSUME NEW S, 0 \in S, \A n \in Nat : n \in S => n + 1 \in S
    PROVE  \A n \in Nat : n \in S
<1> DEFINE T == {n \in Nat : n \notin S}
<1>1. SUFFICES ASSUME T # {} PROVE FALSE
  OBVIOUS
<1>2. PICK x \in T : \A y \in T : x <= y
  BY <1>1, NatMin
<1>3. x # 0 /\ x - 1 \in Nat /\ x - 1 \notin T
  BY <1>2
<1> QED BY <1>2, <1>3

\* How to go from each position to the next.
StepRule(g, N, S) == g \in [1..N -> [S -> S]]

\* What comes of the rule g from a.
StepFunction(f, g, N, S, a) ==
    f \in [0..N -> S] /\ f[0] = a /\ \A k \in 1..N : f[k] = g[k][f[k - 1]]

\* A function defined step by step exists.
LEMMA Stepwise ==
  ASSUME NEW N \in Nat, NEW S, NEW a \in S, NEW g, StepRule(g, N, S)
  PROVE  \E f : StepFunction(f, g, N, S, a)
<1> USE DEF StepRule, StepFunction
<1> DEFINE P(n) == \E f \in [0..n -> S] : f[0] = a /\ \A k \in 1..n : f[k] = g[k][f[k - 1]]
           T == {n \in Nat : n <= N => P(n)}
<1>1. 0 \in T
  <2> DEFINE f == [k \in 0..0 |-> a]
  <2>1. f \in [0..0 -> S] /\ f[0] = a /\ 1..0 = {}
    OBVIOUS
  <2> QED BY <2>1
<1>2. ASSUME NEW n \in Nat, n \in T PROVE n + 1 \in T
  <2> SUFFICES ASSUME n + 1 <= N PROVE P(n + 1)
    OBVIOUS
  <2>1. PICK f \in [0..n -> S] : f[0] = a /\ \A k \in 1..n : f[k] = g[k][f[k - 1]]
    BY <1>2
  <2> DEFINE h == [k \in 0..(n + 1) |-> IF k = n + 1 THEN g[n + 1][f[n]] ELSE f[k]]
  <2>2. n + 1 \in 1..N /\ g[n + 1] \in [S -> S] /\ f[n] \in S
    OBVIOUS
  <2>3. h \in [0..(n + 1) -> S]
    BY <2>2
  <2>4. h[0] = a
    BY <2>1
  <2>5. ASSUME NEW k \in 1..(n + 1) PROVE h[k] = g[k][h[k - 1]]
    <3>1. CASE k = n + 1
      <4>1. h[k] = g[n + 1][f[n]] /\ h[k - 1] = f[n]
        BY <3>1
      <4> QED BY <3>1, <4>1
    <3>2. CASE k # n + 1
      <4>1. h[k] = f[k] /\ h[k - 1] = f[k - 1] /\ k \in 1..n
        BY <3>2
      <4> QED BY <2>1, <4>1
    <3> QED BY <3>1, <3>2
  <2> QED BY <2>3, <2>4, <2>5
<1> HIDE DEF T
<1>3. \A n \in Nat : n \in T
  BY <1>1, <1>2, SetInduction
<1> QED BY <1>3 DEF T

-----------------------------------------------------------------------------
(* The texts of paths, character by character                              *)

SlashCharacter == "/"
Strings == Seq(Characters)

\* The components of a path are texts without a slash.
LEMMA PathComponents ==
  ASSUME NEW cs, Path(cs)
  PROVE  /\ Len(cs) \in Nat /\ cs \in Seq(Strings)
         /\ \A n \in 1..Len(cs) : cs[n] \in Strings
         /\ \A n \in 1..Len(cs) : \A j \in 1..Len(cs[n]) : cs[n][j] # SlashCharacter
<1>1. cs \in Seq(Strings)
  BY Zenon DEF Path, Strings
<1>2. Len(cs) \in Nat /\ \A n \in 1..Len(cs) : cs[n] \in Strings
  BY <1>1, ElementOfSeq, LenProperties
<1>3. \A n \in 1..Len(cs) : \A j \in 1..Len(cs[n]) : cs[n][j] # SlashCharacter
  BY Zenon DEF Path, SlashCharacter
<1> QED BY <1>1, <1>2, <1>3

\* A slash is a text.
LEMMA SlashText == /\ Http!Slash \in Strings /\ <<>> \in Strings
                   /\ Len(Http!Slash) = 1 /\ Http!Slash[1] = SlashCharacter
<1>1. SlashCharacter \in Characters
  BY Zenon, BoundaryAssumption DEF SlashCharacter
<1>2. Http!Slash = <<SlashCharacter>>
  BY Zenon DEF Http!Slash, SlashCharacter
<1>3. PICK c \in Characters : c = SlashCharacter
  BY <1>1
<1>4. <<c>> \in Strings /\ <<>> \in Strings /\ Len(<<c>>) = 1 /\ <<c>>[1] = c
  BY DEF Strings
<1> QED BY <1>2, <1>3, <1>4

\* Component by component.
LEMMA TextSteps ==
  ASSUME NEW cs, Path(cs)
  PROVE  LET t == Http!PrefixTexts(cs) IN
         /\ t \in [0..Len(cs) -> Strings]
         /\ t[0] = <<>>
         /\ \A n \in 1..Len(cs) : t[n] = IF n = 1 THEN cs[n] ELSE (t[n - 1] \o Http!Slash) \o cs[n]
<1> DEFINE N == Len(cs)
           E(f) == [n \in 0..N |-> IF n = 0 THEN <<>> ELSE IF n = 1 THEN cs[n] ELSE (f[n - 1] \o Http!Slash) \o cs[n]]
           v == CHOOSE f : f = E(f)
<1>0. N \in Nat /\ (\A n \in 1..N : cs[n] \in Strings) /\ Http!Slash \in Strings /\ <<>> \in Strings
  BY PathComponents, SlashText
<1>1. Http!PrefixTexts(cs) = v
  BY DEF Http!PrefixTexts
<1>2. \A x \in Strings, y \in Strings : (x \o Http!Slash) \o y \in Strings
  BY <1>0 DEF Strings
<1> HIDE DEF N
<1>3. \E f : f = E(f)
  <2> DEFINE g == [k \in 1..N |-> [x \in Strings |-> IF k = 1 THEN cs[k] ELSE (x \o Http!Slash) \o cs[k]]]
  <2>1. g \in [1..N -> [Strings -> Strings]]
    BY <1>0, <1>2
  <2>2. \A k \in 1..N, x \in Strings : g[k][x] = IF k = 1 THEN cs[k] ELSE (x \o Http!Slash) \o cs[k]
    OBVIOUS
  <2> HIDE DEF g
  <2>3. N \in Nat /\ StepRule(g, N, Strings) /\ <<>> \in Strings
    BY <1>0, <2>1 DEF StepRule
  <2>4. PICK f : StepFunction(f, g, N, Strings, <<>>)
    BY <2>3, Stepwise
  <2>5. ASSUME NEW n \in 0..N PROVE f[n] = E(f)[n]
    <3> USE DEF StepFunction
    <3>1. CASE n = 0
      BY <3>1, <2>4
    <3>2. CASE n # 0
      <4>1. n \in 1..N /\ n - 1 \in 0..N /\ f[n - 1] \in Strings
        BY <3>2, <1>0, <2>4
      <4> QED BY <4>1, <3>2, <2>2, <2>4
    <3> QED BY <3>1, <3>2
  <2>6. f = E(f)
    BY <2>4, <2>5 DEF StepFunction
  <2> QED BY <2>6
<1>4. v = E(v)
  BY <1>3
<1> HIDE DEF v
<1>5. /\ v[0] = <<>>
      /\ \A n \in 1..N : v[n] = IF n = 1 THEN cs[n] ELSE (v[n - 1] \o Http!Slash) \o cs[n]
  <2>1. ASSUME NEW n \in 0..N
        PROVE  v[n] = IF n = 0 THEN <<>> ELSE IF n = 1 THEN cs[n] ELSE (v[n - 1] \o Http!Slash) \o cs[n]
    BY <1>4
  <2> QED BY <2>1, <1>0
<1>6. \A n \in 0..N : v[n] \in Strings
  <2> DEFINE T == {n \in Nat : n <= N => v[n] \in Strings}
  <2>1. 0 \in T
    BY <1>0, <1>5
  <2>2. ASSUME NEW n \in Nat, n \in T PROVE n + 1 \in T
    <3> SUFFICES ASSUME n + 1 <= N PROVE v[n + 1] \in Strings
      OBVIOUS
    <3>1. n + 1 \in 1..N /\ (n + 1) - 1 = n /\ v[n] \in Strings /\ cs[n + 1] \in Strings
      BY <1>0, <2>2
    <3>2. v[n + 1] = IF n + 1 = 1 THEN cs[n + 1] ELSE (v[n] \o Http!Slash) \o cs[n + 1]
      BY <1>5, <3>1
    <3> QED BY <1>2, <3>1, <3>2
  <2> HIDE DEF T
  <2>4. \A n \in Nat : n \in T
    BY <2>1, <2>2, SetInduction
  <2> QED BY <2>4, <1>0 DEF T
<1>7. v \in [0..N -> Strings]
  BY <1>4, <1>6
<1> QED BY <1>1, <1>5, <1>7 DEF N

\* Where the n-th component of a path begins in its text.
Offset(cs, n) == IF n = 1 THEN 0 ELSE Len(Http!PrefixTexts(cs)[n - 1]) + 1

\* One text after another.
LEMMA After ==
  ASSUME NEW x \in Strings, NEW y \in Strings
  PROVE  LET z == x \o y IN
         /\ z \in Strings /\ Len(x) \in Nat /\ Len(y) \in Nat /\ Len(z) = Len(x) + Len(y)
         /\ \A j \in 1..Len(x) : z[j] = x[j]
         /\ \A j \in 1..Len(y) : z[Len(x) + j] = y[j]
<1>1. PICK z : z = x \o y
  OBVIOUS
<1>2. /\ z \in Strings /\ Len(z) = Len(x) + Len(y)
      /\ \A i \in 1..(Len(x) + Len(y)) : z[i] = IF i <= Len(x) THEN x[i] ELSE y[i - Len(x)]
  BY <1>1, ConcatProperties DEF Strings
<1>3. PICK m \in Nat, n \in Nat : m = Len(x) /\ n = Len(y)
  BY LenProperties DEF Strings
<1>4. ASSUME NEW j \in 1..m PROVE z[j] = x[j]
  <2>1. j \in 1..(m + n) /\ j <= m
    OBVIOUS
  <2> QED BY <1>2, <1>3, <2>1
<1>5. ASSUME NEW j \in 1..n PROVE z[m + j] = y[j]
  <2>1. m + j \in 1..(m + n) /\ ~(m + j <= m) /\ (m + j) - m = j
    OBVIOUS
  <2> QED BY <1>2, <1>3, <2>1
<1> QED BY <1>1, <1>2, <1>3, <1>4, <1>5

\* A text, a slash and a text.
LEMMA Joined ==
  ASSUME NEW x \in Strings, NEW y \in Strings
  PROVE  LET z == (x \o Http!Slash) \o y IN
         /\ z \in Strings /\ Len(x) \in Nat /\ Len(y) \in Nat /\ Len(z) = (Len(x) + 1) + Len(y)
         /\ \A j \in 1..Len(x) : z[j] = x[j]
         /\ z[Len(x) + 1] = SlashCharacter
         /\ \A j \in 1..Len(y) : z[(Len(x) + 1) + j] = y[j]
<1>1. PICK s : s = Http!Slash /\ s \in Strings /\ Len(s) = 1 /\ s[1] = SlashCharacter
  BY SlashText
<1>2. PICK w : w = x \o s
  OBVIOUS
<1>3. /\ w \in Strings /\ Len(x) \in Nat /\ Len(w) = Len(x) + 1
      /\ \A j \in 1..Len(x) : w[j] = x[j]
      /\ \A j \in 1..1 : w[Len(x) + j] = s[j]
  <2>1. /\ w \in Strings /\ Len(x) \in Nat /\ Len(s) \in Nat /\ Len(w) = Len(x) + Len(s)
        /\ \A j \in 1..Len(x) : w[j] = x[j]
        /\ \A j \in 1..Len(s) : w[Len(x) + j] = s[j]
    <3>1. s \in Strings
      BY <1>1
    <3> QED BY <1>2, <3>1, After
  <2> QED BY <1>1, <2>1
<1>4. PICK z : z = w \o y
  OBVIOUS
<1>5. /\ z \in Strings /\ Len(y) \in Nat /\ Len(z) = Len(w) + Len(y)
      /\ \A j \in 1..Len(w) : z[j] = w[j]
      /\ \A j \in 1..Len(y) : z[Len(w) + j] = y[j]
  BY <1>3, <1>4, After
<1>6. PICK m \in Nat : m = Len(x)
  BY <1>3
<1>7. z[m + 1] = SlashCharacter /\ \A j \in 1..m : z[j] = x[j]
  <2>1. m + 1 \in 1..(m + 1) /\ 1 \in 1..1 /\ \A j \in 1..m : j \in 1..(m + 1)
    OBVIOUS
  <2> QED BY <1>1, <1>3, <1>5, <1>6, <2>1
<1>8. z = (x \o Http!Slash) \o y
  BY <1>1, <1>2, <1>4
<1> QED BY <1>3, <1>5, <1>6, <1>7, <1>8

\* What the n-th component adds to the text.
LEMMA TextLayout ==
  ASSUME NEW cs, Path(cs), NEW n \in 1..Len(cs)
  PROVE  LET t == Http!PrefixTexts(cs)
             o == Offset(cs, n)
         IN  /\ t[n] \in Strings /\ t[n - 1] \in Strings /\ o \in Nat
             /\ Len(t[n]) \in Nat /\ Len(t[n - 1]) \in Nat /\ Len(cs[n]) \in Nat
             /\ Len(t[n]) = o + Len(cs[n]) /\ Len(t[n - 1]) <= Len(t[n])
             /\ \A j \in 1..Len(t[n - 1]) : t[n][j] = t[n - 1][j]
             /\ \A j \in 1..Len(cs[n]) : t[n][o + j] = cs[n][j]
             /\ n # 1 => t[n][Len(t[n - 1]) + 1] = SlashCharacter
<1>1. PICK x, y, z, o : /\ x = Http!PrefixTexts(cs)[n - 1] /\ y = cs[n] /\ z = Http!PrefixTexts(cs)[n]
                        /\ o = Offset(cs, n)
  OBVIOUS
<1>2. /\ z \in Strings /\ x \in Strings /\ y \in Strings
      /\ n = 1 => x = <<>>
      /\ z = IF n = 1 THEN y ELSE (x \o Http!Slash) \o y
  <2>1. Len(cs) \in Nat /\ n \in 0..Len(cs) /\ n - 1 \in 0..Len(cs) /\ cs[n] \in Strings /\ (n = 1 => n - 1 = 0)
    BY PathComponents
  <2> QED BY <1>1, <2>1, TextSteps
<1>3. PICK l \in Nat, m \in Nat, p \in Nat : l = Len(x) /\ m = Len(y) /\ p = Len(z)
  BY <1>2, LenProperties DEF Strings
<1>4. o = IF n = 1 THEN 0 ELSE l + 1
  BY <1>1, <1>3 DEF Offset
<1>5. /\ o \in Nat /\ p = o + m /\ l <= p
      /\ \A j \in 1..l : z[j] = x[j]
      /\ \A j \in 1..m : z[o + j] = y[j]
      /\ n # 1 => z[l + 1] = SlashCharacter
  <2>1. CASE n = 1
    <3>1. o = 0 /\ z = y /\ x = <<>>
      BY <1>2, <1>4, <2>1
    <3>2. l = 0 /\ p = m
      BY <1>3, <3>1, EmptySeq
    <3>3. \A j \in 1..m : o + j = j
      BY <3>1
    <3> QED BY <2>1, <3>1, <3>2, <3>3
  <2>2. CASE n # 1
    <3>1. o = l + 1 /\ z = (x \o Http!Slash) \o y
      BY <1>2, <1>4, <2>2
    <3>2. /\ p = (l + 1) + m /\ z[l + 1] = SlashCharacter
          /\ \A j \in 1..l : z[j] = x[j]
          /\ \A j \in 1..m : z[(l + 1) + j] = y[j]
      <4>1. /\ Len(z) = (Len(x) + 1) + Len(y) /\ z[Len(x) + 1] = SlashCharacter
            /\ \A j \in 1..Len(x) : z[j] = x[j]
            /\ \A j \in 1..Len(y) : z[(Len(x) + 1) + j] = y[j]
        <5>1. x \in Strings /\ y \in Strings
          BY <1>2
        <5>2. z = (x \o Http!Slash) \o y
          BY <3>1
        <5> QED BY <5>1, <5>2, Joined
      <4> QED BY <1>3, <4>1
    <3>3. o \in Nat /\ p = o + m /\ l <= p
      BY <3>1, <3>2
    <3>4. \A j \in 1..m : z[o + j] = y[j]
      BY <3>1, <3>2
    <3> QED BY <3>2, <3>3, <3>4
  <2> QED BY <2>1, <2>2
<1> QED BY <1>1, <1>2, <1>3, <1>5

\* The text begins with the text of its first components.
LEMMA TextGrows ==
  ASSUME NEW cs, Path(cs), NEW m \in 0..Len(cs)
  PROVE  LET x == Http!PrefixTexts(cs)[m]
             z == Http!Text(cs)
         IN  /\ Len(x) \in Nat /\ Len(z) \in Nat /\ Len(x) <= Len(z) /\ z \in Strings
             /\ \A j \in 1..Len(x) : z[j] = x[j]
<1> DEFINE N == Len(cs)
           t == Http!PrefixTexts(cs)
           T == {d \in Nat : m + d <= N => /\ Len(t[m]) <= Len(t[m + d])
                                          /\ \A j \in 1..Len(t[m]) : t[m + d][j] = t[m][j]}
<1>1. N \in Nat /\ m \in Nat /\ m <= N
  BY PathComponents
<1>2. \A n \in 0..N : t[n] \in Strings
  BY TextSteps
<1>3. \A n \in 0..N : Len(t[n]) \in Nat
  BY <1>2, LenProperties DEF Strings
<1>4. \A n \in 1..N : Len(t[n - 1]) <= Len(t[n]) /\ \A j \in 1..Len(t[n - 1]) : t[n][j] = t[n - 1][j]
  BY TextLayout
<1>5. Http!Text(cs) = t[N]
  BY DEF Http!Text
<1> HIDE DEF t, N
<1>6. 0 \in T
  <2>1. m + 0 = m /\ Len(t[m]) \in Nat
    BY <1>1, <1>3
  <2> QED BY <2>1
<1>7. ASSUME NEW d \in Nat, d \in T PROVE d + 1 \in T
  <2> SUFFICES ASSUME m + (d + 1) <= N
               PROVE  /\ Len(t[m]) <= Len(t[m + (d + 1)])
                      /\ \A j \in 1..Len(t[m]) : t[m + (d + 1)][j] = t[m][j]
    OBVIOUS
  <2>1. PICK n : n = m + (d + 1)
    OBVIOUS
  <2>2. n \in 1..N /\ n - 1 = m + d /\ m + d <= N /\ n \in 0..N /\ m + d \in 0..N /\ m \in 0..N
    BY <1>1, <2>1
  <2>3. PICK x, y, z : x = t[m] /\ y = t[m + d] /\ z = t[n]
    OBVIOUS
  <2>4. Len(x) \in Nat /\ Len(y) \in Nat /\ Len(z) \in Nat
    BY <1>3, <2>2, <2>3
  <2>5. Len(x) <= Len(y) /\ \A j \in 1..Len(x) : y[j] = x[j]
    BY <1>7, <2>2, <2>3
  <2>6. Len(y) <= Len(z) /\ \A j \in 1..Len(y) : z[j] = y[j]
    <3>1. Len(t[n - 1]) <= Len(t[n]) /\ \A j \in 1..Len(t[n - 1]) : t[n][j] = t[n - 1][j]
      BY <1>4, <2>2
    <3>2. y = t[n - 1] /\ z = t[n]
      BY <2>2, <2>3
    <3> QED BY <3>1, <3>2
  <2>7. Len(x) <= Len(z) /\ \A j \in 1..Len(x) : z[j] = x[j]
    <3>1. \A j \in 1..Len(x) : j \in 1..Len(y)
      BY <2>4, <2>5
    <3> QED BY <2>4, <2>5, <2>6, <3>1
  <2> QED BY <2>1, <2>3, <2>7
<1> HIDE DEF T
<1>8. \A d \in Nat : d \in T
  BY <1>6, <1>7, SetInduction
<1>9. PICK d \in Nat : m + d = N
  <2>1. N - m \in Nat /\ m + (N - m) = N
    BY <1>1
  <2> QED BY <2>1
<1>10. Len(t[m]) <= Len(t[N]) /\ \A j \in 1..Len(t[m]) : t[N][j] = t[m][j]
  <2>1. d \in T
    BY <1>8
  <2>2. m + d <= N
    BY <1>1, <1>9
  <2>3. Len(t[m]) <= Len(t[m + d]) /\ \A j \in 1..Len(t[m]) : t[m + d][j] = t[m][j]
    BY <2>1, <2>2 DEF T
  <2>4. t[m + d] = t[N]
    BY <1>9
  <2> QED BY <2>3, <2>4, Zenon
<1>11. t[N] \in Strings /\ Len(t[N]) \in Nat /\ Len(t[m]) \in Nat
  <2>1. N \in 0..N /\ m \in 0..N
    BY <1>1
  <2> QED BY <1>2, <1>3, <2>1
<1> QED BY <1>5, <1>10, <1>11 DEF t

\* Where the components of a path lie in its text.
LEMMA ComponentAt ==
  ASSUME NEW cs, Path(cs), NEW n \in 1..Len(cs)
  PROVE  LET z == Http!Text(cs)
             o == Offset(cs, n)
             l == Len(cs[n])
         IN  /\ z \in Strings /\ o \in Nat /\ l \in Nat /\ Len(z) \in Nat
             /\ o + l <= Len(z)
             /\ \A j \in 1..l : z[o + j] = cs[n][j]
             /\ n = Len(cs) => Len(z) = o + l
             /\ n < Len(cs) => /\ (o + l) + 1 <= Len(z) /\ z[(o + l) + 1] = SlashCharacter
                               /\ Offset(cs, n + 1) = (o + l) + 1
<1>1. PICK x, z, c, o, l : /\ x = Http!PrefixTexts(cs)[n] /\ z = Http!Text(cs) /\ c = cs[n]
                           /\ o = Offset(cs, n) /\ l = Len(cs[n])
  OBVIOUS
<1>2. Len(cs) \in Nat /\ n \in 0..Len(cs)
  BY PathComponents
<1>3. /\ o \in Nat /\ l \in Nat /\ Len(x) = o + l
      /\ \A j \in 1..l : x[o + j] = c[j]
  BY <1>1, TextLayout
<1>4. /\ z \in Strings /\ Len(z) \in Nat /\ Len(x) <= Len(z)
      /\ \A j \in 1..Len(x) : z[j] = x[j]
  BY <1>1, <1>2, TextGrows
<1>5. \A j \in 1..l : z[o + j] = c[j]
  <2>1. \A j \in 1..l : o + j \in 1..Len(x)
    BY <1>3
  <2> QED BY <1>3, <1>4, <2>1
<1>6. n = Len(cs) => Len(z) = o + l
  <2>1. n = Len(cs) => z = x
    BY <1>1 DEF Http!Text
  <2> QED BY <1>3, <2>1
<1>7. n < Len(cs) => (o + l) + 1 <= Len(z) /\ z[(o + l) + 1] = SlashCharacter /\ Offset(cs, n + 1) = (o + l) + 1
  <2> SUFFICES ASSUME n < Len(cs)
               PROVE  (o + l) + 1 <= Len(z) /\ z[(o + l) + 1] = SlashCharacter /\ Offset(cs, n + 1) = (o + l) + 1
    OBVIOUS
  <2>1. PICK k : k = n + 1
    OBVIOUS
  <2>2. k \in 1..Len(cs) /\ k - 1 = n /\ k # 1 /\ k \in 0..Len(cs)
    BY <1>2, <2>1
  <2>3. Offset(cs, k) = (o + l) + 1
    BY <1>1, <1>3, <2>2 DEF Offset
  <2>4. PICK y : y = Http!PrefixTexts(cs)[k]
    OBVIOUS
  <2>5. Len(y) = Offset(cs, k) + Len(cs[k]) /\ Len(cs[k]) \in Nat /\ y[Len(x) + 1] = SlashCharacter
    <3>1. /\ Len(Http!PrefixTexts(cs)[k]) = Offset(cs, k) + Len(cs[k]) /\ Len(cs[k]) \in Nat
          /\ Http!PrefixTexts(cs)[k][Len(Http!PrefixTexts(cs)[k - 1]) + 1] = SlashCharacter
      BY <2>2, TextLayout
    <3> QED BY <1>1, <2>2, <2>4, <3>1
  <2>6. /\ Len(y) <= Len(z)
        /\ \A j \in 1..Len(y) : z[j] = y[j]
    BY <1>1, <2>2, <2>4, TextGrows
  <2>7. (o + l) + 1 \in 1..Len(y) /\ (o + l) + 1 <= Len(z)
    <3>1. PICK e \in Nat, f \in Nat : e = Len(cs[k]) /\ f = Len(z)
      BY <1>4, <2>5
    <3>2. Len(y) = ((o + l) + 1) + e /\ Len(y) <= f
      BY <2>3, <2>5, <2>6, <3>1
    <3>3. PICK h : h = Len(y)
      OBVIOUS
    <3>4. (o + l) + 1 \in 1..h /\ (o + l) + 1 <= f
      BY <1>3, <3>2, <3>3
    <3> QED BY <3>1, <3>3, <3>4
  <2>8. z[(o + l) + 1] = SlashCharacter
    BY <1>3, <2>5, <2>6, <2>7
  <2> QED BY <2>1, <2>3, <2>7, <2>8
<1>8. o + l <= Len(z)
  BY <1>3, <1>4
<1> QED BY <1>1, <1>3, <1>4, <1>5, <1>6, <1>7, <1>8

\* Equal texts.
LEMMA SameText ==
  ASSUME NEW x \in Strings, NEW y \in Strings, Len(x) = Len(y), \A j \in 1..Len(x) : x[j] = y[j]
  PROVE  x = y
<1>1. x \in [1..Len(x) -> Characters] /\ y \in [1..Len(y) -> Characters]
  BY LenProperties DEF Strings
<1> QED BY <1>1

\* A component of c lies in the text z, with a slash after it.
Lies(z, c, n) ==
    /\ (Offset(c, n) + Len(c[n])) + 1 <= Len(z)
    /\ z[(Offset(c, n) + Len(c[n])) + 1] = SlashCharacter
    /\ \A j \in 1..Len(c[n]) : z[Offset(c, n) + j] = c[n][j]

\* A component that lies where one of the path does is that component, and not
\* the last: their slashes are at the same place.
LEMMA SameComponent ==
  ASSUME NEW c, Path(c), NEW k, Path(k), NEW n \in 1..Len(c), n \in 1..Len(k),
         Offset(c, n) = Offset(k, n), Lies(Http!Text(k), c, n)
  PROVE  c[n] = k[n] /\ n < Len(k)
<1>1. PICK z, x, y, o, a, b : /\ z = Http!Text(k) /\ x = c[n] /\ y = k[n] /\ o = Offset(k, n)
                              /\ a = Len(c[n]) /\ b = Len(k[n])
  OBVIOUS
<1>2. /\ x \in Strings /\ y \in Strings /\ a = Len(x) /\ b = Len(y)
      /\ \A j \in 1..a : x[j] # SlashCharacter
      /\ \A j \in 1..b : y[j] # SlashCharacter
      /\ Len(k) \in Nat /\ Len(c) \in Nat
  BY <1>1, PathComponents
<1>3. a \in Nat /\ b \in Nat
  BY <1>2, LenProperties DEF Strings
<1>4. PICK m : m = Len(z)
  OBVIOUS
<1>5. /\ o \in Nat /\ m \in Nat
      /\ \A j \in 1..b : z[o + j] = y[j]
      /\ n = Len(k) => m = o + b
      /\ n < Len(k) => z[(o + b) + 1] = SlashCharacter
  <2>1. Path(k) /\ n \in 1..Len(k)
    OBVIOUS
  <2>2. /\ Offset(k, n) \in Nat /\ Len(Http!Text(k)) \in Nat
        /\ \A j \in 1..Len(k[n]) : Http!Text(k)[Offset(k, n) + j] = k[n][j]
        /\ n = Len(k) => Len(Http!Text(k)) = Offset(k, n) + Len(k[n])
        /\ n < Len(k) => Http!Text(k)[(Offset(k, n) + Len(k[n])) + 1] = SlashCharacter
    BY <2>1, ComponentAt
  <2> QED BY <1>1, <1>4, <2>2
<1>6. /\ (o + a) + 1 <= m /\ z[(o + a) + 1] = SlashCharacter
      /\ \A j \in 1..a : z[o + j] = x[j]
  BY <1>1, <1>4 DEF Lies
<1>7. n = Len(k) \/ n < Len(k)
  BY <1>2
<1>8. ~(a < b)
  <2> SUFFICES ASSUME a < b PROVE FALSE
    OBVIOUS
  <2>1. a + 1 \in 1..b /\ o + (a + 1) = (o + a) + 1
    BY <1>3, <1>5
  <2>2. z[o + (a + 1)] = y[a + 1] /\ y[a + 1] # SlashCharacter
    BY <1>2, <1>5, <2>1
  <2> QED BY <1>6, <2>1, <2>2
<1>9. ~(b < a)
  <2> SUFFICES ASSUME b < a PROVE FALSE
    OBVIOUS
  <2>1. b + 1 \in 1..a /\ o + (b + 1) = (o + b) + 1
    BY <1>3, <1>5
  <2>2. z[o + (b + 1)] = x[b + 1] /\ x[b + 1] # SlashCharacter
    BY <1>2, <1>6, <2>1
  <2>3. ~(n < Len(k))
    BY <1>5, <2>1, <2>2
  <2>4. m = o + b
    BY <1>5, <1>7, <2>3
  <2>5. (o + a) + 1 <= m
    BY <1>6
  <2> QED BY <1>3, <1>5, <2>4, <2>5
<1>10. a = b
  BY <1>3, <1>8, <1>9
<1>11. x = y
  <2>1. \A j \in 1..Len(x) : x[j] = y[j]
    BY <1>2, <1>5, <1>6, <1>10
  <2>2. Len(x) = Len(y)
    BY <1>2, <1>10
  <2> QED BY <1>2, <2>1, <2>2, SameText
<1>12. n < Len(k)
  <2> SUFFICES ASSUME n = Len(k) PROVE FALSE
    BY <1>7
  <2>1. m = o + b /\ (o + a) + 1 <= m
    BY <1>5, <1>6
  <2> QED BY <1>3, <1>5, <1>10, <2>1
<1> QED BY <1>1, <1>11, <1>12

\* The components of a path lie in every text that goes on from it with a slash.
LEMMA PrefixLies ==
  ASSUME NEW c, Path(c), NEW z \in Strings, Http!IsPrefix(Http!Text(c) \o Http!Slash, z), NEW n \in 1..Len(c)
  PROVE  Lies(z, c, n)
<1>1. PICK p, s : p = Http!Text(c) /\ s = Http!Slash
  OBVIOUS
<1>2. PICK q : q = p \o s
  OBVIOUS
<1>3. PICK o, a, l : o = Offset(c, n) /\ a = Len(c[n]) /\ l = Len(p)
  OBVIOUS
<1>4. /\ p \in Strings /\ o \in Nat /\ a \in Nat /\ l \in Nat
      /\ o + a <= l
      /\ \A j \in 1..a : p[o + j] = c[n][j]
      /\ n = Len(c) => l = o + a
      /\ n < Len(c) => (o + a) + 1 <= l /\ p[(o + a) + 1] = SlashCharacter
  BY SMTT(20), <1>1, <1>3, ComponentAt
<1>5. s \in Strings /\ Len(s) = 1 /\ s[1] = SlashCharacter
  BY <1>1, SlashText
<1>6. /\ q \in Strings /\ Len(q) = l + 1
      /\ \A j \in 1..l : q[j] = p[j]
      /\ q[l + 1] = SlashCharacter
  <2>1. /\ q \in Strings /\ Len(q) = Len(p) + Len(s)
        /\ \A j \in 1..Len(p) : q[j] = p[j]
        /\ \A j \in 1..Len(s) : q[Len(p) + j] = s[j]
    <3>1. p \in Strings /\ s \in Strings
      BY <1>4, <1>5
    <3> QED BY <1>2, <3>1, After
  <2>2. 1 \in 1..1
    OBVIOUS
  <2> QED BY <1>3, <1>5, <2>1, <2>2
<1>7. l + 1 <= Len(z) /\ Len(z) \in Nat /\ \A j \in 1..(l + 1) : z[j] = q[j]
  <2>1. Len(q) <= Len(z) /\ SubSeq(q, 1, Len(q)) = SubSeq(z, 1, Len(q))
    BY <1>1, <1>2 DEF Http!IsPrefix
  <2>2. Len(z) \in Nat
    BY LenProperties DEF Strings
  <2>3. PICK h \in Nat : h = l + 1
    BY <1>4
  <2>4. SubSeq(q, 1, h) = SubSeq(z, 1, h) /\ h = Len(q) /\ h <= Len(z)
    BY <1>6, <2>1, <2>3
  <2>5. ASSUME NEW j \in 1..h PROVE z[j] = q[j]
    <3>1. SubSeq(q, 1, h)[j] = q[j]
      BY <1>6, <2>4 DEF Strings
    <3>2. SubSeq(z, 1, h)[j] = z[j]
      BY <2>2, <2>4 DEF Strings
    <3> QED BY <2>4, <3>1, <3>2
  <2> QED BY <2>2, <2>3, <2>4, <2>5
<1>8. \A j \in 1..a : z[o + j] = c[n][j]
  <2>1. \A j \in 1..a : o + j \in 1..l /\ o + j \in 1..(l + 1)
    BY <1>4
  <2> QED BY <1>4, <1>6, <1>7, <2>1
<1>9. (o + a) + 1 \in 1..(l + 1)
  BY <1>4
<1>10. q[(o + a) + 1] = SlashCharacter
  <2>1. n \in 1..Len(c) /\ Len(c) \in Nat
    BY PathComponents
  <2>2. CASE n = Len(c)
    BY <1>4, <1>6, <2>2
  <2>3. CASE n < Len(c)
    <3>1. (o + a) + 1 \in 1..l
      BY <1>4, <2>3
    <3> QED BY <1>4, <1>6, <2>3, <3>1
  <2> QED BY <2>1, <2>2, <2>3
<1>11. z[(o + a) + 1] = SlashCharacter
  BY <1>7, <1>9, <1>10
<1>12. (o + a) + 1 <= Len(z)
  BY <1>4, <1>7
<1> QED BY <1>3, <1>8, <1>11, <1>12 DEF Lies

\* A text that begins with a path's text and a slash is the text of a longer
\* path with the same components: what lies below o/p/ is never o/px.
LEMMA PrefixIsBelow ==
  ASSUME NEW c, Path(c), NEW k, Path(k), Http!IsPrefix(Http!Text(c) \o Http!Slash, Http!Text(k))
  PROVE  Http!IsStrictPrefix(c, k)
<1> DEFINE T == {n \in Nat : n <= Len(c) =>
                    /\ n < Len(k) /\ \A i \in 1..n : c[i] = k[i]
                    /\ n < Len(c) => Offset(c, n + 1) = Offset(k, n + 1)}
<1>1. Len(c) \in Nat /\ Len(k) \in Nat /\ c \in Seq(Strings) /\ k \in Seq(Strings)
  BY PathComponents
<1>2. Http!Text(k) \in Strings
  <2>1. Len(k) \in 0..Len(k)
    BY <1>1
  <2> QED BY <2>1, TextGrows
<1>3. \A n \in 1..Len(c) : Lies(Http!Text(k), c, n)
  BY <1>2, PrefixLies
<1>4. 0 < Len(k)
  <2> SUFFICES ASSUME Len(k) = 0 PROVE FALSE
    BY <1>1
  <2>1. Http!Text(k) = <<>>
    BY TextSteps DEF Http!Text
  <2>2. Len(Http!Text(c) \o Http!Slash) <= 0
    BY <2>1 DEF Http!IsPrefix
  <2>3. PICK p, s : p = Http!Text(c) /\ s = Http!Slash
    OBVIOUS
  <2>4. p \in Strings /\ s \in Strings /\ Len(s) = 1
    <3>1. Len(c) \in 0..Len(c)
      BY <1>1
    <3>2. Http!Text(c) \in Strings
      BY <3>1, TextGrows
    <3> QED BY <2>3, <3>2, SlashText
  <2>5. Len(p \o s) = Len(p) + Len(s) /\ Len(p) \in Nat
    BY <2>4, After
  <2> QED BY <2>2, <2>3, <2>4, <2>5
<1>5. 0 \in T
  BY <1>4 DEF Offset
<1>6. ASSUME NEW n \in Nat, n \in T PROVE n + 1 \in T
  <2> SUFFICES ASSUME n + 1 <= Len(c)
               PROVE  /\ n + 1 < Len(k) /\ \A i \in 1..(n + 1) : c[i] = k[i]
                      /\ n + 1 < Len(c) => Offset(c, (n + 1) + 1) = Offset(k, (n + 1) + 1)
    OBVIOUS
  <2>1. PICK m : m = n + 1
    OBVIOUS
  <2>2. m \in 1..Len(c) /\ m \in 1..Len(k) /\ Offset(c, m) = Offset(k, m) /\ \A i \in 1..n : c[i] = k[i]
    BY <1>1, <1>6, <2>1
  <2>3. c[m] = k[m] /\ m < Len(k)
    <3>1. Lies(Http!Text(k), c, m)
      BY <1>3, <2>2
    <3> QED BY <2>2, <3>1, SameComponent
  <2>4. m < Len(c) => Offset(c, m + 1) = Offset(k, m + 1)
    <3> SUFFICES ASSUME m < Len(c) PROVE Offset(c, m + 1) = Offset(k, m + 1)
      OBVIOUS
    <3>1. Offset(c, m + 1) = (Offset(c, m) + Len(c[m])) + 1
      BY <2>2, ComponentAt
    <3>2. Offset(k, m + 1) = (Offset(k, m) + Len(k[m])) + 1
      BY <2>2, <2>3, ComponentAt
    <3> QED BY <2>2, <2>3, <3>1, <3>2
  <2>5. \A i \in 1..m : c[i] = k[i]
    <3>1. \A i \in 1..m : i \in 1..n \/ i = m
      BY <2>1
    <3> QED BY <2>2, <2>3, <3>1
  <2> QED BY <2>1, <2>3, <2>4, <2>5
<1> HIDE DEF T
<1>7. \A n \in Nat : n \in T
  BY <1>5, <1>6, SetInduction
<1>8. Len(c) < Len(k) /\ \A i \in 1..Len(c) : c[i] = k[i]
  <2>1. Len(c) \in T
    BY <1>1, <1>7
  <2> QED BY <1>1, <2>1 DEF T
<1>9. SubSeq(c, 1, Len(c)) = SubSeq(k, 1, Len(c))
  BY <1>1, <1>8
<1>10. Http!IsPrefix(c, k)
  BY <1>1, <1>8, <1>9 DEF Http!IsPrefix
<1> QED BY <1>1, <1>8, <1>10 DEF Http!IsStrictPrefix

-----------------------------------------------------------------------------
(* The HTTP boundary                                                       *)

Requests == [path : Http!Paths \cup {"healthz", "other"}, method : {"POST", "GET"}, bearer : BOOLEAN,
             framing : Framings \cup {NULL}, body : Bodies \cup {NULL}]

BoundaryTypeOK ==
    /\ env \in Envs /\ entry \in {"worker", "stub"} /\ req \in Requests
    /\ stage \in {"arrived", "reading", "streaming", "rpc", "done"}
    /\ total \in Nat /\ chunk \in Nat
    /\ stage = "streaming" => req.framing.chunks \in Seq(Nat)

\* The Worker's checks before it reads the body, passed.
Admitted ==
    /\ req.path \in Http!Paths
    /\ entry = "worker" =>
          /\ ~Http!InvalidPolicy
          /\ env.production => Http!Configured /\ ~env.open
          /\ ~env.open => env.token /\ req.bearer

\* The checks of the body, passed.
Accepted ==
    /\ req.body \in Bodies
    /\ Http!validateOperation(req.path, req.body,
           IF entry = "worker" THEN Http!PublicFields(req.path) ELSE Http!InternalFields(req.path), entry = "worker")
    /\ entry = "worker" => Http!authorizePublicOperation(req.path, req.body)

\* What has been checked by each stage still holds when the authority is called.
BoundaryInv ==
    /\ BoundaryTypeOK /\ total <= MaxBody
    /\ stage # "done" => called = NULL
    /\ stage \in {"reading", "streaming", "rpc"} \/ called # NULL => Admitted
    /\ stage = "rpc" \/ called # NULL => Accepted
    /\ called # NULL => called = Http!internalBody(req.path, req.body) /\ status \in {200, 500, 503}

\* A request arrives with nothing read.
LEMMA BoundaryInitInv == Http!BoundaryInit => BoundaryInv
<1> SUFFICES ASSUME Http!BoundaryInit PROVE BoundaryInv
  OBVIOUS
<1>1. req \in Requests
  BY DEF Http!BoundaryInit, Requests
<1>2. total \in Nat /\ chunk \in Nat /\ total <= MaxBody
  BY BoundaryAssumption DEF Http!BoundaryInit
<1> QED BY <1>1, <1>2 DEF Http!BoundaryInit, BoundaryInv, BoundaryTypeOK

\* A response before the RPC leaves the authority uncalled.
LEMMA RespondInv ==
  ASSUME BoundaryInv, stage # "done", NEW s, Http!Respond(s)
  PROVE  BoundaryInv'
BY DEF BoundaryInv, BoundaryTypeOK, Http!Respond

\* The Worker goes on to the body only with what Admitted says.
LEMMA AdmitInv == ASSUME BoundaryInv, Http!Admit PROVE BoundaryInv'
<1>1. stage = "arrived" /\ entry = "worker" /\ called = NULL
  BY DEF Http!Admit, BoundaryInv
<1>2. (\E s : Http!Respond(s)) \/ (Http!Goto("reading") /\ Admitted)
  <2>0. req.path \in Http!Paths => req.path # "healthz"
    BY DEF Http!Paths
  <2>1. CASE req.path \notin Http!Paths
    <3>1. Http!Respond(200) \/ Http!Respond(404)
      BY <2>1 DEF Http!Admit
    <3> QED BY <3>1
  <2>2. CASE req.path \in Http!Paths /\ req.method # "POST"
    <3>1. Http!Respond(405)
      BY <2>0, <2>2 DEF Http!Admit
    <3> QED BY <3>1
  <2>3. CASE req.path \in Http!Paths /\ req.method = "POST"
    <3>1. IF Http!InvalidPolicy \/ (env.production /\ (~Http!Configured \/ env.open)) THEN Http!Respond(503)
          ELSE IF ~env.token /\ ~env.open THEN Http!Respond(503)
          ELSE IF ~env.open /\ ~Http!bearerMatches THEN Http!Respond(401)
          ELSE Http!Goto("reading")
      BY <2>0, <2>3 DEF Http!Admit
    <3> QED BY <2>3, <3>1 DEF Http!bearerMatches, Admitted
  <2> QED BY <2>1, <2>2, <2>3
<1>3. CASE \E s : Http!Respond(s)
  BY <1>1, <1>3, RespondInv
<1>4. CASE Http!Goto("reading") /\ Admitted
  <2>1. Admitted'
    BY <1>4 DEF Http!Goto, Admitted, Http!InvalidPolicy, Http!Configured
  <2> QED BY <1>1, <1>4, <2>1 DEF Http!Goto, BoundaryInv, BoundaryTypeOK
<1> QED BY <1>2, <1>3, <1>4

\* The object goes on only with one of its operations.
LEMMA AdmitStubInv == ASSUME BoundaryInv, Http!AdmitStub PROVE BoundaryInv'
<1>1. stage = "arrived" /\ entry = "stub" /\ called = NULL
  BY DEF Http!AdmitStub, BoundaryInv
<1>2. (\E s : Http!Respond(s)) \/ (Http!Goto("reading") /\ req.path \in Http!Paths)
  <2>1. Http!Respond(405) \/ Http!Respond(404) \/ (Http!Goto("reading") /\ req.path \in Http!Paths)
    BY DEF Http!AdmitStub
  <2> QED BY <2>1
<1>3. CASE \E s : Http!Respond(s)
  BY <1>1, <1>3, RespondInv
<1>4. CASE Http!Goto("reading") /\ req.path \in Http!Paths
  <2>1. Admitted'
    BY <1>1, <1>4 DEF Http!Goto, Admitted
  <2> QED BY <1>1, <1>4, <2>1 DEF Http!Goto, BoundaryInv, BoundaryTypeOK
<1> QED BY <1>2, <1>3, <1>4

\* What was checked about the request line stays true while framing and body are read.
LEMMA AdmittedKept ==
  ASSUME Admitted, UNCHANGED <<env, entry>>, req'.path = req.path, req'.bearer = req.bearer
  PROVE  Admitted'
BY DEF Admitted, Http!InvalidPolicy, Http!Configured

\* The stream is opened only when there is one.
LEMMA CheckLengthInv == ASSUME BoundaryInv, Http!CheckLength PROVE BoundaryInv'
<1>1. PICK f \in Framings :
        /\ req' = [req EXCEPT !.framing = f]
        /\ \/ stage' = "done"
           \/ stage' = "streaming" /\ f.chunks # NULL
  BY DEF Http!CheckLength
<1>2. stage = "reading" /\ UNCHANGED <<env, entry, total, chunk, called>>
  BY DEF Http!CheckLength
<1>3. called = NULL /\ Admitted
  BY <1>2 DEF BoundaryInv
<1>4. req \in Requests
  BY DEF BoundaryInv, BoundaryTypeOK
<1>5. req' \in Requests /\ req'.path = req.path /\ req'.bearer = req.bearer /\ req'.framing = f
  BY <1>1, <1>4 DEF Requests
<1>6. Admitted'
  BY <1>2, <1>3, <1>5, AdmittedKept
<1>7. stage' = "streaming" => f.chunks \in Seq(Nat)
  BY <1>1, BoundaryAssumption
<1>8. BoundaryTypeOK'
  BY <1>1, <1>2, <1>5, <1>7 DEF BoundaryInv, BoundaryTypeOK
<1> QED BY <1>1, <1>2, <1>3, <1>6, <1>8 DEF BoundaryInv

\* A chunk is kept only while the sum stays in the limit.
LEMMA ReadChunkInv == ASSUME BoundaryInv, Http!ReadChunk PROVE BoundaryInv'
<1>1. stage = "streaming" /\ chunk < Len(req.framing.chunks)
  BY DEF Http!ReadChunk
<1>2. PICK d : d = req.framing.chunks
  OBVIOUS
<1>3. d \in Seq(Nat) /\ chunk \in Nat /\ total \in Nat
  BY <1>1, <1>2 DEF BoundaryInv, BoundaryTypeOK
<1>4. PICK n : n = d[chunk + 1]
  OBVIOUS
<1>5. n \in Nat
  <2>1. chunk + 1 \in 1..Len(d)
    BY <1>1, <1>2, <1>3
  <2> QED BY <1>3, <1>4, <2>1, ElementOfSeq
<1>6. CASE Http!Respond(413)
  BY <1>1, <1>6, RespondInv
<1>7. CASE ~(total + n > MaxBody) /\ chunk' = chunk + 1 /\ total' = total + n
           /\ UNCHANGED <<env, entry, req, stage, status, called>>
  <2>1. total' \in Nat /\ total' <= MaxBody /\ chunk' \in Nat
    BY <1>3, <1>5, <1>7, BoundaryAssumption
  <2>2. called = NULL /\ Admitted
    BY <1>1 DEF BoundaryInv
  <2>3. Admitted'
    BY <1>7, <2>2, AdmittedKept
  <2> QED BY <1>1, <1>7, <2>1, <2>2, <2>3 DEF BoundaryInv, BoundaryTypeOK
<1> QED BY <1>2, <1>4, <1>6, <1>7 DEF Http!ReadChunk

\* The RPC is reached only with a body that passed validation and, from the
\* Worker, authorization.
LEMMA DecideInv == ASSUME BoundaryInv, Http!Decide PROVE BoundaryInv'
<1> DEFINE Fields == IF entry = "worker" THEN Http!PublicFields(req.path) ELSE Http!InternalFields(req.path)
           Passed(b) == /\ b # NULL /\ Http!validateOperation(req.path, b, Fields, entry = "worker")
                        /\ entry = "worker" => Http!authorizePublicOperation(req.path, b)
<1>1. PICK b \in Bodies \cup {NULL} :
        /\ req' = [req EXCEPT !.body = b]
        /\ stage' = "done" \/ (stage' = "rpc" /\ Passed(b))
  BY DEF Http!Decide
<1>2. stage = "streaming" /\ UNCHANGED <<env, entry, total, chunk, called>>
  BY DEF Http!Decide
<1>3. called = NULL /\ Admitted
  BY <1>2 DEF BoundaryInv
<1>4. req \in Requests
  BY DEF BoundaryInv, BoundaryTypeOK
<1>5. req' \in Requests /\ req'.path = req.path /\ req'.bearer = req.bearer /\ req'.body = b
  BY <1>1, <1>4 DEF Requests
<1>6. Admitted'
  BY <1>2, <1>3, <1>5, AdmittedKept
<1>7. stage' = "rpc" => Accepted'
  <2> SUFFICES ASSUME stage' = "rpc" PROVE Accepted'
    OBVIOUS
  <2>1. Passed(b) /\ b \in Bodies
    BY <1>1
  <2>2. PICK p, e : p = req.path /\ e = entry
    OBVIOUS
  <2>3. req'.path = p /\ entry' = e /\ req'.body = b /\ env' = env
    BY <1>2, <1>5, <2>2
  <2>4. Http!authorizePublicOperation(p, b)' <=> Http!authorizePublicOperation(p, b)
    BY <2>3 DEF Http!authorizePublicOperation, Http!Configured
  <2>5. entry' = "worker" => Http!authorizePublicOperation(p, b)'
    BY <2>1, <2>2, <2>3, <2>4
  <2>6. Http!validateOperation(p, b, IF e = "worker" THEN Http!PublicFields(p) ELSE Http!InternalFields(p), e = "worker")
    BY <2>1, <2>2
  <2> QED BY <2>1, <2>3, <2>5, <2>6 DEF Accepted, Http!authorizePublicOperation, Http!Configured
<1>8. BoundaryTypeOK'
  BY <1>1, <1>2, <1>5 DEF BoundaryInv, BoundaryTypeOK
<1> QED BY <1>1, <1>2, <1>3, <1>6, <1>7, <1>8 DEF BoundaryInv

\* The authority is called with the checked body, or not at all.
LEMMA CallInv ==
  ASSUME BoundaryInv, stage = "rpc", stage' = "done", UNCHANGED <<env, entry, req, total, chunk>>,
         called' = NULL \/ (called' = Http!internalBody(req.path, req.body) /\ status' \in {200, 500, 503})
  PROVE  BoundaryInv'
<1>1. Admitted /\ Accepted
  BY DEF BoundaryInv
<1>2. Admitted'
  BY <1>1, AdmittedKept
<1>3. Accepted'
  BY <1>1 DEF Accepted, Http!authorizePublicOperation, Http!Configured
<1>5. Http!internalBody(req.path, req.body)' = Http!internalBody(req.path, req.body)
  BY DEF Http!internalBody
<1>6. BoundaryTypeOK' /\ total' <= MaxBody
  BY DEF BoundaryInv, BoundaryTypeOK
<1> QED BY <1>2, <1>3, <1>5, <1>6 DEF BoundaryInv

\* Every step of either handler keeps the invariant.
LEMMA BoundaryNextInv == BoundaryInv /\ [Http!BoundaryNext]_(Http!vars) => BoundaryInv'
<1> SUFFICES ASSUME BoundaryInv, [Http!BoundaryNext]_(Http!vars) PROVE BoundaryInv'
  OBVIOUS
<1>1. CASE Http!Admit
  BY <1>1, AdmitInv
<1>2. CASE Http!AdmitStub
  BY <1>2, AdmitStubInv
<1>3. CASE Http!CheckLength
  BY <1>3, CheckLengthInv
<1>4. CASE Http!ReadChunk
  BY <1>4, ReadChunkInv
<1>5. CASE Http!ReadFails \/ Http!StubFails
  BY <1>5, RespondInv DEF Http!ReadFails, Http!StubFails
<1>6. CASE Http!Decide
  BY <1>6, DecideInv
<1>7. CASE Http!Invoke
  <2>1. called = NULL
    BY <1>7 DEF Http!Invoke, BoundaryInv
  <2>2. /\ stage = "rpc" /\ stage' = "done" /\ UNCHANGED <<env, entry, req, total, chunk>>
        /\ called' = NULL \/ (called' = Http!internalBody(req.path, req.body) /\ status' \in {200, 500, 503})
    BY <1>7, <2>1 DEF Http!Invoke
  <2> QED BY <2>2, CallInv
<1>8. CASE Http!InvokeFails
  <2>1. /\ stage = "rpc" /\ stage' = "done" /\ UNCHANGED <<env, entry, req, total, chunk>>
        /\ called' = NULL \/ (called' = Http!internalBody(req.path, req.body) /\ status' \in {200, 500, 503})
    BY <1>8 DEF Http!InvokeFails
  <2> QED BY <2>1, CallInv
<1>9. CASE UNCHANGED Http!vars
  <2>1. UNCHANGED <<env, entry, req, stage, total, chunk, status, called>>
    BY <1>9 DEF Http!vars
  <2>2. BoundaryTypeOK' /\ total' <= MaxBody
    BY <2>1 DEF BoundaryInv, BoundaryTypeOK
  <2>3. Admitted => Admitted'
    BY <2>1, AdmittedKept
  <2>4. Accepted => Accepted'
    BY <2>1 DEF Accepted, Http!authorizePublicOperation, Http!Configured
  <2>5. Http!internalBody(req.path, req.body)' = Http!internalBody(req.path, req.body)
    BY <2>1 DEF Http!internalBody
  <2> QED BY <2>1, <2>2, <2>3, <2>4, <2>5 DEF BoundaryInv
<1> QED BY <1>1, <1>2, <1>3, <1>4, <1>5, <1>6, <1>7, <1>8, <1>9 DEF Http!BoundaryNext

\* A body the Worker authorized has a key in the tree of a policy prefix.
LEMMA AuthorizedBelow ==
  ASSUME BoundaryInv, Admitted, Accepted, entry = "worker", Http!Configured
  PROVE  \E p \in env.raw.prefixes : Http!Below(req.body.key, p)
<1>1. PICK b : b = req.body
  OBVIOUS
<1>2. b \in Bodies /\ "key" \in DOMAIN b /\ b["key"] # NULL
  BY <1>1 DEF Accepted, Http!validateOperation
<1>3. PICK k : k = b["key"]
  OBVIOUS
<1>4. Path(k)
  BY <1>2, <1>3, BoundaryAssumption
<1>5. PICK p \in env.raw.prefixes : Http!IsPrefix(Http!PrefixText(p), Http!Text(k))
  BY <1>1, <1>3 DEF Accepted, Http!authorizePublicOperation
<1>6. PICK c : c = p.components
  OBVIOUS
<1>7. Path(c)
  BY <1>5, <1>6, BoundaryAssumption DEF BoundaryInv, BoundaryTypeOK, Http!Configured
<1>8. p.slash
  BY <1>5 DEF Admitted, Http!InvalidPolicy, Http!validScopePrefix
<1>9. Http!PrefixText(p) = Http!Text(c) \o Http!Slash
  BY <1>6, <1>8 DEF Http!PrefixText
<1>10. Http!IsPrefix(Http!Text(c) \o Http!Slash, Http!Text(k))
  BY <1>5, <1>9
<1>11. Http!IsStrictPrefix(c, k)
  BY <1>4, <1>7, <1>10, PrefixIsBelow
<1>12. req.body.key = k
  BY <1>1, <1>3
<1> QED BY <1>5, <1>6, <1>11, <1>12 DEF Http!Below

\* What reaches the authority was admitted, whatever the order of the checks.
LEMMA ReachAdmitted == BoundaryInv => Http!OnlyAdmittedReach
<1> SUFFICES ASSUME BoundaryInv, called # NULL, entry = "worker"
             PROVE  /\ env.open => ~env.production
                    /\ ~env.open => (env.token /\ req.bearer)
                    /\ env.production => Http!Configured
                    /\ Http!Configured =>
                          /\ req.path \in env.raw.operations
                          /\ \E p \in env.raw.prefixes : Http!Below(req.body.key, p)
                          /\ req.path # "release" => req.body.ttl_ms <= env.raw.maxTtl
  BY DEF Http!OnlyAdmittedReach
<1>1. Admitted /\ Accepted
  BY DEF BoundaryInv
<1>2. Http!Configured => /\ req.path \in env.raw.operations
                         /\ req.path # "release" => req.body.ttl_ms <= env.raw.maxTtl
  BY <1>1 DEF Accepted, Http!authorizePublicOperation
<1>3. Http!Configured => \E p \in env.raw.prefixes : Http!Below(req.body.key, p)
  BY <1>1, AuthorizedBelow
<1> QED BY <1>1, <1>2, <1>3 DEF Admitted

\* The object's own validation accepts what the Worker passes on.
LEMMA InternalBodyValid ==
  ASSUME NEW path \in Http!Paths, NEW b, NEW fields, NEW public,
         fields = Http!PublicFields(path) \/ fields = Http!InternalFields(path),
         Http!validateOperation(path, b, fields, public)
  PROVE  LET c == Http!internalBody(path, b) IN
         /\ Http!validateOperation(path, c, Http!InternalFields(path), FALSE)
         /\ "fencing_token" \in DOMAIN c => c["fencing_token"] = "text"
<1>1. PICK c : c = Http!internalBody(path, b)
  OBVIOUS
<1>2. /\ DOMAIN c = DOMAIN b \ {"key"}
      /\ \A f \in DOMAIN c : c[f] = IF f = "fencing_token" THEN Http!canonicalToken(b[f]) ELSE b[f]
  BY <1>1 DEF Http!internalBody
<1>3. DOMAIN b \subseteq Http!PublicFields(path)
  BY DEF Http!validateOperation, Http!InternalFields
<1>4. DOMAIN c \subseteq Http!InternalFields(path)
  BY <1>2, <1>3 DEF Http!InternalFields
<1>5. Http!Has(c, "holder", {"good"})
  BY <1>2 DEF Http!validateOperation, Http!Has
<1>6. (path = "acquire" /\ "request_id" \in DOMAIN c) => c["request_id"] \in {"good", NULL}
  BY <1>2 DEF Http!validateOperation
<1>7. path # "release" => Http!Has(c, "ttl_ms", 1..BoundaryTtl)
  BY <1>2 DEF Http!validateOperation, Http!Has
<1>8. path = "acquire" => "fencing_token" \notin DOMAIN c
  BY <1>2, <1>3 DEF Http!PublicFields
<1>9. path # "acquire" => "fencing_token" \in DOMAIN c /\ c["fencing_token"] = "text"
  <2> SUFFICES ASSUME path # "acquire" PROVE "fencing_token" \in DOMAIN c /\ c["fencing_token"] = "text"
    OBVIOUS
  <2>1. "fencing_token" \in DOMAIN b /\ Http!canonicalToken(b["fencing_token"]) # NULL
    BY DEF Http!validateOperation
  <2>2. "fencing_token" \in DOMAIN c /\ c["fencing_token"] = Http!canonicalToken(b["fencing_token"])
    BY <1>2, <2>1
  <2>3. Http!canonicalToken(b["fencing_token"]) = "text"
    BY <2>1 DEF Http!canonicalToken
  <2> QED BY <2>2, <2>3
<1>10. Http!canonicalToken("text") # NULL
  BY BoundaryAssumption DEF Http!canonicalToken
<1>11. Http!validateOperation(path, c, Http!InternalFields(path), FALSE)
  BY <1>4, <1>5, <1>6, <1>7, <1>9, <1>10 DEF Http!validateOperation
<1> QED BY <1>1, <1>8, <1>9, <1>11

\* What the Worker passes on is what the object accepts.
LEMMA CalledValid == BoundaryInv => Http!BoundariesAgree
<1> SUFFICES ASSUME BoundaryInv, called # NULL
             PROVE  /\ Http!validateOperation(req.path, called, Http!InternalFields(req.path), FALSE)
                    /\ "fencing_token" \in DOMAIN called => called["fencing_token"] = "text"
  BY DEF Http!BoundariesAgree
<1>1. Admitted /\ Accepted /\ called = Http!internalBody(req.path, req.body)
  BY DEF BoundaryInv
<1>2. PICK path, b, fields, public :
        /\ path = req.path /\ b = req.body /\ public = (entry = "worker")
        /\ fields = IF entry = "worker" THEN Http!PublicFields(req.path) ELSE Http!InternalFields(req.path)
  OBVIOUS
<1>3. /\ path \in Http!Paths
      /\ fields = Http!PublicFields(path) \/ fields = Http!InternalFields(path)
      /\ Http!validateOperation(path, b, fields, public)
  BY <1>1, <1>2 DEF Admitted, Accepted
<1>4. called = Http!internalBody(path, b)
  BY <1>1, <1>2
<1>5. /\ Http!validateOperation(path, called, Http!InternalFields(path), FALSE)
      /\ "fencing_token" \in DOMAIN called => called["fencing_token"] = "text"
  BY <1>3, <1>4, InternalBodyValid
<1> QED BY <1>2, <1>5

\* Whatever the configuration, the requests, their framing and their chunks:
\* nothing reaches the authority that index.js did not admit and authorize, in
\* the form the object's own validation accepts, from a component-wise tree of
\* the policy; the body kept never exceeds MAX_BODY_BYTES; and a 4xx means the
\* authority was not called.
THEOREM BoundaryIsSound == Http!BoundarySpec => []BoundarySound
<1>1. BoundaryInv => BoundarySound
  <2> SUFFICES ASSUME BoundaryInv PROVE BoundarySound
    OBVIOUS
  <2>1. Http!OnlyAdmittedReach /\ Http!BoundariesAgree
    BY ReachAdmitted, CalledValid
  <2>2. Http!BufferBounded
    BY DEF BoundaryInv, Http!BufferBounded
  <2>3. Http!RefusalsAreDefinite
    BY DEF BoundaryInv, Http!RefusalsAreDefinite
  <2> QED BY <2>1, <2>2, <2>3 DEF BoundarySound, Http!BoundarySound
<1> QED BY <1>1, BoundaryInitInv, BoundaryNextInv, PTL DEF Http!BoundarySpec
=============================================================================
