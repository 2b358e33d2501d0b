------------------------- MODULE ManagedLease_proofs ------------------------
(***************************************************************************)
(* Clients of the Durable Object authority, for any number of clients,     *)
(* acquisitions, tokens and orphaned requests.                             *)
(*                                                                         *)
(* The argument rests on who a token was minted for.  A minter maps every  *)
(* token to the holder and the request id it was granted to; no variable   *)
(* of the model keeps it, so the inductive invariant says that one exists. *)
(* A release, however late it arrives, names a token whose acquisition its *)
(* caller has already given up (Retired), and so never ends a lease that   *)
(* somebody works under; a renewal only prolongs; the alarm and a new      *)
(* grant need an expired row.                                              *)
(***************************************************************************)
EXTENDS ManagedLease, TLAPS

Minters == [Tokens -> [holder : Clients \cup {NULL}, request : 0..MaxRequest]]

Owner(c, r) == [holder |-> c, request |-> r]

\* The row: its request is named, it ends within one TTL, every grant is counted.
RowOK ==
    /\ ActiveLeaseIsNewest
    /\ holder # NULL => request_id \in 1..MaxRequest /\ expires_ms <= now + Ttl
    /\ mints = next_token

\* Where a client is says what it awaits, and whether it has a grant.
Awaits(c) ==
    /\ request[c].holder = c /\ response[c] = NULL
    /\ pc[c] \in {"acquire", "replay", "renew", "release"}
    /\ pc[c] = "acquire" => request[c].op = "acquire" /\ request[c].request = rid[c]
    /\ pc[c] \in {"replay", "renew"} => request[c].op = "renew" /\ request[c].token = grant[c].token
    /\ pc[c] = "release" => request[c].op = "release" /\ request[c].token = grant[c].token

Received(c) ==
    /\ pc[c] \in {"acquire", "replay", "renew", "release"}
    /\ pc[c] = "acquire" =>
        \/ response[c].kind \in {"refused", "exhausted"}
        \/ response[c].kind \in {"granted", "replayed"} /\ response[c].grant \in Grants
    /\ pc[c] \in {"replay", "renew"} =>
        \/ response[c].kind = "refused"
        \/ /\ response[c].kind = "renewed"
           /\ response[c].grant.token = grant[c].token /\ response[c].grant.expires \in Nat
    /\ pc[c] = "release" => response[c].kind \in {"released", "refused"}

StageOK(c) ==
    /\ grant[c] # NULL <=> pc[c] \in {"replay", "held", "renew", "lost", "release"}
    /\ pc[c] \in {"acquire", "sleep"} => rid[c] \in 1..MaxRequest
    /\ request[c] # NULL => Awaits(c)
    /\ response[c] # NULL => Received(c)

\* The answer to an acquire brings a grant; an answer brings an expiry.
Offered(c) == response[c] # NULL /\ response[c].kind \in {"granted", "replayed"}
Dated(c) == response[c] # NULL /\ response[c].kind \in {"granted", "replayed", "renewed"}

\* Token t, with ordinal n, was minted for c's current acquisition.
Carries(f, c, t, n) == t <= next_token /\ n = t /\ f[t] = Owner(c, rid[c])

\* A client's grant, and the one on its way to it, are its own.
MintedFor(f, c) ==
    /\ grant[c] # NULL => Carries(f, c, grant[c].token, grant[c].nth)
    /\ Offered(c) => Carries(f, c, response[c].grant.token, response[c].grant.nth)

\* An unexpired grant, in use or on its way, is the authority's.
Backed(c, t, e) == e <= now + Ttl /\ (e > now => holder = c /\ token = t /\ expires_ms >= e)

BelievedBy(c) ==
    /\ pc[c] \in {"replay", "held", "renew", "lost"} => Backed(c, grant[c].token, grant[c].expires)
    /\ Dated(c) => Backed(c, response[c].grant.token, response[c].grant.expires)

\* What was granted or renewed during an acquire is good for a TTL from its start.
FreshFor(c) ==
    /\ pc[c] \in {"acquire", "replay", "sleep"} => started[c] <= now
    /\ pc[c] \in {"acquire", "replay"} /\ Dated(c) /\ response[c].kind # "replayed" =>
          response[c].grant.expires >= started[c] + Ttl

ClientOK(f, c) == StageOK(c) /\ MintedFor(f, c) /\ BelievedBy(c) /\ FreshFor(c)

\* The caller has given up the acquisition that token t was minted for.
Retired(f, h, t) ==
    /\ f[t].holder = h
    /\ f[t].request < rid[h] \/ (f[t].request = rid[h] /\ pc[h] \in {"release", "idle"})

\* An orphaned release names a token its caller has given up.
OrphanOK(f, b) ==
    /\ b.op = "acquire" => b.request \in 1..MaxRequest
    /\ b.op = "release" => b.token \in Tokens /\ b.token <= next_token /\ Retired(f, b.holder, b.token)

RowMinted(f) == token # NULL => f[token] = Owner(holder, request_id)

\* Overlapping calls know of each other; of two only the one with the larger
\* token can still be told that its release matched.
Exposed(c) == pc[c] \in {"held", "renew", "lost", "release"}

Released(c) == Answered(c, "release", "released")

Rivalry ==
    /\ \A c, d \in Clients : d \in rivals[c] =>
        /\ c # d /\ Exposed(c) /\ Exposed(d) /\ c \in rivals[d]
        /\ Released(c) => grant[d].token < grant[c].token
    /\ \A c \in beaten : Exposed(c) /\ grant[c].token < next_token /\ ~Released(c)

\* A fenced write carries the ordinal of its grant, which is its token.
Written ==
    /\ \A w \in writes : w.nth = w.write.fencingToken /\ w.nth <= mints
    /\ watermark = NULL => accepted = 0
    /\ watermark # NULL => accepted = watermark.fencingToken

Core(f) ==
    /\ TypeOK /\ RowOK /\ RowMinted(f)
    /\ \A c \in Clients : ClientOK(f, c)
    /\ \A b \in orphans : OrphanOK(f, b)
    /\ Rivalry /\ Written

IInv == \E f \in Minters : Core(f)

-----------------------------------------------------------------------------
(* What the authority does with a request, and what it answers.            *)

RowKept == UNCHANGED <<holder, token, expires_ms, request_id, next_token, mints>>
RowLapsed == ~Live /\ clearLease /\ UNCHANGED <<next_token, mints>>

RowGranted(b) ==
    /\ ~Live /\ next_token < MaxMinted
    /\ holder' = b.holder /\ token' = next_token + 1 /\ expires_ms' = now + Ttl /\ request_id' = b.request
    /\ next_token' = next_token + 1 /\ mints' = mints + 1

RowRenewed(b) ==
    /\ Owns(b.holder, b.token)
    /\ expires_ms' = now + Ttl
    /\ UNCHANGED <<holder, token, request_id, next_token, mints>>

RowReleased(b) ==
    /\ Live /\ holder = b.holder /\ token = b.token
    /\ clearLease
    /\ UNCHANGED <<next_token, mints>>

AcquireEffect(b) ==
    \/ /\ RowGranted(b)
       /\ Answer(b) = Reply("granted", [token |-> next_token + 1, expires |-> now + Ttl, nth |-> mints + 1])
    \/ /\ RowKept /\ Live /\ holder = b.holder /\ request_id = b.request
       /\ Answer(b) = Reply("replayed", [token |-> token, expires |-> expires_ms, nth |-> mints])
    \/ RowKept /\ Answer(b) \in {Reply("refused", NoGrant), Reply("exhausted", NoGrant)}

RenewEffect(b) ==
    \/ /\ RowRenewed(b)
       /\ Answer(b) = Reply("renewed", [token |-> b.token, expires |-> now + Ttl, nth |-> NULL])
    \/ (RowKept \/ RowLapsed) /\ Answer(b) = Reply("refused", NoGrant)

ReleaseEffect(b) ==
    \/ RowReleased(b) /\ Answer(b) = Reply("released", NoGrant)
    \/ (RowKept \/ RowLapsed) /\ Answer(b) = Reply("refused", NoGrant)

\* acquire grants over an expired row, replays a live one to its own request,
\* and refuses otherwise.
LEMMA AcquireHandled ==
  ASSUME TypeOK, RowOK, NEW b \in Bodies, Handle(b), b.op = "acquire", b.request \in 1..MaxRequest
  PROVE  AcquireEffect(b) /\ now' = now /\ AuthorityTypeOK'
<1>0. AuthorityTypeOK /\ mints \in Nat
  BY DEF TypeOK
<1> USE <1>0, NumbersAssumption, HoldersAssumption, NullAssumption, TimingAssumption
    DEF Bodies, Clients, Tokens, RowOK, AuthorityTypeOK, ActiveLeaseIsNewest
<1>1. Acquire(b.holder, b.request, Ttl) /\ Answer(b) = AcquireAnswer(b) /\ now' = now /\ ValidTtl(Ttl)
  BY DEF Handle, Answer, Acquire, ValidTtl
<1>2. mints' = IF AcquireAnswer(b).kind = "granted" THEN mints + 1 ELSE mints
  BY <1>1 DEF Handle
<1>3. CASE AcquireRefused(b.holder, b.request)
  <2>1. Answer(b) = Reply("refused", NoGrant)
    BY <1>1, <1>3 DEF AcquireRefused, AcquireAnswer, Replays
  <2> QED BY <1>1, <1>2, <1>3, <2>1 DEF AcquireRefused, lease, AcquireEffect, RowKept, Reply
<1>4. CASE AcquireReplayed(b.holder, b.request)
  <2>1. Answer(b) = Reply("replayed", [token |-> token, expires |-> expires_ms, nth |-> mints])
    BY <1>1, <1>4 DEF AcquireReplayed, AcquireAnswer, Replays
  <2>2. Live /\ holder = b.holder /\ request_id = b.request /\ RowKept
    BY <1>1, <1>2, <1>4, <2>1 DEF AcquireReplayed, Replays, Live, RowKept, Reply
  <2> QED BY <1>1, <1>4, <2>1, <2>2 DEF AcquireEffect, AcquireReplayed, RowKept
<1>5. CASE AcquireExhausted
  <2>1. Answer(b) = Reply("exhausted", NoGrant)
    BY <1>1, <1>5 DEF AcquireExhausted, AcquireAnswer, Replays
  <2> QED BY <1>1, <1>2, <1>5, <2>1 DEF AcquireExhausted, lease, AcquireEffect, RowKept, Reply
<1>6. CASE AcquireGranted(b.holder, b.request, Ttl)
  <2>1. Answer(b) = Reply("granted", [token |-> next_token + 1, expires |-> now + Ttl, nth |-> mints + 1])
    BY <1>1, <1>6 DEF AcquireGranted, AcquireAnswer, Replays
  <2>2. RowGranted(b)
    BY <1>1, <1>2, <1>6, <2>1 DEF AcquireGranted, RowGranted, Reply
  <2>3. AuthorityTypeOK'
    <3>1. b.holder \in Holders /\ b.request \in RequestIds
      OBVIOUS
    <3>2. next_token + 1 \in 1..MaxMinted /\ now + Ttl \in Nat
      BY <1>6, <3>1 DEF AcquireGranted
    <3> QED BY <1>1, <1>6, <3>1, <3>2 DEF AcquireGranted
  <2> QED BY <1>1, <2>1, <2>2, <2>3 DEF AcquireEffect
<1> QED BY <1>1, <1>3, <1>4, <1>5, <1>6 DEF Acquire, AcquireRejected

\* renew prolongs the lease of exactly this holder and token, or clears an
\* expired row.
LEMMA RenewHandled ==
  ASSUME TypeOK, RowOK, NEW b \in Bodies, Handle(b), b.op = "renew"
  PROVE  RenewEffect(b) /\ now' = now /\ AuthorityTypeOK'
<1>0. AuthorityTypeOK /\ mints \in Nat
  BY DEF TypeOK
<1> USE <1>0, NumbersAssumption, HoldersAssumption, NullAssumption, TimingAssumption
    DEF Bodies, Clients, Tokens, RowOK, AuthorityTypeOK, ActiveLeaseIsNewest
<1>1. Renew(b.holder, b.token, Ttl) /\ Answer(b) = RenewAnswer(b) /\ now' = now /\ ValidTtl(Ttl) /\ mints' = mints
  BY DEF Handle, Answer, Renew, ValidTtl
<1>2. CASE Owns(b.holder, b.token)
  <2>1. RowRenewed(b) /\ AuthorityTypeOK'
    BY <1>1, <1>2 DEF Renew, RowRenewed, InHorizon
  <2>2. Answer(b) = Reply("renewed", [token |-> b.token, expires |-> now + Ttl, nth |-> NULL])
    BY <1>1, <1>2 DEF RenewAnswer
  <2> QED BY <1>1, <2>1, <2>2 DEF RenewEffect
<1>3. CASE ~Owns(b.holder, b.token)
  <2>1. (RowKept \/ RowLapsed) /\ AuthorityTypeOK'
    BY <1>1, <1>3 DEF Renew, lease, clearLease, RowKept, RowLapsed, Expired, Live
  <2>2. Answer(b) = Reply("refused", NoGrant)
    BY <1>1, <1>3 DEF RenewAnswer
  <2> QED BY <1>1, <2>1, <2>2 DEF RenewEffect
<1> QED BY <1>2, <1>3

\* release ends the live lease of exactly this holder and token, or clears an
\* expired row.
LEMMA ReleaseHandled ==
  ASSUME TypeOK, RowOK, NEW b \in Bodies, Handle(b), b.op = "release"
  PROVE  ReleaseEffect(b) /\ now' = now /\ AuthorityTypeOK'
<1>0. AuthorityTypeOK /\ mints \in Nat
  BY DEF TypeOK
<1> USE <1>0, NumbersAssumption, HoldersAssumption, NullAssumption, TimingAssumption
    DEF Bodies, Clients, Tokens, RowOK, AuthorityTypeOK, ActiveLeaseIsNewest
<1>1. Release(b.holder, b.token) /\ Answer(b) = ReleaseAnswer(b) /\ now' = now /\ mints' = mints
  BY DEF Handle, Answer, Release
<1>2. CASE ~Expired /\ holder = b.holder /\ token = b.token
  <2>1. RowReleased(b) /\ AuthorityTypeOK'
    BY <1>1, <1>2 DEF Release, RowReleased, clearLease, Expired, Live
  <2> QED BY <1>1, <1>2, <2>1 DEF ReleaseEffect, ReleaseAnswer
<1>3. CASE ~(~Expired /\ holder = b.holder /\ token = b.token)
  <2>1. (RowKept \/ RowLapsed) /\ AuthorityTypeOK'
    BY <1>1, <1>3 DEF Release, lease, clearLease, RowKept, RowLapsed, Expired, Live
  <2> QED BY <1>1, <1>3, <2>1 DEF ReleaseEffect, ReleaseAnswer
<1> QED BY <1>2, <1>3

-----------------------------------------------------------------------------
(* One request handled: what becomes of the row, of the beliefs about it   *)
(* and of the minter, and what the answer is worth.                        *)

BackedAfter(c, t, e) == e <= now' + Ttl /\ (e > now' => holder' = c /\ token' = t /\ expires_ms' >= e)

\* Every backed expiry stays backed, except the one a matching release ends.
BeliefsKept(b) ==
    \A c \in Clients, t \in Tokens, e \in Nat :
        Backed(c, t, e) =>
            \/ BackedAfter(c, t, e)
            \/ b.op = "release" /\ b.holder = c /\ b.token = t /\ holder = c /\ token = t

\* g is f with the token minted in this step, if any.
Extends(f, g) == (\A t \in Tokens : t <= next_token => g[t] = f[t]) /\ RowMinted(g)'

AnswerWorth(g, b) ==
    /\ Answer(b) \in Replies
    /\ b.op = "acquire" =>
        \/ Answer(b).kind \in {"refused", "exhausted"}
        \/ /\ Answer(b).kind \in {"granted", "replayed"} /\ Answer(b).grant \in Grants
           /\ Answer(b).grant.token <= next_token' /\ Answer(b).grant.nth = Answer(b).grant.token
           /\ g[Answer(b).grant.token] = Owner(b.holder, b.request)
           /\ BackedAfter(b.holder, Answer(b).grant.token, Answer(b).grant.expires)
           /\ Answer(b).kind = "granted" => Answer(b).grant.expires = now + Ttl
    /\ b.op = "renew" =>
        \/ Answer(b).kind = "refused"
        \/ /\ Answer(b).kind = "renewed"
           /\ Answer(b).grant.token = b.token /\ Answer(b).grant.expires = now + Ttl
           /\ BackedAfter(b.holder, b.token, now + Ttl)
    /\ b.op = "release" =>
        \/ Answer(b).kind = "refused"
        \/ Answer(b).kind = "released" /\ b.token = next_token

Handled(f, g, b) ==
    /\ AuthorityTypeOK' /\ RowOK'
    /\ now' = now /\ next_token <= next_token' /\ mints \in Nat /\ mints' \in Nat /\ mints <= mints'
    /\ BeliefsKept(b) /\ Extends(f, g) /\ AnswerWorth(g, b)

\* What every handled request does to the row.
LEMMA RowStep ==
  ASSUME NEW f \in Minters, TypeOK, RowOK, RowMinted(f), NEW b \in Bodies, AuthorityTypeOK', now' = now,
         \/ RowKept \/ RowLapsed \/ RowRenewed(b)
         \/ RowReleased(b) /\ b.op = "release"
         \/ RowGranted(b) /\ b.request \in 1..MaxRequest
  PROVE  /\ RowOK' /\ next_token <= next_token' /\ mints' \in Nat /\ mints <= mints'
         /\ BeliefsKept(b)
         /\ \E g \in Minters : Extends(f, g) /\ (RowGranted(b) => g[next_token + 1] = Owner(b.holder, b.request))
<1> USE NumbersAssumption, HoldersAssumption, NullAssumption, TimingAssumption
    DEF Clients, Tokens, TypeOK, RowOK, AuthorityTypeOK, ActiveLeaseIsNewest
<1> USE DEF RowKept, RowLapsed, RowRenewed, RowReleased, RowGranted, clearLease, Live, Owns
<1>1. RowOK' /\ next_token <= next_token' /\ mints' \in Nat /\ mints <= mints'
  <2>1. CASE RowKept
    BY <2>1
  <2>2. CASE RowLapsed \/ RowReleased(b)
    BY <2>2
  <2>3. CASE RowRenewed(b)
    BY <2>3
  <2>4. CASE RowGranted(b) /\ b.request \in 1..MaxRequest
    BY <2>4 DEF Bodies
  <2> QED BY <2>1, <2>2, <2>3, <2>4
<1>2. BeliefsKept(b)
  <2> SUFFICES ASSUME NEW c \in Clients, NEW t \in Tokens, NEW e \in Nat, Backed(c, t, e),
                      ~(b.op = "release" /\ b.holder = c /\ b.token = t /\ holder = c /\ token = t)
               PROVE  BackedAfter(c, t, e)
    BY DEF BeliefsKept
  <2>1. e <= now + Ttl /\ (e > now => Live /\ holder = c /\ token = t /\ expires_ms >= e)
    BY DEF Backed
  <2>2. CASE RowKept
    BY <2>1, <2>2 DEF BackedAfter
  <2>3. CASE ~Live
    BY <2>1, <2>3 DEF BackedAfter
  <2>4. CASE RowRenewed(b)
    BY <2>1, <2>4 DEF BackedAfter
  <2>5. CASE RowReleased(b) /\ b.op = "release"
    BY <2>1, <2>5 DEF BackedAfter
  <2> QED BY <2>2, <2>3, <2>4, <2>5
<1>3. CASE RowGranted(b) /\ b.request \in 1..MaxRequest
  <2>1. next_token + 1 \in Tokens /\ next_token \in Nat
    BY <1>3
  <2>2. Owner(b.holder, b.request) \in [holder : Clients \cup {NULL}, request : 0..MaxRequest]
    BY <1>3 DEF Owner, Bodies
  <2>3. PICK g \in Minters : g = [f EXCEPT ![next_token + 1] = Owner(b.holder, b.request)]
    BY <2>1, <2>2 DEF Minters
  <2>4. g[next_token + 1] = Owner(b.holder, b.request) /\ \A t \in Tokens : t <= next_token => g[t] = f[t]
    BY <2>1, <2>3 DEF Minters
  <2>5. RowMinted(g)'
    BY <1>3, <2>4 DEF RowMinted
  <2> QED BY <1>1, <1>2, <2>4, <2>5 DEF Extends
<1>4. CASE ~RowGranted(b)
  <2>1. RowMinted(f)'
    BY <1>4 DEF RowMinted
  <2> QED BY <1>1, <1>2, <1>4, <2>1 DEF Extends
<1> QED BY <1>3, <1>4

LEMMA NumbersOK ==
  ASSUME TypeOK
  PROVE  /\ mints \in Nat /\ now \in Nat /\ Ttl \in Nat /\ MaxMinted \in Nat /\ MaxRequest \in Nat
         /\ next_token \in Nat /\ next_token <= MaxMinted
<1> USE NumbersAssumption, TimingAssumption
<1>1. AuthorityTypeOK /\ mints \in Nat
  BY DEF TypeOK
<1> QED BY <1>1 DEF AuthorityTypeOK

LEMMA HandledAsAcquire ==
  ASSUME NEW f \in Minters, TypeOK, RowOK, RowMinted(f), NEW b \in Bodies, Handle(b),
         b.op = "acquire", b.request \in 1..MaxRequest
  PROVE  \E g \in Minters : Handled(f, g, b)
<1> USE NumbersAssumption, HoldersAssumption, NullAssumption, TimingAssumption
<1>1. AcquireEffect(b) /\ now' = now /\ AuthorityTypeOK'
  BY AcquireHandled
<1>2. RowKept \/ RowGranted(b)
  BY <1>1 DEF AcquireEffect
<1>3. PICK g \in Minters :
        /\ Extends(f, g) /\ (RowGranted(b) => g[next_token + 1] = Owner(b.holder, b.request))
        /\ RowOK' /\ next_token <= next_token' /\ mints' \in Nat /\ mints <= mints' /\ BeliefsKept(b)
  BY <1>1, <1>2, RowStep
<1>4. b.holder \in Clients /\ mints = next_token /\ next_token \in Nat /\ MaxMinted \in Nat /\ next_token <= MaxMinted
      /\ now \in Nat /\ Ttl \in Nat
  BY NumbersOK DEF Bodies, RowOK
<1>5. AnswerWorth(g, b)
  <2>1. CASE RowGranted(b) /\ Answer(b) = Reply("granted", [token |-> next_token + 1, expires |-> now + Ttl, nth |-> mints + 1])
    <3>1. Answer(b).grant.token = next_token + 1 /\ Answer(b).grant.nth = next_token + 1
          /\ Answer(b).grant.expires = now + Ttl /\ Answer(b).kind = "granted"
      BY <2>1, <1>4 DEF Reply
    <3>2. Answer(b) \in Replies /\ Answer(b).grant \in Grants
      BY <2>1, <1>4 DEF Reply, Replies, Grants, RowGranted, Tokens
    <3>3. BackedAfter(b.holder, Answer(b).grant.token, Answer(b).grant.expires)
      BY <1>1, <1>4, <2>1, <3>1 DEF RowGranted, BackedAfter
    <3> QED BY <1>1, <1>3, <1>4, <2>1, <3>1, <3>2, <3>3 DEF AnswerWorth, RowGranted
  <2>2. CASE /\ RowKept /\ Live /\ holder = b.holder /\ request_id = b.request
             /\ Answer(b) = Reply("replayed", [token |-> token, expires |-> expires_ms, nth |-> mints])
    <3>1. token \in Tokens /\ expires_ms \in Nat /\ token = next_token /\ expires_ms <= now + Ttl
      BY <2>2, <1>4 DEF TypeOK, AuthorityTypeOK, RowOK, ActiveLeaseIsNewest, Live
    <3>2. Answer(b).grant.token = token /\ Answer(b).grant.nth = mints
          /\ Answer(b).grant.expires = expires_ms /\ Answer(b).kind = "replayed"
      BY <2>2 DEF Reply
    <3>3. Answer(b) \in Replies /\ Answer(b).grant \in Grants
      BY <2>2, <1>4, <3>1 DEF Reply, Replies, Grants
    <3>4. BackedAfter(b.holder, Answer(b).grant.token, Answer(b).grant.expires)
      BY <1>1, <2>2, <3>1, <3>2 DEF RowKept, BackedAfter
    <3>5. g[token] = Owner(b.holder, b.request)
      BY <1>3, <1>4, <2>2, <3>1 DEF Extends, RowMinted
    <3> QED BY <1>1, <1>3, <1>4, <2>2, <3>1, <3>2, <3>3, <3>4, <3>5 DEF AnswerWorth, RowKept
  <2>3. CASE Answer(b) \in {Reply("refused", NoGrant), Reply("exhausted", NoGrant)}
    BY <2>3 DEF AnswerWorth, Reply, Replies, NoGrant
  <2> QED BY <1>1, <2>1, <2>2, <2>3 DEF AcquireEffect
<1> QED BY <1>1, <1>3, <1>4, <1>5 DEF Handled

LEMMA HandledAsRenew ==
  ASSUME NEW f \in Minters, TypeOK, RowOK, RowMinted(f), NEW b \in Bodies, Handle(b), b.op = "renew"
  PROVE  \E g \in Minters : Handled(f, g, b)
<1> USE NumbersAssumption, HoldersAssumption, NullAssumption, TimingAssumption
<1>1. RenewEffect(b) /\ now' = now /\ AuthorityTypeOK'
  BY RenewHandled
<1>2. RowKept \/ RowLapsed \/ RowRenewed(b)
  BY <1>1 DEF RenewEffect
<1>3. PICK g \in Minters :
        Extends(f, g) /\ RowOK' /\ next_token <= next_token' /\ mints' \in Nat /\ mints <= mints' /\ BeliefsKept(b)
  BY <1>1, <1>2, RowStep
<1>4. mints \in Nat /\ now \in Nat /\ Ttl \in Nat
  BY NumbersOK
<1>5. AnswerWorth(g, b)
  <2>1. CASE RowRenewed(b) /\ Answer(b) = Reply("renewed", [token |-> b.token, expires |-> now + Ttl, nth |-> NULL])
    <3>1. Answer(b) \in Replies /\ Answer(b).kind = "renewed"
          /\ Answer(b).grant.token = b.token /\ Answer(b).grant.expires = now + Ttl
      BY <2>1, <1>4 DEF Reply, Replies, Bodies
    <3>2. BackedAfter(b.holder, b.token, now + Ttl)
      BY <1>1, <1>4, <2>1 DEF RowRenewed, Owns, BackedAfter
    <3> QED BY <3>1, <3>2 DEF AnswerWorth
  <2>2. CASE Answer(b) = Reply("refused", NoGrant)
    BY <2>2 DEF AnswerWorth, Reply, Replies, NoGrant
  <2> QED BY <1>1, <2>1, <2>2 DEF RenewEffect
<1> QED BY <1>1, <1>3, <1>4, <1>5 DEF Handled

LEMMA HandledAsRelease ==
  ASSUME NEW f \in Minters, TypeOK, RowOK, RowMinted(f), NEW b \in Bodies, Handle(b), b.op = "release"
  PROVE  \E g \in Minters : Handled(f, g, b)
<1> USE NumbersAssumption, HoldersAssumption, NullAssumption, TimingAssumption
<1>1. ReleaseEffect(b) /\ now' = now /\ AuthorityTypeOK'
  BY ReleaseHandled
<1>2. RowKept \/ RowLapsed \/ (RowReleased(b) /\ b.op = "release")
  BY <1>1 DEF ReleaseEffect
<1>3. PICK g \in Minters :
        Extends(f, g) /\ RowOK' /\ next_token <= next_token' /\ mints' \in Nat /\ mints <= mints' /\ BeliefsKept(b)
  BY <1>1, <1>2, RowStep
<1>4. mints \in Nat /\ now \in Nat /\ Ttl \in Nat
  BY NumbersOK
<1>5. AnswerWorth(g, b)
  <2>1. CASE RowReleased(b) /\ Answer(b) = Reply("released", NoGrant)
    <3>1. b.token = next_token
      BY <2>1 DEF RowReleased, RowOK, ActiveLeaseIsNewest, Live
    <3> QED BY <2>1, <3>1 DEF AnswerWorth, Reply, Replies, NoGrant
  <2>2. CASE Answer(b) = Reply("refused", NoGrant)
    BY <2>2 DEF AnswerWorth, Reply, Replies, NoGrant
  <2> QED BY <1>1, <2>1, <2>2 DEF ReleaseEffect
<1> QED BY <1>1, <1>3, <1>4, <1>5 DEF Handled

\* Whatever the request, whoever sent it and however late it arrives.
LEMMA RequestHandled ==
  ASSUME NEW f \in Minters, TypeOK, RowOK, RowMinted(f), NEW b \in Bodies, Handle(b),
         b.op = "acquire" => b.request \in 1..MaxRequest
  PROVE  \E g \in Minters : Handled(f, g, b)
BY HandledAsAcquire, HandledAsRenew, HandledAsRelease DEF Bodies

-----------------------------------------------------------------------------
(* A client in a step of somebody else.                                    *)

UnchangedAt(d) ==
    /\ pc'[d] = pc[d] /\ request'[d] = request[d] /\ response'[d] = response[d]
    /\ grant'[d] = grant[d] /\ rid'[d] = rid[d] /\ started'[d] = started[d]

\* Where the grants in a client's hands and on their way to it come from.
LEMMA GrantsTyped ==
  ASSUME NEW c \in Clients, TypeOK, StageOK(c)
  PROVE  /\ grant[c] # NULL => grant[c].token \in Tokens /\ grant[c].expires \in Nat /\ grant[c].nth \in Nat
         /\ Offered(c) => pc[c] = "acquire" /\ response[c].grant \in Grants
         /\ Dated(c) => response[c].grant.token \in Tokens /\ response[c].grant.expires \in Nat
         /\ Dated(c) /\ ~Offered(c) =>
              pc[c] \in {"replay", "renew"} /\ grant[c] # NULL /\ response[c].grant.token = grant[c].token
<1>1. grant[c] \in Grants \cup {NULL}
  BY DEF TypeOK
<1>2. grant[c] # NULL => grant[c].token \in Tokens /\ grant[c].expires \in Nat /\ grant[c].nth \in Nat
  BY <1>1 DEF Grants
<1>3. Offered(c) => pc[c] = "acquire" /\ response[c].grant \in Grants
  BY DEF Offered, StageOK, Received
<1>4. Dated(c) /\ ~Offered(c) =>
        pc[c] \in {"replay", "renew"} /\ grant[c] # NULL /\ response[c].grant.token = grant[c].token
        /\ response[c].grant.expires \in Nat
  BY DEF Offered, Dated, StageOK, Received
<1>5. Offered(c) => response[c].grant.token \in Tokens /\ response[c].grant.expires \in Nat
  BY <1>3 DEF Grants
<1> QED BY <1>2, <1>3, <1>4, <1>5

\* What a client has and believes survives a request of another client, and
\* one of its own that it gave up.
LEMMA BystanderKept ==
  ASSUME NEW f \in Minters, NEW g \in Minters, NEW b \in Bodies, Handled(f, g, b),
         NEW d \in Clients, TypeOK, RowOK, ClientOK(f, d), UnchangedAt(d),
         b.op = "release" /\ b.holder = d => Retired(f, d, b.token)
  PROVE  ClientOK(g, d)'
<1> USE DEF UnchangedAt
<1>1. StageOK(d)'
  BY DEF ClientOK, StageOK, Awaits, Received
<1>2. /\ grant[d] # NULL => grant[d].token \in Tokens /\ grant[d].expires \in Nat /\ grant[d].nth \in Nat
      /\ Offered(d) => pc[d] = "acquire" /\ response[d].grant \in Grants
      /\ Dated(d) => response[d].grant.token \in Tokens /\ response[d].grant.expires \in Nat
      /\ Dated(d) /\ ~Offered(d) =>
           pc[d] \in {"replay", "renew"} /\ grant[d] # NULL /\ response[d].grant.token = grant[d].token
  BY GrantsTyped DEF ClientOK
<1>3. /\ next_token \in Nat /\ next_token' \in Nat /\ next_token <= next_token' /\ now' = now /\ now \in Nat
      /\ \A t \in Tokens : t \in Nat /\ (t <= next_token => g[t] = f[t])
      /\ rid[d] \in Nat
  <2>1. next_token' \in Nat
    BY NumbersAssumption DEF Handled, AuthorityTypeOK
  <2>2. rid[d] \in Nat
    BY TimingAssumption DEF TypeOK
  <2> QED BY <2>1, <2>2, NumbersOK DEF Handled, Extends, Tokens
<1>4. MintedFor(g, d)'
  <2>1. grant'[d] # NULL => Carries(g, d, grant[d].token, grant[d].nth)'
    BY <1>2, <1>3 DEF ClientOK, MintedFor, Carries
  <2>2. Offered(d)' => Carries(g, d, response[d].grant.token, response[d].grant.nth)'
    BY <1>2, <1>3 DEF ClientOK, MintedFor, Carries, Grants, Offered
  <2> QED BY <2>1, <2>2 DEF MintedFor
<1>5. BelievedBy(d)'
  <2>1. ASSUME NEW t \in Tokens, NEW e \in Nat, Backed(d, t, e), t <= next_token => f[t] = Owner(d, rid[d]),
               pc[d] \notin {"release", "idle"}
        PROVE  BackedAfter(d, t, e)
    <3>1. CASE b.op = "release" /\ b.holder = d /\ b.token = t /\ holder = d /\ token = t
      <4>1. f[t].request < rid[d]
        BY <2>1, <3>1 DEF Retired
      <4>2. t <= next_token
        BY <2>1, <3>1, <1>3, NullAssumption DEF RowOK, ActiveLeaseIsNewest
      <4> QED BY <1>3, <2>1, <4>1, <4>2 DEF Owner
    <3> QED BY <2>1, <3>1 DEF Handled, BeliefsKept
  <2>2. pc'[d] \in {"replay", "held", "renew", "lost"} => Backed(d, grant[d].token, grant[d].expires)'
    <3> SUFFICES ASSUME pc[d] \in {"replay", "held", "renew", "lost"}
                 PROVE  BackedAfter(d, grant[d].token, grant[d].expires)
      BY DEF Backed, BackedAfter
    <3>1. grant[d] # NULL /\ Backed(d, grant[d].token, grant[d].expires) /\ Carries(f, d, grant[d].token, grant[d].nth)
      BY DEF ClientOK, StageOK, BelievedBy, MintedFor
    <3> QED BY <1>2, <2>1, <3>1 DEF Carries
  <2>3. Dated(d)' => Backed(d, response[d].grant.token, response[d].grant.expires)'
    <3> SUFFICES ASSUME Dated(d)
                 PROVE  BackedAfter(d, response[d].grant.token, response[d].grant.expires)
      BY DEF Backed, BackedAfter, Dated
    <3>1. Backed(d, response[d].grant.token, response[d].grant.expires) /\ pc[d] \in {"acquire", "replay", "renew"}
      BY <1>2 DEF ClientOK, BelievedBy
    <3>2. f[response[d].grant.token] = Owner(d, rid[d])
      BY <1>2 DEF ClientOK, MintedFor, Carries
    <3> QED BY <1>2, <2>1, <3>1, <3>2
  <2> QED BY <2>2, <2>3 DEF BelievedBy
<1>6. FreshFor(d)'
  BY <1>3 DEF ClientOK, FreshFor, Dated
<1> QED BY <1>1, <1>4, <1>5, <1>6 DEF ClientOK

\* Orphans and fenced writes stay what they were.
LEMMA RestKept ==
  ASSUME NEW f \in Minters, NEW g \in Minters, NEW b \in Bodies, Core(f), Handled(f, g, b),
         UNCHANGED <<pc, rid, writes, storeVars>>, orphans' \subseteq orphans
  PROVE  (\A o \in orphans : OrphanOK(g, o))' /\ Written' /\ RowOK' /\ RowMinted(g)'
<1>1. /\ next_token \in Nat /\ next_token' \in Nat /\ next_token <= next_token'
      /\ \A t \in Tokens : t \in Nat /\ (t <= next_token => g[t] = f[t])
  <2>1. next_token' \in Nat
    BY NumbersAssumption DEF Handled, AuthorityTypeOK
  <2> QED BY <2>1, NumbersOK DEF Handled, Extends, Tokens, Core
<1>2. ASSUME NEW o \in orphans' PROVE OrphanOK(g, o)'
  <2>1. o \in orphans /\ OrphanOK(f, o)
    BY DEF Core
  <2> QED BY <1>1, <2>1 DEF OrphanOK, Retired
<1>3. Written'
  <2>1. \A w \in writes : w.nth = w.write.fencingToken /\ w.nth <= mints /\ w.nth \in Nat
    BY DEF Core, Written, TypeOK
  <2>2. mints \in Nat /\ mints' \in Nat /\ mints <= mints'
    BY DEF Handled
  <2> QED BY <2>1, <2>2 DEF Core, Written, storeVars
<1> QED BY <1>2, <1>3 DEF Handled, Extends

\* The answer reaches its caller.
LEMMA ServeCallKeeps ==
  ASSUME NEW f \in Minters, Core(f), NEW c \in Clients, ServeCall(c)
  PROVE  IInv'
<1> USE DEF storeVars, timerVars, rivalry
<1>1. PICK b \in Bodies : b = request[c]
  BY DEF Core, TypeOK, ServeCall
<1>2. ClientOK(f, c) /\ StageOK(c) /\ Awaits(c) /\ TypeOK /\ RowOK /\ RowMinted(f)
  BY DEF Core, ClientOK, StageOK, ServeCall
<1>3. b.op = "acquire" => b.request \in 1..MaxRequest
  BY <1>1, <1>2 DEF Awaits, StageOK
<1>4. PICK g \in Minters : Handled(f, g, b)
  BY <1>1, <1>2, <1>3, RequestHandled DEF ServeCall
<1>5. /\ response' = [response EXCEPT ![c] = Answer(b)] /\ request' = [request EXCEPT ![c] = NULL]
      /\ UNCHANGED <<pc, grant, rid, wait, started, wakeAt, workOk, orphans, writes, watermark, state, accepted, rivals, beaten>>
      /\ Answer(b) \in Replies /\ AuthorityTypeOK'
  BY <1>1, <1>4 DEF ServeCall, Handled, AnswerWorth
<1>6. TypeOK'
  <2>1. accepted' \in 0..mints'
    BY <1>2, <1>4, <1>5 DEF TypeOK, Handled
  <2>2. response' \in [Clients -> Replies \cup {NULL}] /\ request' \in [Clients -> Bodies \cup {NULL}]
    BY <1>2, <1>5 DEF TypeOK
  <2> QED BY <1>2, <1>4, <1>5, <2>1, <2>2 DEF TypeOK, Handled
<1>7. ASSUME NEW d \in Clients, d # c PROVE ClientOK(g, d)'
  <2>1. UnchangedAt(d)
    BY <1>2, <1>5, <1>7 DEF UnchangedAt, TypeOK
  <2>2. b.holder = c /\ ClientOK(f, d)
    BY <1>1, <1>2 DEF Awaits, Core
  <2> QED BY <1>2, <1>4, <1>7, <2>1, <2>2, BystanderKept
<1>8. ClientOK(g, c)'
  <2>1. /\ request'[c] = NULL /\ response'[c] = Answer(b) /\ response[c] = NULL /\ pc'[c] = pc[c] /\ grant'[c] = grant[c]
        /\ rid'[c] = rid[c] /\ started'[c] = started[c] /\ b.holder = c
    BY <1>1, <1>2, <1>5 DEF TypeOK, Awaits
  <2>2. now \in Nat /\ Ttl \in Nat /\ next_token \in Nat /\ next_token' \in Nat /\ next_token <= next_token' /\ now' = now
        /\ AnswerWorth(g, b) /\ AuthorityTypeOK'
    BY <1>2, <1>4, NumbersOK, NumbersAssumption DEF Handled, AuthorityTypeOK
  <2>3. grant[c] # NULL => grant[c].token \in Tokens /\ grant[c].expires \in Nat /\ grant[c].nth \in Nat
    BY <1>2, GrantsTyped
  <2>4. grant'[c] # NULL => Carries(g, c, grant[c].token, grant[c].nth)'
    <3>1. grant[c] # NULL => g[grant[c].token] = f[grant[c].token]
      BY <1>2, <1>4, <2>3 DEF ClientOK, MintedFor, Carries, Handled, Extends
    <3> QED BY <1>2, <2>1, <2>2, <2>3, <3>1 DEF ClientOK, MintedFor, Carries, Tokens
  <2>5. CASE pc[c] = "acquire"
    <3>1. b.op = "acquire" /\ b.request = rid[c] /\ started[c] <= now /\ grant[c] = NULL
      BY <1>1, <1>2, <2>5 DEF Awaits, StageOK, ClientOK, FreshFor
    <3>2. StageOK(c)'
      BY <1>2, <2>1, <2>2, <2>5, <3>1 DEF StageOK, Received, AnswerWorth
    <3>3. MintedFor(g, c)'
      BY <2>1, <2>2, <2>4, <3>1 DEF MintedFor, Offered, AnswerWorth, Carries
    <3>4. BelievedBy(c)'
      BY <2>1, <2>2, <2>5, <3>1 DEF BelievedBy, Dated, AnswerWorth, Backed, BackedAfter
    <3>5. FreshFor(c)'
      BY <1>2, <2>1, <2>2, <2>5, <3>1 DEF FreshFor, Dated, AnswerWorth, TypeOK
    <3> QED BY <3>2, <3>3, <3>4, <3>5 DEF ClientOK
  <2>6. CASE pc[c] \in {"replay", "renew"}
    <3>1. b.op = "renew" /\ b.token = grant[c].token /\ grant[c] # NULL /\ (pc[c] = "replay" => started[c] <= now)
      BY <1>1, <1>2, <2>6 DEF Awaits, StageOK, ClientOK, FreshFor
    <3>2. StageOK(c)'
      BY <1>2, <2>1, <2>2, <2>6, <3>1 DEF StageOK, Received, AnswerWorth
    <3>3. MintedFor(g, c)'
      BY <2>1, <2>2, <2>4, <3>1 DEF MintedFor, Offered, AnswerWorth
    <3>4. BackedAfter(c, grant[c].token, grant[c].expires)
      BY <1>2, <1>4, <2>3, <2>6, <3>1 DEF ClientOK, BelievedBy, Handled, BeliefsKept
    <3>5. BelievedBy(c)'
      BY <2>1, <2>2, <2>6, <3>1, <3>4 DEF BelievedBy, Dated, AnswerWorth, Backed, BackedAfter
    <3>6. FreshFor(c)'
      BY <1>2, <2>1, <2>2, <2>6, <3>1 DEF FreshFor, Dated, AnswerWorth, TypeOK
    <3> QED BY <3>2, <3>3, <3>5, <3>6 DEF ClientOK
  <2>7. CASE pc[c] = "release"
    <3>1. b.op = "release" /\ b.token = grant[c].token
      BY <1>1, <1>2, <2>7 DEF Awaits
    <3>2. StageOK(c)'
      BY <1>2, <2>1, <2>2, <2>7, <3>1 DEF StageOK, Received, AnswerWorth
    <3>3. MintedFor(g, c)'
      BY <2>1, <2>2, <2>4, <3>1 DEF MintedFor, Offered, AnswerWorth
    <3>4. BelievedBy(c)' /\ FreshFor(c)'
      BY <2>1, <2>2, <2>7, <3>1 DEF BelievedBy, FreshFor, Dated, AnswerWorth
    <3> QED BY <3>2, <3>3, <3>4 DEF ClientOK
  <2> QED BY <1>2, <2>5, <2>6, <2>7 DEF Awaits
<1>9. Rivalry'
  <2>1. \A d \in Clients : d # c => (Released(d)' <=> Released(d))
    BY <1>2, <1>5 DEF Released, Answered, TypeOK
  <2>2. Released(c)' => grant[c].token = next_token /\ grant[c] # NULL
    <3> SUFFICES ASSUME Released(c)' PROVE grant[c].token = next_token /\ grant[c] # NULL
      OBVIOUS
    <3>1. pc[c] = "release" /\ Answer(b).kind = "released"
      BY <1>2, <1>5 DEF Released, Answered, TypeOK
    <3> QED BY <1>1, <1>2, <1>4, <3>1 DEF Awaits, StageOK, Handled, AnswerWorth
  <2>3. ASSUME NEW d \in Clients, d # c, grant[d] # NULL, grant[c] # NULL, grant[c].token = next_token
        PROVE  grant[d].token < grant[c].token
    <3>1. ClientOK(f, d) /\ StageOK(d)
      BY DEF Core, ClientOK
    <3>2. grant[d].token \in Tokens /\ grant[d].token <= next_token /\ f[grant[d].token].holder = d
      BY <1>2, <2>3, <3>1, GrantsTyped DEF ClientOK, MintedFor, Carries, Owner
    <3>3. f[grant[c].token].holder = c
      BY <1>2, <2>3 DEF ClientOK, MintedFor, Carries, Owner
    <3> QED BY <2>3, <3>2, <3>3, <1>2, NumbersOK DEF Tokens
  <2>4. ASSUME NEW x \in Clients, NEW d \in rivals[x] PROVE Released(x)' => grant[d].token < grant[x].token
    <3>1. d \in Clients /\ d # x /\ grant[d] # NULL /\ grant[x] # NULL
      BY <1>2 DEF Core, Rivalry, Exposed, ClientOK, StageOK, TypeOK
    <3> QED BY <2>1, <2>2, <2>3, <3>1 DEF Core, Rivalry
  <2>5. ASSUME NEW x \in beaten PROVE ~Released(x)' /\ grant[x].token < next_token'
    <3>1. x \in Clients /\ grant[x].token < next_token /\ ~Released(x) /\ StageOK(x) /\ grant[x] # NULL
      BY <1>2 DEF Core, Rivalry, TypeOK, Exposed, ClientOK, StageOK
    <3>2. grant[x].token \in Nat
      BY <1>2, <3>1, GrantsTyped DEF Tokens
    <3>3. next_token \in Nat /\ next_token' \in Nat /\ next_token <= next_token'
      BY <1>2, <1>4, NumbersOK, NumbersAssumption DEF Handled, AuthorityTypeOK
    <3> QED BY <2>1, <2>2, <3>1, <3>2, <3>3
  <2>6. \A d \in Clients : Exposed(d)' <=> Exposed(d)
    BY <1>5 DEF Exposed
  <2> QED BY <1>5, <2>4, <2>5, <2>6 DEF Core, Rivalry, TypeOK
<1>10. (\A o \in orphans : OrphanOK(g, o))' /\ Written' /\ RowOK' /\ RowMinted(g)'
  BY <1>4, <1>5, RestKept
<1> QED BY <1>6, <1>7, <1>8, <1>9, <1>10 DEF IInv, Core

\* Overlaps do not depend on the authority, except that tokens grow.
LEMMA RivalryUntouched ==
  ASSUME TypeOK, Rivalry, \A c \in Clients : StageOK(c),
         UNCHANGED <<pc, response, grant, rivals, beaten>>,
         next_token' \in Nat, next_token <= next_token'
  PROVE  Rivalry'
<1>1. \A d \in Clients : (Released(d)' <=> Released(d)) /\ (Exposed(d)' <=> Exposed(d))
  BY DEF Released, Answered, Exposed
<1>2. ASSUME NEW x \in beaten PROVE grant[x].token < next_token'
  <2>1. x \in Clients /\ grant[x].token < next_token /\ StageOK(x) /\ grant[x] # NULL
    BY DEF Rivalry, TypeOK, Exposed, StageOK
  <2>2. grant[x].token \in Nat
    BY <2>1, GrantsTyped DEF Tokens
  <2> QED BY <2>1, <2>2, NumbersOK
<1> QED BY <1>1, <1>2 DEF Rivalry, TypeOK

\* A request whose caller gave up arrives after all.
LEMMA ServeOrphanKeeps ==
  ASSUME NEW f \in Minters, Core(f), NEW b \in orphans, ServeOrphan(b)
  PROVE  IInv'
<1> USE DEF storeVars, timerVars, rivalry, clientVars
<1>1. b \in Bodies /\ OrphanOK(f, b) /\ TypeOK /\ RowOK /\ RowMinted(f)
  BY DEF Core, TypeOK
<1>2. PICK g \in Minters : Handled(f, g, b)
  BY <1>1, RequestHandled DEF ServeOrphan, OrphanOK
<1>3. /\ UNCHANGED <<pc, request, response, grant, rid, wait, started, wakeAt, workOk>>
      /\ UNCHANGED <<writes, watermark, state, accepted, rivals, beaten>>
      /\ orphans' \subseteq orphans /\ AuthorityTypeOK' /\ mints' \in Nat /\ mints <= mints' /\ next_token <= next_token'
  BY <1>2 DEF ServeOrphan, Handled
<1>4. TypeOK'
  <2>1. accepted' \in 0..mints'
    BY <1>1, <1>3 DEF TypeOK
  <2> QED BY <1>1, <1>3, <2>1 DEF TypeOK
<1>5. ASSUME NEW d \in Clients PROVE ClientOK(g, d)'
  <2>1. UnchangedAt(d) /\ ClientOK(f, d)
    BY <1>3 DEF UnchangedAt, Core
  <2> QED BY <1>1, <1>2, <2>1, BystanderKept DEF OrphanOK
<1>6. Rivalry'
  <2>1. next_token' \in Nat
    BY <1>3, NumbersAssumption DEF AuthorityTypeOK
  <2> QED BY <1>1, <1>3, <2>1, RivalryUntouched DEF Core, ClientOK
<1>7. (\A o \in orphans : OrphanOK(g, o))' /\ Written' /\ RowOK' /\ RowMinted(g)'
  BY <1>1, <1>2, <1>3, RestKept
<1> QED BY <1>4, <1>5, <1>6, <1>7 DEF IInv, Core

LEMMA LaterEnd == \A a, b, t, e \in Nat : a <= b /\ e <= a + t => e <= b + t
OBVIOUS

\* The clock and the alarm: an expired row may go, beliefs may only expire.
LEMMA AuthorityAloneKeeps ==
  ASSUME NEW f \in Minters, Core(f), AuthorityAlone
  PROVE  Core(f)'
<1> USE DEF storeVars, timerVars, rivalry, clientVars
<1>1. /\ UNCHANGED <<pc, request, response, grant, rid, wait, started, wakeAt, workOk, orphans, next_token>>
      /\ UNCHANGED <<writes, watermark, state, accepted, mints, rivals, beaten>>
  BY DEF AuthorityAlone, AlarmDue, AlarmRepeated, AlarmHandler, Tick
<1>2. TypeOK /\ RowOK /\ RowMinted(f)
  BY DEF Core
<1>3. AuthorityTypeOK /\ AuthorityTypeOK' /\ now <= now'
  <2>1. AuthorityTypeOK
    BY <1>2 DEF TypeOK
  <2>2. AuthorityTypeOK' /\ now <= now'
    BY <2>1, NumbersAssumption
    DEF AuthorityTypeOK, AuthorityAlone, AlarmDue, AlarmRepeated, AlarmHandler, Tick, lease, clearLease
  <2> QED BY <2>1, <2>2
<1>10. now \in Nat /\ now' \in Nat /\ now <= now' /\ Ttl \in Nat
  BY <1>3, NumbersAssumption, TimingAssumption DEF AuthorityTypeOK
<1>4. (RowKept \/ (RowLapsed /\ now' = now)) /\ RowOK' /\ RowMinted(f)'
  <2>1. ASSUME Tick \/ UNCHANGED lease PROVE RowKept
    BY <1>1, <2>1 DEF Tick, lease, RowKept
  <2>2. ASSUME Expired, clearLease, now' = now PROVE RowLapsed
    BY <1>1, <1>3, <2>2, NullAssumption DEF RowLapsed, Expired, Live, AuthorityTypeOK
  <2>3. RowKept \/ (RowLapsed /\ now' = now)
    BY <2>1, <2>2 DEF AuthorityAlone, AlarmDue, AlarmRepeated, AlarmHandler
  <2>4. CASE RowKept
    <3>1. holder # NULL => expires_ms' <= now' + Ttl
      <4>1. holder # NULL => expires_ms \in Nat /\ expires_ms <= now + Ttl
        BY <1>2, <1>3 DEF RowOK, ActiveLeaseIsNewest, AuthorityTypeOK
      <4> QED BY <1>10, <2>4, <4>1 DEF RowKept
    <3>2. RowMinted(f)'
      BY <1>2, <2>4 DEF RowKept, RowMinted
    <3> QED BY <1>2, <2>3, <2>4, <3>1, <3>2 DEF RowOK, RowKept, ActiveLeaseIsNewest
  <2>5. CASE RowLapsed /\ now' = now
    BY <1>2, <2>5 DEF RowOK, RowLapsed, clearLease, ActiveLeaseIsNewest, RowMinted
  <2> QED BY <2>3, <2>4, <2>5
<1>5. TypeOK'
  BY <1>1, <1>2, <1>3 DEF TypeOK
<1>6. ASSUME NEW d \in Clients, NEW t \in Tokens, NEW e \in Nat, Backed(d, t, e) PROVE BackedAfter(d, t, e)
  <2>1. e <= now' + Ttl /\ (e > now' => e > now)
    <3>1. e \in Nat /\ e <= now + Ttl
      BY <1>6 DEF Backed
    <3>2. e <= now' + Ttl
      BY <1>10, <3>1, LaterEnd
    <3>3. e > now' => e > now
      BY <1>10, <3>1
    <3> QED BY <3>2, <3>3
  <2>2. e > now => Live /\ holder = d /\ token = t /\ expires_ms >= e
    BY <1>3, <1>6, HoldersAssumption, NullAssumption DEF Backed, Live, Clients, AuthorityTypeOK
  <2>3. CASE RowKept
    BY <2>1, <2>2, <2>3 DEF BackedAfter, RowKept
  <2>4. CASE RowLapsed
    BY <2>1, <2>2, <2>4 DEF BackedAfter, RowLapsed
  <2> QED BY <1>4, <2>3, <2>4
<1>7. ASSUME NEW d \in Clients PROVE ClientOK(f, d)'
  <2>1. ClientOK(f, d) /\ StageOK(d)
    BY DEF Core, ClientOK
  <2>2. /\ grant[d] # NULL => grant[d].token \in Tokens /\ grant[d].expires \in Nat
        /\ Dated(d) => response[d].grant.token \in Tokens /\ response[d].grant.expires \in Nat
    BY <1>2, <2>1, GrantsTyped
  <2>3. StageOK(d)' /\ MintedFor(f, d)'
    BY <1>1, <2>1 DEF ClientOK, StageOK, Awaits, Received, MintedFor, Offered, Carries
  <2>4. pc[d] \in {"replay", "held", "renew", "lost"} => BackedAfter(d, grant[d].token, grant[d].expires)
    BY <1>6, <2>1, <2>2 DEF ClientOK, StageOK, BelievedBy
  <2>5. Dated(d) => BackedAfter(d, response[d].grant.token, response[d].grant.expires)
    BY <1>6, <2>1, <2>2 DEF ClientOK, BelievedBy
  <2>6. BelievedBy(d)'
    BY <1>1, <2>4, <2>5 DEF BelievedBy, Backed, BackedAfter, Dated
  <2>7. FreshFor(d)'
    <3>1. started[d] \in Nat
      BY <1>2 DEF TypeOK
    <3> QED BY <1>1, <1>10, <2>1, <3>1 DEF ClientOK, FreshFor, Dated
  <2> QED BY <2>3, <2>6, <2>7 DEF ClientOK
<1>8. Rivalry'
  BY <1>1, <1>2, NumbersOK, RivalryUntouched DEF Core, ClientOK
<1>9. (\A o \in orphans : OrphanOK(f, o))' /\ Written'
  BY <1>1 DEF Core, OrphanOK, Retired, Written
<1> QED BY <1>4, <1>5, <1>7, <1>8, <1>9 DEF Core

-----------------------------------------------------------------------------
(* A turn of one client: the authority and the other clients stand still.  *)

Turn(c) ==
    /\ UNCHANGED <<authorityVars, mints>>
    /\ \A d \in Clients : d # c => UnchangedAt(d)
    /\ response'[c] = NULL

\* What was given up stays given up.
NotResumed(c) ==
    \/ rid'[c] > rid[c]
    \/ rid'[c] = rid[c] /\ (pc[c] \in {"release", "idle"} => pc'[c] \in {"release", "idle"})

LEMMA TurnKeeps ==
  ASSUME NEW f \in Minters, Core(f), NEW c \in Clients, Turn(c), NotResumed(c), TypeOK', ClientOK(f, c)',
         \A o \in orphans' : o \in orphans \/ OrphanOK(f, o)', Rivalry', UNCHANGED <<writes, storeVars>>
  PROVE  Core(f)'
<1>1. UNCHANGED <<holder, token, expires_ms, next_token, request_id, now, mints>>
  BY DEF Turn, authorityVars
<1>2. RowOK' /\ RowMinted(f)'
  BY <1>1 DEF Core, RowOK, ActiveLeaseIsNewest, RowMinted
<1>3. ASSUME NEW d \in Clients PROVE ClientOK(f, d)'
  <2>1. CASE d # c
    <3>1. UnchangedAt(d) /\ ClientOK(f, d)
      BY <2>1 DEF Turn, Core
    <3>2. StageOK(d)'
      BY <3>1 DEF UnchangedAt, ClientOK, StageOK, Awaits, Received
    <3>3. MintedFor(f, d)'
      BY <1>1, <3>1 DEF UnchangedAt, ClientOK, MintedFor, Offered, Carries
    <3>4. BelievedBy(d)'
      BY <1>1, <3>1 DEF UnchangedAt, ClientOK, BelievedBy, Backed, Dated
    <3>5. FreshFor(d)'
      BY <1>1, <3>1 DEF UnchangedAt, ClientOK, FreshFor, Dated
    <3> QED BY <3>2, <3>3, <3>4, <3>5 DEF ClientOK
  <2> QED BY <2>1
<1>4. ASSUME NEW o \in orphans, OrphanOK(f, o) PROVE OrphanOK(f, o)'
  <2> SUFFICES ASSUME o.op = "release" PROVE Retired(f, o.holder, o.token)'
    BY <1>1, <1>4 DEF OrphanOK
  <2>1. o.holder \in Clients /\ o.token \in Tokens /\ Retired(f, o.holder, o.token)
    BY <1>4 DEF Core, TypeOK, Bodies, OrphanOK
  <2>2. CASE o.holder = c
    <3>1. rid[c] \in Nat /\ rid'[c] \in Nat /\ f[o.token].request \in Nat
      BY <2>1, TimingAssumption DEF Core, TypeOK, Minters
    <3> QED BY <2>1, <2>2, <3>1 DEF Retired, NotResumed
  <2>3. CASE o.holder # c
    BY <2>1, <2>3 DEF Retired, Turn, UnchangedAt
  <2> QED BY <2>2, <2>3
<1>5. \A o \in orphans' : OrphanOK(f, o)'
  BY <1>4 DEF Core
<1>6. Written'
  BY <1>1 DEF Core, Written, storeVars
<1> QED BY <1>2, <1>3, <1>5, <1>6 DEF Core

\* A turn that neither starts nor ends work.
LEMMA OverlapsKept ==
  ASSUME TypeOK, Rivalry, NEW c \in Clients, Turn(c), UNCHANGED rivalry,
         Exposed(c) => Exposed(c)' /\ grant'[c].token = grant[c].token
  PROVE  Rivalry'
<1>1. \A d \in Clients : Exposed(d) => Exposed(d)' /\ grant'[d].token = grant[d].token
  BY DEF Turn, UnchangedAt, Exposed
<1>2. \A d \in Clients : Released(d)' => Released(d)
  BY DEF Turn, UnchangedAt, Released, Answered
<1>3. next_token' = next_token
  BY DEF Turn, authorityVars
<1> QED BY <1>1, <1>2, <1>3 DEF Rivalry, rivalry, TypeOK

\* Work starts: it overlaps whoever works already.
LEMMA OverlapsStart ==
  ASSUME TypeOK, Rivalry, NEW c \in Clients, Turn(c), ~Exposed(c), pc'[c] = "held", UNCHANGED beaten,
         rivals' = [d \in Clients |->
            IF d = c THEN {e \in Clients \ {c} : Working(e)}
                     ELSE IF Working(d) THEN rivals[d] \cup {c} ELSE rivals[d]]
  PROVE  Rivalry'
<1>1. \A d \in Clients : Exposed(d) => Exposed(d)' /\ grant'[d].token = grant[d].token /\ d # c
  BY DEF Turn, UnchangedAt, Exposed
<1>2. \A d \in Clients : Released(d)' => Released(d) /\ ~Working(d) /\ d # c
  BY DEF Turn, UnchangedAt, Released, Answered, Working
<1>3. next_token' = next_token /\ Exposed(c)' /\ \A d \in Clients : Working(d) => Exposed(d) /\ d # c
  BY DEF Turn, authorityVars, Exposed, Working
<1>4. ASSUME NEW x \in Clients, NEW d \in rivals'[x]
      PROVE  /\ d \in Clients /\ x # d /\ Exposed(x)' /\ Exposed(d)' /\ x \in rivals'[d]
             /\ Released(x)' => grant'[d].token < grant'[x].token
  <2>1. CASE d \in rivals[x] /\ x # c
    BY <1>1, <1>2, <2>1 DEF Rivalry, TypeOK
  <2>2. CASE x = c
    BY <1>1, <1>2, <1>3, <1>4, <2>2
  <2>3. CASE d = c /\ x # c
    BY <1>1, <1>2, <1>3, <1>4, <2>3 DEF Rivalry
  <2> QED BY <1>4, <2>1, <2>2, <2>3
<1>5. ASSUME NEW x \in beaten' PROVE Exposed(x)' /\ grant'[x].token < next_token' /\ ~Released(x)'
  BY <1>1, <1>2, <1>3 DEF Rivalry, TypeOK
<1> QED BY <1>4, <1>5 DEF Rivalry

\* Work ends: of the overlapping calls only the one with the largest token
\* was told that its release matched.
LEMMA OverlapsEnd ==
  ASSUME TypeOK, Rivalry, NEW c \in Clients, Turn(c), NEW succeeded \in BOOLEAN, succeeded => Released(c),
         \A d \in Clients : StageOK(d) /\ (grant[d] # NULL => grant[d].token <= next_token),
         beaten' = (beaten \cup {d \in Clients : succeeded /\ c \in rivals[d]}) \ {c},
         rivals' = [d \in Clients |-> IF d = c THEN {} ELSE rivals[d] \ {c}]
  PROVE  Rivalry'
<1>1. \A d \in Clients : d # c /\ Exposed(d) => Exposed(d)' /\ grant'[d].token = grant[d].token
  BY DEF Turn, UnchangedAt, Exposed
<1>2. \A d \in Clients : Released(d)' => Released(d) /\ d # c
  BY DEF Turn, UnchangedAt, Released, Answered
<1>3. next_token' = next_token
  BY DEF Turn, authorityVars
<1>4. ASSUME NEW x \in Clients, NEW d \in rivals'[x]
      PROVE  /\ x # d /\ Exposed(x)' /\ Exposed(d)' /\ x \in rivals'[d]
             /\ Released(x)' => grant'[d].token < grant'[x].token
  <2>1. d \in Clients /\ d \in rivals[x] /\ x # c /\ d # c
    BY <1>4 DEF TypeOK
  <2> QED BY <1>1, <1>2, <2>1 DEF Rivalry
<1>5. ASSUME NEW x \in beaten' PROVE Exposed(x)' /\ grant'[x].token < next_token' /\ ~Released(x)'
  <2>1. x \in Clients /\ x # c
    BY DEF TypeOK
  <2>2. CASE x \in beaten
    BY <1>1, <1>2, <1>3, <2>1, <2>2 DEF Rivalry
  <2>3. CASE succeeded /\ c \in rivals[x]
    <3>1. Released(c) /\ Exposed(x) /\ Exposed(c) /\ grant[x].token < grant[c].token
          /\ (Released(x) => grant[c].token < grant[x].token)
      BY <2>1, <2>3 DEF Rivalry
    <3>2. grant[x].token \in Nat /\ grant[c].token \in Nat /\ grant[c].token <= next_token
      BY <2>1, <3>1, GrantsTyped DEF StageOK, Exposed, Tokens
    <3>3. grant[x].token < next_token /\ ~Released(x)
      BY <3>1, <3>2, NumbersOK
    <3> QED BY <1>1, <1>2, <1>3, <2>1, <3>1, <3>3
  <2> QED BY <1>5, <2>2, <2>3
<1> QED BY <1>4, <1>5 DEF Rivalry

-----------------------------------------------------------------------------
(* The client's steps.                                                     *)

Labels == {"idle", "retry", "acquire", "replay", "sleep", "held", "renew", "lost", "release"}

LEMMA GotoTyped ==
  ASSUME TypeOK, NEW c \in Clients, NEW label \in Labels, NEW call \in Bodies \cup {NULL}, Goto(c, label, call)
  PROVE  /\ pc' \in [Clients -> Labels] /\ request' \in [Clients -> Bodies \cup {NULL}]
         /\ response' \in [Clients -> Replies \cup {NULL}]
         /\ pc'[c] = label /\ request'[c] = call /\ response'[c] = NULL
         /\ \A d \in Clients : d # c => pc'[d] = pc[d] /\ request'[d] = request[d] /\ response'[d] = response[d]
BY DEF TypeOK, Goto, Labels

\* withLease returns or throws.
LEMMA EndKeeps ==
  ASSUME NEW f \in Minters, Core(f), NEW c \in Clients, NEW label \in {"idle", "retry"}, NEW succeeded \in BOOLEAN,
         End(c, label, succeeded), succeeded => Released(c), pc[c] \in {"release", "idle"} => label = "idle",
         orphans' \subseteq Bodies, \A o \in orphans' : o \in orphans \/ OrphanOK(f, o)'
  PROVE  Core(f)'
<1>1. TypeOK /\ Rivalry /\ ClientOK(f, c)
  BY DEF Core
<1>2. Goto(c, label, NULL) /\ label \in Labels
  BY DEF End, Labels
<1>3. /\ grant' = [grant EXCEPT ![c] = NULL] /\ wait' = [wait EXCEPT ![c] = FALSE]
      /\ started' = [started EXCEPT ![c] = 0] /\ wakeAt' = [wakeAt EXCEPT ![c] = 0]
      /\ workOk' = [workOk EXCEPT ![c] = FALSE]
      /\ beaten' = (beaten \cup {d \in Clients : succeeded /\ c \in rivals[d]}) \ {c}
      /\ rivals' = [d \in Clients |-> IF d = c THEN {} ELSE rivals[d] \ {c}]
      /\ UNCHANGED <<authorityVars, rid, writes, storeVars, mints>>
  BY DEF End
<1>4. /\ pc' \in [Clients -> Labels] /\ request' \in [Clients -> Bodies \cup {NULL}]
      /\ response' \in [Clients -> Replies \cup {NULL}]
      /\ pc'[c] = label /\ request'[c] = NULL /\ response'[c] = NULL
      /\ \A d \in Clients : d # c => pc'[d] = pc[d] /\ request'[d] = request[d] /\ response'[d] = response[d]
  BY <1>1, <1>2, GotoTyped
<1>5. /\ grant' \in [Clients -> Grants \cup {NULL}] /\ wait' \in [Clients -> BOOLEAN] /\ started' \in [Clients -> Nat]
      /\ wakeAt' \in [Clients -> Nat] /\ workOk' \in [Clients -> BOOLEAN]
      /\ grant'[c] = NULL /\ \A d \in Clients : d # c => grant'[d] = grant[d] /\ started'[d] = started[d]
  BY <1>1, <1>3 DEF TypeOK
<1>6. rivals' \in [Clients -> SUBSET Clients] /\ beaten' \subseteq Clients
  BY <1>1, <1>3 DEF TypeOK
<1>7. TypeOK'
  BY <1>1, <1>3, <1>4, <1>5, <1>6 DEF TypeOK, AuthorityTypeOK, authorityVars, storeVars, Labels
<1>8. Turn(c) /\ NotResumed(c)
  BY <1>3, <1>4, <1>5 DEF Turn, NotResumed, UnchangedAt
<1>9. ClientOK(f, c)'
  BY <1>4, <1>5 DEF ClientOK, StageOK, MintedFor, Offered, BelievedBy, Dated, FreshFor
<1>10. Rivalry'
  <2>1. \A d \in Clients : StageOK(d) /\ (grant[d] # NULL => grant[d].token <= next_token)
    BY DEF Core, ClientOK, MintedFor, Carries
  <2> QED BY <1>1, <1>3, <1>8, <2>1, OverlapsEnd
<1> QED BY <1>3, <1>7, <1>8, <1>9, <1>10, TurnKeeps

\* acquire returns a grant and work starts.
LEMMA ExposeKeeps ==
  ASSUME NEW f \in Minters, Core(f), NEW c \in Clients, NEW g \in Grants, Expose(c, g), pc[c] \in {"acquire", "replay"},
         Carries(f, c, g.token, g.nth), Backed(c, g.token, g.expires)
  PROVE  Core(f)'
<1>1. TypeOK /\ Rivalry /\ ClientOK(f, c)
  BY DEF Core
<1>2. Goto(c, "held", NULL) /\ "held" \in Labels
  BY DEF Expose, Labels
<1>3. /\ grant' = [grant EXCEPT ![c] = g] /\ wait' = [wait EXCEPT ![c] = FALSE]
      /\ started' = [started EXCEPT ![c] = 0] /\ wakeAt' = [wakeAt EXCEPT ![c] = 0]
      /\ rivals' = [d \in Clients |->
            IF d = c THEN {e \in Clients \ {c} : Working(e)}
                     ELSE IF Working(d) THEN rivals[d] \cup {c} ELSE rivals[d]]
      /\ UNCHANGED <<authorityVars, rid, workOk, orphans, writes, storeVars, mints, beaten>>
  BY DEF Expose
<1>4. /\ pc' \in [Clients -> Labels] /\ request' \in [Clients -> Bodies \cup {NULL}]
      /\ response' \in [Clients -> Replies \cup {NULL}]
      /\ pc'[c] = "held" /\ request'[c] = NULL /\ response'[c] = NULL
      /\ \A d \in Clients : d # c => pc'[d] = pc[d] /\ request'[d] = request[d] /\ response'[d] = response[d]
  BY <1>1, <1>2, GotoTyped
<1>5. /\ grant' \in [Clients -> Grants \cup {NULL}] /\ wait' \in [Clients -> BOOLEAN] /\ started' \in [Clients -> Nat]
      /\ wakeAt' \in [Clients -> Nat]
      /\ grant'[c] = g /\ \A d \in Clients : d # c => grant'[d] = grant[d] /\ started'[d] = started[d]
  BY <1>1, <1>3 DEF TypeOK
<1>6. rivals' \in [Clients -> SUBSET Clients]
  BY <1>1, <1>3 DEF TypeOK
<1>7. TypeOK'
  BY <1>1, <1>3, <1>4, <1>5, <1>6 DEF TypeOK, AuthorityTypeOK, authorityVars, storeVars, Labels
<1>8. Turn(c) /\ NotResumed(c)
  BY <1>3, <1>4, <1>5 DEF Turn, NotResumed, UnchangedAt
<1>9. ClientOK(f, c)'
  <2>1. StageOK(c)'
    BY <1>4, <1>5, RecordsAssumption DEF StageOK
  <2>2. MintedFor(f, c)'
    BY <1>3, <1>4, <1>5 DEF MintedFor, Offered, Carries, authorityVars
  <2>3. BelievedBy(c)' /\ FreshFor(c)'
    BY <1>3, <1>4, <1>5 DEF BelievedBy, Backed, FreshFor, Dated, authorityVars
  <2> QED BY <2>1, <2>2, <2>3 DEF ClientOK
<1>10. Rivalry'
  BY <1>1, <1>3, <1>4, <1>8, OverlapsStart DEF Exposed
<1> QED BY <1>3, <1>7, <1>8, <1>9, <1>10, TurnKeeps

\* A step between calls: the grant keeps its token and nobody else notices.
LEMMA GotoKeeps ==
  ASSUME NEW f \in Minters, Core(f), NEW c \in Clients, NEW label \in Labels, NEW call \in Bodies \cup {NULL},
         Goto(c, label, call), ClientOK(f, c)', orphans' \subseteq Bodies, \A o \in orphans' : o \in orphans \/ OrphanOK(f, o)',
         grant' \in [Clients -> Grants \cup {NULL}], rid' \in [Clients -> 0..MaxRequest],
         wait' \in [Clients -> BOOLEAN], started' \in [Clients -> Nat], wakeAt' \in [Clients -> Nat], workOk' \in [Clients -> BOOLEAN],
         \A d \in Clients : d # c => grant'[d] = grant[d] /\ rid'[d] = rid[d] /\ started'[d] = started[d],
         Exposed(c) => Exposed(c)' /\ grant'[c].token = grant[c].token, NotResumed(c),
         UNCHANGED <<authorityVars, writes, storeVars, mints, rivalry>>
  PROVE  Core(f)'
<1>1. TypeOK /\ Rivalry
  BY DEF Core
<1>2. /\ pc' \in [Clients -> Labels] /\ request' \in [Clients -> Bodies \cup {NULL}]
      /\ response' \in [Clients -> Replies \cup {NULL}] /\ response'[c] = NULL
      /\ \A d \in Clients : d # c => pc'[d] = pc[d] /\ request'[d] = request[d] /\ response'[d] = response[d]
  BY <1>1, GotoTyped
<1>3. TypeOK'
  BY <1>1, <1>2 DEF TypeOK, AuthorityTypeOK, authorityVars, storeVars, rivalry, Labels
<1>4. Turn(c)
  BY <1>2 DEF Turn, UnchangedAt
<1>5. Rivalry'
  BY <1>1, <1>4, OverlapsKept
<1> QED BY <1>3, <1>4, <1>5, TurnKeeps

LEMMA StartAcquireKeeps ==
  ASSUME NEW f \in Minters, Core(f), NEW c \in Clients, NEW r \in 1..MaxRequest, NEW w \in BOOLEAN, StartAcquire(c, r, w)
  PROVE  Core(f)'
<1> USE DEF timerVars
<1>1. TypeOK /\ ClientOK(f, c) /\ now \in Nat /\ MaxRequest \in Nat /\ rid[c] \in Nat
  BY NumbersOK DEF Core, TypeOK
<1>2. Goto(c, "acquire", Body("acquire", c, r, NULL)) /\ "acquire" \in Labels
  BY DEF StartAcquire, Labels
<1>3. Body("acquire", c, r, NULL) \in Bodies
  BY DEF Body, Bodies
<1>4. /\ rid' = [rid EXCEPT ![c] = r] /\ wait' = [wait EXCEPT ![c] = w] /\ started' = [started EXCEPT ![c] = now]
      /\ UNCHANGED <<authorityVars, grant, wakeAt, workOk, orphans, writes, storeVars, mints, rivalry>>
  BY DEF StartAcquire
<1>5. /\ rid' \in [Clients -> 0..MaxRequest] /\ wait' \in [Clients -> BOOLEAN] /\ started' \in [Clients -> Nat]
      /\ rid'[c] = r /\ started'[c] = now
      /\ \A d \in Clients : d # c => rid'[d] = rid[d] /\ started'[d] = started[d]
  BY <1>1, <1>4 DEF TypeOK
<1>6. pc'[c] = "acquire" /\ request'[c] = Body("acquire", c, r, NULL) /\ response'[c] = NULL
  BY <1>1, <1>2, <1>3, GotoTyped
<1>7. pc[c] \in {"idle", "retry"} /\ grant[c] = NULL
  BY <1>1 DEF StartAcquire, ClientOK, StageOK
<1>8. ClientOK(f, c)'
  <2>1. StageOK(c)'
    BY <1>3, <1>4, <1>5, <1>6, <1>7 DEF StageOK, Awaits, Body
  <2> QED BY <1>1, <1>4, <1>5, <1>6, <1>7, <2>1 DEF ClientOK, MintedFor, Offered, BelievedBy, Dated, FreshFor, authorityVars
<1>9. NotResumed(c)
  BY <1>1, <1>5 DEF StartAcquire, NotResumed
<1> QED BY <1>1, <1>2, <1>3, <1>4, <1>5, <1>7, <1>8, <1>9, GotoKeeps DEF TypeOK, Exposed

LEMMA GrantedKeeps ==
  ASSUME NEW f \in Minters, Core(f), NEW c \in Clients, Granted(c)
  PROVE  Core(f)'
<1>1. PICK g \in Grants : g = response[c].grant
  BY DEF Granted, Answered, Core, ClientOK, StageOK, Received
<1>2. Offered(c) /\ Dated(c) /\ pc[c] = "acquire" /\ ClientOK(f, c)
  BY DEF Granted, Answered, Offered, Dated, Core
<1> QED BY <1>1, <1>2, ExposeKeeps DEF Granted, ClientOK, MintedFor, BelievedBy

LEMMA ReplayRenewedKeeps ==
  ASSUME NEW f \in Minters, Core(f), NEW c \in Clients, ReplayRenewed(c)
  PROVE  Core(f)'
<1>1. TypeOK /\ ClientOK(f, c) /\ StageOK(c) /\ Dated(c) /\ ~Offered(c) /\ pc[c] = "replay" /\ grant[c] \in Grants
  BY DEF ReplayRenewed, Answered, Offered, Dated, Core, ClientOK, StageOK, TypeOK
<1>2. response[c].grant.token = grant[c].token /\ response[c].grant.expires \in Nat
  BY <1>1, GrantsTyped
<1>3. PICK g \in Grants : g = [grant[c] EXCEPT !.expires = response[c].grant.expires]
  BY <1>1, <1>2 DEF Grants
<1>4. g.token = grant[c].token /\ g.nth = grant[c].nth /\ g.expires = response[c].grant.expires
  BY <1>1, <1>3 DEF Grants
<1>5. Carries(f, c, g.token, g.nth)
  BY <1>1, <1>4, RecordsAssumption DEF ClientOK, MintedFor
<1>6. Backed(c, g.token, g.expires)
  BY <1>1, <1>2, <1>4 DEF ClientOK, BelievedBy
<1> QED BY <1>1, <1>3, <1>5, <1>6, ExposeKeeps DEF ReplayRenewed

\* The replayed grant is kept until its token-bound renewal is answered.
LEMMA ReplayedKeeps ==
  ASSUME NEW f \in Minters, Core(f), NEW c \in Clients, Replayed(c)
  PROVE  Core(f)'
<1> USE DEF timerVars
<1>1. TypeOK /\ ClientOK(f, c) /\ StageOK(c) /\ Dated(c) /\ Offered(c) /\ pc[c] = "acquire"
  BY DEF Replayed, Answered, Offered, Dated, Core, ClientOK
<1>2. PICK g \in Grants : g = response[c].grant
  BY <1>1, GrantsTyped
<1>3. PICK b \in Bodies : b = Body("renew", c, NULL, g.token)
  BY DEF Body, Bodies, Grants
<1>4. /\ Goto(c, "replay", b) /\ "replay" \in Labels /\ grant' = [grant EXCEPT ![c] = g]
      /\ UNCHANGED <<authorityVars, rid, timerVars, workOk, orphans, writes, storeVars, mints, rivalry>>
  BY <1>2, <1>3 DEF Replayed, Labels
<1>5. pc'[c] = "replay" /\ request'[c] = b /\ response'[c] = NULL
  BY <1>1, <1>4, GotoTyped
<1>6. grant' \in [Clients -> Grants \cup {NULL}] /\ grant'[c] = g /\ \A d \in Clients : d # c => grant'[d] = grant[d]
  BY <1>1, <1>4 DEF TypeOK
<1>7. ClientOK(f, c)'
  <2>1. StageOK(c)'
    BY <1>3, <1>4, <1>5, <1>6, RecordsAssumption DEF StageOK, Awaits, Body
  <2>2. MintedFor(f, c)'
    BY <1>1, <1>2, <1>4, <1>5, <1>6 DEF ClientOK, MintedFor, Offered, Carries, authorityVars
  <2>3. BelievedBy(c)'
    BY <1>1, <1>2, <1>4, <1>5, <1>6 DEF ClientOK, BelievedBy, Backed, Dated, authorityVars
  <2>4. FreshFor(c)'
    BY <1>1, <1>4, <1>5 DEF ClientOK, FreshFor, Dated, authorityVars
  <2> QED BY <2>1, <2>2, <2>3, <2>4 DEF ClientOK
<1>8. NotResumed(c) /\ ~Exposed(c)
  BY <1>1, <1>4 DEF NotResumed, Exposed
<1> QED BY <1>1, <1>4, <1>6, <1>7, <1>8, GotoKeeps DEF TypeOK

LEMMA SleepKeeps ==
  ASSUME NEW f \in Minters, Core(f), NEW c \in Clients, Sleep(c)
  PROVE  Core(f)'
<1>1. TypeOK /\ ClientOK(f, c) /\ pc[c] = "acquire" /\ now \in Nat /\ RetryInterval \in Nat
  BY NumbersOK, TimingAssumption DEF Sleep, Answered, Core
<1>2. /\ Goto(c, "sleep", NULL) /\ "sleep" \in Labels /\ wakeAt' = [wakeAt EXCEPT ![c] = now + RetryInterval]
      /\ UNCHANGED <<authorityVars, grant, rid, wait, started, workOk, orphans, writes, storeVars, mints, rivalry>>
  BY DEF Sleep, Labels
<1>3. pc'[c] = "sleep" /\ request'[c] = NULL /\ response'[c] = NULL
  BY <1>1, <1>2, GotoTyped
<1>4. wakeAt' \in [Clients -> Nat]
  BY <1>1, <1>2 DEF TypeOK
<1>5. ClientOK(f, c)'
  BY <1>1, <1>2, <1>3 DEF ClientOK, StageOK, MintedFor, Offered, BelievedBy, Dated, FreshFor, authorityVars
<1> QED BY <1>1, <1>2, <1>4, <1>5, GotoKeeps DEF TypeOK, NotResumed, Exposed

LEMMA WakeKeeps ==
  ASSUME NEW f \in Minters, Core(f), NEW c \in Clients, Wake(c)
  PROVE  Core(f)'
<1> USE DEF timerVars
<1>1. TypeOK /\ ClientOK(f, c) /\ pc[c] = "sleep" /\ rid[c] \in 1..MaxRequest
  BY DEF Wake, Core, ClientOK, StageOK
<1>2. PICK b \in Bodies : b = Body("acquire", c, rid[c], NULL)
  BY <1>1 DEF Body, Bodies
<1>3. /\ Goto(c, "acquire", b) /\ "acquire" \in Labels
      /\ UNCHANGED <<authorityVars, grant, rid, timerVars, workOk, orphans, writes, storeVars, mints, rivalry>>
  BY <1>2 DEF Wake, Labels
<1>4. pc'[c] = "acquire" /\ request'[c] = b /\ response'[c] = NULL
  BY <1>1, <1>3, GotoTyped
<1>5. ClientOK(f, c)'
  <2>1. StageOK(c)'
    BY <1>1, <1>2, <1>3, <1>4 DEF ClientOK, StageOK, Awaits, Body
  <2> QED BY <1>1, <1>3, <1>4, <2>1 DEF ClientOK, StageOK, MintedFor, Offered, BelievedBy, Dated, FreshFor, authorityVars
<1> QED BY <1>1, <1>3, <1>5, GotoKeeps DEF TypeOK, NotResumed, Exposed

\* A working client sends a renewal, or its release.
LEMMA SendsTokenBound ==
  ASSUME NEW f \in Minters, Core(f), NEW c \in Clients, StartRenew(c) \/ \E ok \in BOOLEAN : EndWork(c, ok)
  PROVE  Core(f)'
<1> USE DEF timerVars
<1>1. TypeOK /\ ClientOK(f, c) /\ pc[c] \in {"held", "lost"} /\ grant[c] \in Grants
  BY DEF StartRenew, EndWork, Core, ClientOK, StageOK, TypeOK
<1>2. \A op \in {"renew", "release"} : Body(op, c, NULL, grant[c].token) \in Bodies
  BY <1>1 DEF Body, Bodies, Grants
<1>3. PICK label \in {"renew", "release"}, b \in Bodies :
        /\ b = Body(label, c, NULL, grant[c].token) /\ Goto(c, label, b) /\ label \in Labels
        /\ workOk' \in [Clients -> BOOLEAN]
        /\ label = "renew" => pc[c] = "held"
        /\ UNCHANGED <<authorityVars, grant, rid, timerVars, orphans, writes, storeVars, mints, rivalry>>
  BY <1>1, <1>2 DEF StartRenew, EndWork, Labels, TypeOK
<1>4. pc'[c] = label /\ request'[c] = b /\ response'[c] = NULL
  BY <1>1, <1>3, GotoTyped
<1>5. ClientOK(f, c)'
  <2>1. StageOK(c)'
    BY <1>1, <1>3, <1>4, RecordsAssumption DEF ClientOK, StageOK, Awaits, Body
  <2>2. MintedFor(f, c)'
    BY <1>1, <1>3, <1>4 DEF ClientOK, MintedFor, Offered, Carries, authorityVars
  <2>3. BelievedBy(c)'
    BY <1>1, <1>3, <1>4 DEF ClientOK, BelievedBy, Backed, Dated, authorityVars
  <2>4. FreshFor(c)'
    BY <1>3, <1>4 DEF FreshFor
  <2> QED BY <2>1, <2>2, <2>3, <2>4 DEF ClientOK
<1>6. Exposed(c)' /\ NotResumed(c)
  BY <1>1, <1>3, <1>4 DEF Exposed, NotResumed
<1> QED BY <1>1, <1>3, <1>5, <1>6, GotoKeeps DEF TypeOK

\* A renewal is answered, or its call fails; work goes on.
LEMMA RenewEndsKeeps ==
  ASSUME NEW f \in Minters, Core(f), NEW c \in Clients, pc[c] = "renew", NEW label \in {"held", "lost"},
         Goto(c, label, NULL),
         \/ grant' = grant
         \/ Dated(c) /\ grant' = [grant EXCEPT ![c].expires = response[c].grant.expires],
         orphans' \subseteq Bodies, \A o \in orphans' : o \in orphans \/ OrphanOK(f, o)',
         UNCHANGED <<authorityVars, rid, timerVars, workOk, writes, storeVars, mints, rivalry>>
  PROVE  Core(f)'
<1> USE DEF timerVars
<1>1. TypeOK /\ ClientOK(f, c) /\ StageOK(c) /\ grant[c] \in Grants /\ label \in Labels
  BY DEF Core, ClientOK, StageOK, TypeOK, Labels
<1>2. pc'[c] = label /\ request'[c] = NULL /\ response'[c] = NULL
  BY <1>1, GotoTyped
<1>3. Dated(c) => response[c].grant.token = grant[c].token /\ response[c].grant.expires \in Nat
  BY <1>1, GrantsTyped
<1>4. PICK e \in Nat : /\ grant' = [grant EXCEPT ![c].expires = e]
                       /\ Backed(c, grant[c].token, e)
  <2>1. CASE grant' = grant
    <3>1. grant[c].expires \in Nat /\ Backed(c, grant[c].token, grant[c].expires)
      BY <1>1 DEF ClientOK, BelievedBy, Grants
    <3>2. grant = [grant EXCEPT ![c].expires = grant[c].expires]
      <4>1. grant[c] = [grant[c] EXCEPT !.expires = grant[c].expires]
        BY <1>1 DEF Grants
      <4> QED BY <1>1, <4>1 DEF TypeOK
    <3> QED BY <2>1, <3>1, <3>2
  <2>2. CASE Dated(c) /\ grant' = [grant EXCEPT ![c].expires = response[c].grant.expires]
    BY <1>1, <1>3, <2>2 DEF ClientOK, BelievedBy
  <2> QED BY <2>1, <2>2
<1>5. /\ [grant[c] EXCEPT !.expires = e] \in Grants
      /\ [grant[c] EXCEPT !.expires = e].token = grant[c].token
      /\ [grant[c] EXCEPT !.expires = e].nth = grant[c].nth
      /\ [grant[c] EXCEPT !.expires = e].expires = e
  BY <1>1 DEF Grants
<1>6. /\ grant' \in [Clients -> Grants \cup {NULL}] /\ grant'[c] \in Grants
      /\ grant'[c].token = grant[c].token /\ grant'[c].nth = grant[c].nth /\ grant'[c].expires = e
      /\ \A d \in Clients : d # c => grant'[d] = grant[d]
  BY <1>1, <1>4, <1>5 DEF TypeOK
<1>7. ClientOK(f, c)'
  <2>1. StageOK(c)'
    BY <1>2, <1>6, RecordsAssumption DEF StageOK
  <2>2. MintedFor(f, c)'
    BY <1>1, <1>2, <1>6, RecordsAssumption DEF ClientOK, MintedFor, Offered, Carries, authorityVars
  <2>3. BelievedBy(c)'
    BY <1>2, <1>4, <1>6 DEF BelievedBy, Backed, Dated, authorityVars
  <2>4. FreshFor(c)'
    BY <1>2 DEF FreshFor
  <2> QED BY <2>1, <2>2, <2>3, <2>4 DEF ClientOK
<1>8. Exposed(c)' /\ NotResumed(c)
  BY <1>2 DEF Exposed, NotResumed
<1> QED BY <1>1, <1>6, <1>7, <1>8, GotoKeeps DEF TypeOK

LEMMA RenewedKeeps ==
  ASSUME NEW f \in Minters, Core(f), NEW c \in Clients, Renewed(c) \/ RenewalRefused(c)
  PROVE  Core(f)'
<1>1. pc[c] = "renew" /\ orphans' = orphans /\ orphans \subseteq Bodies
  BY DEF Renewed, RenewalRefused, Answered, Core, TypeOK
<1>2. CASE Renewed(c)
  BY <1>1, <1>2, RenewEndsKeeps DEF Renewed, Answered, Dated
<1>3. CASE RenewalRefused(c)
  BY <1>1, <1>3, RenewEndsKeeps DEF RenewalRefused
<1> QED BY <1>2, <1>3

LEMMA AcquireThrowsKeeps ==
  ASSUME NEW f \in Minters, Core(f), NEW c \in Clients, AcquireThrows(c)
  PROVE  Core(f)'
BY EndKeeps DEF AcquireThrows, Answered, Core, TypeOK

LEMMA SettledKeeps ==
  ASSUME NEW f \in Minters, Core(f), NEW c \in Clients, Settled(c)
  PROVE  Core(f)'
<1>1. PICK ok \in BOOLEAN : ok = (response[c].kind = "released" /\ workOk[c])
  OBVIOUS
<1> QED BY <1>1, EndKeeps DEF Settled, Released, Answered, Core, TypeOK

\* A call given up becomes an orphan; an orphaned release is one whose caller
\* has ended.
LEMMA AbandonedOK ==
  ASSUME NEW f \in Minters, Core(f), NEW c \in Clients, orphans' = Abandoned(c), UNCHANGED <<authorityVars, rid>>,
         pc[c] = "release" => pc'[c] = "idle"
  PROVE  orphans' \subseteq Bodies /\ \A o \in orphans' : o \in orphans \/ OrphanOK(f, o)'
<1>1. TypeOK /\ ClientOK(f, c) /\ StageOK(c)
  BY DEF Core, ClientOK
<1>2. orphans' \subseteq Bodies
  BY <1>1 DEF Abandoned, TypeOK
<1>3. ASSUME NEW o \in orphans', o \notin orphans PROVE OrphanOK(f, o)'
  <2>1. o = request[c] /\ request[c] # NULL /\ Awaits(c)
    BY <1>1, <1>3 DEF Abandoned, StageOK
  <2>2. o.op = "acquire" => o.request \in 1..MaxRequest
    BY <1>1, <2>1 DEF Awaits, StageOK
  <2>3. o.op = "release" => pc'[c] = "idle" /\ o.token = grant[c].token /\ o.holder = c /\ grant[c] # NULL
    BY <1>1, <2>1 DEF Awaits, StageOK
  <2>4. o.op = "release" => o.token \in Tokens /\ o.token <= next_token /\ f[o.token] = Owner(c, rid[c])
    BY <1>1, <2>3, GrantsTyped DEF ClientOK, MintedFor, Carries
  <2> QED BY <2>2, <2>3, <2>4 DEF OrphanOK, Retired, Owner, authorityVars
<1> QED BY <1>2, <1>3

LEMMA TransportFailsKeeps ==
  ASSUME NEW f \in Minters, Core(f), NEW c \in Clients, TransportFails(c)
  PROVE  Core(f)'
<1>1. TypeOK /\ UNCHANGED <<authorityVars, rid>> /\ orphans' = Abandoned(c)
  BY DEF TransportFails, End, Core
<1>2. CASE pc[c] = "renew"
  <2>1. orphans' \subseteq Bodies /\ \A o \in orphans' : o \in orphans \/ OrphanOK(f, o)'
    BY <1>1, <1>2, AbandonedOK
  <2> QED BY <1>2, <2>1, RenewEndsKeeps DEF TransportFails
<1>3. CASE pc[c] \in {"acquire", "replay"} /\ End(c, "retry", FALSE)
  <2>1. orphans' \subseteq Bodies /\ \A o \in orphans' : o \in orphans \/ OrphanOK(f, o)'
    BY <1>1, <1>3, AbandonedOK
  <2> QED BY <1>3, <2>1, EndKeeps
<1>4. CASE pc[c] = "release" /\ End(c, "idle", FALSE)
  <2>1. pc'[c] = "idle"
    BY <1>1, <1>4, GotoTyped DEF End, Labels
  <2>2. orphans' \subseteq Bodies /\ \A o \in orphans' : o \in orphans \/ OrphanOK(f, o)'
    BY <1>1, <1>4, <2>1, AbandonedOK
  <2> QED BY <1>4, <2>2, EndKeeps
<1> QED BY <1>2, <1>3, <1>4 DEF TransportFails

LEMMA CrashKeeps ==
  ASSUME NEW f \in Minters, Core(f), NEW c \in Clients, Crash(c)
  PROVE  Core(f)'
<1>1. PICK label \in {"idle", "retry"} : label = (IF pc[c] = "release" THEN "idle" ELSE "retry")
  OBVIOUS
<1>2. TypeOK /\ End(c, label, FALSE) /\ UNCHANGED <<authorityVars, rid>> /\ orphans' = Abandoned(c) /\ pc[c] # "idle"
  BY <1>1 DEF Crash, End, Core
<1>3. pc'[c] = label
  BY <1>1, <1>2, GotoTyped DEF End, Labels
<1>4. orphans' \subseteq Bodies /\ \A o \in orphans' : o \in orphans \/ OrphanOK(f, o)'
  BY <1>1, <1>2, <1>3, AbandonedOK
<1> QED BY <1>1, <1>2, <1>4, EndKeeps

-----------------------------------------------------------------------------
(* Fenced writes, and the invariant.                                       *)

\* What leaves the authority and the clients alone leaves all but Written.
LEMMA Untouched ==
  ASSUME NEW f \in Minters, Core(f), UNCHANGED <<authorityVars, clientVars, orphans, mints, rivalry>>, TypeOK', Written'
  PROVE  Core(f)'
<1> USE DEF authorityVars, clientVars, timerVars, rivalry
<1>1. RowOK' /\ RowMinted(f)'
  BY DEF Core, RowOK, ActiveLeaseIsNewest, RowMinted
<1>2. ASSUME NEW d \in Clients PROVE ClientOK(f, d)'
  <2>1. ClientOK(f, d)
    BY DEF Core
  <2>2. StageOK(d)' /\ MintedFor(f, d)'
    BY <2>1 DEF ClientOK, StageOK, Awaits, Received, MintedFor, Offered, Carries
  <2>3. BelievedBy(d)' /\ FreshFor(d)'
    BY <2>1 DEF ClientOK, BelievedBy, Backed, FreshFor, Dated
  <2> QED BY <2>2, <2>3 DEF ClientOK
<1>3. (\A o \in orphans : OrphanOK(f, o))'
  BY DEF Core, OrphanOK, Retired
<1>4. Rivalry'
  BY DEF Core, Rivalry, Exposed, Released, Answered
<1> QED BY <1>1, <1>2, <1>3, <1>4 DEF Core

LEMMA SendWriteKeeps ==
  ASSUME NEW f \in Minters, Core(f), NEW c \in Clients, NEW p \in Payloads, SendWrite(c, p)
  PROVE  Core(f)'
<1>1. TypeOK /\ RowOK /\ ClientOK(f, c) /\ grant[c] \in Grants /\ grant[c] # NULL
  BY DEF SendWrite, Core, ClientOK, StageOK, TypeOK
<1>2. grant[c].nth = grant[c].token /\ grant[c].nth <= mints /\ grant[c].nth \in Nat /\ grant[c].token \in Tokens
  BY <1>1 DEF ClientOK, MintedFor, Carries, RowOK, Grants
<1>3. PICK w : /\ w = [write |-> [fencingToken |-> grant[c].token, operationId |-> c, payloadSha256 |-> p], nth |-> grant[c].nth]
               /\ writes' = writes \cup {w}
  BY DEF SendWrite
<1>4. w \in [write : Store!FencedWrites, nth : Nat] /\ w.nth = w.write.fencingToken /\ w.nth <= mints
  BY <1>2, <1>3 DEF Store!FencedWrites
<1>5. UNCHANGED <<authorityVars, clientVars, orphans, storeVars, mints, rivalry>>
  BY DEF SendWrite
<1>6. TypeOK'
  BY <1>1, <1>3, <1>4, <1>5 DEF TypeOK, AuthorityTypeOK, authorityVars, clientVars, timerVars, storeVars, rivalry
<1>7. Written'
  BY <1>3, <1>4, <1>5 DEF Core, Written, storeVars
<1> QED BY <1>5, <1>6, <1>7, Untouched

\* A fenced write arrives, for the first time or again, early or late.
LEMMA DeliverWriteKeeps ==
  ASSUME NEW f \in Minters, Core(f), NEW w \in writes, DeliverWrite(w)
  PROVE  Core(f)' /\ (accepted' # accepted => accepted' > accepted)
<1>1. TypeOK /\ Written
  BY DEF Core
<1>2. UNCHANGED <<authorityVars, clientVars, orphans, writes, mints, rivalry>>
  BY DEF DeliverWrite
<1>3. w.write \in Store!FencedWrites /\ w.nth \in Nat /\ w.nth = w.write.fencingToken /\ w.nth <= mints
  BY <1>1 DEF TypeOK, Written
<1>4. w.write.fencingToken \in Tokens /\ w.write.payloadSha256 \in Payloads /\ w.nth > 0 /\ mints \in Nat /\ accepted \in Nat
  BY <1>1, <1>3 DEF Store!FencedWrites, Tokens, TypeOK
<1>5. watermark # Malformed /\ watermark \in Store!FencedWrites \cup {NULL}
  BY <1>1, RecordsAssumption DEF TypeOK
<1>6. CASE Store!evaluateFence(watermark, w.write) = "advanced"
  <2>1. watermark' = w.write /\ state' = w.write.payloadSha256 /\ accepted' = w.nth
    BY <1>5, <1>6 DEF DeliverWrite, Store!FencedWrite
  <2>2. watermark = NULL \/ w.write.fencingToken > watermark.fencingToken
    BY <1>6 DEF Store!evaluateFence
  <2>3. accepted' > accepted
    BY <1>1, <1>3, <1>4, <2>1, <2>2 DEF Written
  <2>4. TypeOK'
    BY <1>1, <1>2, <1>3, <1>4, <2>1
    DEF TypeOK, AuthorityTypeOK, authorityVars, clientVars, timerVars, rivalry
  <2>5. Written'
    BY <1>1, <1>2, <1>3, <2>1, RecordsAssumption DEF Written
  <2> QED BY <1>2, <2>3, <2>4, <2>5, Untouched
<1>7. CASE Store!evaluateFence(watermark, w.write) # "advanced"
  <2>1. UNCHANGED <<watermark, state, accepted>>
    BY <1>7 DEF DeliverWrite, Store!FencedWrite, Store!storeVars
  <2>2. TypeOK' /\ Written'
    BY <1>1, <1>2, <2>1
    DEF TypeOK, Written, AuthorityTypeOK, authorityVars, clientVars, timerVars, rivalry
  <2> QED BY <1>2, <2>1, <2>2, Untouched
<1> QED BY <1>6, <1>7

LEMMA InitHolds ==
  ASSUME Init
  PROVE  IInv
<1> USE NumbersAssumption, HoldersAssumption, NullAssumption, TimingAssumption DEF Init, AuthorityInit
<1>1. TypeOK
  BY DEF TypeOK, AuthorityTypeOK
<1>2. RowOK /\ Rivalry /\ Written
  BY DEF RowOK, ActiveLeaseIsNewest, Rivalry, Written
<1>3. PICK f \in Minters : TRUE
  <2>1. [t \in Tokens |-> Owner(NULL, 0)] \in Minters
    BY DEF Minters, Owner
  <2> QED BY <2>1
<1>4. RowMinted(f) /\ \A o \in orphans : OrphanOK(f, o)
  BY DEF RowMinted
<1>5. \A c \in Clients : ClientOK(f, c)
  BY DEF ClientOK, StageOK, MintedFor, Offered, BelievedBy, Dated, FreshFor
<1> QED BY <1>1, <1>2, <1>4, <1>5 DEF IInv, Core

LEMMA ClientStepKeeps ==
  ASSUME NEW f \in Minters, Core(f), NEW c \in Clients, ClientStep(c) \/ TransportFails(c) \/ Crash(c)
  PROVE  Core(f)'
BY StartAcquireKeeps, GrantedKeeps, ReplayedKeeps, ReplayRenewedKeeps, AcquireThrowsKeeps, SleepKeeps, WakeKeeps,
   SendWriteKeeps, SendsTokenBound, RenewedKeeps, SettledKeeps, TransportFailsKeeps, CrashKeeps
DEF ClientStep

LEMMA StepKeeps ==
  ASSUME IInv, [Next]_vars
  PROVE  IInv'
<1>1. PICK f \in Minters : Core(f)
  BY DEF IInv
<1>2. ASSUME NEW c \in Clients, ServeCall(c) PROVE IInv'
  BY <1>1, <1>2, ServeCallKeeps
<1>3. ASSUME NEW b \in orphans, ServeOrphan(b) PROVE IInv'
  BY <1>1, <1>3, ServeOrphanKeeps
<1>4. ASSUME NEW c \in Clients, ClientStep(c) \/ TransportFails(c) \/ Crash(c) PROVE Core(f)'
  BY <1>1, <1>4, ClientStepKeeps
<1>5. ASSUME NEW w \in writes, DeliverWrite(w) PROVE Core(f)'
  BY <1>1, <1>5, DeliverWriteKeeps
<1>6. ASSUME AuthorityAlone PROVE Core(f)'
  BY <1>1, <1>6, AuthorityAloneKeeps
<1>7. ASSUME UNCHANGED vars PROVE Core(f)'
  <2>1. TypeOK' /\ Written'
    BY <1>1, <1>7
    DEF Core, TypeOK, Written, AuthorityTypeOK, vars, authorityVars, clientVars, timerVars, storeVars, rivalry
  <2> QED BY <1>1, <1>7, <2>1, Untouched DEF vars
<1> QED BY <1>2, <1>3, <1>4, <1>5, <1>6, <1>7 DEF Next, IInv

\* Minters, grants, beliefs, overlaps and fenced writes are as described, in
\* every run of any clients.
THEOREM ManagedInvariant == Spec => []IInv
BY InitHolds, StepKeeps, PTL DEF Spec

\* While work runs under a grant whose leaseExpiresMs has not passed, the
\* authority keeps that very lease: no late, orphaned, repeated or reordered
\* call, no crash and no alarm takes it away (lease.ts withLease over
\* cloudflare-do.ts and durable-object.ts).
THEOREM ManagedBelief == Spec => []BeliefInv
<1>1. ASSUME IInv PROVE BeliefInv
  <2>1. PICK f \in Minters : Core(f)
    BY <1>1 DEF IInv
  <2> QED BY <2>1 DEF Core, ClientOK, BelievedBy, Backed, BeliefInv, BeliefIsAuthority, Believes, Working
<1> QED BY <1>1, ManagedInvariant, PTL

\* Of two withLease calls that overlapped, at most one reports success: the
\* boolean of release() tells the loser (lease.ts settle).
THEOREM ManagedExclusive == Spec => []SuccessesExclusive
<1>1. ASSUME IInv PROVE SuccessesExclusive
  BY <1>1 DEF IInv, Core, Rivalry, SuccessesExclusive, Released
<1> QED BY <1>1, ManagedInvariant, PTL

\* A grant handed to work is good for a full TTL from a moment of its own
\* acquire call, also when the grant was replayed (cloudflare-do.ts acquire).
THEOREM ManagedFresh == Spec => FreshWhenExposed
<1> DEFINE A == \A c \in Clients :
                  (pc[c] \in {"acquire", "replay"} /\ pc'[c] = "held") => grant'[c].expires >= started[c] + Ttl
<1>1. ASSUME IInv, [Next]_vars PROVE [A]_vars
  <2> SUFFICES ASSUME Next, NEW c \in Clients, pc[c] \in {"acquire", "replay"}, pc'[c] = "held"
               PROVE  grant'[c].expires >= started[c] + Ttl
    BY <1>1
  <2>1. PICK f \in Minters : Core(f)
    BY <1>1 DEF IInv
  <2>2. TypeOK /\ ClientOK(f, c)
    BY <2>1 DEF Core
  <2>3. Granted(c) \/ ReplayRenewed(c)
    <3>1. pc' # pc
      OBVIOUS
    <3>2. PICK d \in Clients : ClientStep(d) \/ TransportFails(d) \/ Crash(d)
      BY <3>1 DEF Next, ServeCall, ServeOrphan, DeliverWrite, AuthorityAlone, clientVars
    <3>3. pc \in [Clients -> Labels]
      BY <2>2 DEF TypeOK, Labels
    <3>4. CASE ClientStep(d)
      BY <3>1, <3>3, <3>4
      DEF ClientStep, StartAcquire, Granted, Replayed, ReplayRenewed, AcquireThrows, Sleep, Wake, SendWrite, StartRenew,
          Renewed, RenewalRefused, EndWork, Settled, Answered, Expose, End, Goto, clientVars
    <3>5. CASE TransportFails(d) \/ Crash(d)
      BY <3>3, <3>5 DEF TransportFails, Crash, End, Goto
    <3> QED BY <3>2, <3>4, <3>5
  <2>4. CASE Granted(c)
    <3>1. Dated(c) /\ response[c].kind # "replayed" /\ grant'[c] = response[c].grant
      BY <2>2, <2>4 DEF Granted, Answered, Dated, Expose, TypeOK
    <3> QED BY <2>2, <3>1 DEF ClientOK, FreshFor
  <2>5. CASE ReplayRenewed(c)
    <3>1. Dated(c) /\ response[c].kind # "replayed" /\ grant[c] \in Grants
      BY <2>2, <2>5 DEF ReplayRenewed, Answered, Dated, TypeOK, ClientOK, StageOK
    <3>2. grant'[c].expires = response[c].grant.expires
      BY <2>2, <2>5, <3>1 DEF ReplayRenewed, Expose, TypeOK, Grants
    <3> QED BY <2>2, <3>1, <3>2 DEF ClientOK, FreshFor
  <2> QED BY <2>3, <2>4, <2>5
<1> QED BY <1>1, ManagedInvariant, PTL DEF Spec, FreshWhenExposed

\* The datastore accepts writes in the order of their grants: a paused holder
\* cannot overwrite what a newer one wrote (fence.ts, fencing.sql).
THEOREM ManagedWritesOrdered == Spec => AcceptedInGrantOrder
<1>1. ASSUME IInv, [Next]_vars PROVE [accepted' # accepted => accepted' > accepted]_vars
  <2> SUFFICES ASSUME Next, accepted' # accepted PROVE accepted' > accepted
    BY <1>1
  <2>1. PICK f \in Minters : Core(f)
    BY <1>1 DEF IInv
  <2>2. PICK w \in writes : DeliverWrite(w)
    BY DEF Next, ServeCall, ServeOrphan, AuthorityAlone, ClientStep, TransportFails, Crash, StartAcquire, Granted, Replayed,
           ReplayRenewed, AcquireThrows, Sleep, Wake, SendWrite, StartRenew, Renewed, RenewalRefused, EndWork, Settled,
           Expose, End, storeVars
  <2> QED BY <2>1, <2>2, DeliverWriteKeeps
<1> QED BY <1>1, ManagedInvariant, PTL DEF Spec, AcceptedInGrantOrder
=============================================================================
