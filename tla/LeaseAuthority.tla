--------------------------- MODULE LeaseAuthority ---------------------------
(***************************************************************************)
(* The Durable Object lease authority of managed/cloudflare-do: one row of *)
(* SQLite storage per lock key, the alarm the platform keeps for the       *)
(* object, and the wall clock the handlers read.  Each handler runs one    *)
(* synchronous transaction and issues its setAlarm/deleteAlarm in the same *)
(* turn, so each handler is one action.                                    *)
(*                                                                         *)
(* The five columns of lease_state are five variables, NULL as in SQL.     *)
(***************************************************************************)
EXTENDS Integers

CONSTANTS
    Holders,    \* holder identities
    RequestIds, \* logical acquisition identities (request_id)
    Ttls,       \* the ttl_ms values callers pass, valid or not
    MaxTtl,     \* MAX_TTL_MS
    MaxMinted,  \* MAX_MINTED_FENCING_TOKEN
    Horizon,    \* bound: no lease outlives it and the clock stops there
    NULL

ASSUME HoldersAssumption == NULL \notin Holders /\ NULL \notin RequestIds
ASSUME NumbersAssumption ==
    /\ Ttls \subseteq Nat /\ MaxTtl \in Nat
    /\ MaxMinted \in Nat /\ Horizon \in Nat
ASSUME NullAssumption == NULL \notin Nat

VARIABLES
    holder, token, expires_ms, next_token, request_id, \* the row
    alarm,  \* when the platform will call alarm(), or NULL
    now     \* Date.now()

lease == <<holder, token, expires_ms, request_id>>
authorityVars == <<holder, token, expires_ms, next_token, request_id, alarm, now>>

Tokens == 1..MaxMinted

AuthorityInit ==
    /\ holder = NULL /\ token = NULL /\ expires_ms = NULL /\ request_id = NULL
    /\ next_token = 0
    /\ alarm = NULL
    /\ now = 0

-----------------------------------------------------------------------------
(* What a handler reads.                                                   *)

ValidTtl(ttl) == ttl > 0 /\ ttl <= MaxTtl

Live == holder # NULL /\ expires_ms # NULL /\ expires_ms > now

Expired == expires_ms # NULL /\ expires_ms <= now

\* Mutant: request ids are not compared.
ReplaysAnyRequest(h, r) == Live /\ holder = h

\* An active lease is replayed to its own holder, unless both sides name a
\* request and the names differ.
Replays(h, r) ==
    /\ Live
    /\ holder = h
    /\ (r # NULL /\ request_id # NULL) => r = request_id

\* Mutant: renewal forgets to check the expiry.
OwnsEvenExpired(h, t) == holder = h /\ token = t

Owns(h, t) == holder = h /\ token = t /\ expires_ms # NULL /\ expires_ms > now

\* Bound of the model: grants that outlive the horizon are not explored.
InHorizon(ttl) == now + ttl <= Horizon

\* Mutant: the UPDATE leaves the token column.
clearLeaseKeepsToken ==
    /\ holder' = NULL
    /\ expires_ms' = NULL
    /\ request_id' = NULL
    /\ UNCHANGED token

clearLease ==
    /\ holder' = NULL
    /\ token' = NULL
    /\ expires_ms' = NULL
    /\ request_id' = NULL

-----------------------------------------------------------------------------
(* acquire                                                                 *)

AcquireRejected(ttl) ==
    /\ ~ValidTtl(ttl)
    /\ UNCHANGED <<lease, next_token, alarm>>

AcquireRefused(h, r) ==
    /\ Live
    /\ ~Replays(h, r)
    /\ UNCHANGED <<lease, next_token, alarm>>

AcquireReplayed(h, r) ==
    /\ Replays(h, r)
    /\ request_id' = IF request_id = NULL THEN r ELSE request_id
    /\ alarm' = expires_ms
    /\ UNCHANGED <<holder, token, expires_ms, next_token>>

\* nextToken() throws inside the transaction; that this undoes clearLease() is
\* what transactionSync gives.  (It also throws for a counter that is no
\* decimal, which no write of this code leaves there.)
AcquireExhausted ==
    /\ ~Live
    /\ next_token + 1 > MaxMinted
    /\ UNCHANGED <<lease, next_token, alarm>>

\* Mutant: the minting ceiling is not enforced.
AcquireGrantedPastCeiling(h, r, ttl) ==
    /\ ~Live
    /\ InHorizon(ttl)
    /\ holder' = h
    /\ token' = next_token + 1
    /\ expires_ms' = now + ttl
    /\ next_token' = next_token + 1
    /\ request_id' = r
    /\ alarm' = now + ttl

AcquireGranted(h, r, ttl) ==
    /\ ~Live
    /\ next_token + 1 <= MaxMinted
    /\ InHorizon(ttl)
    /\ holder' = h
    /\ token' = next_token + 1
    /\ expires_ms' = now + ttl
    /\ next_token' = next_token + 1
    /\ request_id' = r
    /\ alarm' = now + ttl

Acquire(h, r, ttl) ==
    /\ \/ AcquireRejected(ttl)
       \/ /\ ValidTtl(ttl)
          /\ \/ AcquireRefused(h, r)
             \/ AcquireReplayed(h, r)
             \/ AcquireExhausted
             \/ AcquireGranted(h, r, ttl)
    /\ UNCHANGED now

-----------------------------------------------------------------------------
(* renew, release, alarm                                                   *)

Renew(h, t, ttl) ==
    /\ \/ /\ ~ValidTtl(ttl)
          /\ UNCHANGED <<lease, alarm>>
       \/ /\ ValidTtl(ttl)
          /\ Owns(h, t)
          /\ InHorizon(ttl)
          /\ expires_ms' = now + ttl
          /\ alarm' = now + ttl
          /\ UNCHANGED <<holder, token, request_id>>
       \/ /\ ValidTtl(ttl)
          /\ ~Owns(h, t)
          /\ IF Expired THEN clearLease ELSE UNCHANGED lease
          /\ UNCHANGED alarm
    /\ UNCHANGED <<next_token, now>>

\* Mutant: deleteAlarm() also after a release that matched nothing.
ReleaseAlwaysDeletesAlarm(h, t) ==
    /\ IF Expired \/ (holder = h /\ token = t) THEN clearLease ELSE UNCHANGED lease
    /\ alarm' = NULL
    /\ UNCHANGED <<next_token, now>>

Release(h, t) ==
    /\ \/ /\ Expired
          /\ clearLease
          /\ alarm' = NULL
       \/ /\ ~Expired
          /\ holder = h /\ token = t
          /\ clearLease
          /\ alarm' = NULL
       \/ /\ ~Expired
          /\ ~(holder = h /\ token = t)
          /\ UNCHANGED <<lease, alarm>>
    /\ UNCHANGED <<next_token, now>>

\* The platform forgets a due alarm when it invokes the handler; a repeated
\* invocation (alarms are delivered at least once) leaves the pending one.
\* `kept` is what stays scheduled unless the handler sets a new alarm.
AlarmHandler(kept) ==
    /\ \/ /\ expires_ms = NULL
          /\ alarm' = kept
          /\ UNCHANGED lease
       \/ /\ Expired
          /\ clearLease
          /\ alarm' = kept
       \/ /\ expires_ms # NULL /\ ~Expired
          /\ alarm' = expires_ms
          /\ UNCHANGED lease
    /\ UNCHANGED <<next_token, now>>

AlarmDue == alarm # NULL /\ alarm <= now /\ AlarmHandler(NULL)

AlarmRepeated == AlarmHandler(alarm)

Tick ==
    /\ now < Horizon
    /\ now' = now + 1
    /\ UNCHANGED <<lease, next_token, alarm>>

-----------------------------------------------------------------------------
(* The authority against every possible caller.                            *)

AuthorityNext ==
    \/ \E h \in Holders, r \in RequestIds \cup {NULL}, ttl \in Ttls : Acquire(h, r, ttl)
    \/ \E h \in Holders, t \in Tokens, ttl \in Ttls : Renew(h, t, ttl)
    \/ \E h \in Holders, t \in Tokens : Release(h, t)
    \/ AlarmDue
    \/ AlarmRepeated
    \/ Tick

\* The clock advances and the platform delivers a due alarm; no caller is
\* assumed to do anything.
AuthorityFairness == WF_authorityVars(AlarmDue) /\ WF_authorityVars(Tick)

AuthoritySpec == AuthorityInit /\ [][AuthorityNext]_authorityVars /\ AuthorityFairness

-----------------------------------------------------------------------------
(* Properties.                                                             *)

AuthorityTypeOK ==
    /\ holder \in Holders \cup {NULL}
    /\ token \in Tokens \cup {NULL}
    /\ expires_ms \in Nat \cup {NULL}
    /\ next_token \in 0..MaxMinted
    /\ request_id \in RequestIds \cup {NULL}
    /\ alarm \in Nat \cup {NULL}
    /\ now \in 0..Horizon

\* The active lease carries the newest token ever minted, and a cleared row
\* keeps no part of the old lease.
ActiveLeaseIsNewest ==
    /\ token # NULL => token = next_token
    /\ holder = NULL => token = NULL /\ expires_ms = NULL /\ request_id = NULL
    /\ holder # NULL => token # NULL /\ expires_ms # NULL

\* A token that was released, expired or superseded never becomes active again:
\* the active token stays, is cleared, or becomes one larger than every token
\* minted before (release and expiry keep the counter).
TokenNeverReturns ==
    [][token' \in {token, NULL} \/ (next_token < token' /\ token' = next_token')]_authorityVars

\* A lease is never handed to another holder, nor given a new token, before it
\* expires: until then the row keeps it or is cleared.
LiveLeaseNotStolen ==
    [][(holder # NULL /\ now < expires_ms) =>
          (holder' = holder /\ token' = token) \/ holder' = NULL]_authorityVars

\* Nothing revives an expired lease: replays, renewals and alarms, however late
\* or repeated, leave its expiry alone.
ExpiredStaysDead ==
    [][(Expired /\ token' = token) => expires_ms' = expires_ms]_authorityVars

\* The row of a lease nobody releases is cleared without any caller's help:
\* as long as a lease is stored, the alarm that will clear it is scheduled.
AbandonedLeaseCleared == holder # NULL ~> holder = NULL

\* What callers may rely on: as long as a row has not run out it is the one
\* active grant; the passing of time, a release and the alarm all look alike.
Abs == INSTANCE AbstractLease WITH
    Owners <- Holders,
    owner  <- IF Live THEN holder ELSE NULL,
    active <- IF Live THEN token ELSE NULL,
    minted <- next_token

\* The Durable Object implements the lease every caller is written against.
ImplementsLease == Abs!LeaseSpec
=============================================================================
