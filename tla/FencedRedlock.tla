---------------------------- MODULE FencedRedlock ---------------------------
(***************************************************************************)
(* FencedRedlockLease (redlock.ts): a Redlock quorum lock whose fencing    *)
(* token comes from a separate authority (token-authority.sql).  The lock  *)
(* is taken first, the token minted second, and the validity of the lock   *)
(* is looked at again after the token has come.  The Redis nodes and the   *)
(* Redlock library are external: a call sets, extends or deletes the key   *)
(* on some nodes, and may throw although it did.                           *)
(***************************************************************************)
EXTENDS Integers, FiniteSets

CONSTANTS
    Clients, Nodes,
    Ttl, RetryInterval, WaitTimeout, \* opts
    MaxToken,  \* the largest token the authority can mint
    MaxAttempt,\* bound: redlock.acquire calls per client
    Horizon,   \* bound: time stops there
    None       \* no key, no token

VARIABLES
    key,     \* per node: the attempt that set the key and until when, or None
    counter, \* the last token minted
    now,
    client,  \* per client: where it is, until when it may rely on its handle, its token
    newest   \* history: the largest token of a grant that was returned

vars == <<key, counter, now, client, newest>>

\* A key as a node keeps it.
Keys == [owner : Clients, nth : Nat, until : Nat]

\* acquire rejects other options.
ASSUME RedlockAssumption ==
    /\ IsFiniteSet(Nodes) /\ Ttl \in Nat /\ RetryInterval \in Nat /\ WaitTimeout \in Nat
    /\ None \notin Keys /\ None \notin Nat

Quorum == {S \in SUBSET Nodes : 2 * Cardinality(S) > Cardinality(Nodes)}

Free(n) == key[n] # None => key[n].until <= now

\* Every redlock.acquire has a random value of its own, and its handle
\* extends or frees the keys with that value only.
Own(n, c) == key[n] # None => (key[n].owner = c /\ key[n].nth = client[c].nth)

Set(S, c) == [n \in Nodes |-> IF n \in S THEN [owner |-> c, nth |-> client[c].nth, until |-> now + Ttl] ELSE key[n]]

Cleared(S, c) == [n \in Nodes |-> IF n \in S /\ Own(n, c) THEN None ELSE key[n]]

At(pc, n) == [pc |-> pc, began |-> 0, started |-> 0, expiration |-> 0, token |-> None, wakeAt |-> 0, nth |-> n]

Becomes(c, k) == client' = [client EXCEPT ![c] = k]

validExpiration(e) == e > now

-----------------------------------------------------------------------------
(* acquire                                                                 *)

Start(c) ==
    /\ client[c].pc = "idle" /\ client[c].nth < MaxAttempt
    /\ Becomes(c, [At("locking", client[c].nth + 1) EXCEPT !.began = now, !.started = now])
    /\ UNCHANGED <<key, counter, now, newest>>

\* External: the keys are set some time after the call; validity counts from
\* the call.
QuorumAcquired(c) ==
    /\ client[c].pc = "locking" /\ now + Ttl <= Horizon
    /\ \E S \in Quorum :
        /\ \A n \in S : Free(n)
        /\ key' = Set(S, c)
    /\ Becomes(c, [client[c] EXCEPT !.pc = "locked", !.expiration = client[c].began + Ttl])
    /\ UNCHANGED <<counter, now, newest>>

\* redlock.acquire rejects, having left its key on any of the free nodes.
\* Contention is retried within the budget, when the caller waits at all.
QuorumRefused(c) ==
    LET k == client[c]
        remaining == WaitTimeout - (now - k.started)
    IN  /\ k.pc = "locking" /\ now + Ttl <= Horizon
        /\ \E S \in SUBSET {n \in Nodes : Free(n)} : key' = Set(S, c)
        /\ \/ Becomes(c, At("idle", k.nth))
           \/ /\ remaining > 0
              /\ Becomes(c, [k EXCEPT !.pc = "sleeping",
                     !.wakeAt = now + IF RetryInterval < remaining THEN RetryInterval ELSE remaining])
        /\ UNCHANGED <<counter, now, newest>>

Wake(c) ==
    /\ client[c].pc = "sleeping" /\ client[c].wakeAt <= now /\ client[c].nth < MaxAttempt
    /\ Becomes(c, [client[c] EXCEPT !.pc = "locking", !.began = now, !.nth = @ + 1, !.wakeAt = 0])
    /\ UNCHANGED <<key, counter, now, newest>>

\* Each ends without a grant; releaseBestEffort reaches any of the nodes.
GiveUp(c) ==
    /\ \E S \in SUBSET Nodes : key' = Cleared(S, c)
    /\ Becomes(c, At("idle", client[c].nth))
    /\ UNCHANGED <<counter, now, newest>>

Locked(c) ==
    /\ client[c].pc = "locked"
    /\ \/ ~validExpiration(client[c].expiration) /\ GiveUp(c)
       \/ /\ validExpiration(client[c].expiration)
          /\ Becomes(c, [client[c] EXCEPT !.pc = "minting"])
          /\ UNCHANGED <<key, counter, now, newest>>

\* next_fencing_token: one UPSERT.  The answer travels back.
Mint(c) ==
    /\ client[c].pc = "minting" /\ client[c].token = None
    /\ counter < MaxToken
    /\ counter' = counter + 1
    /\ Becomes(c, [client[c] EXCEPT !.token = counter + 1])
    /\ UNCHANGED <<key, now, newest>>

\* Exhaustion, or the answer is lost.
MintFails(c) == client[c].pc = "minting" /\ GiveUp(c)

\* Mutant: the validity is not looked at again.
MintedUnchecked(c) ==
    /\ client[c].pc = "minting" /\ client[c].token # None
    /\ Becomes(c, [client[c] EXCEPT !.pc = "held"])
    /\ newest' = IF client[c].token > newest THEN client[c].token ELSE newest
    /\ UNCHANGED <<key, counter, now>>

Minted(c) ==
    /\ client[c].pc = "minting" /\ client[c].token # None
    /\ \/ ~validExpiration(client[c].expiration) /\ GiveUp(c)
       \/ /\ validExpiration(client[c].expiration)
          /\ Becomes(c, [client[c] EXCEPT !.pc = "held"])
          /\ newest' = IF client[c].token > newest THEN client[c].token ELSE newest
          /\ UNCHANGED <<key, counter, now>>

-----------------------------------------------------------------------------
(* renew, release.  The map #held is `pc` here: a grant whose handle was   *)
(* dropped can be neither renewed nor released any more.                   *)

StartRenew(c) ==
    /\ client[c].pc \in {"held", "unreleased"}
    /\ Becomes(c, [client[c] EXCEPT !.pc = "extending", !.began = now])
    /\ UNCHANGED <<key, counter, now, newest>>

\* External: the nodes that still have the key extend it; a quorum is needed,
\* and the call may throw although nodes were extended.
Extend(c) ==
    /\ client[c].pc = "extending" /\ now + Ttl <= Horizon
    /\ \E S \in SUBSET {n \in Nodes : ~Free(n) /\ Own(n, c)} :
        /\ key' = Set(S, c)
        /\ \/ S \in Quorum /\ Becomes(c, [client[c] EXCEPT !.pc = "extended", !.wakeAt = client[c].began + Ttl])
           \/ Becomes(c, At("idle", client[c].nth))
    /\ UNCHANGED <<counter, now, newest>>

Extended(c) ==
    /\ client[c].pc = "extended"
    /\ \/ ~validExpiration(client[c].wakeAt) /\ GiveUp(c)
       \/ /\ validExpiration(client[c].wakeAt)
          /\ Becomes(c, [client[c] EXCEPT !.pc = "held", !.expiration = client[c].wakeAt, !.wakeAt = 0])
          /\ UNCHANGED <<key, counter, now, newest>>

\* A release that throws keeps the handle: it may be tried again, or renewed.
\* The caller has given up its claim, whatever keys are left.
Release(c) ==
    /\ client[c].pc \in {"held", "unreleased"}
    /\ \E S \in SUBSET Nodes : key' = Cleared(S, c)
    /\ \/ Becomes(c, At("idle", client[c].nth))
       \/ Becomes(c, [client[c] EXCEPT !.pc = "unreleased", !.expiration = 0])
    /\ UNCHANGED <<counter, now, newest>>

Tick ==
    /\ now < Horizon
    /\ now' = now + 1
    /\ UNCHANGED <<key, counter, client, newest>>

-----------------------------------------------------------------------------
RedlockInit ==
    /\ key = [n \in Nodes |-> None]
    /\ counter = 0 /\ now = 0 /\ newest = 0
    /\ client = [c \in Clients |-> At("idle", 0)]

RedlockNext ==
    \/ \E c \in Clients : \/ Start(c) \/ QuorumAcquired(c) \/ QuorumRefused(c) \/ Wake(c) \/ Locked(c)
                          \/ Mint(c) \/ MintFails(c) \/ Minted(c)
                          \/ StartRenew(c) \/ Extend(c) \/ Extended(c) \/ Release(c)
    \/ Tick

RedlockSpec == RedlockInit /\ [][RedlockNext]_vars

-----------------------------------------------------------------------------
(* Properties.                                                             *)

\* The holder of a grant that has not run out has the newest token of all
\* grants ever returned, so fencing never turns the rightful holder away: a
\* client that was slow to get its token, and got a larger one meanwhile, is
\* not given a grant.
LiveGrantIsNewest ==
    \A c \in Clients :
        (client[c].pc \in {"held", "extending", "extended"} /\ now < client[c].expiration) => client[c].token = newest

=============================================================================
