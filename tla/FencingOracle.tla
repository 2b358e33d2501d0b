---------------------------- MODULE FencingOracle ---------------------------
(***************************************************************************)
(* formal/model.mjs, the repository's executable model of leases and       *)
(* fencing that the language ports replay their traces against.  Its one   *)
(* state record is s; every step first expires the lease (`step` calls     *)
(* expire).  Rejected actions leave the state as it is.                    *)
(*                                                                         *)
(* The module shows that the oracle and the specifications of this project *)
(* promise the same: what it accepts is a step of AbstractLease and of     *)
(* FenceStore.                                                             *)
(***************************************************************************)
EXTENDS Integers

CONSTANTS
    Clients,  \* CLIENTS
    Values,   \* VALUES
    MaxTime,  \* MAX_TIME
    MaxFence, \* MAX_FENCE
    TTL,
    Malformed, NULL

VARIABLE s

initialState ==
    [now |-> 0, holder |-> NULL, holderAlive |-> FALSE, leaseFence |-> 0, expiresAt |-> 0,
     lastFence |-> 0, tokens |-> [c \in Clients |-> 0], resourceFence |-> 0, resourceValue |-> 0]

isActive(x) == x.holder # NULL /\ x.holderAlive /\ x.now < x.expiresAt

freed(x) == [x EXCEPT !.holder = NULL, !.holderAlive = FALSE, !.leaseFence = 0, !.expiresAt = 0]

expire(x) == IF x.holder # NULL /\ x.now >= x.expiresAt THEN freed(x) ELSE x

Least(m, n) == IF m < n THEN m ELSE n

tick(x) ==
    /\ x.now < MaxTime
    /\ s' = expire([x EXCEPT !.now = @ + 1])

\* Mutant: a crashed holder counts as none.
acquireFromCrashed(x, c) ==
    /\ x.holder = NULL \/ ~x.holderAlive
    /\ x.lastFence < MaxFence
    /\ s' = [x EXCEPT !.lastFence = @ + 1, !.leaseFence = x.lastFence + 1,
                      !.holder = c, !.holderAlive = TRUE,
                      !.expiresAt = Least(MaxTime + TTL, x.now + TTL),
                      !.tokens[c] = x.lastFence + 1]

acquire(x, c) ==
    /\ x.holder = NULL
    /\ x.lastFence < MaxFence
    /\ s' = [x EXCEPT !.lastFence = @ + 1, !.leaseFence = x.lastFence + 1,
                      !.holder = c, !.holderAlive = TRUE,
                      !.expiresAt = Least(MaxTime + TTL, x.now + TTL),
                      !.tokens[c] = x.lastFence + 1]

renew(x, c) ==
    /\ isActive(x) /\ x.holder = c
    /\ s' = [x EXCEPT !.expiresAt = Least(MaxTime + TTL, @ + 1)]

release(x, c) ==
    /\ isActive(x) /\ x.holder = c /\ x.tokens[c] = x.leaseFence
    /\ s' = freed(x)

crash(x, c) ==
    /\ x.holder = c /\ x.holderAlive
    /\ s' = [x EXCEPT !.holderAlive = FALSE]

\* A fresh fence or an exact replay, by the live holder.
write(x, c, v) ==
    /\ isActive(x) /\ x.holder = c /\ x.tokens[c] = x.leaseFence
    /\ \/ x.tokens[c] > x.resourceFence
       \/ x.tokens[c] = x.resourceFence /\ v = x.resourceValue
    /\ s' = [x EXCEPT !.resourceFence = x.tokens[c], !.resourceValue = v]

step(x) ==
    \/ tick(x)
    \/ \E c \in Clients :
        \/ acquire(x, c) \/ renew(x, c) \/ release(x, c) \/ crash(x, c)
        \/ \E v \in Values : write(x, c, v)

OracleSpec == s = initialState /\ [][step(expire(s))]_s

-----------------------------------------------------------------------------
(* Properties.                                                             *)

Lease == INSTANCE AbstractLease WITH
    Owners <- Clients,
    owner  <- s.holder,
    active <- IF s.holder = NULL THEN NULL ELSE s.leaseFence,
    minted <- s.lastFence

\* The oracle's grants are those of the lease every authority here implements:
\* exclusive, each with the next token, ended before the next one starts.
OracleImplementsLease == Lease!LeaseSpec

Store == INSTANCE FenceStore WITH
    FenceTokens  <- 1..MaxFence,
    OperationIds <- {"op"},
    Payloads     <- Values,
    watermark    <- IF s.resourceFence = 0 THEN NULL
                    ELSE [fencingToken |-> s.resourceFence, operationId |-> "op",
                          payloadSha256 |-> s.resourceValue],
    state        <- IF s.resourceFence = 0 THEN NULL ELSE s.resourceValue

\* Every write the oracle accepts is one the fenced datastores accept: it
\* advances the watermark, or repeats the last write and changes nothing.
OracleImplementsStore == Store!StoreSpec

\* What the ports are compared with promises what is shown of the code.
OracleRefines == OracleImplementsLease /\ OracleImplementsStore
=============================================================================
