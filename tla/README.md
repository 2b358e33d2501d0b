# Verification of the locks and leases

TLA+ models of the lock, lease and fencing protocols of this repository, the TLC
runs that check them on small instances, and TLAPS proofs of the results that
matter most. The models are translated from the code (TypeScript, the Durable
Object worker and the SQL), and `PROJECT.json` maps every definition to the lines
it stands for. Paths below are relative to the repository root.

## 1. The system

A caller that wants to run *guarded work* under a lock key has these layers:

| Component | Source | State | Operations |
|---|---|---|---|
| Lease interface | `src/ts/src/lease.ts` | a grant: key, holder, fencing token, TTL | `acquire`, `renew`, `release`, `withLease`, `settle` |
| Durable Object authority | `managed/cloudflare-do/src/authority.js` | one row per key (holder, token, expiry, counter, request id), the platform alarm | `acquire`, `renew`, `release`, `alarm` |
| HTTP boundary | `managed/cloudflare-do/src/index.js`, `http-boundary.js` | none | routing, authentication, status codes |
| Lease client | `src/ts/src/cloudflare-do.ts` | none between calls | polling acquire, replay recovery, renew, release |
| Redis authority and client | `managed/redis/*.lua`, `src/ts/src/upstash-redis.ts` | lock key with PTTL, fence counter | the same operations as Lua scripts |
| Fiducia client | `src/ts/src/fiducia.ts` | none between calls | queued acquire, cancel, renew, release |
| Fenced Redlock | `src/ts/src/redlock.ts`, `persistence/postgres/token-authority.sql` | held handles, token counter | quorum acquire + token allocation |
| Renewal supervisor | `src/ts/src/renewal.ts` | grant, local deadline, sticky loss | `decide`, `checkpoint`, `acceptRenewal` |
| Fencing decision | `src/ts/src/fence.ts` | none | `evaluateFence` |
| PostgreSQL fence | `persistence/postgres/fencing.sql` | watermark row per resource | `try_advance_fence` |
| Redis fence | `persistence/redis/fenced-write.lua` | watermark hash and value | one script |
| Advisory locks | `src/ts/src/pg.ts` | pooled session, advisory lock | `withXactLock`, `withSessionLock` |
| Maintained transaction | `src/ts/src/maintained.ts` | lease + maintainer + transaction + advisory lock | `withMaintainedXactLock` |
| RPC client | `src/ts/src/cloudflare-do-rpc.ts` | none between calls | the lease client over a native RPC binding |
| BeamScale critical section | `src/ts/src/beamscale-critical-section.ts` | registry of full tokens | acquire with one retry, renew, release |
| Local file lock | `src/ts/src/local-file.ts` | a directory with one owner marker | acquire, release, inspect |
| Local file recovery | `src/ts/src/local-file-recovery.ts` | the same directory | inspect twice, claim, remove |
| Scoped file lock | `src/ts/src/local-file-scoped.ts` | one acquisition around one callback | `with_local_file_lock` |
| Lock plan | `src/ts/src/plan.ts` | none | chooses the layers |
| Executable fencing model | `formal/model.mjs` | one state record | the oracle that the ports replay traces against |
| Executable model of a maintained call | `formal/maintained-model.mjs` | one state record | explores every failure of one call and asserts each state |

**How they interact.** `withLease` calls an authority over HTTP, runs work, and
releases in `settle`; whatever work writes carries the grant's fencing token to a
datastore, which compares it with its watermark inside the transaction of the
write. `withMaintainedXactLock` runs a maintainer concurrently with work, which
renews the lease, and encloses the work in one transaction that holds the
advisory lock of the same key. The local file lock shares nothing with these but
the API style: its state is a directory that processes and operators change by
path.

**What is hard.** A holder cannot know that its lease is still live, only that it
was. Requests whose answers are lost are executed anyway, later. Alarms come late
and twice. The lease may end between the last renewal and COMMIT, and the
outcome of COMMIT may be unknown. The first insert of a watermark cannot be locked
in advance. Filesystem calls act on a path, so what was checked may have been
replaced when the next call runs. `PROJECT.json` lists these hazards line by line
with the properties that cover them.

**What makes each part correct.**

- *Authority*: at most one live lease, tokens strictly increasing for ever,
  nothing revives an expired lease, abandoned leases are cleared.
- *Client*: a grant that has not run out is the authority's; two calls that
  report success never overlapped; an exposed grant is fresh.
- *Fence*: accepted mutations have strictly increasing tokens, watermark and
  state change together, broken storage is never taken for a grant.
- *Maintained transaction*: commits follow the token order; a renewal failure that
  was seen prevents COMMIT; the lease is released once; the pool gets no dirty
  session; every call ends and the advisory lock comes back.
- *Local file lock*: the holder's marker is untouched by others; failed
  publications leave nothing behind; recovery removes the owner it was asked to
  remove and reports success once.
- *Renewal supervisor*: a recorded loss is final, an answer that comes too late
  extends nothing, "wait" is said only inside the authority's lease (as far as the
  safety margin covers the way of the answer).
- *Redis authority and fence*: the scripts keep the promises of the abstract lease
  and of the fenced store although they count and compare in decimal text; a damaged
  store is refused, neither damaged further nor repaired.
- *Fiducia client*: an acquire that timed out or was cancelled has left nothing
  queued or granted.
- *Fenced Redlock*: a grant whose validity has not run out is alone and carries the
  newest token, however slowly the token was minted.
- *Advisory locks*: no dirty session in the pool, work exclusive, a call that ended
  without a cleanup error holds nothing.
- *BeamScale and RPC clients*: a grant is the service's until its expiry, a
  definite failure leaves nothing behind, a lost lease stays lost, calls end.
- *HTTP boundary*: only admitted requests reach the authority, the body buffer is
  bounded, a 4xx means that nothing was executed.
- *Scoped file lock*: callbacks exclude each other, and no lock is left silently.

## 2. Modules

| Module | Models | Uses |
|---|---|---|
| `AbstractLease` | what any authority promises (`Lease`) | |
| `LeaseAuthority` | `authority.js`: row, alarm, clock | implements `AbstractLease` |
| `FenceStore` | `evaluateFence` and the atomic fenced write | |
| `ManagedLease` | `withLease` clients, network, authority, fenced store | extends `LeaseAuthority`, instantiates `FenceStore` |
| `FencingSql` | concurrent `try_advance_fence` transactions | implements `FenceStore` |
| `MaintainedXact` | `withMaintainedXactLock` callers, maintainers, PostgreSQL | instantiates `AbstractLease` |
| `LocalFileLock` | local file lock, inspection, recovery | |
| `ScopedFileLock` | `with_local_file_lock` | extends `LocalFileLock` |
| `RenewalSupervisor` | `renewal.ts` beside an authority | |
| `DecimalText` | decimal strings as digit sequences | |
| `RedisLease` | the Redis lease scripts and their clients | extends `DecimalText`, implements `AbstractLease` |
| `RedisFence` | `fenced-write.lua` beside the helpers of `fence.ts` | extends `DecimalText`, implements `FenceStore` |
| `FiduciaLease` | the Fiducia client and a queueing node | |
| `FencedRedlock` | `redlock.ts` with `token-authority.sql` | |
| `PgLocks` | `pg.ts`, `plan.ts`, the cleanup rules of `errors.ts` | |
| `BeamScaleLease` | the BeamScale client and its service | |
| `HttpBoundary` | the Worker's and the object's `fetch` | |
| `DoRpcLease` | callers over native RPC | extends `LeaseAuthority` |
| `FencingOracle` | `formal/model.mjs` | implements `AbstractLease` and `FenceStore` |
| `MaintainedOracle` | `formal/maintained-model.mjs` | |
| `ManagedLease_proofs`, `ScopedFileLock_proofs`, `RenewalSupervisor_proofs`, `PgLocks_proofs` | theorems (section 4) | each extends its module |
| `LeaseAuthority_proofs` | theorems of `LeaseAuthority` and `HttpBoundary` | extends `MCDurableObject` |
| `MaintainedXact_proofs` | theorems of `MaintainedXact` and `MaintainedOracle` | extends `MCMaintainedXact` |
| `Fencing_proofs` | theorems of `FencingSql`, `RedisFence`, `FencingOracle`, `FencedRedlock`, `RedisLease` | extends `MCFences`, `MCRedisAdapters` |
| `Callers_proofs` | theorems of `DoRpcLease`, `BeamScaleLease`, `FiduciaLease` | extends `MCAcquireEnds`, `LeaseAuthority_proofs` |
| `MC*` | instances for TLC (section 3) | |

Definitions whose comment starts with "Mutant:" are not used by the
specifications: each is a plausible bug of the definition that follows it, and
`PROJECT.json` names the property that TLC finds violated when it is put in.

### LeaseAuthority

The columns of `lease_state` are variables of the same names, with `NULL` as in
SQL. A Durable Object runs one synchronous `transactionSync` per handler and issues
`setAlarm`/`deleteAlarm` in the same turn, so each handler is one action:
`Acquire` (rejected, refused, replayed, exhausted, granted), `Renew`, `Release`
and `AlarmHandler`. The platform (external) invokes a due alarm at some later time
and may invoke it again: `AlarmDue`, `AlarmRepeated`. `AuthorityNext` lets any
holder send anything in any order. Rejections of malformed holders and tokens
change nothing and are left out; a rejected TTL is kept, as it shares the handler
with the arithmetic on the expiry. `AcquireExhausted` leaves the row as it was: the
throw comes after `clearLease`, and `transactionSync` undoes both (a property of the
platform, assumed and not shown). A counter that is no safe integer throws in the same
place and is left out; the authority never writes one.

### ManagedLease

A call is a request on its way and a response on its way back. A rejected `fetch`
(`TransportFails`) or a `Crash` turns a request that is still on its way into an
*orphan*, which arrives at any later time or never. One action is one
asynchronous step of the client: everything between two awaits, including the
next call it sends. `StartAcquire` … `AcquireThrows` are `acquire` of
`cloudflare-do.ts` with its polling loop and the token-bound renewal of a replayed
grant; `EndWork` and `Settled` are `withLease` and `settle`. Work may renew
(`StartRenew`), may send fenced writes that arrive late and repeatedly
(`SendWrite`, `DeliverWrite`), and stops sending them once a renewal is refused.
Callers follow `docs/runtime-lifecycle-leases.md:36`: a retry of the same logical
acquisition keeps its request id, a later acquisition uses a new one. That
discipline is an assumption about callers: the authority tells two acquisitions of
one holder apart by nothing else.

The history variables (`mints`, `accepted`, `rivals`, `beaten`) are read by
properties only.

### FenceStore and FencingSql

`FenceStore` is the promise: watermark and state change in one atomic step, and
only for a strictly newer token. A digest stands for the payload it digests.
`FencingSql` has one action per statement of the transaction: `SelectForUpdate`,
`InsertOnConflict`, `Compare`, the caller's `Mutate`, `Commit`, `Rollback`.
PostgreSQL (external) is READ COMMITTED: an uncommitted insert is invisible to the
SELECT and makes a conflicting INSERT wait; the row lock lasts until the end of
the transaction. `Malformed` stands for any stored row the defence-in-depth checks
of `fencing.sql` refuse. Argument validation is left out, since it raises before
anything is read.

### MaintainedXact

Calls and the server transactions they open are named by the fencing token.
`pc` follows `runMaintainedTransaction`: `begin`, `lock` (with `lockSleep` between
polls), `work`, `stop`, `final` (the mandatory renewal), `confirmed`, `commit`,
`release`; an inner error goes through `unwind` (stop the maintainer) to
`rollback`. `keeper` is the `LeaseMaintainer` task beside it: it sleeps, sends a
renewal, which the authority serves before the answer arrives, and fails for good
on the first refusal or error. The lease is `AbstractLease`, where a grant may end
at any moment; `LeaseAuthority` is shown to implement exactly that, so no timing of
renewals is assumed. The server (external) can end a transaction on its own, or
commit it, any time after the client stopped listening, and answers COMMIT of a
failed transaction with success while rolling it back, as PostgreSQL does. A statement
that fails frees the advisory lock at once, although its call is still in work.
A grant that is not well-formed makes the call throw `transport` with nothing to
release by (`AcquireMalformed`); the lease then stays until it expires.
Option validation happens before anything is acquired and is left out.

### LocalFileLock

Every filesystem call is one step and acts on whatever the path names at that
moment; every one may fail (`MakeDirFails`, `RollbackFails` and the failing branch of
each other step). A marker is named by the owner token that wrote it.
`MakeDir` … `RollbackFails` are `try_acquire_local_file_lock` with both rollbacks
and the waiting loop; `ReleaseChecks` … `ReleaseRmdir` are `release`; the
`Inspect*` and `Owner*` actions are `inspect_local_file_lock`; `Recover` …
`RecoverRmdir` are `recover_local_file_lock`, which runs the inspection inside.
Processes and operators crash anywhere. The reads that `release` makes before its
first change are one step (`ReleaseChecks`): while a process holds, nothing but a
stale recovery changes the directory. `confirmed_inactive` is modelled as what the operator
asserts: a recovery starts only for the token of a crashed process. `unclean`
remembers that a crash or a failed cleanup call may have left something behind, and
`overlapped` that two operators were recovering at the same time: `HeldIsPublished`
is stated for operators that recover one after the other, and section 6 says what
happens when they do not.

### ScopedFileLock

Adds to `LocalFileLock` the one callback of `with_local_file_lock`: the callback may
return, throw an error, throw `undefined`, release the lock itself or crash, and the
release after it may be refused or fail at any of its filesystem calls; a release the
callback started and did not wait for is joined. `handle` is the release state the
handle remembers, `work_error` what the callback threw (`undefined` looks like
nothing, as in the code), and `Outcome` what the caller is told.

### RenewalSupervisor

`checkpoint` is asynchronous and nothing serialises its callers, so a call is the
decision (`Checkpoint`), the microtask that calls the adapter (`CallAuthority`), the
authority's step, and the continuation that accepts or refuses the answer
(`Answered`, `RenewalFailed`). `ClockFaults` are the readings the supervisor refuses
(invalid, or going backwards), `Distortions` the falsified answers its validation
refuses. `WaitIsOwned` carries its premise, the sizing rule of
`docs/lease-renewal.md`, in its statement: with a slower way than the margin covers
no supervisor could know.

### RedisLease and RedisFence

One script run is one action. Tokens are digit sequences because the scripts count
and compare text (Lua numbers are doubles); the increment, the stripping of zeros and
the comparison by length and then by character are translated as they are and
compared with arithmetic by `FenceCountsByOne` and `MirrorsDecideAlike`. The scripts
of `managed/redis` are the ones the client embeds, apart from how the ceiling is
spelled. `RedisLease` clients poll, are answered with a grant they already have,
lose answers, and convert the PTTL to an expiry when the answer arrives; a renewal
that fails in transport leaves its caller the grant, to renew or release again. A
failed release is not repeated by its caller; abandoned, it may still run at any later
time. A counter may be absent, at its ceiling or corrupt. `RedisFence` starts from every sound and
damaged pair of keys and takes requests whose token text is canonical or not; `holder`
and `leaseId` take part in no decision and are only valid or not.

### FiduciaLease

The node (external) grants the head of its queue whether or not its caller is still
there. The caller polls, sleeps, is aborted at any moment, and before it reports a
timeout or a cancellation it cancels and releases a grant that raced it
(`cancelling`, `releasing_raced`). Which of the two it reports is fixed before it
cancels, so an abort after that changes nothing and is not a step. Time is counted down, so the clock needs no bound.

### FencedRedlock

Lock first, token second, validity checked again third, as in `acquire`. The nodes
and Redlock (external) take, extend or free on a quorum, and may throw after some
nodes did it. Minting is `next_fencing_token`, one UPSERT that never repeats a token.
The calls of one client follow each other; clients overlap freely.

### PgLocks

A session runs one statement at a time on the server (`Execute`), while the client
waits, is refused, loses the connection, or gives up on the statement while it runs.
Failed transactions answer COMMIT without an error. `plan()` is an operator, and the
steps a call takes are recorded and compared with it. The driver may give up on any
statement (`DriverTimeouts`, in the runs all of them), and an error answer to the
session-scoped lock statement may leave the lock taken, since a session lock survives
the abort of its statement. After a failed `BEGIN` or session lock the code gives the
session back unpoisoned, whatever the server did or will still do: the history field
`stray` marks such a session until it is closed. `PooledSessionsAreClean` and the second
half of `EndedHoldsNothing` are stated for the sessions without it; `WorkExclusive` and
`PlanFollowed` for all. What happens in the others is the run `pg_abandoned` (section 6).

### BeamScaleLease and DoRpcLease

Both are callers with orphans, as in `ManagedLease`. BeamScale repeats an acquire
once after an ambiguous failure (a body that cannot be read, a malformed grant or an
unknown status ends it at once) and keeps the full token (sequence and epoch) in a
registry; the service (external) may fail over and stamp a lease with the new epoch.
The RPC client runs against `LeaseAuthority` itself; an answer that its validation
refuses is a fault of the RPC like any other, and one abandoned call is followed at a time.

### HttpBoundary

One request from `Admit` to its status: configuration, authentication, declared
length, the read of the body chunk by chunk, validation, the scope policy and the
RPC, in the order of the code; `AdmitStub` is the object's own `fetch`, and `StubFails`
a `getByName` that throws outside the `try`. The 400 of `rpcStatus` answers an error
other than exhaustion in the object's result; the object returns no other for a body that
passed the Worker's validation (`BoundariesAgree`). A body is a
set of fields with a class of value each. The policy's prefixes are a set, which
stands for its limit on their number and its refusal of duplicates; the check for
backslashes in a prefix is left out.

### FencingOracle

The step function of `formal/model.mjs` on one record. Its state maps to
`AbstractLease` and to `FenceStore`: what the repository tests its ports against
promises what this project shows of the code.

### MaintainedOracle

The successor function of `formal/maintained-model.mjs`, one operator per phase, and
its `assertState`. It is one call without concurrency; `MaintainedXact` models the
same flow from the code, with rival calls, the maintainer beside it and the server.
The run checks the repository's own assertions in all states, with the final renewal
and without it (the file's negative control).

## 3. Runs

| Run | Instance | Shows |
|---|---|---|
| `durable_object` | *object*: 2 holders, 2 request ids, TTL 0..2 (0 is invalid), 3 tokens, clock 0..5; *boundary*: every configuration, framing and body of small sets | `ActiveLeaseIsNewest`, `ImplementsLease`, and that an abandoned lease is cleared; `BoundarySound`: admission, bounded buffer, definite refusals, both validations agree |
| `managed_lease` | 2 clients, 2 tokens, 1 orphan, TTL 2; *belief*: 2 acquisitions each, clock 0..4; *writes*: 1 acquisition each, waiting, late and repeated writes, clock 0..3 | `BeliefInv`, `SuccessesExclusive`, `FreshWhenExposed`; `AcceptedInGrantOrder` |
| `fences` | *PostgreSQL*: 2 sessions, tokens 1..2, 2 operations, 2 payloads; *Redis*: token texts around a carry, padded, too large, and every damaged pair; *oracle*: the bounds of `formal/fm.toml` | all three implement what `FenceStore` says (`ImplementsFenceStore`, `RedisFenceImplementsStore`, `OracleRefines`); `SqlInv`; the script decides as `fence.ts` does; no session waits for ever |
| `maintained_xact` | *code*: 2 callers, 2 grants, 1 poll; *executable model*: one call, its own bounds | `CommitsInTokenOrder`, `NoCommitAfterLoss`, `PoolIsClean`, `ReleasedOnce`, termination; `OracleAsserts`: the executable model's own assertions |
| `file_lock` | 2 processes and 1 operator, 1 process and 2 operators, or 1 process and 1 observer; 2 acquisitions, 1 poll | `FileInv` (the holder's marker is alone, rollbacks are complete), `RecoveredOnce`, `ScopedInv` (callbacks exclude each other, leftovers are reported), `FileCallsEnd` |
| `recovery_stale` | 2 processes, 2 operators, 2 acquisitions | **violation**, see section 6 |
| `renewal` | 2 overlapping checkpoints, TTL 3, renewal every 2, margin 2, every clock fault and distortion | `RenewalInv` (with `WaitIsOwned`), `SequentialNeverRegresses`, `NoRevival` |
| `redis_adapters` | *Redis*: 2 clients, 2 acquisitions each, TTL 2, 1 orphan, clock 0..4, counter absent, corrupt, or padded and one carry below the ceiling; *Redlock*: 2 clients, 3 nodes, 3 tokens, clock 0..4 | `RedisImplementsLease`, `ScriptSteps` (the text counter, only renewals extend), `HeldIsCurrentOrOlder`; `LiveGrantIsNewest` |
| `acquire_ends` | *Fiducia*: 2 callers, TTL 2, wait budget 2; *RPC*: 2 callers, 1 token, clock 0..2; *BeamScale*: 2 clients, TTL 1, 2 sequences, clock 0..2 | `WaitingEnds`; a Fiducia acquire that ended leaves nothing |
| `pg_locks` | 2 callers, 2 sessions, 2 calls, every mode, any statement given up | `PgInv` (well-formed, clean pool, exclusion, nothing held at the end), `PlanFollowed` |
| `pg_abandoned` | the same | **violation**, see section 6 |
| `callers` | *RPC*: 2 callers, 2 request ids, TTL 2 and a refused one, 2 tokens, clock 0..3; *BeamScale*: 2 clients, TTL 1, 2 sequences, 2 epochs, 1 orphan, clock 0..2 | `RpcInv` (definite failures leave nothing, lost stays lost), `FreshWhenReturned`, `BeamInv` (a grant is current until its expiry, a failed release can be repeated) |

**Instances with several parts.** Six runs put components of one kind side by side
that share no state: the Durable Object and its boundary, the three fences, the
maintained call and its executable model, the two Redis adapters, the adapters that
wait, the callers whose requests arrive late. A
variable of the MC module, chosen in the initial state, says which of them runs; the
others stay in their initial states. Such a run explores the sum of its parts, never
their product, and a property of one part is checked in all of that part's states.
`file_lock` chooses in the same way who takes part, and `managed_lease` whether the
clients acquire again or write: together the two are too many states. The parts are instances whose
variables the MC module names for itself (`Http`, `Script`, `Oracle`, `Redis`, `Beam`,
`Fiducia`), so a proof module can extend the MC module, and its theorem names the very
property that the run checks.

**Bounds and why they are enough.** Two rivals are what every property speaks of.
*Tokens*: the properties compare a token with the next one; the authority gets
three, so that expiry, release and exhaustion each follow a grant. *Clock*: in the
safety runs the horizon is at least twice the TTL, so a lease is granted, expires and
is followed by another; grants and renewals that would outlive it are not explored
(`InHorizon`). Where the clock stops a tick earlier (writes, the RPC part of `callers`)
the second lease runs out when it follows a release. *Orphans*: one request is late at a time and further
abandoned ones are lost; an old acquire, renewal or release meeting a new grant
needs one. *Requests*: with two acquisitions per client a late request of the
first meets the second. *Polls*: one distinguishes waiting from giving up.
*Sessions*: two race for the first insert; with two tokens the loser is either
stale or advances. *Acquisitions* of the local lock: two, a crashed one and the fresh
one that meets its recovery. *Digits*: the counter starts one
step below its ceiling, a step that carries through every digit and lengthens the text.
*Redlock nodes*: three is the smallest set with a quorum that is not everyone.
*Epochs*: two, one failover. In `acquire_ends` the clock is bounded for RPC and
BeamScale, and no call starts too late to run out of its budget; the second BeamScale
client is the one that makes the service answer busy, so that the first sleeps and meets
its budget. There, abandoned BeamScale requests are lost and the service does not fail
over: late arrival is what `callers` is for. Symmetry is used
only for clients and actors that are interchangeable, and in no run with a liveness
property.

**Deadlock** is checked in `managed_lease`. In the others the
clock, the grants, the calls, the request ids or the one request of `HttpBoundary` run
out and the model stops. That nobody waits for ever is what the liveness properties
say (`TransactionsEnd`, `CallsEnd`, `FileCallsEnd`, `WaitingEnds`).

**Fairness.** `LeaseAuthority`: the clock advances and the platform delivers a due
alarm (Durable Object alarms are delivered at least once); nothing is assumed of
callers. `FencingSql`: a session that can run does, strongly fair for the
contended row lock because PostgreSQL queues waiters, and an error raised for a
malformed row rolls back. `MaintainedXact`: awaited promises settle, work ends, and
the server ends transactions whose client is gone and settles a COMMIT it was sent;
nothing is assumed of acquisitions or of the renewal timer. `LocalFileLock`:
filesystem calls return; nobody is made to acquire, release or recover
(`ScopedFileLock` assumes the same, and not that work ends).
`FiduciaLease`, `BeamScaleLease`, `DoRpcLease`: an awaited request settles with an
answer or an error, settled promises and due timers run, and time passes; nothing is
assumed of holders, of the queue or of a release by somebody else, so an acquire under
contention has to end by its own budget. The other modules state safety only.

## 4. Proofs

The theorems hold for every value of the constants, under the named assumptions of
the modules: `NULL` and the other markers are none of the values they are told apart
from, the numeric parameters are naturals, the sets of modes and statements are what
the code knows. The bound constants stay in the statements, but they are arbitrary.
Fairness is part of some specifications and no proof uses it. The assumptions of an
instance stand in its MC module, where TLC evaluates them (`BoundaryAssumption`,
`OracleAssumption`, `ScriptAssumption`, `RedisAssumption`, `FiduciaAssumption`,
`BeamAssumption`). Those that say more than types are: a component of a path contains no
slash (it comes from `split("/")`), a limit on tokens is written without leading zeros,
and a pair of Redis keys listed as damaged is one that the script refuses.

Each proof module follows one pattern: an inductive invariant as a conjunction of
named parts, one lemma per action (and under it one step per part the action can
disturb), frame lemmas for the parts it cannot, and the theorems from the invariant.

| Component | Theorems | Property of a run |
|---|---|---|
| HTTP boundary | `BoundaryIsSound` | `BoundarySound` |
| Durable Object authority | `AuthorityTypeCorrect`, `ActiveLeaseNewest`, `TokensNeverReturn`, `LiveLeaseKept`, `ExpiredLeaseDead`, `AuthorityImplementsLease` | `AuthorityTypeOK`, `ActiveLeaseIsNewest`, `ImplementsLease` |
| `withLease` clients | `ManagedBelief`, `ManagedExclusive`, `ManagedFresh`, `ManagedWritesOrdered` | `BeliefInv`, `SuccessesExclusive`, `FreshWhenExposed`, `AcceptedInGrantOrder` |
| PostgreSQL fence | `SqlCorrect`, `SqlImplementsStore` | `SqlInv`, `ImplementsFenceStore` |
| Redis fenced write | `MirrorsAlike`, `ScriptImplementsStore` | `MirrorsDecideAlike`, `RedisFenceImplementsStore` |
| Redis lease | `RedisInductive`, `HeldIsNewest`, `ScriptStepsHold`, `ScriptsImplementLease` | `HeldIsCurrentOrOlder`, `ScriptSteps`, `RedisImplementsLease` |
| Executable models | `OracleRefinesBoth`, `OracleAssertsHold` | `OracleRefines`, `OracleAsserts` |
| Maintained transaction | `MaintainedTypeCorrect`, `CommitsFollowTokens`, `LossPreventsCommit`, `PoolStaysClean`, `ReleaseHappensOnce` | `CommitsInTokenOrder`, `NoCommitAfterLoss`, `PoolIsClean`, `ReleasedOnce` |
| Local file lock, recovery, scoped lock | `HolderIsPublished`, `RecoveredAtMostOnce`, `SoleRecoveryFailsClosed`, `ScopedCorrect`, `ScopedFileCorrect` | `FileInv`, `RecoveredOnce`, `ScopedInv` |
| Renewal supervisor | `WaitsInsideLease`, `OneByOneNeverRegresses`, `LostStaysLost` | `RenewalInv`, `SequentialNeverRegresses`, `NoRevival` |
| Fenced Redlock | `RedlockNewest` | `LiveGrantIsNewest` |
| Advisory locks and plan | `PgCorrect`, `PlanKept` | `PgInv`, `PlanFollowed` |
| Durable Object RPC client | `RpcTellsTruth`, `ReturnedFresh` | `RpcInv`, `FreshWhenReturned` |
| BeamScale critical section | `BeamCorrect` | `BeamInv` |
| Fiducia client | `FiduciaLeavesNothing` | `EndedLeavesNothing` |

Theorems without a property of a run (`TokensNeverReturn`, `LiveLeaseKept`,
`ExpiredLeaseDead`, `MaintainedTypeCorrect`, `SoleRecoveryFailsClosed`,
`RedisInductive`) say more than the runs check. Every invariant, action property and
refinement of a passing run is stated by a theorem.

**Induction over data.** The library's induction theorems take an operator, which the
provers cannot instantiate. They do take a *set*: from `NatLessThanWellFounded` and
`WFMin` every nonempty set of numbers has a least element (`NatMin`), hence a set that
contains 0 and with each number the next contains all (`SetInduction`), and every
induction is stated for the set of numbers at which the claim holds. What a recursive
function computes needs one thing more, that a function satisfying its equation exists:
`Stepwise` builds it, step by step, for any rule that leads from one value to the next.
The numbers that decimal texts denote (`PrefixValues`), the carry of the increment
(`Carry`) and the texts of paths (`PrefixTexts`) are such functions.

**LeaseAuthority_proofs.** The inductive invariant is
`AuthorityTypeOK /\ ActiveLeaseIsNewest`: the token in the row equals the counter,
and holder, token and expiry are present together or absent together. Without the
first part an acquire over an expired row could repeat a token; without the second
`clearLease` could leave a token that a later renewal matches. From it follow the
invariants, the action properties `TokenNeverReturns`, `LiveLeaseNotStolen` and
`ExpiredStaysDead`, and the refinement `ImplementsLease`: mapping a row that has
run out to "no active grant", a grant is `Grant`, a release or the tick at which a
lease ends is `Drop`, and everything else stutters.

**LeaseAuthority_proofs, HTTP boundary.** `BoundaryInv` records what each stage may rely
on: past admission the configuration is usable and the caller has the token (`Admitted`),
before the RPC the body passed validation and, from the Worker, authorization
(`Accepted`), and the authority has been called only by a handler that is done, with the
converted body and a status of 200, 500 or 503. That the converted body passes the
object's own validation is `InternalBodyValid`. The code compares *texts*
(`body.key.startsWith(prefix)`), the property speaks of *trees*: `PrefixIsBelow` says
that a text which begins with the text of a path and a slash is the text of a longer path
with the same components. Its induction goes along the components: as long as they agree
they begin at the same offset, and since no component contains a slash, the next slash of
both is where the component ends (`SameComponent`). The slash at the end of the prefix is
what the last step needs, and `validScopePrefix` demands it: without it o/p would admit
o/px.

**ManagedLease_proofs.** The argument rests on whom a token was minted for, which no
variable of the model keeps: the inductive invariant says that *some* function from
tokens to (holder, request id) fits the row, the grants, the answers and every request
on its way (`\E f \in Minters : Core(f)`). A release, however late it arrives, names a
token whose acquisition its caller has given up (`Retired`), so it never ends a lease
somebody works under; a renewal only prolongs; the alarm and a new grant need an
expired row. Hence the belief of a client is true until the expiry it was told.
Exclusion compares two successes through the moments they began and ended
(`Rivalry`), and the write order compares the watermark with the minter.

**Fencing_proofs, PostgreSQL.** Whoever is past the SELECT or the INSERT holds the row lock, so
nobody else changes the committed row, and what the comparison found still holds at
COMMIT (`Prepared`); only a transaction that decided to advance has anything to commit
(`Quiet`). From the invariant, every statement but COMMIT stutters in `FenceStore` and
COMMIT is its one atomic write (`SqlImplementsStore`).

**Fencing_proofs, Redlock.** A handle is *backed* while a quorum of nodes has the key of
its attempt and none of those has run out (`Backed`). A grant that has not run out is
backed until its expiry, because the keys are set, or extended, no earlier than the call
from which validity is counted. Two quorums meet (`QuorumsMeet`), so at most one client is
backed (`OneBacked`), and a step of one client leaves the backing of the others as it was
(`OthersBacked`). The invariant ties the token to the backing and not to the expiry: a
backed handle has the newest token, or, while its token is on its way back, a larger one
than any granted. That is what a renewal needs, which may come after the expiry, and after
a release that threw: it succeeds only on a quorum that still has the key, so nobody was
granted anything in between. While the extension is on its way to the validity check the
old grant still counts, and the handle's bounds on both expiries carry it. `RedlockAssumption`: finitely many nodes, natural numbers
as the option checks of `acquire` demand, `None` no key and no token.

**Fencing_proofs, decimal text.** Lexicographic order at equal length is the order of the
numbers (`LexIsGreater`, `LexTotal`), and without leading zeros a longer text is a larger
number (`LongerIsGreater`); so the comparison of the scripts is `>` on numbers for texts of
any length (`CompareIsNumeric`). The carry loop adds exactly one (`CarryLoop`, `CarriedSum`,
`IncrementByOne`) and stripping zeros keeps the value (`StripKeepsValue`).

**Fencing_proofs, Redis fenced write.** A pair of keys is damaged from the start, absent, or
what an accepted request left (`ScriptPair`); a damaged pair is refused for ever, so it stays.
In each of the three cases the script and the helpers of `fence.ts` decide alike, and a run of
the script is one atomic write of `FenceStore` or none.

**Fencing_proofs, Redis lease.** `LeaseInv`: a lock hash carries the value of the counter
(`LockCarriesFence`), and a token that a client holds, or is being given, is an older one or
the newest one under a lock that is its own (`Given`). The second part is what makes
`HeldIsCurrentOrOlder` inductive: a request that was abandoned and arrives late is still in
its sender's name, so the lock it may take over or prolong is its sender's. From the
invariant, minting counts by one (`MintsNext`), only renewals extend, and every script run is
a step of `AbstractLease` or a stutter.

**Fencing_proofs, executable model.** Whatever `formal/model.mjs` does to its record keeps
lease and store, grants the next token, or writes under the holder's own (`Keeps`, `Grants`,
`Writes`); each is a step or a stutter of both abstract specifications. Between two steps
nothing is left to expire (`OracleSettled`), so the `expire` at the start of a step finds
nothing to do.

**MaintainedXact_proofs.** `CommitsInTokenOrder` is not inductive. The argument:
a transaction that has entered work and can still commit holds the advisory lock, and
still does while COMMIT is in flight (`Guarded`; a failed one has lost the lock and can
only roll back); the final renewal succeeds only
for the newest grant (`Granted`), so at that moment every committed transaction is
older; from then until the server has ended it nobody else can hold the advisory
lock, hence nobody else can commit, whatever happens to the lease (`Decided`).
`Stopped` records that the maintainer is off before the final renewal and that a
failed one keeps its call away from COMMIT; `Clean` that the advisory lock belongs
to an unfinished transaction and a pooled connection to a finished one; `Recorded`
ties the history to the transactions. The token order needs the advisory lock: a lease
and its final renewal alone do not give it, because the lease may end after the renewal
was answered. `ReleaseHappensOnce` needs that no two calls share a token and that an
unminted one was never released (`Unreleased`). The assertions of
`formal/maintained-model.mjs` hold for any bounds of its walk, with the final renewal and
without: `Forward` says what each phase has behind it, `Told` that the failure the caller is
told of was recorded and is the last cleanup failure if there was one.

**ScopedFileLock_proofs.** A marker passes from `owner.pending` to `owner` to
`owner.recovering` and never back, so at most one recovery reports that it removed it,
whoever else is recovering (`OnceOnly`). While operators recover one after the other
(`~overlapped => OneByOne`), the directory belongs to one process from its mkdir to its
rmdir and holds only its marker (`Stage`), and a dead owner's marker stays where an
operator saw it until that operator moves it (`Sight`). A directory nobody is at work
on was left by a failure (`Attended`). `SoleRecoveryFailsClosed` is the other side of
the finding `recovery_stale`: the documented property holds exactly as long as two
operators do not recover at once. The scoped lock adds `ScopeOK`, what the handle and
the outcome say of the directory.

**RenewalSupervisor_proofs.** The schedule is always the one made at `ScheduledAt`,
between the authority's grant and now (`Scheduled`); the authority keeps a lease a TTL
from each grant (`Kept`); hence a checkpoint that says wait is inside the lease for
every policy the constructor accepts. `OneByOne` is what keeps the deadline from moving
backwards when calls do not overlap; overlapping calls may move it, and the invariant
does not claim otherwise.

**PgLocks_proofs.** A session that is out belongs to one call, and what the server will
have done to it when the call reads its answer is known from the statement sent and the
answer (`Desk`); a statement the driver gave up on stays in a session that is destroyed,
or is a stray `BEGIN` or session lock, so nothing awaited is ever answered to a later call
(`SessionOK`). With `OneHolder` and `Leased` that is inductive (`Base`). `PgCorrect` has no
hypothesis on what the driver gives up. Exclusion needs none of the cleanliness: whoever
was told that it has the lock has it in its own session, stray statements or not, and the
server gives it to one session at a time. `PlanKept`'s invariant says for each place of a
call which prefix of `plan()` it has taken (`OnPlan`).

**Callers_proofs, native RPC.** An RPC whose caller saw an exception may be executed at
any later time, so what a caller was told has to survive that. A refused renewal is
answered when the authority does not have the lease for its caller, and then never has it
again (`Dead`, from the step lemmas of `LeaseAuthority`): tokens do not return and an
expired row is not revived, so `lost_lease` is final. A call that is abandoned belongs to
an acquisition that ends with `transport`; hence a definite failure under a new request
id has no call on its way and the authority never granted that id (`Unseen`). This needs
that request ids belong to one caller each and that nothing names one not yet generated
(`Generated`), and what each await may rely on (`Acquiring`, `Renewing`, `Replaying`).
`ReturnedFresh` follows from the invariant: a new grant is counted from its execution,
inside the call, and a replayed one is returned only after a renewal that was.

**Callers_proofs, BeamScale.** A message carries the request id of the acquisition it
belongs to, a lease the one it was made for, and a sequence is minted once (`MintedFor`).
A release under way, awaited or abandoned, is of an acquisition its client is done with:
its client is releasing it, or went idle without the right to repeat that request id
(`Over`, `OrphanOK`). Renewals only prolong, and a failover keeps the lease. Hence what a
holder was told (`Told`) is so until its expiry. `BeamAssumption` and `RecordsAssumption`
say that numbers are naturals and that `NULL` is none of the records.

**Callers_proofs, Fiducia.** What the node has for a caller, queued or granted, comes from
that caller's own acquires (`AcquisitionOK`): nothing before an acquisition begins and after
it timed out or was cancelled, nothing queued once the cancel was answered, nothing granted
once the release of a raced grant was. An acquire that is still on its way belongs to an
acquisition that ended with `transport`, which promises nothing. The queue is a sequence
without repetitions (`Queues`), from which leaving, arrival and service take or add one caller.

## 5. Only model-checked

*Liveness* (`AbandonedLeaseCleared`, `TransactionsEnd`, `CallsEnd`, `LockReclaimed`,
`FileCallsEnd`, `WaitingEnds`): temporal reasoning under fairness is outside what the
prover supports. The runs check them on their instances.

*The violations* of `recovery_stale` and `pg_abandoned` are counterexamples and need no
proof; their other sides are `SoleRecoveryFailsClosed` and `PgCorrect`.

## 6. Findings

`recovery_stale`: recovery renames the marker by path after its last inspection.
Of two operators recovering the same dead owner, the slower one renames the marker
of an acquisition made after the faster one finished.
`docs/local-file-runtime-semantics-v9.md:39` says stale recovery authority fails
closed. With operators that recover one after the other `HeldIsPublished` holds (run
`file_lock`).

`pg_abandoned`: `BEGIN` is sent before the inner `try` of `runXact` (`pg.ts:127`), so when
it fails there is no ROLLBACK and the session is given back as it is. A driver that gives
up on `BEGIN` while it runs leaves a transaction open in the pool, while
`docs/design.md:103` says of a failed begin that the transaction is rolled back. The
session-scoped lock statement (`pg.ts:193`) is treated alike: given up, or failing after
the server took the lock, it leaves the lock in the pool. All other sessions go back
clean, and work stays exclusive even so (`PgInv`, run `pg_locks`).

Other places where the code and a comment or document differ, met while modelling.
They are in the models as the code has them; no run of the project states the
documented form.

- `fencing.sql:256`: a retry of a committed request is answered `stale`, not
  `replay`, once a newer token was accepted. Nothing is applied twice, but the answer
  does not tell a committed mutation from a rejected one, which
  `docs/fencing-tokens.md:152` says it does.
- `local-file.ts:457`: an observer that opened the marker just before a clean release
  unlinked it reports `compromised` (link count 0), which
  `docs/local-file-runtime-semantics-v9.md:43` excludes.
- `renewal.ts:156`: a checkpoint that decided to renew calls the authority in a later
  microtask without looking at the loss again, so a supervisor that was lost in
  between still calls once; `docs/lease-renewal.md:21` says it will not. The loss
  stays final (`LossIsTerminal`).
- `upstash-redis.ts:43`: the Redis acquire knows the holder but no request id, so a
  later acquisition of the same holder is given the older grant, against
  `docs/runtime-lifecycle-leases.md:38`.
- `upstash-redis.ts:229`: `leaseExpiresMs` is the client's clock plus the PTTL when
  the answer arrives, later than the authority's expiry (`lease.ts:62`).
- `fiducia.ts:209`: an acquire whose request fails in transport while the caller
  aborts returns without cancelling what may be queued (`lease.ts:50`).
- `pg.ts:132`, `maintained.ts:625`: work that swallows a statement's error leaves a
  failed transaction, whose COMMIT PostgreSQL answers without an error; the call
  returns success with nothing committed (`pg.ts:86`,
  `docs/maintained-xact-locks.md:36`).
- `beamscale-critical-section.ts:173`: the second try of an acquire is answered busy
  and reported as contention, after which the first, delayed one takes the lease;
  `errors.ts:36` says nothing is half-done.
- `local-file-scoped.ts:70`: a callback that throws `undefined` is reported as a
  success (`local-file-scoped.ts:31`).

## 7. Not modelled

`exists()`, path and permission validation, the Windows retries and the test-fault
hooks of the local file lock. Validation of keys, holders and digests as text, and
the hash that makes an advisory key of a lock key: stateless functions of strings,
which reject before any state changes. JSON decoding and the wording of responses.
The Rust, Go, Dart and Gleam ports follow the same protocols; the models are of the
TypeScript code, and what ties the ports to it in the repository is the trace oracle
modelled by `FencingOracle`. Contracts, conformance vectors and scripts are not
runtime code. The Rust fencing model repeats
`formal/model.mjs`.

## 8. Plan

1. *Done*: all the modules and runs above; the proofs of section 4.
2. *Left*: the parts of section 7. Once `pg.ts:127` and `pg.ts:193` destroy a session
   whose statement failed, `stray` can go from the model and from `PgInv`.
