# VoiceOS: verification of the reliability core

This directory holds TLA+ specifications of VoiceOS v2, the TLC runs that
model-check them and the TLAPS proofs about them. Paths that begin
with `libs/`, `services/` or `engines/` are below the repository's `src/`; in
`PROJECT.json` every path of the repository carries one more `src/` in front.

## 1. The system

VoiceOS answers and places telephone calls with an AI agent. A process on a CPU
node is one asyncio event loop that serves many calls; Postgres is the
authoritative store, Redis holds streams, locks and hot state, and GPU nodes serve
the speech and language models. The repository's promise for this part is
"Be reliable (no lost or duplicated effects; deterministic recovery)"
(the repository's `README.md:22`).

| part | state it keeps | operations | who calls it |
|---|---|---|---|
| Idempotency guard (`libs/idempotency/guard.py`, `libs/repositories/idempotency.py`) | rows of `idempotency_keys`: pending or done, `expires_at`, result | `execute_once` = check, claim, effect, complete, poll | conversation engine; meant for every authoritative effect |
| Conversation engine (`services/conversation_engine`) | session of each call: turn count, intent history, snapshot version, stream offset | `handle_turn`: plan, commit, record, snapshot, speak | dialogue manager |
| State and recovery (`libs/state`, `libs/recovery`) | rows of `snapshots`, the recovery log | `take_snapshot`, `load_latest_snapshot`, `replay_from_snapshot`, `recover` with six strategies | engine; whoever restarts a process |
| Event bus (`libs/event_bus`) | Redis streams, consumer groups with cursor and pending list, dedup keys, dead-letter streams | `publish`, `poll_once`, `replay_from`, `route_to_dlq` | engine, metering, collections, every consumer |
| GPU scheduler (`services/gpu_scheduler`) | VRAM ledger and tokens, model pools, health of devices | `request_allocation`, `release_allocation`, `acquire`, `release`, `warm_new_instance`, `handle_device_failure` | STT, LLM and TTS adapters, from threads |
| Playback, TTS pipeline, dialogue manager | clause queue, barge-in flag, turn state | `enqueue`, `dequeue`, `flush`, `run`, `clear_barge_in` | engine, VAD |
| Media gateway, audio session manager | admitted sessions, adapters, jitter buffer | `admit`, `connect`, `release`, push and pop of frames | telephony |
| VAD and endpointing | runs of speech and silence, adapted thresholds, the barge-in candidate | `process_frame`, `set_playback_active` | media path, once per frame |
| Lock and fencing, circuit breaker, worker pool | lock keys and fencing counters; breaker state and probe flag; queue of tasks and futures | `acquire`, `release`, `validate`; `call`; `submit`, `shutdown` | strategies, adapters, engine |
| Data migrations (`services/saas_ops`) | rows of `tenant_migrations` | `run_migration`, `rollback_migration`, under the lock of the tenant | operators |
| Metering, billing | usage events, counters, invoices | collect, enforce, `generate_invoice`, `mark_invoiced` | event bus, schedulers |
| Tenant lifecycle, privacy, audit | tenant state and key, data of a customer in three stores, hash chain of audit rows | state changes, deletion, erasure, append, verification | portals |
| Campaigns, collections | campaign state and pin, audiences, settlements | lifecycle, selection, offer to disbursement | schedulers, engine, operators |
| Human in the loop, user management | review items and decisions; invitations, users, roles | enqueue, dequeue, decide, deadline tick; invite, activate | engine, supervisors, invited users |
| Integration platform | claims of (webhook, event), delivery log, dead letters | `dispatch`, `deliver` | consumers of the event bus |
| Policy, governance, planning and perception engines, contracts, portals, analytics | rules and rows | pure evaluation, reads and single-row writes | engine, operators |

`PROJECT.json` lists all 65 components with their files and says of each one that
is not modelled why.

**How they interact.** `handle_turn()` calls `execute_once()` with a function that
publishes on the event bus; the id of the stream entry is the guard's cached
result and becomes the session's resume offset, which goes into the snapshot, from
which recovery replays the tail of the same stream. That chain of four components
is the core modelled here. The bus's consumers and the GPU scheduler's adapters
are the other two places where several actors share state.

**What is hard.**

* *Interleaving and atomicity*: SQL statements of several processes, Redis commands
  of several workers, lock sections of several threads.
* *Crashes and lost replies*: after a claim, an XADD, a dedup record, a dead letter;
  what is half done must not be repeated and not be forgotten.
* *Retries and timeouts*: a retried turn, a loser of a claim that stops waiting.
* *Ordering*: commit before speech, snapshot offset against stream order, drain of a
  device against allocations in flight.
* *Boundaries*: the inclusive range of a replay, expiry of a row that still conflicts.

The `hazards` of `PROJECT.json` name the 40 places that matter most, each with the
properties below that cover it.

**What makes each part correct.** Guard: one effect per key, answers that are its
result. Turn commit: a turn is published once, before it is spoken, and recovery
counts each turn once. Bus: one worker per event, one dead letter per event,
nothing acknowledged without being dealt with, no failing handler in the way of later entries. Scheduler:
no over-commitment, exact ledger, nothing on a failed device, exclusive handles.
Lock: fenced writes in the order of the locks. Migrations: one run of each, one at a
time. Breaker: one probe, and never none. Audio path: no frame is kept back for ever,
gate and adapters agree, no audio of an interrupted turn, clauses in order, fillers are
not interruptions. Billing: an event on one invoice, no lost revenue, limits kept up to a
known error. Tenants and campaigns: a deletion destroys the keys it finds, nothing starts unapproved, a
customer is in one campaign. Audit: a chain that was only appended to verifies. Webhooks:
an endpoint gets an event again only after a POST that was counted as failed, and what was
completed is found in a table. Settlements: money is paid
out with approval and once. Reviews: one supervisor per item, one report per missed
deadline. Invitations: who is accepted has the invited role. Erasure: what is certified is
gone. Worker pool: a submitter that is not answered was cancelled, has no workers left, or is behind more important work.

## 2. The modules

| module | role |
|---|---|
| `OnceEffect` | abstract specification: the effect of a key happens at most once, in one step, and answers carry its result |
| `IdempotencyGuard` | `execute_once()` over the table; implements `OnceEffect` |
| `CommitThenAct` | abstract specification: a turn's decision is appended to the stream once, stays, and precedes what is spoken |
| `TurnCommit` | extends the guard with the engine, the stream, snapshots, restarts and recovery; implements `OnceEffect` and `CommitThenAct` |
| `EventLife` | abstract specification: an event is taken up once, by one worker, and let go of only handled, dead-lettered or lost by a stop |
| `EventDelivery` | publish, consumer groups, deduplication, retries, dead letters; implements `EventLife` |
| `VRAMReservations` | abstract specification: a reservation fits when it is made, is given back once, and a failed device holds none again |
| `GPUScheduler` | ledger, admission, one model pool, failover; implements `VRAMReservations` |
| `ClaimedWork` | abstract specification: a key is claimed once, and what is done for it is the work of the one that claimed it, until it lets go |
| `DistributedLock` | the lock, its expiry, the fencing counter and the tracker that checks tokens |
| `TenantMigration` | extends the lock with `run_migration()` and `rollback_migration()`; implements `DistributedLock` and `ClaimedWork` |
| `CircuitBreaker` | one breaker under overlapping calls |
| `AudioSession` | jitter buffer and loss concealment of a call |
| `MediaGateway` | session gate and adapters |
| `ClausePlayout` | abstract specification: the clauses of a turn are queued in order without a gap, none behind a final one, at a full queue or while the caller speaks |
| `PlaybackPipeline` | streaming pipeline and playback queue; implements `ClausePlayout` |
| `VADEndpointing` | endpointing, barge-in and backchannel arbitration |
| `UsageBilling` | usage rows, invoice generations, limit checks |
| `TenantLifecycle` | status and key of a tenant |
| `CampaignLifecycle`, `CampaignAudience` | status and pin of a campaign; audiences |
| `AuditChain` | audit rows chained by their hashes, verification |
| `WebhookDispatch` | dispatch and delivery of webhooks under claims; implements `ClaimedWork` |
| `Settlement`, `HumanReview`, `Invitation` | rows that operators work on at the same time |
| `CustomerErasure` | erasure of one customer over three stores |
| `WorkerPool` | the pool of asyncio workers |
| `*Proofs` | the theorems, see section 5 |
| `MC*` | instances for TLC |

### IdempotencyGuard

`row`, `effects`, `pc`, `key` and `held` are the table, the effects that really
took place (a history, in order), and for each invocation its place in
`execute_once()`, its key and the result it holds. `CheckHit`/`CheckMiss`,
`ClaimWon`/`ClaimLost`, `Effect`, `Complete`, `PollHit` and `PollTimeout` are the
statements of the function in its order. The awaited effect may raise without
having happened (`EffectRaises`), or after it happened (`EffectReplyLost`). An SQL
error leaves the function as a crash of that invocation does; `Crash` stops all
invocations of a process, at any point, and a stopped invocation may be started
again. `Expire` is time reaching `expires_at`: `check()` then ignores the row while
`claim()` still conflicts with it. No code of the system deletes rows. The migration
mentions a cleanup job (`scripts/db/migrations/005_idempotency_keys.sql:17`) that is
not in the repository; with one, the guarantees would last only as long as the
rows. The result of an effect is never `None` here, which holds for the one caller
(a stream id): a `None` result would look like a pending row to `check()`.

### TurnCommit

One call. The module extends `IdempotencyGuard`, so a turn goes through the same
actions, conjoined with what they do to the stream: `Publish` is the guard's
`Effect` together with the XADD. `RecordTurn` is `record_turn()` and, on every
`SnapshotEvery`-th turn, `take_snapshot()`; `SnapshotRaises` is the same with an
INSERT that fails, before or after it took effect; `Speak` starts the output and
`OutputRaises` is its failure. `ClaimExpires` is the guard's `Expire` of a turn's row: a retry after the TTL
(3600 s, `guard.py:34`) misses in `check()`, loses the claim and times out. Since the engine is one event loop and nothing
between the first SQL statement and the snapshot suspends, one invocation at a
time is in that section (`LoopFree`); a loser's sleep in the poll loop is the
exception. `Restart` loses the session, `Recover` is `RecoveryManager.recover()`
with `CPURestartStrategy`: latest snapshot, `XRANGE` from its offset, the snapshot's
own entry skipped, entries of other calls and other types not counted.

Two assumptions. The recovered session is the one the process serves with
afterwards: no code in the repository puts it into `engine._sessions`
(`engine.py:537`), so the model takes the documented intent. And a recovery does
not fail half-way into a session that is then used; a failed one leaves an event.

`CommitThenAct` is what the module is to its callers: per turn the positions of its
decision on the stream, and the turns that were acted on. `Entries` maps the one
stream, with the recovery events and the entries of other calls in it, to that; the
guard's rows, the session, the snapshots and the crashes are steps it does not see.

The session is its turn count, snapshot version and offset; the intent history is
left out. The id of a stream entry is its position, which keeps what the code uses
of it: order and identity.

### EventDelivery

`log`, `cursor`, `pending` are the stream and its groups; `seen` the dedup keys,
which do not name the group; `dlq` the dead letters. A worker is `at` an entry of the
batch it read (up to `last`), in a `stage` of `_process_entry()`, at an `attempt` and
before the handler `next`. Each Redis command and each handler call is a step. A
handler that raises may have had its effect, so `calls` counts it. `AckRaises` is the
XACK inside the `try`: an error of it is treated as a handler's, also when the entry
was taken off the list. `up` are the workers whose `start()` is running. `DecodeRaises`
is an entry of `Undecodable`: `decode_envelope()` raises out of `poll_once()` and `start()`
(`consumer.py:113-114, 129-130`, no `try` on the way), and the worker is down with the rest of its batch on the pending list.
`Stop` is a stop, a crash or a Redis error, at an entry or between two polls; both `Leave` the pass. Nothing in the repository
starts such a worker again: `Restart` is external, may happen or not, and a restarted worker polls for new
entries only. `cut`, `handled` and `calls` are histories the properties use.
`EventLife` sees none of the entries, batches, groups and acknowledgements: only which
worker is at the handlers of an event (`Holder`), which events were taken up (`seen`), handled
(`Done`), dead-lettered and cut off. The
24 hours of a dedup key are taken to outlast a behaviour.

### GPUScheduler

A step is a section under one of the two locks or one operation of the pool's
queue. A thread's `frame` is the place in its call and its locals. `Request` and
`Allocate` are the two sections of `request_allocation()`, with the device carried
from one to the other. `Warm`, `Admit`, `QueueNew`, `PickOld`, `RetireOld` and
`RemoveOld` are `warm_new_instance()`; `ReleaseModel` reads the handle's flag and
`PutBack` sets it and queues the handle; `MarkFailed` and `Drain` are the failover.
`Acquire` merges the queue's `get()` with the reset of the flag of the handle it got:
until the call returns only this thread has the handle. A handle is identified with
its allocation token.

`VRAMReservations` keeps the reservations themselves, by token: what is in use on a
device is their sum, never a running total. `Reserved` are the grants whose tokens are
live, `Spent` the tokens that were given back or drained.

The pool's callers release a handle they hold, once. The priority queue is not
modelled, since `request_allocation()` never consults it, nor is the
registration of a device that is already registered.

### DistributedLock and TenantMigration

A client is one call of `acquire()` with what its caller does afterwards. `SetNX` and
`DrawToken` are the two Redis commands of `acquire()`, `Release` its script, which
compares the owner (`OwnsKey`); `LockExpires` and `CounterExpires` are the two
lifetimes. `Write` presents a token to `FencingTokenTracker`. Histories record the order
of the locks (`before`), which clients drew a token after their lock was gone (`late`),
the generation of the counter they drew from (`epoch`) and who wrote or was refused.
`TenantMigration` puts `run_migration()` on top: `Check`, `TakeLock`, `TakeToken`, `Claim`,
`RunEffect`, `Mark`, `GiveBack`, with `Raise` for its error path and `Die` for a process that
stops. A migration that is reversed while it runs ends with whichever status is written
last, as in the code. `ClaimedWork` sees a migration whose row exists as claimed, the calls inside it (`Runners`) as
its holders and its effects as the work: the statuses, the lock and the rollback are not seen.

### CircuitBreaker

One breaker on one event loop. `Begin` is `_before_call()`, `Fail` and `Succeed` the
recording of a result, `Cancel` a cancelled call, of which the breaker learns nothing.
The window of failures is a count that `Forget` lowers; `CoolDown` is the end of the
cooldown, which `Begin` observes. `probeOf` remembers the HALF_OPEN period in which a
call was admitted as the probe.

### AudioSession, MediaGateway, PlaybackPipeline, VADEndpointing

`PushFrame` is the whole of `push_frame()`: gap detection from `_last_seq`, concealment of
up to `MaxConceal` frames, insertion with eviction, and popping until the next number is
missing. The network delivers any of the frames at any time, again, or never. A frame's
number on the wire is taken modulo `Modulus`.

In the gateway every await of a carrier adapter is a boundary between two steps
(`Authenticated`, `Connected`, `ReleaseStarts`, `Disconnected`) and may raise.

The pipeline's steps end at its awaits: the next token (`NextChunk`), a clause of
the chunk (`NextClause`), an audio piece (`Enqueue`, which first looks at the barge-in signal),
the end of a stream. A clause is rejected or synthesised by free choice. `Dequeue`,
`Flush` and `ClearBargeIn` are called from outside the repository's `src/` (its
`scripts/validate/walking_skeleton.py` shows how), so they may happen at any await. `ClausePlayout` sees the queue, the signal,
whether the turn may still say something (`TurnOpen`) and the number its next clause will carry (`NextIndex`), which is
the base in the middle of a chunk and the base plus the pieces made in the middle of a clause.

One step of `VADEndpointing` is a window of 32 ms whose probability is silent, weak or
loud with respect to the two thresholds of the code; `Endpoint` is the endpoint detector with its
adaptation, `Sustained` and `Fires` the barge-in detector, `Candidate`, `StartOf`, `Duration`,
`Classifies` and `Interrupts` the arbitration. Durations are in milliseconds, as in the code.

### UsageBilling

`usage` is the table: per event its hour bucket and the invoice it is marked with.
`Collect` is a delivery by the bus, which may repeat. `FindUsage`, `CreateInvoice`, `MarkInvoiced`
and `Announce` are the commits of `generate_monthly_invoice()`; `Stop` is a stop or an
error between two of them. `ReadCounter` and `Decide` are the two Redis commands of the
limit enforcer with the policy rule in between. `pending` and `stale` are histories.

### TenantLifecycle, CampaignLifecycle, CampaignAudience

Each operation reads the status and validates (`Validate`, `BeginEdit`), then writes it
(`UpdateStatus`, `WriteStatus`) with an UPDATE that does not compare, so overlapping operations
overwrite one another. `complete_deletion()` destroys the key first, and `EnsureKey` is
what both provisioning and encryption do with a missing key. Keys are numbered as they are minted: `shreddedTo` is the last one that was there at
the `destroy_kek()` of the operation that wrote DELETED, `completedAt` the last one there at that write; a key
between the two was minted in the gap. Vault is the key store, and
the lifecycle is the one with a key store configured. `Pin` is
`PromptVersioningService.pin()`. In the audience, `Look` and `Include` are the SELECT and the INSERT
of one candidate, with the consent checks (`Refuse`) in between.

### AuditChain and WebhookDispatch

An append is a session at READ COMMITTED: `SelectLatest` is the SELECT, which picks a row from
those committed by then, `LockRow` the end of its wait for the lock of that row (it keeps the row
it picked, since that has not changed), `InsertRow` and `CommitRow` the rest; `AbortAppend` is a lost
session, whose seq is a gap from then on. A hash is identified with the row's seq.

`ClaimKey` is the claim of a key (webhook, event) in `idempotency_keys`, `Post` an attempt: a 2xx answer, a failure, or a POST that the receiver processed
although the attempt fails, because its answer was lost, late or not a 2xx (`unanswered`),
`RecordAcceptance` the two rows written inside the `try` of the attempt (`RecordingRaises` is an error there,
which the loop takes for a failed attempt), `RecordFailure`, `DeadLetter` and `CompleteKey` what
follows. `Handle` is a delivery by the bus, which may repeat and overlap; `StopDispatch` is a stop or an error
outside that `try`. Keys are not expired: their lifetime is taken to outlast a behaviour. Here the work of `ClaimedWork` is everything the
tables say of a key (`Done`): POSTs accepted, the dead letter, the summary rows, the completion.

### Settlement, HumanReview, Invitation, CustomerErasure

A request reads the row and checks its status (`ReadSettlement`, `FindNext`, `ReadToken`), and
writes later (`WriteOffer`, `ClaimItem`, `ResolveItem`, `MarkAccepted`) without comparing; any request may be cut off
between two of its statements. `writtenStale` and `claimedLate` record the rows over which a write
took place whose reader had seen something else. There is one deadline enforcer, as there is
one scheduler that ticks it; a deadline may pass at any time.

`StartErasure` takes lists made before by the caller, `ShredKey`, `Tombstone`, `DeleteRecording` and
`Certify` are the steps of `execute()`, and `StoreDatum` is another service that stores something meanwhile.

### WorkerPool

A task is a submitter: `Submit` queues it, also again after it was answered, with the tasks that are `ahead` of it
then (the sequence number of the code, compared). `Take` (a waiting worker gets the `First`: the most important task, of equal ones
the oldest), `Settle` (the task ends or raises), `TaskCancelled` (the worker ends with it, since only `Exception` is caught, and
nobody sets the future: the submitter is "stranded" and waits for ever), `Shutdown`, `WorkerCancelled` and `ShutdownDone`.
A task cancelled by `shutdown()` ends; tasks that swallow the cancellation are not modelled.

## 3. The runs

| run | instance | shows |
|---|---|---|
| `idempotency` | 3 invocations in 2 processes, 1 key, 2 results; 3,684 states | `AtMostOnce`, `EveryCallEnds`, `ImplementsOnce` hold through races, crashes, expiry and retries |
| `turn_commit` | 2 invocations, turns 1 to 3, snapshot every 2, 2 restarts or 1 restart and 1 foreign event or expired claim; 1.3 million states | `ImplementsCommitThenAct`, `TurnsAccounted`, `SnapshotsFaithful`, `NoSnapshotDropped` |
| `turn_retry` | the same beside a session that never crashes | violation of `RecoveryIsExact`, see section 4 |
| `event_delivery` | groups of 2 and of 1 workers, 2 entries (of 2 events, of one event twice, or one that does not decode), 2 handlers, 2 attempts, 1 stop, restarts; 219,441 states | `HandledByOne`, `ImplementsEventLife`, `NothingDropped`, `OrphansStayPending`, `AcknowledgedOrLeft` |
| `event_fanout` | the same | violation of `FanOut` |
| `gpu_scheduler` | 2 threads, devices of 3 and 2 units, pool of 2, 5 tokens, 1 failure; 2.7 million states | `WithinCapacity`, `LedgerExact`, `ImplementsReservations`, `HandleInOnePlace`, `PoolNeverShrinks` |
| `gpu_retired` | 1 thread, 4 tokens | violation of `PoolSizeCounts` |
| `resilience` | 3 calls of 2 owners at the lock, 1 reset of the counter; the same as 3 calls of 2 migrations; 3 callers, threshold 2, 4 periods; 3 appenders, 4 rows; 2 dispatchers, 2 hooks; about a million states | `FencingOrdersWrites`, `RunsOnce`, `OverlapNeedsExpiry`, `HalfOpenHasItsProbe`, `VerifiesUnlessOverlapped`, `DeliveriesAreAccounted`, `ImplementsClaimedRun`, `ImplementsClaimedDispatch` |
| `call_audio` | see below; 324,768 states | `SilenceNeedsAJump`, `BooksAgree`, `StaleAudioNeedsEarlyClear`, `ImplementsPlayout`, `NoFillerIsRecognised`, `QueuedIsSettled` |
| `tenant_business` | see below; 880,527 states | `DoubleBillingNeedsOverlap`, `OverrunIsBounded`, `DeletionIsFinal`, `CampaignStartsProperly`, `OneCampaignEach`, `DisbursedProperly`, `CertifiedIsGone`, `OneReviewerUnlessLate`, `StrandedForEver` |
| `backchannel` | the default thresholds, 30 windows | violation of `FillersDoNotInterrupt` |
| `audit_fork` | 2 appenders, 4 rows | violation of `NoForkAfterTheFirst` |

The types of the modules are conjuncts of their proved invariants and not checked by the
runs. The three runs over several modules put
components that share no state side by side: a variable `about` says which of them
a behaviour exercises, and the others stay where they start. Every property of a
passing run comes with a mutant in `PROJECT.json`, a plausible bug in one
definition (a claim over expired rows, an inclusive replay, a release without the
idempotence check, ...), under which TLC finds the property violated.

**Bounds and why they are enough.**

* `idempotency`: the keys do not interact, so one key is enough. Two callers race
  in one process and a third survives when that process stops. Invocations are
  unbounded: an ended caller may call again for ever. Two results let
  answers differ.
* `turn_commit`: `SnapshotEvery = 2` puts turns before, at and after a snapshot;
  three turns and `MaxCount = 3` (no turn starts at a count of 3 or more) allow two
  snapshots; `MaxCrashes = 2` lets the second restart recover from a snapshot taken
  after the first; `MaxForeign = 1` puts a foreign entry anywhere in the tail. A behaviour has the second
  restart, the foreign entry or an expired claim, not two of them (`MCNext`): the first is about versions and offsets that were
  restored before, the second about entries that a recovery must not count (it comes before the restart), the third about a retry
  of turn 1 after its TTL, in a call of two turns with a restart anywhere.
  `Results` are stream positions, more than a behaviour reaches. The
  run stops when the bounds are used up, hence no deadlock check.
* `event_delivery`: `MaxEntries = 2`, `BatchSize = 2` give batches of one and of two,
  copies of an event and distinct events, and a batch with an entry that does not decode in first or second place;
  `MaxStops = 1` is a stop, of the worker of its own in the second group at any step or of one of the two in the first (which are interchangeable,
  so it is always `w1`) within a batch. A behaviour has a stop or an undecodable entry, not both, and the worker that is restarted is the
  one of the second group, after an undecodable entry or when one event was published twice: what is left behind and read again is then in its hands alone;
  two handlers and two attempts distinguish a handler called again from one
  called for the first time. Events are interchangeable; the first published is
  fixed to `e1` (TLC's symmetry reduction is not sound with liveness). Without
  deadlock check because an idle consumer waits for ever.
* `gpu_scheduler`: the first device has room for two units over the pool's, for
  which adapters and warm-ups compete; `MaxTokens = 5` is two for the pool and
  three more, so both threads may scale up while an allocation is outstanding. One device fails (`MCNext`), either of them, so that failover always meets
  traffic on the other; a second failure leaves nothing to allocate from. A thread can always mark that device failed again, so no state
  is stuck, and deadlock is checked.

* `resilience`: two of the three calls have the same owner, so both an owner's second
  call and a stranger's are there; every call may stall at any step, and the lock may expire
  whenever it is held. `MaxResets` is one expiry of the counter. Of the migrations the one that two calls
  run is the one that may be rolled back. In the breaker, `MaxPeriods`
  bounds the HALF_OPEN periods, so calls of three earlier periods may end in the fourth. `MaxRows = 4`
  with three appenders leaves room for two forks, an abort and the rows behind them. `MaxHandled = 3`
  deliveries of one event to two dispatchers give an overlap and a redelivery after a stop, on two registrations,
  one of which may be claimed while the other is not; `MAX_ATTEMPTS = 2` is one retry. Actors of the same kind are
  interchangeable (symmetry; the run checks safety only). Behaviours are
  finite (a client is one call, the periods are bounded), hence no deadlock check.
* `call_audio`. Receiving: `MaxConceal = 1`, buffer depth 4, numbers modulo 7, 10 frames, 7
  arrivals, so that a hole too wide to conceal, an eviction, a late frame and the wrap all
  occur. Admission: 4 attempts and 2 releases on 3 calls of a tenant that may have 2. Playback:
  2 turns of up to 2 chunks, 2 clauses and 2 audio pieces, queue depth 3. Detection: the
  defaults of the code (100, 600, 1200, 200 and 800 ms), 40 windows of 32 ms, which
  hold a candidate of seven windows, the 19 windows of the pause that ends it, and a resumption. Workers:
  4 submitters, three of one priority and one of a higher, each with any number of tasks, on 2 workers and `MaxShutdowns = 1`, so that both workers may be lost, tasks may be
  submitted after the shutdown, and a queued task may be overtaken for ever. No deadlock
  check: frames, turns, windows and tasks run out.
* `tenant_business`. Invoices: 2 events, each delivered any number of times, with 3 generations over 2
  adjacent periods that share an hour. Limits: 2 checkers with `Limit = 3`, `MaxQuantity = 2`, `MaxPermitted = 4`
  (no check begins once more than that was permitted). Two events let a generation find a part of what
  another one found; three generations allow one that overlaps with two. The events are interchangeable, so the second has the later hour
  (`EventsInOrder`). Tenant: 2 administrators, 3
  keys. Campaign: 3 editors, so a stale edit can meet two later ones. Audience: 2 customers, 2
  campaigns, one of them selected twice. Settlements: 2, one of them over the threshold, 2 clerks. Reviews: 2 items of different
  urgency, 2 supervisors and the enforcer. Invitations: two of one address and one of another, 2 browsers. Erasure: a key,
  a clear-text value and 2 recordings, 2 jobs, any lists, a consent that is revoked once. No deadlock check: the selections of a behaviour
  are finite.

**Fairness.** `FairGuardSpec` assumes WF of each invocation's own steps (`Step(c)`),
because the event loop goes on with a task that is ready and the poll loop reads the clock;
not of calling again, of crashing or of expiry. `FairSpec` of the bus assumes WF of
each worker's steps, because `start()` loops until it is told to stop and backoff
sleeps end. It asks nothing of a worker whose `start()` has ended, by a stop or by an entry that does not decode: its `Step` is disabled
then and `Restart` is not fair. `AcknowledgedOrLeft` therefore speaks of groups in which a worker is running again and again.
Handlers may raise at every call. `PoolFairness` of the worker pool assumes WF of
taking a task, of its end, and of the cancellation and the wait of a shutdown: the event loop
runs whatever can go on and tasks come to an end (the code has no timeout: a task that never ends keeps its worker and its submitter, and
with as many of those as workers everybody else). Nobody has to submit, cancel or shut down.
The other modules state safety only: their actors
may stop at any step, and what they may lose for ever by that (a half-open breaker whose probe was
cancelled, a session whose carrier raised) is in the properties as the exception they name.

## 4. Disagreements with what the repository says

* **`turn_retry`**: `engine.py:506-508` calls a retried turn "a no-op" and
  `libs/state/replay.py:3-6` promises a recovered state "identical to what it would
  have been had it never crashed". `handle_turn()` records the turn again after a cached result
  (`engine.py:538`) and moves the offset back, so the live count and the count
  rebuilt from the stream differ. `TurnsAccounted` and `SnapshotsFaithful`, which hold, are
  about calls without such retries and lost replies (`clean`).
* **`event_fanout`**: `libs/event_bus/bus.py:3-4` promises "consumer-group fan-out".
  The dedup key has no group (`dedup.py:62-63`), so the second of two groups acknowledges
  an event its handlers never see.
* **`gpu_retired`**: `model_pool.py:161-162` and the docstring of `pool_size` (line 199).
  A retired instance stays in the queue and is handed out again without VRAM.

* **`backchannel`**: `services/vad_endpointing/service.py:65` and the test at
  `tests/integration/services/test_vad_integration.py:252` say that an utterance shorter than 800 ms is a
  backchannel. Its duration (`service.py:247`) counts 200 ms of look-back and the 600 ms
  pause that ends it, so none is ever shorter. `NoFillerIsRecognised`, which holds and is proved, says that the
  branch is dead with the default thresholds. The test passes because it asserts only that the two events are not both reported.
* **`audit_fork`**: the docstring of `append()` (`libs/repositories/audit.py:101-106`) says that the row lock serializes
  appends "so two writers can never chain off the same `prev_hash`". An append that has waited for the lock keeps the row it
  had picked, and both rows chain off it. The chain then never verifies again (`BrokenForGood`).

Seen while modelling, on single lines that need no run:

* `verify_chain()` compares the first row of any range with `GENESIS_HASH` (`libs/audit/verifier.py:34`), so the deployment check
  of the last hour (`implementation/sprints/Sprint-020.md:300`) fails for every tenant with older rows.
* `dispatch()` promises "exactly once per (webhook_id, event)" (`webhook.py:167-168`); a dispatcher that stops after its claim (line 173)
  leaves an event that is never sent. `ImplementsClaimedDispatch`, which holds, says that nothing takes it up again.
* `consumer.py:7-8` promises that a failing entry is retried, dead-lettered and never blocks the rest. An entry that does not decode is neither:
  `decode_envelope()` raises out of `start()` (lines 113-114, 130), the worker is gone, and the entries of its batch from that one on stay
  pending for ever. `AcknowledgedOrLeft`, which holds, says that only these, and those of a stopped worker, are left.
* `tenant_management/deletion.py:3-9` calls destroying the KEK "in one step" the correct semantics for "delete this entire tenant". A record encrypted between
  `destroy_kek()` and the UPDATE creates a new key (`kms_client.py:63-82`), which survives the deletion. `DeletionIsFinal`, which holds, names that gap
  (`MintedInTheGap`) beside keys that are created after the deletion.
* `campaign_management/service.py:39-40` has every campaign reference a pinned prompt version. `resume()` of an APPROVED campaign starts
  it without the pin check (line 150); `CampaignStartsProperly` excepts that way.
* `campaign_management/audience.py:28-29` says "a customer is only ever assigned to one campaign at a time". Two selections that both look
  before either inserts assign it to two; `OneCampaignEach` says that only such a race does.
* `circuit_breaker/breaker.py:6-7` has the HALF_OPEN probe decide. A call admitted while CLOSED that ends in HALF_OPEN decides as well (lines 181, 196).
* `jitter_buffer.py:52-53` says `max_reorder` decides when a packet is lost; it is never read. `SilenceNeedsAJump`, which holds, says that only
  a jump of the sequence numbers wider than what is concealed (or their wrap) silences a call.

Not contradicted by any text, and stated by the exceptions in the properties:

* A fencing token is drawn after the lock is set and its counter expires 100 lock lifetimes
  after the last acquisition (`lock.py:105-114`): both let an overtaken holder write.
* A migration's lock lives 30 seconds and is never renewed, and its `owner_id` is the
  migration (`migration.py:95`), so a call may give back the lock of another call of the same
  migration. The claim row, not the lock, is what makes a migration run once.
* A cancelled probe leaves the breaker half-open, refusing every call (`breaker.py:132-142`).
* `clear_barge_in()` while the interrupted turn is still synthesising lets the rest of it be
  heard (`playback/scheduler.py:98`).
* `release_adapter()` during `connect()` frees the gate and leaves the adapter; a
  `connect()` that raises leaves the session admitted (`media_gateway/service.py:107-116`). A session
  released while still CONNECTING is dropped from the registry and never closed.
* `complete_deletion()` that stops after `destroy_kek()` cannot be repeated, since destroying a
  missing key raises; only an encryption that creates the key anew unblocks it
  (`deletion.py:60-63`). `activate_production()` that stops after its UPDATE leaves a tenant in production
  without provisioning, and `reactivate()` takes a SANDBOX tenant there without it.
* A webhook's receiver gets an event again when the answer to its POST was lost or late, or its rows could not be written, and the
  event may be dead-lettered although it was processed (`delivery.py:109, 117-120`).
* The invoice of `[start, end)` takes the bucket of `end` (`repositories/billing.py:195`): an event of
  that hour is billed a month early, though not twice.
* A claim of a review item, a status of a settlement and a disbursement are written over what another
  request wrote since the read (`repositories/hitl.py:127-135`, `settlement.py:148`).
* An activation that stops after it created the user can never be completed with its token
  (`user_management/invitation.py:118`).
* A cancelled task ends its worker and leaves its future unset: its submitter waits for ever. Workers are only started when the list of them is
  empty (`worker_pool.py:101-119`), so a pool whose workers were all ended so keeps every later task waiting. Less important tasks wait as long as
  more important ones keep coming. `QueuedIsSettled` has exactly these three exceptions.

`OrphansStayPending` and `NothingDropped` hold, and say what "at-least-once" amounts to in
this code: an event whose worker stops at it is not delivered again. No doc
promises a reclaim, so this is recorded as a property and not as a finding.

## 5. The proofs

Every module that models code has proofs for every value of the constants, and every safety property of a
passing run is the statement of a theorem. The proofs start from the
assumptions the modules name (`ConstAssumption`, `LockAssumption`, `ThresholdAssumption`,
...), which TLC evaluates in the runs.

* `IdempotencyGuardProofs`. `GuardInv` is the inductive invariant. `AtMostOnce` alone is
  not inductive: whether a step may perform the effect depends on who won the
  claim. `RowInv` says what the row tells about the effect (absent: none; done: exactly
  its result) and `OwnerInv` that a pending row has at most one owner, which has not
  performed the effect yet or holds its result. From it follow `EffectAtMostOnce`,
  `AnswersAreTheEffect`, the action property `AbandonedClaimsStayPending` and the refinement
  `GuardImplementsOnce`, in which every step maps to `Perform`, `Answer`, `Forget` or a
  stutter.
* `TurnCommitProofs`. `TurnImplementsGuard`: every step of the engine is a step of the guard
  or leaves its variables alone, so `GuardInv` holds here too. `StreamInv` links the
  two: the guard's effect of a turn is `<<j>>` exactly when the `j`-th entry of the
  stream is the turn's decision; a claim whose TTL runs out (`ClaimExpires`) changes neither. `TurnPublishedOnce` and `SpokenIsCommitted` (RI-4) follow,
  and step by step `TurnImplementsCommitThenAct`: a publication is the first of its turn, since the
  guard has counted no effect, and is behind every decision that is there; what is answered is on the stream,
  so it may be acted on; everything else appends no decision of the call (`EntriesKept`). With
  `GuardImplementsOnce`, `TurnImplementsGuard` gives `TurnImplementsOnce`.
  The snapshots need three more invariants. `SessionInv`: a turn is under way only in a process
  that is up, and its session is at or past every stored version, which gives `NoVersionTakenTwice`
  and the types. `LoopInv`: one turn at a time stands between its claim and its snapshot, because
  one event loop serves the call (`TurnAssumption` names it: every caller is on one host).
  `AccountInv`: a decision on the stream is recorded or is the single one in flight, and that one is
  the last entry; hence `SessionCountsTheStream`, `SnapshotsCountTheStream`, and that recovery
  has to add exactly the tail after a snapshot's offset.
* `EventDeliveryProofs`. `DeliveryInv`: the dedup record of an event precedes anything else
  done for it (`Recorded`), a worker's calls stay in its budget (`Budget`), and its letter is on
  the dead-letter stream exactly from "buried" on (`Letters`). It yields
  `OneWorkerPerEvent`, `OneLetterPerEvent`, `OnlyStopsLoseEvents`, the action property
  `OrphansAreNeverRedelivered`, and the refinement `DeliveryImplementsEventLife`: a dedup record that is new
  is the one take-up of its event, an XACK lets go of an event that is handled or buried, a stop loses it
  (or only leaves it, if its letter is written), and reads, calls and publications are not seen.
* `GPUSchedulerProofs`. `SchedulerInv`: a grant checks RI-8 in the section that
  deducts, a device that is marked failed never becomes healthy again, and a drain works on
  a marked device. It yields `OutOfMemoryIsImpossible`, `FailedDevicesStayEmpty` and the types,
  in particular that running totals never go negative. The pool has its own: `Margin` (every call
  that may still take an instance off the list has added one first: `PoolKeepsItsSize`),
  `Backing` (a token of the list is not one that a direct caller may release, and an instance on its
  way in is backed already: `ListedIsReserved`) and `HandlesInv` (no handle has two
  holders, none is lost: `HandlesAreExclusive`).
  `LedgerNeverDrifts` and `SchedulerImplementsReservations` need the sum over the live grants of a
  device (`MapThenSumSet`, a fold, so a function chosen to satisfy a recursion over
  the subsets of a finite set). The provers cannot apply an induction theorem whose parameter is an
  operator, so the section on sums argues from a smallest counterexample: the strict subsets of a finite set are
  well-founded (`SmallestSet`), hence there is one function that satisfies the recursion and no other
  (`SumsAgree`, `SumExists`), hence the sum has the one equation that is needed (`SumStep`) and with it does not
  depend on the order of taking out (`SumTakeOut`, `SumPutIn`). An allocation puts one token into the sum of one device, a
  release takes one out, a second release finds no live token, and a drain empties the sum together with the total.
* `ResilienceProofs`. `LockInv`: the locks granted are in a total order, and two tokens of one
  counter generation drawn in time are in the order of their locks (`TokenOrder`); the tracker's
  last token bounds those that wrote. `MigrationInv`: the row of a migration and its count of
  effects follow the one call that claimed it, and a call is covered by its lock unless some
  call of its migration expired (`CoverInv`). `MigrationUsesTheLock`: every step of a migration is a step of the lock or
  leaves it alone, so `LockInv` holds there too.
  `MigrationImplementsClaims`: a row that is new is the one claim of its migration, by a call that is in no other; every effect is
  that of the single call inside, which then stays or lets go; neither a rollback nor a call that finds the row changes anything of it. `BreakerInv`: the probe flag stands exactly for the
  call admitted in the current period.
* `CallAudioProofs`. `VadInv`: a candidate is at least 192 ms older than the silence that
  follows it, which with a pause of 600 ms reaches 800 ms once the pause is over, since windows
  last 32 ms; this is why the theorem needs `ThresholdAssumption`. `GatewayInv`: what gate and adapter
  table say of a call, by the place of the coroutine at work on it. `PlaybackInv`: the last queued clause,
  the base of the current one and the number of pieces made are consecutive, and an interrupted
  turn that was not cleared still sees the signal. From its types follows, await by await, `PlaybackImplementsPlayout`: a clause that is
  rejected, prepared or done with changes neither what is queued nor the number of the next (`Unheard`), a piece that is queued takes exactly that
  number, and a run that ends, is interrupted at its final clause or meets a full queue is over (`TurnIsOver`).
  `AudioInv`: the buffer is a finite map of at most `BufferDepth` entries (`BufferNeverOverflows`, RI-3), and as
  long as the numbers have neither jumped nor wrapped every number up to the last one is played and what
  is left in the buffer is late (`Orderly`), from which `OnlyAJumpSilences`. Concealment is a recursive function over the
  numbers it fills and the pop loop ends at the first number that is missing; that both exist and are what the model says
  is shown once more from a least counterexample (`LeastNumber`, `FillsExist`).
* `BusinessProofs`. `BillingInv`: once a generation has marked its rows they stay marked, by it
  or by another (`MarkedInv`), so a later SELECT cannot find them; `OverlapInv` is the property from the SELECT
  on, before there is an invoice. The limit's bound is carried through the lost updates one by one. `TenantInv`: past `destroy_kek()` no key is left that existed at it
  (`OperationsAreValid`), and keys are numbered in the order of their creation; so a key under DELETED is from the gap or from later. `CampaignInv`: what each write still to come was validated against (`EditsAreProper`). `AudienceInv`: an open claim met every row and every open claim that other campaigns have for its
  customer (`ClaimsMet`).

  `ResilienceProofs` also has `PoolInv`: workers, the tasks they run and the stranded ones correspond,
  from which `StrandingsCostWorkers`.
* `RecordsProofs`. `SettlementInv`: of a settlement that nobody wrote over, the disbursement is announced or
  still to be announced, by one request (`AnnouncedOnce`); who is about to pay has an approver on record.
  `ReviewInv`: what the enforcer is about to report is flagged and not reported yet, and an item no claim came late for was
  handed out once. `InvitationInv`: what an activation has committed when it stands before its next statement.
  `ErasureInv`: what is gone at each step of a run, for whatever is on its lists. `WebhookInv`: a key
  is in the hands of the one dispatcher that claimed it, and what it has done so far is what the tables say. Its steps are of three kinds, which the
  proofs share: the tables rest (`Rests`), a key is taken up (`TakesUp`), the holder works on its key (`WorksOn`); each is a step of
  `ClaimedWork` (`DispatchImplementsClaims`). `AuditInv`: while
  no two appends overlapped, the append under way holds the last committed row, and every row carries the hash of the row
  committed before it, over the gaps of aborted ones; the property follows because a walk by seq meets the rows in the order of
  their commits. `LetGoForEver`, `StrandedForEver`, `OneReviewerUnlessLate` and `BrokenForGood` are action properties.

**Model-checked only.** The three liveness properties, `EveryCallEnds`, `AcknowledgedOrLeft` and `QueuedIsSettled`: fairness
and ENABLED are out of the prover's reach.

**Proved and not in a run.** The types of all modules; `CommitBeforeAct`, `PublishedOnce`, `DeadLetteredOnce`, `FailedStaysEmpty`,
`LetGoForEver` and `ClausesInOrder`, which the refinements of the runs contain; `JitterBufferBounded` (RI-3), which `push()` enforces step by step; `AnswerIsTheEffect`, `AbandonedStaysPending`, `PoolBacked`,
`MarksAreBacked`, `LostWorkersAreStrandings`, `BreachReportedOnce`, `AcceptedHasRole`, `BrokenForGood`, and one by one the two halves of
`DisbursedProperly` and `DeliveriesAreAccounted`. TLC found no violation of them on instances of the same size.

## 6. What is not modelled, and why

Signal processing, text processing, classifiers, policy rules and arithmetic reports are
pure functions of their inputs; portals, most repositories and the look-up services write
single rows. Together they are most of the code by lines: planning and perception
engines, script conversion, analytics, portals, deployment. A transition system has
nothing to say about them that a unit test does not. `PROJECT.json` gives the reason for each.

Of the components that are modelled in part, what is left out is in their notes there. In
particular: the five strategies of `libs/recovery` other than the CPU restart call
services that the repository only declares as ports; `handle_turn()` before its commit
computes a plan from data it is given; `charge_invoice()` is one call of an external
provider; campaign dispatch has no caller.

Components with some protocol that are not modelled: the dialogue manager's bookkeeping (one
synchronous step of one call after the other), rollout rings and feature flags (single rows), campaign
dispatch.

## 7. Plan

Done, in the order of importance to a call: the guard, the turn commit over it, the bus,
the GPU scheduler; then lock, fencing, migrations and breaker; the audio path and the worker pool; billing; tenants and
campaigns; audit, webhooks, settlements, reviews, invitations, erasure. Each has its runs and its proofs.

What would add most next:

1. `UsageBilling` and `WebhookDispatch` composed with `EventDelivery`: their entry points as handlers of the bus, to state
   which lost events are lost revenue or lost notifications.
2. The rollout of versions ring by ring.
3. The recovery strategies other than the CPU restart, once their ports have implementations.
