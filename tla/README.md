# Lane: specifications, checks and proofs

This directory holds a TLA+ development of A3S Lane (`src/`). It models the program's own
logic from its source, checks it with TLC on small instances, and proves the main results
for every instance with TLAPS.

## The system

Lane is two queues in one crate.

**The lane scheduler** (`src/src/queue.rs`, `manager.rs`) runs in-process commands. Commands
are submitted to named lanes with a priority and a concurrency limit; one scheduler task
dispatches them; each attempt is a spawned task that ends in success, in a retry after a
delay, or in a terminal failure that goes to a dead letter queue. Around it: rate limiters
(`ratelimit.rs`), priority boosting (`boost.rs`), command storage (`storage.rs`), the dead
letter queue (`dlq.rs`), partitioning and worker pools (`partition.rs`, `distributed.rs`),
and observation (events, metrics, alerts, monitor, telemetry).

**The job runtime** (`src/src/job/`) keeps JSON jobs with an explicit life cycle. A backend
(`backend.rs` is the trait; `memory.rs`, `local.rs` and `redis.rs` implement it) holds the
jobs; workers (`worker.rs`) claim them under a lease with a lock token, renew the lease, and
settle the job. Jobs may be delayed, prioritised, retried, deduplicated, repeated, retained
after they finish, and arranged in parent/child flows.

| Component | State | Operations | Interacts with |
|---|---|---|---|
| In-memory job queue (`memory.rs`, `types.rs`) | job table, parked duplicates, released owners, sequence counter, paused flag, behind one mutex | add, upsert_repeat, claim_next, renew, complete, fail, delay/release_active, recover_stalled_jobs, promote, reschedule, retry, set priority, remove, clean, drain, obliterate, pause/resume; flows | workers and managers call it; `local.rs` wraps it |
| Local durable queue (`local.rs`) | the in-memory queue and a JSON snapshot on disk | the same, each followed by a snapshot; open | file system |
| Redis queue (`redis.rs`) | the same state in Redis keys | the same, one Lua script each; blocking claim | Redis |
| Worker (`worker.rs`) | shutdown flag, registry of active leases | run loops, lease renewal loop, recovery loop, shutdown | backend, processors |
| Lane scheduler (`queue.rs`) | lanes (pending, active, delayed retries, pressure), outstanding permits, shutdown flag | submit, enqueue, dispatch, retry, settle, shutdown, drain | storage, dead letter queue, rate limiter, booster |
| Manager (`manager.rs`) | the scheduler's handle | start, drain, shutdown, stats | lane scheduler |
| Rate limiters, booster, priority queue, DLQ, retry policy, storage | small private state each | | lane scheduler |
| Worker pool (`distributed.rs`, `partition.rs`) | bounded channels, one worker task per partition, a shutdown flag | partition, enqueue, execute, complete, shutdown | its own channels only |

What is hard in this code, line by line, is the list of hazards in `PROJECT.json`. In short:
stale lock tokens and expired leases racing a recovery; many paths by which a job enters the
waiting list, ends, or is created again by deduplication or repetition; in Redis, thirty
scripts that keep six indexes by hand, decisions taken on a read one round trip old, parents
that wait for children, and clients that sleep until somebody leaves a marker; the admission
gate, delayed retries and permits on the way to a clean shutdown; snapshots and caches written
to disk out of order; counters updated in two steps.

## What makes each part correct

- *Job queue.* A job is locked exactly while it is active; a lease belongs to one token and
  ends only by its holder, by expiry or by a wipe; a dead token never works again. The claim
  order is total and fair. A deduplication id and a repeat series have one live owner, the
  duplicate parked behind an owner runs after it, limits and retention counts hold exactly.
- *Redis queue.* In addition: every record is in exactly the index of its state; a lock belongs
  to an active job; no waiting parent is without a child that can still release it, and none
  completes before its children; work that can be claimed does not meet a sleeping client
  without a marker; a job whose lock is gone is recovered.
- *Worker.* The registry holds the leases of jobs that are worked on and no others, and
  shutdown returns.
- *Local queue.* What an acknowledged call did survives a restart, and a crash never leaves a
  snapshot that cannot be opened.
- *Lane scheduler.* A lane's slots are neither exceeded nor lost; every accepted command is
  answered once; neither the end of the scheduler nor a drain overlooks an accepted command,
  wherever it is on its way; the storage holds exactly the unfinished commands.
- *Small parts.* A limiter never gives more than its rate; the storage file holds what the
  callers were told; commands of one priority leave the priority queue in the order they came;
  a command never loses urgency as its deadline approaches; a pool loses no result, and its
  shutdown returns.

## Modules

| Module | Models |
|---|---|
| `JobStore` | the records of `types.rs` and the functions of `memory.rs` that work on the state behind the mutex |
| `JobQueue` | every operation of the in-memory queue on standalone jobs, one action each |
| `JobLifecycle` | the lease contract of `JobQueueBackend`, abstractly |
| `JobQueueProofs` | theorems about `JobQueue`: its leases and its refinement, then order, deduplication, repetition and retention |
| `CommandQueue` | the lane scheduler, its spawned tasks, and the manager |
| `CommandQueueProofs`, `JobWorkerProofs`, `LocalJobQueueProofs`, `CommandStorageProofs`, `PriorityQueueProofs`, `RedisJobQueueProofs` | theorems about the modules they are named after |
| `RedisFlowProofs` | the theorem about the flows of `RedisJobQueue`, on top of `RedisJobQueueProofs` |
| `RedisStore` | the keys of the Redis queue and the Lua helpers the scripts are made of |
| `RedisFlows` | the submission scripts: jobs, repeat series, flows |
| `RedisScripts` | the scripts that claim, settle, recover, move and remove jobs |
| `RedisJobQueue` | the clients: one action per round trip, expiry of keys, blocking claims |
| `JobWorker` | the worker runtime over the lease contract of a backend |
| `LocalJobQueue` | the local queue's snapshots, crash and restart |
| `CommandStorage` | the cache and the file of `LocalStorage` |
| `RateLimiter` | the token bucket and the sliding window |
| `WorkerPool` | the distributed queue, its worker pool and the round-robin partitioner |
| `PriorityQueue`, `PriorityBooster` | the two algorithms of the same names |
| `MCJobQueue`, `MCCommandQueue`, `MCRedisJobQueue`, `MCParts` | the instances TLC explores |

### JobStore and JobQueue

`inner` is `InMemoryJobQueueState`: the job table (a function from ids, `None` where there is
no record), the parked duplicates `deduplication_next`, the released owners, the sequence
counter and the paused flag. `now` is the clock that the source reads with `Utc::now()`, in
ticks. Lock tokens are the numbers `1 .. issued`, since the source draws a fresh UUID for each
claim. Every operation runs under one mutex and is therefore one action, with one exception:
`recover_stalled_jobs` fails or requeues the stalled jobs and then settles the failed ones one
after the other from copies. The mutex is held throughout, so `todo`, the copies still to
settle, blocks the other actions while it is not empty; it is split so that the state between
two settlements is a state the properties look at. `presented` is a history variable: the
token the last call came with. No guard reads it.

Callers are not modelled. Any operation may come at any time, with any token ever issued, so
a worker that died, one that lost its lease, and two managers at odds are all among the
behaviours. A call that returns an error changes nothing and is a stuttering step.

`fresh_ids` stands for the ids `Job::new` draws: those not in the table. Definitions whose
comment begins with *Fault* are wrong variants of the definition below them; they are not part
of the specification and serve to show that a property notices the mistake.

### CommandQueue

`lanes` holds each `LaneState`, `outstanding` and `is_shutting_down` are the atomics of
`QueueLifecycle`, and `cmd` says where the wrapper of each command is: with a caller between
admission and its lane, pending, with the task of an attempt, asleep before a retry, or gone.
`releasing` holds the tasks of retried attempts, which have given the wrapper away and have
still to call `mark_completed`. `sched` and `drain` are the program counters of the scheduler
task and of a call of `QueueManager::drain`; both look at the lanes one by one, so that
everything else interleaves with a pass and with an idle check.

The rate limiter may refuse whenever one is configured, and the booster may answer anything
between the base priority and 0: what they compute is in `RateLimiter` and `PriorityBooster`.
Waiting for a notification or 10 ms is a step that may come at any time, so lost wake-ups cost
nothing here, as in the code, where both loops poll.

### The Redis queue

`db` is the key space: the job hash, the sorted sets of the six states, the dependency sets of
each parent, lock and deduplication keys, the keys of repeat series, the stalled set, the
marker set of blocked clients, and the pause, concurrency and rate-limit keys. Redis runs a
script without interruption, so each script of `redis.rs` is a function from one key space to
the next. The Lua code repeats its helpers in script after script; a helper is modelled once,
in `RedisStore`, from the copies the scripts hold, and what differs between copies is a
parameter or lies in the script. There is no clock: a key with a TTL may expire at any moment, and a delay
may end at any moment, which contains every timing of the real clocks.

`client` holds the calls that take more than one round trip, with what they have read:
`complete_job` and `fail_job` read the job first, `remove_repeat` looks up the owner, removes
the job and clears the keys, and a blocking claim loops over the claim script, the rate limit
and `BZPOPMIN`. All other calls are one script and may come from anybody at any time, with any
token ever issued, between the steps of these. A client may give up in the middle (`Abandons`).
`Operations` switches on the management calls an instance makes.

### The worker and the small parts

`JobWorker` reduces the backend to its lease contract: a token settles or renews the job it
holds, even past its expiry, until a recovery takes the job back; other workers exist. Each
iteration is split where it waits: the look at the shutdown flag, the claim (which may block and
come back with a job long after the flag was set), register, process (with renewals in between),
settle, unregister. `promote_due_jobs`, which a loop awaits before the claim, moves no job of the
model, where delays take no time. The renewal loop is split into its copy of the registry, the
look at the flag when the copy is empty, the call to the backend and the marking of lost leases;
the recovery loop into its look at the flag and the recovery. A loop may thus claim and register
after the renewal loop has ended. A caller of `run_once` looks at no flag.

`ShutdownReturns` says that `shutdown()` returns all the same: a loop that got through claims at
most once more, and comes to its end without the renewal loop. The one exception is a lease that
a panicked processor leaves in the registry for good (`Leaked`), which keeps the renewal loop
going; when another loop claims the job again and unregisters it, `shutdown()` returns.

`LocalJobQueue` abstracts the queue to a version number, since what matters is which
mutations a snapshot contains; files are inodes, so that a writer goes on writing to a file
that another has renamed. `CommandStorage` keeps the lock, the cache and the file, which is
rewritten in place. `RateLimiter` splits the refill where the code loads and stores the
counter. `WorkerPool` splits each worker's iteration at its flag, its `try_recv`, the execution
and the send of the result. `PriorityQueue` adds to each item when it was pushed, which the
code does not keep, to be able to say what FIFO means over restores and renumberings.

These parts do not call each other. `MCParts` explores them in one run in which a behaviour
belongs to one part; the variables of the others do not move.

## Runs

Passing runs; together they take every action.

| Run | Shows |
|---|---|
| `lifecycle` | leases are consistent, tokens never revive, finished jobs are pruned to the counts asked for, `JobQueue` implements `JobLifecycle`, and no lease outlives its expiry for ever |
| `submission` | waiting jobs are totally ordered, within a priority only a LIFO job or one given back by its worker passes another, and a deduplication id never has two live owners |
| `repeat` | a series never forks nor exceeds its limit, and the duplicate parked behind an occurrence runs after it |
| `lanes` | no idle check overlooks a command on its way, across failures, retries, panics and a command that bypasses `submit` |
| `lane_service` | slots are counted exactly, storage and dead letters agree with the work, accepted commands are answered and shutdown completes |
| `redis_flows` | with parents, children under different failure policies and children added while the parent runs: indexes agree with records, no parent is stranded, none completes early |
| `redis_series` | with a repeat series, parked and debounced duplicates and the management calls: indexes and locks agree with records, retry decisions are current when they take effect, the series does not fork, a parked duplicate has an owner |
| `redis_wakeup` | no wake-up is lost between two blocked clients, and a job whose lock is gone is recovered |
| `parts` | the worker's registry and shutdown, the local snapshots over crashes, the storage file, the rates, the order, the boost and the pool |

Runs that refute a statement of the documentation, each with a finding in `PROJECT.json`:

| Run | Shows |
|---|---|
| `panic_slot` | a command that panics keeps its slot for ever, and drain can then only time out |
| `redis_renew` | `renew_lease` of the Redis queue counts four keys and passes five, so that it never extends a lease (`renew_leases`, which the worker's run loops use, does) |
| `local_overwrite` | two concurrent calls of the local queue: an older snapshot is renamed over a newer one whose mutation was acknowledged |

The instances leave out what the code is known to get wrong or to leave open, so that the rest
is checked; *Observed, and not the subject of a run* lists it. `submission` has no `keep_last_if_active`,
and the jobs of `repeat` that share an id belong to one series. `parts` has one client of the
local queue (two are `local_overwrite`) and one caller of the limiter, as a lane has. In
`redis_flows` a parent's id is not submitted again while the parent exists.

**Bounds.** In `JobQueue` two job ids suffice for the interactions of two live jobs, and an id
is used again once its record is gone, so histories are longer than two jobs. `MaxClaims`
bounds the leases: with two, one job can be claimed, recovered and claimed again while the
first holder still presents its token; `submission`, which is not about leases, has one.
`MaxTime` of one tick with durations of one tick lets leases, delays and TTLs be pending and
exactly due. `MaxSeq` stops callers from requeuing once that many sequence numbers are out; a
step the queue takes by itself (promotion, recovery, the next occurrence) is never cut off. One
set of options per run switches on one feature, and all operations are possible in every run.
In `CommandQueue` two commands and two lanes show a pass deciding between lanes and an idle
check moving from lane to lane; two commands and two slots show a retried command running
beside its own last attempt while another takes the slot. Retries are limited to one.

In the Redis runs three jobs are a parent with two children, or three that compete for one
series and one id; two are enough where only waiting and waking matter. `MaxClaims` is three
in `redis_flows`, so that a parent and both children run (one child of the flow there passes its
failure on, the failure of the other is ignored, and that of the child the running parent adds
fails the parent; the policies that remove the dependency or let the parent
continue are in the model, and not in this instance), two in `redis_series`, so that a
stale holder meets a new one, and one in `redis_wakeup`, where two clients compete for it. One
modelled client suffices for the calls of several round trips, since every one-script call, claims
included, comes from anybody in between.

In `parts`: one job (with or without a deferred failure), two loops, a caller of `run_once` and
two claims let a recovered job be claimed again by the other loop of the same worker, and a loop
claim it after the renewal loop has ended; three mutations with crashes between;
two writers of two commands; a window of three with two commands per window, and seven instants; three
envelopes for two partitions and channels of one; three sequence numbers for four pushes, so
that renumbering happens.

No symmetry is used: job ids break ties in the source's orders, and the liveness runs may not
use it.

**Fairness.** `lifecycle` assumes weak fairness of the clock and of
`recover_stalled_jobs` (with its settlements): a worker runs a recovery loop with an interval
by default (`worker.rs`, `recovery_loop`). Nothing is assumed of the holders of leases.
`lane_service` assumes weak fairness of each command's own tasks, of the tasks that release a
retried attempt, and of the scheduler once started: they are spawned on the tokio runtime, and
the scheduler polls. A command is assumed to return or to run into its timeout. Callers need
not start, shut down or drain anything. `redis_wakeup` assumes only that `recover_stalled_jobs`
is called again and again, as the worker's recovery loop does. `parts` assumes that the tasks
of the worker and of the pool are scheduled, that a processor returns, that the backend answers
(with a result or an error; a blocking claim has a timeout), and that the
coordinator of a pool goes on receiving results; without the last a full result channel blocks
the workers, and shutdown with them. No strong fairness is used.

## Observed, and not the subject of a run

Behaviour met while modelling that a maintainer may want to look at. It is in the models where
the parts are modelled, and the passing runs are instantiated around it.

- `enqueue_deduplicated_next_locked` (memory.rs:2266) hands the duplicate parked under an id to
  any finishing job with that id, without asking whether it still owns the id. After
  `remove_deduplication_key` the duplicate parked behind a second, still active owner may start
  beside it.
- An id gets two owners in memory in two more ways. A duplicate with a TTL and `extend_ttl`
  gives a keep-last owner an expiry (memory.rs:2340), so that it stays the owner after it has
  ended, beside the duplicate that was parked behind it. A repeating job with a TTL stays the
  owner after it has ended, while its successor is inserted without a look at the id.
- A keep-last duplicate of a series is counted against the limit of the job it follows, not
  against its own (memory.rs:4183): with a smaller limit of its own it runs past it.
- A replacing duplicate with `extend_ttl(true)` inherits the expiry of the owner it replaces
  (memory.rs:4132), where src/README.md:912 says that it refreshes the TTL.
- Removing the owner of an id in memory keeps the duplicate parked behind it (memory.rs:1248).
- A lane that comes under pressure in the scheduler's last pass never reports
  `queue.lane.idle` (queue.rs:619; config.rs:95). A command given to `Lane::enqueue` after the
  scheduler has ended stays pending for ever. Registering a lane id twice orphans the pending
  commands of the first lane. A pass takes a token of the rate limiter also for a lane that is
  idle or full.
- Redis flows: retrying a finished parent or child by hand does not restore its dependencies;
  a parent that fails by `fail_parent` does not inform its own parent; a refused flow leaves
  the duplicates behind that it had parked before the refusal.
- Redis deduplication: a duplicate parked behind an active parent loses its owner when that
  parent fails through `fail_parent`, and a parked child of a static flow is not in the
  dependency set of its parent.
- Redis wake-ups: raising the concurrency limit sets no marker, nor does the removal of an
  active job whose lock has expired; a rate-limit window may end between the claim and the
  look at its TTL; a client whose deadline passes after `BZPOPMIN` keeps the marker it took. Blocked clients then sleep on, at most
  for `MAX_MARKER_BLOCK_TIMEOUT`. Conversely the marker of a delayed job that the claim script does not
  take up wakes clients again and again.
- `remove_repeat` of the Redis queue (redis.rs:11980) takes several round trips: an occurrence
  that is created in between can lose its series key.
- The worker marks leases lost by job id (worker.rs:684): a renewal refused for an old lease
  may mark the new lease of the same job, and the first loop to finish unregisters the other's
  entry. A processor that panics leaves its lease in the registry; the renewal loop keeps it
  alive, and `shutdown` does not return, until the job is claimed again by a loop of the same
  worker. A loop that was past its look at the flag (worker.rs:474) when `shutdown` was called may
  register a lease after the renewal loop found the registry empty and ended (worker.rs:516):
  nobody renews that lease, and a processor that takes longer than it loses the job to a recovery.
- Two callers of one token bucket: a token spent between the load and the store of a refill is
  given again. The bucket of `RateLimitConfig::unlimited` adds to the largest integer.
- `clear_all` of the command storage deletes the file without a lock, so a change that comes in between
  is not on disk. A crash in the middle of a write leaves a file that is ignored on start.
- An executor that panics ends its partition's worker in the pool without a sign.
- `PriorityBooster` applies the last matching interval, which is the strongest only if boosts
  grow towards the deadline, as in the configurations the code constructs.

## Proofs

Every theorem holds for every value of the constants, under the assumptions that the modules
state for them: job ids are a finite set of numbers, commands and lanes are finite sets, options
and configurations are well-formed, durations and bounds are natural numbers, and `None` is none
of these. Where a theorem needs more, the hypothesis is in its statement and explained below.

| Module | Theorem | Shows |
|---|---|---|
| `JobQueueProofs` | `TypeCorrect`, `LeasesConsistent` | `TypeOK`, `LeaseConsistent` |
| | `TokensNeverRevive` | `TokenNeverRevives` |
| | `Refinement` | `JobQueue` implements `JobLifecycle` |
| | `ClaimsAreDetermined`, `NobodyOvertakes` | `WaitingOrderIsTotal`, `NoOvertaking` |
| | `RetentionIsExact` | `RetentionHolds` |
| | `DuplicatesRun` | `LatestDuplicateRuns` |
| | `SeriesHaveOneOwner`, `LimitsHold` | `RepeatSingleOwner` given `SameKey`, `RepeatWithinLimit` given `SameLimit` |
| | `IdsHaveOneOwner` | `DedupSingleOwner` given `SimpleIds` |
| `CommandQueueProofs` | `TypeCorrect`, `IdleMeansEmpty` | `TypeOK`, `IdleLaneIsEmpty` |
| | `SlotsCounted`, `ConcurrencyBounded` | `ActiveCountsTasks` without panics; the bound on tasks also with them |
| | `ShutdownIsFinal`, `DrainIsFinal` | `ShutdownCompleteIsFinal`, `DrainWaitsForAll` |
| | `StorageExact`, `DeadLettersExact` | `StorageMatchesWork`, `DeadLettersKept` |
| `JobWorkerProofs` | `RegistryIsWorkedOn`, `OneWorkerPerToken` | `RegisteredIsWorkedOn`; a token has one iteration |
| `LocalJobQueueProofs` | `Durable`, `Reopens` | `AckedSurvives`, `SnapshotOpens` for one caller |
| `CommandStorageProofs` | `FileIsCache` | `FileMatchesCache` |
| `PriorityQueueProofs` | `Fifo` | `FifoWithinPriority` |
| `RedisJobQueueProofs` | `IndexTheorem`, `LockTheorem` | `IndexAgreesWithState`, `LockMeansActive` |
| | `RetryDecisionTheorem` | `RetryDecisionIsCurrent` |
| | `WakeupTheorem` | `NoLostWakeup` given `RateMax = 0`, `~Abandons` and `0 \notin Limits` |
| `RedisFlowProofs` | `CompletionTheorem` | `CompleteOnlyAfterChildren` given `"retry" \notin Operations` |

### Leases of the in-memory queue

The inductive invariant is `Inv == TypeOK /\ LeaseConsistent`. `LeaseConsistent`
alone is not inductive without the types, and without its clause about `todo` (the tokens of
the jobs a recovery is still settling are dead) settling such a job could end a lease. The
operations are composed of the same dozen functions on the state, so the proof is in two
layers. First, each function of `JobStore` is shown to make a `Change`: the jobs that are
active keep their lease, no other job gets one, and nothing becomes done; mostly a `Gentle`
one, in which moreover no ready job disappears. Both relations compose. Then each operation is
shown to be of one *kind*: quiet (a change and nothing else), the settling of one lease under
its token, the recovery of expired leases, a settlement of `todo`, the grant of a lease, its
extension, a wipe, or a tick (`EveryStepHasAKind`). The invariant, the action property and the
refinement are each proved once per kind, no longer once per operation. `presented` is what
makes the refinement say that a lease ends early or is extended only by a call that came with
its token.

### The job table

The second half of `JobQueueProofs` builds on that and adds `TableInv == Sound(inner, now) /\ TodoInv /\ Retained`.

- `Sound` says of a table: the sequence numbers of waiting jobs are never ahead of the counter and
  are not shared, but for the number 0 of released jobs (`Numbered`); a series has one
  live job and an id one owner (`OneLive`, `OneOwner`, under the hypotheses below); every record
  has the deduplication and repeat options of a submission, is finished at some time if it is
  terminal and was taken up at some time if it is active. The last clause is needed for recovery,
  which orders the stalled jobs by that time: the requeued jobs get distinct numbers only if the
  order is total.
- `TodoInv` and `Retained` bridge the settlement of a recovery. While stalled jobs are
  being settled one by one, more finished jobs than allowed may be in the table; `Retained`
  bounds those that are not still to be settled, and `TodoInv` knows what the others are.
- `Orderly(S, a, b)` is what an operation may do to the waiting list: a job that waits in `b` kept
  its place, or has a number above all numbers of `a`, or is one of the jobs `S` that were given
  back. Each helper keeps a table sound and is orderly, both compose, and every operation is
  `Tidy`: sound, orderly, and with the retention of every job it finished applied. The
  theorems about order and retention follow from `Tidy` and `TableInv` once for all operations.

`DuplicatesRun` needs the leases only: the token that a call presents names one job, so a step
that ends a job with a token is the `complete_job` or `fail_active_job` of that job, or the
settlement of a stalled one, and each hands the parked duplicate over. All other steps end nobody
(`EndsNobody`).

The hypotheses concern the options that jobs are added with, and the option sets of the runs
satisfy those of the properties they check. `SameKey`: jobs that share a deduplication id belong
to the same series or to none. `SameLimit`: within a series they have the same limit.
`SimpleIds`: a job with an id neither parks duplicates nor repeats. Without them the properties
fail; the first entries of the section above say how.

### The lane scheduler

`CommandQueueProofs` ties each counter to what it counts. The parts of its invariant are
`PermitsCounted` (`outstanding` is the number of accepted unfinished commands), `PendingQueued`
(a pending command is in the queue of its lane, once), `RetriesCounted` (the delayed retries of a
lane are its commands between two attempts), `TasksCounted` (the active count is at least the
number of tasks, exactly without panics, and at most `max_concurrency`), `StoredExactly`,
`BuriedFirst` (a dead letter is written before its caller is answered), and, for the control,
`ClosedAtZero` (a scheduler or a drain that has seen zero permits after shutdown sees no more).
`AttemptsPast` says that the tasks that are still to be released belong to earlier attempts: a
retried command may be running again while its previous task has not yet called `mark_completed`,
and without it the two tasks could not be told apart and counted. With a panic the slot is lost
(run `panic_slot`), hence `~MayPanic` in `SlotsCounted`.

### The small parts

- `JobWorker`: `TokensDrawn` (an iteration holds a job under a token that was handed out, or
  neither) and `TokensUnique` (no two under the same) tie the iterations to the tokens; a job that
  is claimed again comes with a new one.
- `LocalJobQueue`: with one caller, at most one snapshot is being written, and the file under the
  snapshot's name is complete and no older than the last answer. The hypothesis that there is one
  caller is the one that matters: with two the property fails (run `local_overwrite`). `Nil` is no
  number.
- `CommandStorage`: the file is written under the read lock and the cache is changed under the
  write lock, so whoever writes the file writes what the cache holds, and two writers cannot leave
  the older of two states behind. `Distinct` says that the marks for no process, no file and a
  partial file are not sets of commands.
- `PriorityQueue`: the sequence numbers of the items that are not stale are in the order of
  arrival. The invariant speaks of the pending items and of those that are out alike, since these
  may be restored; renumbering keeps the order as ranks are strictly monotone.

### The Redis queue

The inductive invariant is `RedisInv == Sound(db, {}) /\ Tokens /\ Calls`, and it is shown to be
kept by every action of the clients, of the management calls and of the environment
(`RedisInvHolds`), each with all the helpers its script is made of.

- `Sound(st, hand)` says of a key space: it has its shape (`Shape`; a parked flow names no job
  twice), and every job is `Fine`, that is in the index of its state and in no other, and locked
  only if it is active. Inside a script this is not so: a job is taken out of one sorted set a
  few lines before it is put into another. The jobs for which that is the case are `hand`; they
  are in no index and have no lock. A helper that takes a job out adds it to `hand`, one that
  puts it into an index removes it, and each script ends with an empty hand. This is how the
  order of the calls within a script enters the proof.
- `Tokens`: a lock holds a token that was drawn, for that job; `issued` has one job per token, so
  no two jobs share one.
- `Calls`: what a client read in an earlier round trip is true of the record while the client's
  token is the job's lock. `Kept(a, b)` is what a script must do for that: it sets no lock, and
  what a retry is decided on does not change while the lock stays. It composes, so it is proved
  for a script from its helpers; only a claim is different, and has its own lemmas.

The loops of the scripts (children of a flow, due jobs, stalled jobs, candidates of a removal)
are recursive functions on positions (`InTurn`). For each loop a lemma shows that the function
exists and takes its steps, and `Climb` that what each round keeps holds at the end. `Climb` is
induction with a set in place of a predicate. In the loops of `examine_flow` and
`add_flow_children` nothing moves (`Quiet`), but they decide which children are inserted;
`Judged` carries that a child to be inserted has no record to the loop that inserts it, and
`DistinctIds`, which the source checks in `validate_flow_job_ids` and `validate_flow_child_jobs`,
that it still has none when its turn comes. Without that a child named twice would be in two
indexes.

`WakeupTheorem` needs a second invariant, `Wakeful`: the queue is `Awake` (nothing waits, it is
paused, it has a limit on active jobs, or the base marker is set), or some client has taken the
marker and is about to claim. `Wakes(a, b)` is what a script must do for it: set the base marker,
or take none away and add nothing to an empty waiting set, and leave the pause and the limits
alone. Like `Kept` it composes, so each script has it from its helpers and loops; `Passes` is the
same for the loops of the flows, which carry the key space along with their verdicts. The scripts that do
not have it are looked at one by one: taking a marker (the client goes on to claim), pausing, resuming (sets
the marker), setting a limit, and the claim itself. A claim that finds a job sets the marker again;
one that finds none has seen that nothing waits or that nothing may be claimed. `NoLostWakeup` also
excuses a client that is about to look for due jobs, and the proof shows that this excuse is never
needed. The hypotheses are the three ways out that the code leaves open: a claim refused by the
rate limit or by a limit on active jobs that is later lifted (`0` in `Limits`) leaves no marker, and
a client that is cancelled after it took the marker keeps it.

`CompletionTheorem` rests on `RedisInv` and on a third invariant, `Tended`: no parent *neglects* a
child, that is, every parent that has not ended has each child that has not ended in its `pending`
set. `complete_job` refuses a parent whose `pending` set is not empty (`Unawaited`), so the property
follows. `Heeds(X, Y, a, b)` is what a script must do for it: no parent outside `X` comes to neglect
a child, no job outside `Y` comes to be completed; it composes. Here, too, the order of the calls
within a script matters. A flow writes the parent and its children before `await_children` fills the
set; a parked duplicate gets its record before its parent adopts it; a parent that fails drops its
set before its record says so. In between the parent is in `X`, and it is shown to leave it again:
it has ended (`HeedsEnded`), or its set is filled (`HeedsPending`, and `LeavesHeeds` for the writes
of a whole flow). A child that a flow skips may still be in the parent's list of children, as the
next job of a deduplication id. It is not awaited, which is sound because it has no record until the
parent adopts it; `Surveyed` carries that from the loop that examines the children to the one that
writes them. A manual retry is excluded, as in the run: it makes a finished child, or a finished
parent, live again without filling the set, so the parent runs without waiting again.

The assumptions are those of `RedisStore` and `RedisJobQueue`: `JobIds` is finite, `None` is no
id and no record, submissions are well-formed, and a flow names no job twice.

### Only model-checked

- Of the Redis queue: `NoStrandedParent`, `ParkedHasOwner` and `RepeatSingleOccurrence`. They
  say that a parent, a parked job or a series has somebody left who will take care of it, for which
  neither `RedisInv` nor `Tended` gives a reason, and they also need the options of the
  instances, see above.
- `PermissionsKeepRate` of the limiters: the products of rates and times are nonlinear.
- The algorithm of `PriorityBooster` and the worker pool.
- Liveness, which is out of the prover's reach.

## Plan

1. For the Redis queue, extend `RedisInv` by the deduplication and repeat keys (a parked job has
   an owner that will hand over to it), from which `ParkedHasOwner` would follow, then by the
   converse of `Tended` (whoever is in a `pending` set has yet to end), for `NoStrandedParent`.
2. The flows of the in-memory queue, as an extension of `JobStore` and `JobQueue`.

## Not modelled

- The flows of the in-memory queue. Their rules are those of the Redis scripts, which are
  modelled; the code is another.
- Job payloads, progress, logs and results, event texts, statistics, metrics, alerts and
  telemetry: they are written and read but decide nothing.
- Retention by age in Redis, and backoff times, which are floating-point.
- What a power failure does to files that were written and not synced, and a future that is
  dropped between two of its steps.
- In `CommandQueue`: a second scheduler started with `start_scheduler`, a second lane under a
  used id, two drains at once, and an operator's `pop` and `clear` on the dead letter queue.
- The dead-letter file of `LocalStorage`, which follows the scheme of the command file; hash
  and custom partitioners; executors of a pool that panic.
