# A TLA+ model of luci-go

luci-go is the Go code of LUCI, a continuous integration infrastructure: App
Engine services (scheduler, logdog, dm, milo, tokenserver), the libraries they
share, and command-line clients. This directory models the parts whose
correctness depends on the order in which things happen: the scheduler; tumble,
the library of deferred transactions, with the memcache lock it works under; DM,
a graph of work whose state machine is made of tumble mutations; and the way of a
LogDog stream from its first bundle to its archive.

## Inventory

| Part (directory) | State | Operations | Talks to | What is hard |
|---|---|---|---|---|
| **scheduler engine** (`scheduler/appengine/engine`) | Job entities with a `JobState`, Invocation entities, tasks in two App Engine queues, PubSub messages | config updates, pause, trigger, abort, tick, start, overrun, timer, notification | task queues, task managers, PubSub, datastore | at-least-once delivery, stale copies of an Invocation across RPCs, crash between transaction and launch, schedule changes under a running invocation |
| **scheduler state machine** (`engine/statemachine.go`) | `JobState` | one handler per event | called by `rollSM` in a transaction | tick bookkeeping over long sequences of events; panics |
| **schedules** (`schedule`) | none | `Next`, `IsAbsolute`, `Parse` | cron library | absolute against relative schedules, first invocation |
| **task managers** (`task/*`) | data blob in the Invocation | `LaunchTask`, `AbortTask`, `HandleTimer`, `HandleNotification` | Swarming, Buildbucket, Gitiles | late and early notifications, orphaned remote tasks |
| scheduler catalog, UI, API | configs | parse, validate, list | engine | none of the above |
| **tumble** | journal of mutations, shard locks, last timestamps | `RunMutation`, `processShard`, `processRoot`, `FireAllTasks` | datastore, memcache, task queues | replay after a crash, starvation by failing mutations, work left to a cron |
| **memlock** (`appengine/memlock`) | a memcache item | lock, refresh, release | memcache | expiry and eviction under the holder |
| **dm** | quests, attempts, executions, dependencies | mutations run by tumble | distributors | races of completion, dependencies and timeouts |
| **logdog** collector, coordinator, archivist | log streams, caches of their state, archival tasks | register, terminate, archive | storage, PubSub, RPC | per-stream promises, stale terminal index, archival retries |
| logdog butler | bundles | buffer, send | transport | size and delay limits |
| **caching and sync** (`common/data/caching`, `common/sync`) | slots, LRU lists, promises, mutex pools | get, refresh, lock, wait | callers' goroutines | one refresher at a time, clock read before a lock |
| datastorecache, gaeauth, gaesettings | caches of remote data | get, refresh | datastore | staleness |
| server (auth, tokens, settings, router), tokenserver | per request | check, mint | auth service | mostly stateless |
| cipd, client, vpython, deploytool, tools | files | install, archive, run | file system, RPC | file system effects |
| grpc, common (auth, tsmon, formats, ...), luci_config, lucictx, milo, web, examples, infra, scripts, hardcoded, swarming, buildbucket | little | | | pure, I/O or presentation |

What makes the scheduler correct: a job never forgets its next tick, starts
invocations exactly when its schedule or a user says so and one at a time, keeps
trying to launch a queued invocation a bounded number of times, never changes a
finished invocation, notices that a remote task has finished, and resumes after
every outcome. The properties below say these things precisely. What makes tumble
correct: a journalled mutation is rolled forward, with everything it produces,
whatever is lost on the way. Of memlock: two holders only where memcache dropped the
item of one. Of DM: an attempt that waits is woken, one that is scheduled is
executed, one execution at a time, and an execution that goes silent times out. Of
LogDog: what was acknowledged is in storage, and a stream is archived, once.

`PROJECT.json` lists the hazards at the lines where they bite, with the
properties that would catch them.

## Plan

1. *Done:* the scheduler: `Schedule`, `StateMachine`, `Job` (the promise),
   `Engine` (the handlers, which implement it), `JobProofs`.
2. *Done:* `Memlock` with its promise `LockPromise` and `MemlockProofs`;
   `Tumble` with its promise `TumblePromise`; `TumbleShards`.
3. *Done:* `DM` on top of the promise of tumble.
4. *Done:* `LogDog`: collector, Coordinator, archivist, for one stream.
5. *Done, theorems:* every safety property of the runs, and the three refinements
   (`Engine` of `Job`, `Tumble` of `TumblePromise`, `Memlock` of `LockPromise`).
6. *Left, modules:* the promise and the lazy slot of `common/` as components of
   their own (the part of the promise that the collector relies on is in
   `LogDog`), the butler's bundler, datastorecache, and the deployer of the cipd
   client.

## The modules

    Schedule <- StateMachine <- Job <- JobProofs <---.
                                 ^                    |
                        MCJob ---+--- Engine <- EngineProofs
                                        ^
                                     MCEngine

    LockPromise <= Memlock <- MCMemlock, MemlockProofs
         ^
         | (INSTANCE: the lock of a shard)
       Tumble => TumblePromise
         ^
         +--- TumbleProofs
         '--- TumbleShards <- MCTumble, ShardProofs

    DM <- MCDM, DMProofs            LogDog <- MCLogDog, LogDogProofs

    FiniteLemmas <- EngineProofs, DMProofs, LogDogProofs

An arrow `<-` is EXTENDS, `=>` and `<=` point to the specification a module
implements. `Engine` also implements `Job`, whose variables are its own.

**`Schedule`** is `schedule.go`: a schedule is a record of its kind (cron, with,
triggered), its interval and the random offset of its first tick. The cron
library is the parameter `CronNext`, assumed to return a later moment that is
before `DistantFuture`. Time is a natural number, 0 is Go's zero time.

**`StateMachine`** is `statemachine.go`, one operator per event handler and
helper, on a record of the machine's inputs (`Now`, `Schedule`, `Nonce`), its
`State` and the tasks it has emitted. The code's panics (`impossible`) lead to a
state of their own, `"IMPOSSIBLE"`, so that their absence can be checked. Random
nonces are numbered in the order in which they are drawn: the code relies only
on their being fresh. `InvocationTime`, which only the UI reads, is left out.

**`Job`** has one action for every transaction on a Job entity in `engine.go`
(`updateJob`, `disableJob`, `setPausedFlag`, `resetJobOnDevServer`,
`TriggerInvocation`, the job half of `AbortJob`, `jobTimerTick`, the transaction
at the head of `startInvocation`, and the transitions `saveImpl` makes) and the
sets of tasks they emit. A datastore transaction is one step: the entity is put
and its tasks join the queues together. One job is modelled, because jobs are
separate entity groups that share no state. A task stays in its queue when its
acknowledgement is lost (`acked = FALSE`). A tick may be delivered at any time,
even early: the handler's guard against that is part of what is checked. A task
that records an overrun is dropped when no invocation ID can be drawn for it, an
error the code does not tag as transient (`overrunsLost` remembers it). Updates
that leave the schedule alone (a new task definition or revision) change nothing
that is modelled.

`Job` is also the *abstract specification* of the engine. It does not say how
launching goes, only that a start task is attempted, retried, and acknowledged
no sooner than the job stops expecting it. `StartAttempt` has a guard that is not
in the code and restricts nothing: the retry count of a start task is the queue's
count of its executions, so it is higher than that of the attempt before.

**`Engine`** has the handlers between the transactions. A *worker* is a request
in flight. It carries a copy of the Invocation (`taskController`), calls the
task manager, and commits through `saveImpl`'s compare-and-swap on
`MutationsCount`. Its program counter marks the points where another request can
come in between: after the transaction that begins an attempt (`launch`), after
the log is saved (`rpc`), after the task manager has returned (`save`), and
before the response reaches the queue (`respond`).

| Code | Actions |
|---|---|
| `startInvocation` | `BeginAttempt`, `GiveUp`, `SkipAttempt`, `StartTxnFails`, `LaunchSaveLog`, `LaunchTask`, `SaveLaunched`, `RespondStart` |
| `invocationTimerTick` | `BeginTimer`, `SkipTimer`, `RejectTimer`, `CheckTaskStatus`, `SaveCallback`, `RespondTimer` |
| `handlePubSubMessage` | `BeginNotification`, `SkipNotification`, `RejectNotification`, `CheckTaskStatus`, `SaveCallback`, `RespondNotification` |
| `AbortInvocation`, `AbortJob` | `AbortInvocation`, `AbortJob`, `ReadAborted`, `SaveAborted` |
| the environment | `Crash`, `RemoteStarted`, `RemoteDone` |

`LaunchTask` and `CheckTaskStatus` stand for the task managers by their outcomes
and side effects. The Swarming and Buildbucket managers have the same control
flow; noop and urlfetch finish in one go, which is one of the outcomes, and so
is the failure of a launch to set up a task controller. What can go wrong is
chosen by the constant `Faults` and counted by `MaxFaults`:

* `crash`: a handler dies, or its response is lost;
* `start`, `save`: the transaction at the head of `startInvocation`, or the one of
  `saveImpl`, does not commit, which `txn` returns as a transient error;
* `fatal`: a datastore call inside one of these transactions fails and the
  callback returns its error untagged (`engine.go:1401`, `1429`, `1440`, `1449`,
  `1909`). `txn` passes it on, and an untagged error is a fatal one: the start task
  is dropped, or the notification is acknowledged, since `handlePubSubMessage`
  then returns the error of its handler and not the one of the save;
* `reject`: a callback is acknowledged because its token does not validate or its
  task cannot be read;
* `rpc`: a status check fails; `orphan`: a launch fails after it created the remote
  task.

Losing a compare-and-swap is no fault: it happens whenever two workers hold copies
of the same Invocation.

**`Memlock`** is `memlock.go`. A client is a call of `TryWithLock`: the caller and
the goroutine that refreshes the item (the keeper), one step per memcache call.
`checkAnd` is a Get and a CompareAndSwap, and the swap succeeds if the item is
still the one that was read (`fresh`). The item may leave memcache at any moment.
Every memcache call may also fail.

**`LockPromise`** is what is left of mutual exclusion: a client enters only if
every client inside has *lapsed*, that is, lost its item. Memcache gives no more,
and the code asks for no more: everything done under the lock has to be safe
without it. `Tumble` uses `LockPromise` for the lock of a shard, so that what is
shown of it includes two workers at a time on the same shard.

**`Tumble`** is the journal for one shard (shards share nothing but the journal's
entities, and `TumbleShards` is about how they divide it). Requests journal
mutations (`RunMutation`, `CancelNamedMutations`) and fire a task after they commit;
`PutNamedMutations` is called inside a transaction, so that its task is fired before
that commits (`CommitNamed`) and also if it does not (`AbortNamed`). A task is named
after a slot of time, so that the queue may take it for a duplicate. A worker is the
execution of a process task: it takes the lock, then in rounds queries an eventually
consistent index (`index` trails `journal`), groups what it found by root, rolls a
batch of each forward in one transaction with nested ones for each mutation, and
deletes from the journal what was processed. Times are relative to the present, and
the present is kept modulo the length of a slot, so that behaviours of any length
have finitely many states. A worker gives up if it does not get the lock
(`LockFails`): because another is inside, because the item of one that crashed is
still in memcache, or because memcache fails. The faults are: firing a task, the
abort of a transaction that put a named mutation, a lock that memcache refuses, a
delete inside the transaction, a `RollForward`, a transaction attempted twice, a
commit, a delete after the commit, the loss of the lock, a crash. Kinds in `Broken`
fail whenever they are run.

**`TumblePromise`** is what an application may rely on. A journalled mutation is
waiting until it is rolled forward, in one step with the journalling of what it
produced; a mutation put under a name may be withdrawn before it ran.

**`TumbleShards`** is the arithmetic of shards, on machine integers from
`-Half` to `Half - 1` that wrap around, so that `Half` is 2^63 in the code, and
the property that the two computations of the code agree.

**`DM`** has one action per mutation of `dm/appengine/mutate` and one per step of
`EnsureGraphData`, which reads outside the transaction it then starts. Tumble is
used by its promise: a mutation in `journal` may be rolled forward at any time, in
any order and, as a fault, twice; as another fault (`stale`) it is loaded before,
and deleted after, another was put under its name, which leaves an execution without
its timeout (the timer is then `"gone"`). The activation token and the execution
token that takes its place are one field: both name the task that holds them. The
distributor is known by its interface: it starts a task, the task activates its
execution, adds dependencies or finishes, and ends; its notification may be lost or
repeated. What users and tasks want in a behaviour, and which faults may happen, is
a `load`, chosen in the initial state and never changed.

**`LogDog`** follows one stream. A collector thread (handler) takes a bundle, looks
the stream up in the cache (the first one there makes the RPC, the others wait on
its promise), stores the entries, reports the terminal index, and acknowledges. The
entries of a bundle are one row of the table: a bundle holds at most 10 MiB
(`sizes.go:10`, enforced by `butlerproto/proto.go:98`), which is the size at which a
row is split (`bigtable.go:33`). Storage may fail transiently, or refuse a bundle's
data for good (`refused`), upon which the bundle is acknowledged. The Coordinator
keeps the `LogStreamState`. Registration and termination put the named mutation
`CreateArchiveTask`, which publishes an archive task when its time comes. A
termination that overtakes a roll-forward of the cleanup mutation makes tumble try
again what it has loaded (`"retried"`). Archivists take the task, check that the
stream is complete or overdue, stage, and report. Staging may fail for good: it then
does so for every archivist and every time (`StageBreaks`, `StageError`).
`BeginTask` leaves out the threshold for tasks dispatched lately and the checks for
purged streams and protocol versions, so that it may begin where the code would
wait. `CheckComplete` follows the Get of bigtable, the storage in production; the
memory storage of the tests returns an error when it is empty. Time is the age of
the stream, which the Coordinator's writes reset. The threads of each kind are
interchangeable: a message is taken by the first idle one. There are faults in each
RPC, in storage, in the cache (it expires), in tumble and in Pub/Sub, and crashes of
both processes.

## The runs

| Run | What it asks | Bounds |
|---|---|---|
| `job` | Ticks and start tasks are not lost, the machine never panics, intervals are kept, invocations start on time, overruns are on record (but for the tasks a fatal error dropped), and a due tick fires | 5 schedules of all kinds, 3 moments, 4 nonces, one attempt before the write-off |
| `engine` | Job and Invocation agree, attempts are bounded, one live attempt at a time, the final message is kept, finished invocations are immutable, and the handlers implement `Job`; the last message and the start task may be lost to the fatal errors the properties name | triggered job (so that one moment is enough), 2 workers, 2 nonces, 2 saves per Invocation, 2 attempts, one of 7 kinds of fault |
| `engine_liveness` | A queued invocation leaves the queue; a finished remote task is noticed | cron job, 2 workers, a crash anywhere |
| `launch_lost` | (violated) a queued job keeps its start task | a failing save |
| `memlock` | A holder that has not lapsed owns the item, only its owner replaces it, the lock keeps `LockPromise`; a loss is noticed and a call returns | 3 clients |
| `tumble` | Each mutation takes effect once (save for the faults that explain a second time), the journal keeps `TumblePromise`, and a named mutation is lost only by a cancel, a replacement or the deletion of a former one by its key | 2 workers, 2 roots, a chain of 3 kinds of mutation (one delayed and also under a name), 3 mutations, loops that go on while there is work, one of 10 kinds of fault |
| `tumble_liveness` | With the cron job a chain completes, unless a mutation that always fails starves what comes after it; every hash is found by the shard it is announced to | 1 worker, 2 roots, a chain of 4 mutations with a failing one between two others for its root, batches of one, a task not fired or a lock that memcache refuses; integers of 4 bits |
| `dm` | Wake-ups, schedulings and timeouts are not lost, one execution at a time, one task activates it | 3 loads: a dependency, a fan-in of two, one attempt alone with all timeouts and 2 of 6 faults; 2 executions |
| `dm_liveness` | An execution ends, unless its timeout was deleted in place of the one before, and an attempt that waits is unblocked | 2 attempts, 2 loads, one fault of 5 kinds |
| `dm_ack_panic` | (violated) an acknowledged dependency has its bit in the `DepMap` | 2 attempts, no fault |
| `logdog` | What is acknowledged is stored, the cache agrees with the Coordinator, the archive task is not lost, archival is final, everything is acknowledged and archived (unless staging fails for good) | 2 handlers, 2 archivists, 2 bundles, 2 lives of the cache entry, one of 11 kinds of fault |
| `logdog_stage_error` | (violated) a stream whose archival fails for good is recorded as archived | 1 handler, 1 archivist, 2 bundles, staging that fails |

Why the bounds are enough for the interesting cases. *Scheduler:* every race in the
code is between two holders of one Invocation (a third would lose its
compare-and-swap to either of them); two nonces let a second request meet leftovers
of the first; one fault gives every single point of failure at every moment; with
two attempts there is one that repeats another and one that gives up. Three moments
are enough for a tick to be early, due, late and overrun. *Memlock:* three clients
let one be overtaken by another that is overtaken in turn. *Tumble:* two workers are
the holder of the lock and the one that overtook it; a chain has a mutation that
stays in its root's transaction and one that leaves for another root; the named
mutation is put again while a worker holds the former one. The end of a worker's
time, its growing delays and a batch filled by a mutation that always fails are in
`tumble_liveness`. *DM:* a dependency that is added while it is finishing,
dependents that register while the list is being walked, and an execution that is
retried all fit in three attempts and two executions. *LogDog:* two bundles that
race in two threads, one of them terminal, then two archivists on one task.

The bounds are named constants: `MaxTime`, `MaxNonce`, `MaxMutations`,
`MaxFaults`, `MaxInst`, `Horizon`, `MaxExec`, `MaxRuns`, `Calls`, `MaxEntries`.
Limits of the code are given smaller values: `InvocationRetryLimit` (5 in the
code), `TaskRetryLimit` (10), `MaxTimeoutAttempts`, `CompletionLimit`,
`BatchSize`. `MaxEnsureAttempts` has its value, 10, and a single call in the runs
does not get there, so that giving up after it is the one step of `EnsureGraphData`
the runs do not take.

`ImplementsJob` allows one step that `Job` does not: after a failed save, an
orphaned launch or a fatal error inside a transaction, a start task may be dropped
that the job still expects (`LosesStartTask`). The first is what `launch_lost` shows.

Deadlock is not checked anywhere: a triggered job without requests, an empty
journal, a finished graph and an archived stream have nothing to do, and the
bounds end every behaviour. Where stopping would be wrong, a liveness property
says so. Symmetry of workers is used in `engine` and `tumble` only, which check
safety; no property names a worker.

### Fairness

`JobFairness`: the clock advances, and the timers queue keeps delivering a due
tick (a push queue retries until success; the timers queue sets no retry limit).
`EngineFairness`: a request in flight takes its next step (App Engine either
runs a request to its end or kills it, which is `Crash`), and the queues keep
delivering start tasks and PubSub messages.

`FairMemlockSpec`: the keeper's goroutine runs, and a call whose function has
returned goes on. Nothing makes memcache keep the item or the function return.

`FairTumbleSpec`: time passes, the index settles, the cron job runs, the queue
delivers a task to an idle worker, a worker takes its next step, and a request
that committed fires its task. The cron job is needed: a
process task that does not get the lock gives up and is acknowledged.

`FairDMSpec`: each type of mutation that waits is rolled forward, which is what
`ChainCompletes` says of tumble as long as no batch is full of failing mutations,
and timers fire. Nothing is assumed of users or
of the distributor's tasks: these may go silent, and the timeouts are there for
that.

`FairLogDogSpec`: each handler and archivist takes its next step (the RPCs it makes
end, with an answer or an error), Pub/Sub delivers, the Coordinator's tumble makes
progress, and the stream ages.

No fairness is assumed anywhere of users, of configuration changes, of the remote
service, of faults, of `LaunchSaveLog` (a task manager may skip it) or of the
status check timers.

## Findings

Three runs show the code doing something other than its comments say.

* **`launch_lost`** If `LaunchTask` fails for good and the save of this failure
  fails as well, `startInvocation` (`engine.go:1512`) returns the fatal error, the
  queue drops the task, and the job is QUEUED with nobody to move it.
* **`dm_ack_panic`** `AddFinishedDeps` adds a back dependency that needs no
  acknowledgement and has no bit in the `DepMap`. If it is rolled forward before
  the `RecordCompletion` of the attempt it points at, it is not marked as
  propagated, `RecordCompletion` (`record_completion.go:65`) acknowledges it, and
  `AckFwdDep` sets a bit beyond the end of the map, which panics.
* **`logdog_stage_error`** An archivist whose staging fails with an error that is
  not transient means to have an empty archival recorded (`archivist.go:354`,
  `archiveStream.go:72`). Its report carries no URLs, and `ArchiveStream` rejects a
  request without them (`archiveStream.go:36`) before it looks at the error. The
  task is delivered again, meets the same error, and the stream is never archived.

Other disagreements with comments, docs or tests were met while modelling. They
follow from the models' definitions and are not kept as runs:

* scheduler: datastore errors that transactions return untagged are fatal, so that a
  start task is dropped while the job is QUEUED (`engine.go:1401`, against
  `statemachine.go:46`), the last notification is acknowledged although its result
  was not saved (`engine.go:1739`), and an overrun goes unrecorded
  (`engine.go:1282`, against line 1278); `invocationTimerTick` (`engine.go:1353`)
  tests the wrong error, so that a timer whose save lost a race is acknowledged and
  not renewed; a notification during `LaunchTask` (`swarming.go:303`) is logged to
  the Invocation, and makes the launch's own save fail.
* tumble: mutations that fail at the head of the query starve those behind them
  (`process.go:396`, against `doc.go:15`); a negative `ProcessMaxBatchSize` stops
  after one mutation (`process.go:290`, against `config.go:88`), and the loop does
  not end after one round when its duration is not positive (`process.go:244`,
  against `config.go`); the deletion after a commit also deletes a mutation put
  meanwhile under the same name (`process.go:447`, against `tumble.go:115`); a named
  mutation that is put again with a later `ProcessAfter` runs early if the query
  still sees the former one, because what is loaded under its key is not examined
  again (`process.go:310`, against `model_mutation.go:89`).
* dm: an execution whose transaction fails after the distributor accepted it is
  orphaned (`schedule_execution.go:83`); notifications for unknown executions
  (`finish_execution.go:72`); the timeout of an execution's next state deleted in
  place of the one before (`timeout_execution.go:149`); `IsAbnormal`
  (`finish_execution.go:91`, against `model/attempt.go:49`); a bit shared by two
  dependencies (`add_finished_deps.go:47`, against `attempt.go:86`); a retry that
  goes on (`ensure_graph_data.go:203`, against line 220).
* logdog: `checkComplete` (`archivist.go:522`) passes when storage ends before the
  terminal index, so that an incomplete stream is archived within its complete
  period and recorded as complete, against its own comment ("ensure that all of the
  log stream's records are available"); `AssertLease` does nothing in the
  archivist's task (`logdog_archivist/task.go`), so that two archivists may write
  the final files, against `archivist.go:370`; a registered stream whose prefix has
  expired is rejected (`registerStream.go:108`, against the comment at line 41).

## The proofs

Every safety property that a passing run checks, invariants, action properties
and refinements, is also a theorem, for every value of the constants that
satisfies the ASSUMEs: any number of workers, threads, attempts, schedules or
messages, any faults in any number, any limits and bounds. No property is
inductive alone. Each component has an inductive invariant, a conjunction of
named parts, which TLC checked on a small instance before it was proved. A proof has one
lemma per action, or per group of actions that do alike; lemmas on helpers say
what an operator of the model preserves.

| Module | Inductive invariant | Theorems on |
|---|---|---|
| `JobProofs` | `JobInv`, then `OverrunsOnRecord` | the safety properties of `job`; a disabled job is clean, invocation fields agree with the state, only absolute schedules overrun |
| `EngineProofs` | `EngineInv` | `JobAndInvocationAgree`, `OneAttemptAtATime`, `DoneMessageNotLost`, `AttemptsBounded`, `FinalIsImmutable`, `ImplementsJob`; what of `Job` holds of the engine |
| `MemlockProofs` | `MemlockInv` | `HoldersOwnTheItem`, `OnlyOwnerReplaces`, `KeepsPromise` |
| `TumbleProofs` | `JournalInv`, then `RunsInv` | `JournalPromise`, `RunsOnce`, `NamedLossExplained` |
| `ShardProofs` | none: arithmetic | `AnnouncedShardFindsIt` |
| `DMProofs` | `DMInv` | `DMTypeOK`, `OneExecutionAtATime`, `OneTaskActivates`, `ScheduledWillRun`, `TimeoutArmed`, `WakeupNotLost` |
| `LogDogProofs` | `LogDogInv`, then `KeptInv` | `CachedIndexIsRecorded`, `TaskedHasItsTask`, `ArchivedOnce`, `AckedIsStored` |
| `FiniteLemmas` | | lemmas on natural numbers and finite sets |

### The job

That a waiting job's tick is in the queue (`TickNotLost`) needs the nonce of the
pending tick to be one already drawn: the tick that replaces it then carries
another nonce, and acknowledging the old task cannot remove the new one. It also
needs that a tick that is ignored (the job is DISABLED or SUSPENDED, or has no
tick at all) is never the pending one. That `OnInvocationStarted` and
`OnTimerTick` never panic needs the coherence of state, invocation ID and tick.
The inductive invariant is

    JobInv == type correctness
              /\ MachineInv(MachineFor(job))
              /\ (job.Enabled <=> the state is not DISABLED)
              /\ (job.Enabled => job.exists)

where `MachineInv` is about a state machine record: the state is one of the
code's own (`KindOK`), a disabled one is clean (`CleanOK`), the pending tick is
in the queue, its nonce was drawn before and no task has the zero nonce
(`TickOK`, `BoundsOK`), the invocation fields follow the state (`InvocationOK`),
a queued one has its start task (`StartOK`), and the tick follows the schedule
(`WaitingOK`, `ScheduleOK`, `IntervalOK`).

The argument has three layers. Each helper of the state machine has a lemma that
says what it preserves (`ScheduleTickFacts`, `FinishedFacts`, `QueueFacts`, ...).
Each event has one built from these. Then one lemma per action shows that the
transaction preserves `JobInv` and is a step that the action properties allow.
`OnScheduleChange` is where the layers pay off: between a new schedule being stored
and the event being handled, the part of the invariant about the schedule is false,
so the event's lemma starts from `BaseInv` alone, and the others follow from it.
`OverrunsOnRecord` follows from what every step does (`RecordsKept`): no overrun
that is recorded, on its way or known to be dropped is forgotten, and the count is
kept, reset, or raised by one together with the task that records the new count.

`Triggered` jobs, an interval of 0, an offset equal to the interval and a retry
limit of 0 are all covered. What the proofs assume of the environment is
`CronAssumption` (a table always has a next entry) and `TimeAssumption`
(`DistantFuture` is never reached).

### The request handlers

`EngineInv` relates the two entities, the queues and what each request in flight
believes:

* `JobOK`: the invocation part of the Job entity. It is weaker than `JobInv`: a
  queued job may have lost its start task (`launch_lost`, and the fatal errors).
* `StartTasksOK`: a nonce has one start task, whose retry count exceeds the limit
  only if the transaction that would have written the request off failed.
* `AttemptsOK`: the attempts of a request have increasing retry counts, those of
  the current request are known to the job, and only the last of them may not be
  final. Without it two attempts could be live, or one be numbered twice.
* `DeliveriesOK`: timers and messages are for invocations with a remote task.
* `WorkersOK`: `CopyOK`, a controller's copy is not final, and it is the entity
  unless that was saved since; `LaunchOK`, while there is no remote task nobody
  but a user writes the Invocation that is being launched, and then the job
  expects it no longer; `StarterOK`, a start task is acknowledged only if the job
  does not expect it, save for a failed save, an orphan or a fatal error;
  `CallbackOK`, a handler told that the task is done finds it so, and acknowledges
  only once the Invocation is final, or after a fatal error.

A worker's part has to survive the steps of the others. That is split in two:
`Onward` is what every step does to the entities (retry counts and nonces stay,
`MutationsCount` grows with every write, final Invocations stay, a request that is
not expected is never expected again), and `Undisturbed` is what the steps of
others do to a start handler. A lemma then shows that each part of `WorkersOK` is
stable under these, so that a step only needs a proof for the worker that takes it.

`HandlersImplementJob` is the refinement: every step is a `JobNext` step or leaves
`jobVars` alone, but for `LosesStartTask` (`Refines`). The hard step is
`RespondStart`: acknowledging a start task is `StartAck`, which wants the job not to
expect it, and `StarterOK` says so. `AttemptsBounded` counts: the map from attempts
to their retry counts is injective. `DoneMessageNotLost` has the fatal errors as its
exception, and the proof needs every step that acknowledges a message to say why it
may (`KeepsDoneMessages`). `EngineKeepsJobPromises` carries the results of
`JobProofs` over: as long as none of the faults behind `LosesStartTask` has
happened, the engine keeps its ticks, start tasks, intervals and overrun records.

`EngineAssumption` says `InvocationRetryLimit < TaskRetryLimit`, as in
`engine.go` ("5 attempts to mark the job as failed"): the queue grants executions
beyond the last attempt, in which the request is written off.

### The lock

`MemlockInv == MemlockTypeOK /\ HoldersOwnTheItem /\ FreshGets`. `FreshGets` is
what a compare-and-swap needs: a client about to swap whose read is still current
has read what `checkAnd` requires, so that the item is absent, empty or its own.
Without it a swap could replace the item of a holder. The type invariant ties
caller and keeper together: no client is inside once its keeper has begun to
release the item. `PromiseKept` follows step by step: obtaining the lock needs an
item that belongs to nobody, and then `HoldersOwnTheItem` says that everybody
inside has lapsed, which is the guard of `Enter`.

### The journal

`JournalInv` says that an instance number stands for one mutation wherever it is
stored (in the journal, the index, a batch, a transaction's puts), that a
transaction deletes what it ran and nothing else (`TxnOK`), and that what it will
journal is nowhere else before it commits (`Fresh`). The last two make
`JournalPromiseKept` go through: a commit rolls forward exactly what leaves the
journal and adds exactly what was produced, which is one step of
`TumblePromise`. Neither needs the lock: that is what the code relies on.
`NamedLossesExplained` is about what the promise leaves open, the mutations under a
name: a worker deletes by key what it has run, so that a mutation found missing was
put after one that this worker ran under the same key, unless its owner canceled
or replaced it (`LatestUnderName`: what is under a key is the last that was put
there).

`RunsOnce` does need it. `RunsInv` adds that, while no lock, worker, delete or
outcome of a commit was lost, one worker at a time is in the middle of a round
(`WorkersOK`), what a transaction runs is for its root (`TargetsOK`), and a
mutation that was rolled forward and is still stored is about to be deleted and in
no other batch (`OnceInv`). The theorem `RunsOnceInvariance` has the hypothesis
`OneTargetPerName`: the mutations that are put under one name are for the same
root. It is needed. Without it `RunsOnce` fails with no fault at all: a query
finds, through the dated index, a root that the mutation under the name used to be
for; `processRoot` loads what is there now, which is for another root, and rolls
it forward there; and the transaction of the right root has it in its batch as
well (`loadFilteredMutations` does not compare the root of what it loads). The
applications in the repository name mutations by what they are for.

`ShardProofs` is arithmetic: the bounds of a shard are computed with conversions
that wrap around, and `BoundFacts` shows that what overflows on the way cancels
out. The range of the integers is a parameter, because nothing can be proved here
about powers of two.

### The dungeon master

`DMInv` has four groups. *Executions* (`ExecutionsOK`): they come into being one
after the other and end one after the other. *Tasks* (`TasksOK`, `OneActive`): an
active task has its execution's token until that is taken away. *Timeouts*
(`TimeoutsOK`): a timer is armed for the state its execution is in, or a mutation
that ends it is in the journal, or it was deleted in place of the one before
(`"gone"`); one put off is for an execution that is stopping or over. *Wake-ups*
(`WakeupsOK`): only `EXECUTING` and `WAITING` attempts have a `DepMap`, and for each
of its bits that is not set there is a `FwdDep` of the current execution whose
acknowledgement will come (`WaitsOK`), already while the execution that declared it
still runs. `WillCome` follows the acknowledgement through every place it can be in:
a `MergeQuest` that carries it, an `AddBackDep`, a `BackDep` that is not propagated,
a `RecordCompletion`, an `AckFwdDep`. What `EnsureGraphData` read outside its
transaction may be stale, and `CallsOK` says what is left of it: attempts do not
cease to exist. `CompletionsOK` and `UnackedOK` close the two gaps through which a
wake-up could vanish: a finished attempt whose completion nobody records, and a back
dependency that asks for no acknowledgement while somebody waits for one.

### The log stream

`LogDogInv` says that what the cache and the threads believe of the stream is so
(`CacheOK`, `CachedIndexIsRecorded`), that whoever holds an archival key has the
task that goes with it, before and after the commit of `CreateArchiveTask`
(`ArchivalOK`), and that an archivist consumes a task only after the stream was
archived (`ArchivistsOK`). `KeptInv` adds that a thread has its row still to put, or
has put it, unless it met an error and will not acknowledge, or storage refuses the
bundle for good. `AckedInvariance` follows, with the exceptions the property names.

### Assumptions and limits

Apart from the ones named above, the ASSUMEs give the constants their types:
finite sets of workers and attempts, bundles of finitely many entries, a value
`None` that is no number. TLC evaluates them on every run.

The prover has no induction over data. Where a proof needs some (a finite set of
numbers has a greatest element, the k first elements of a finite set),
`FiniteLemmas` uses the least number principle on a set of counterexamples.

Only model-checked are the liveness properties (`DueTickFires`,
`QueuedLeavesQueue`, `DoneIsNoticed`, `LossIsNoticed`, `CallReturns`,
`ChainCompletes`, `ExecutionEnds`, `WaitingEnds`, `BundlesAckedStreamArchived`,
and `FailedArchivalIsRecorded`, which is false),
since fairness and ENABLED are out of the proof system's reach.

## What is not modelled

* In the scheduler: the PubSub topics and auth tokens (`pubsub.go`, `prepareTopic`),
  listings, log trimming, access control, the parsing and validation of configs, the
  gitiles poller's own state. The attempts inside one datastore transaction are not
  visible: a transaction happens or fails. A failing datastore call inside it is
  told apart from a failing commit only in the transactions of `startInvocation` and
  `saveImpl`, where the error of the callback is not tagged as transient. The
  records of one overrun that was written several times are one. The age limits of
  the queues are left out; the retry limit is in.
* PubSub may deliver late, in any order and repeatedly, but it does not lose a
  message that was not acknowledged.
* In tumble: the assignment of several shards to several workers beyond the
  arithmetic of `TumbleShards`; namespaces, each of which has a journal of its own.
  In the run, a name's entity group is the root its mutation is for; a name in
  another group has more states than the run can hold.
* In DM: walking the graph, access control, quest templates, the encoding of
  results, and distributors as such.
* In LogDog: purging, several streams in a bundle, malformed bundles and wrong
  secrets, prefix registration but for its expiry, the endpoints for users, the
  format of the archive, and the butler.
* The other parts of the repository, as listed in the inventory and in
  `PROJECT.json`. Most of luci-go's lines are generated clients and protocol
  buffers, command-line tools, encodings, page rendering and adapters to cloud
  services. They keep no state that several steps or actors share, and are better
  served by their unit tests; so the map covers a small share of the repository, the
  one where order matters.
