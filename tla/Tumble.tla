------------------------------- MODULE Tumble -------------------------------
(***************************************************************************)
(* Tumble's journal of deferred transactions (tumble/), for one shard.     *)
(*                                                                         *)
(* Mutations are journalled by transactions, tasks named after time slots  *)
(* are fired, and workers that execute the tasks process the shard's roots *)
(* in rounds under the shard's lock.  Every time is kept relative to the   *)
(* present; phase is the present modulo the length of a slot.              *)
(***************************************************************************)
EXTENDS Integers, FiniteSets, Sequences

CONSTANTS
    Workers,        \* executions of process tasks
    Roots,          \* entity groups that are targets (positive numbers)
    Kinds,          \* the mutations of the application, by what they do
    Target,         \* the root each kind rolls forward
    Emits,          \* the kinds each kind returns from RollForward
    Delay,          \* how far ahead the ProcessAfter of each kind is
    Starts,         \* pairs <<home, kind>> that requests journal
    Names,          \* pairs <<home, kind>> that requests journal under a name
    Broken,         \* the kinds whose RollForward always fails
    Faults,         \* what may go wrong, each once
    MaxFaults,      \* bound: how many of them in one behaviour
    MaxInst,        \* bound: mutations journalled in one behaviour
    \* The configuration of tumble (Config).
    DelayedMutations, BatchSize, RoundFactor, MinDelay, LoopDuration,
    DustSettle, MaxNoWorkDelay, NoWorkDelayGrowth,
    Cron,           \* whether the optional cron job is set up
    Horizon,        \* bound: the past beyond it is all the same
    None

ASSUME TumbleAssumption ==
    /\ Roots \subseteq Nat \ {0} /\ MaxInst \in Nat /\ BatchSize \in Int
    /\ RoundFactor \in Nat \ {0} /\ MinDelay \in Nat /\ LoopDuration \in Nat
    /\ Target \in [Kinds -> Roots] /\ Emits \in [Kinds -> Seq(Kinds)]
    /\ Delay \in [Kinds -> Nat] /\ Broken \subseteq Kinds
    /\ Starts \subseteq Nat \X Kinds /\ Names \subseteq Nat \X Kinds
    /\ Horizon >= RoundFactor /\ None \notin Int

VARIABLES
    phase,      \* the present modulo RoundFactor
    journal,    \* the tumble.Mutation entities
    index,      \* the entities as queries see them, which may be dated
    nextInst,   \* last instance number handed out
    firing,     \* committed requests that have not fired their task yet
    opening,    \* named mutations whose transaction has not committed yet
    tasks,      \* the process tasks in the queue
    last,       \* the shard's "last" key in memcache
    proc,       \* the processTask of each worker
    txn,        \* processRoot, per worker and root
    inside,     \* the workers whose lock context is alive
    lapsed,     \* those of them whose lock lapsed
    rolled,     \* history: instances rolled forward by a committed transaction
    twice,      \* history: those rolled forward more than once
    named,      \* history: instances put under a name
    slips       \* history: what went wrong

stores == <<journal, index, nextInst>>
queues == <<firing, opening, tasks>>
lock == <<inside, lapsed>>
history == <<rolled, twice, named>>
tumbleVars == <<phase, stores, queues, last, proc, txn, lock, history, slips>>

Lock == INSTANCE LockPromise WITH Clients <- Workers

-----------------------------------------------------------------------------
(* Journal entries.                                                        *)

\* A tumble.Mutation: its parent and ID make its key; inst tells apart all
\* those ever put, under the same key too.
Entries == [home : Nat, id : 1..MaxInst + 1, inst : 1..MaxInst, kind : Kinds, after : Nat]
NamedID == MaxInst + 1

Key(e) == <<e.home, e.id>>
Without(S, keys) == {e \in S : Key(e) \notin keys}
Instances(S) == {e.inst : e \in S}

\* newRealMutation; the IDs of anonymous mutations never repeat.
NewEntry(home, inst, kind) ==
    [home |-> home, id |-> inst, inst |-> inst, kind |-> kind,
     after |-> IF DelayedMutations THEN Delay[kind] ELSE 0]

\* The order of keys, and of ProcessAfter before them, in which queries run.
Before(d, e) ==
    \/ DelayedMutations /\ d.after < e.after
    \/ /\ DelayedMutations => d.after = e.after
       /\ d.home < e.home \/ (d.home = e.home /\ d.id < e.id)

FirstOf(S, n) == {e \in S : Cardinality({d \in S : Before(d, e)}) < n}

-----------------------------------------------------------------------------
(* Task slots.                                                             *)

\* The slot of a task for what happens in t: t.Add(MinDelay + RoundFactor),
\* rounded to a multiple of RoundFactor, half up.
mkTimestamp(t) ==
    LET abs == phase + t + MinDelay + RoundFactor
    IN  ((2 * abs + RoundFactor) \div (2 * RoundFactor)) * RoundFactor - phase

\* The tasks fireTasks adds for mutations that are due in the given times; one
\* whose name is taken is dropped.
fireTasks(afters, loop) ==
    LET eta(t) == IF DelayedMutations /\ t > 0 THEN mkTimestamp(t) ELSE mkTimestamp(0)
    IN  {[eta |-> eta(t), loop |-> loop] : t \in afters}

Happens(fault) ==
    /\ fault \in Faults \ slips
    /\ Cardinality(slips) < MaxFaults
    /\ slips' = slips \cup {fault}

NoTask == [eta |-> 0, loop |-> FALSE]

IdleProc ==
    [pc |-> "idle", task |-> NoTask, end |-> None, delay |-> 0, wake |-> 0, ban |-> {},
     worked |-> FALSE, failed |-> FALSE]

NoTxn ==
    [st |-> "none", batch |-> {}, torun |-> {}, ran |-> {}, put |-> {}, del |-> {},
     toDel |-> {}, fire |-> {}]

TumbleInit ==
    /\ phase = 0 /\ journal = {} /\ index = {} /\ nextInst = 0
    /\ firing = {} /\ opening = {} /\ tasks = {} /\ last = None
    /\ proc = [w \in Workers |-> IdleProc]
    /\ txn = [w \in Workers |-> [r \in Roots |-> NoTxn]]
    /\ Lock!LockInit
    /\ rolled = {} /\ twice = {} /\ named = {} /\ slips = {}

-----------------------------------------------------------------------------
(* Requests of the application.                                            *)

\* RunMutation, RunUnbuffered or AddToJournal commits a transaction on home
\* that returned a mutation.
RunMutation(home, kind) ==
    /\ nextInst < MaxInst
    /\ nextInst' = nextInst + 1
    /\ journal' = journal \cup {NewEntry(home, nextInst', kind)}
    /\ firing' = firing \cup {NewEntry(home, nextInst', kind).after}
    /\ UNCHANGED <<phase, index, opening, tasks, last, proc, txn, lock, history, slips>>

\* Called in a transaction on home: the task is fired at once, before the
\* transaction commits and whether it does or not.  (Of transactions on home that
\* overlap one would fail; they follow each other here.)
PutNamedMutations(home, kind) ==
    LET after == NewEntry(home, 1, kind).after
    IN  /\ nextInst + Cardinality(opening) < MaxInst
        /\ \A o \in opening : o.home # home
        /\ opening' = opening \cup {[home |-> home, kind |-> kind, after |-> after]}
        /\ \/ tasks' = tasks \cup fireTasks({after}, TRUE) /\ UNCHANGED slips
           \/ Happens("fire") /\ UNCHANGED tasks
        /\ UNCHANGED <<phase, stores, firing, last, proc, txn, lock, history>>

\* The transaction commits: the entity under the name, if any, is replaced.
CommitNamed(o) ==
    LET new == [home |-> o.home, id |-> NamedID, inst |-> nextInst + 1,
                kind |-> o.kind, after |-> o.after]
    IN  /\ nextInst < MaxInst
        /\ nextInst' = nextInst + 1
        /\ journal' = Without(journal, {Key(new)}) \cup {new}
        /\ named' = named \cup {nextInst'}
        /\ opening' = opening \ {o}
        /\ UNCHANGED <<phase, index, firing, tasks, last, proc, txn, lock, rolled, twice, slips>>

\* The put or its transaction fails.
AbortNamed(o) ==
    /\ Happens("abort")
    /\ opening' = opening \ {o}
    /\ UNCHANGED <<phase, stores, firing, tasks, last, proc, txn, lock, history>>

CancelNamedMutations(home) ==
    LET old == {e \in journal : Key(e) = <<home, NamedID>>}
    IN  /\ old # {}
        /\ journal' = journal \ old
        /\ UNCHANGED <<phase, index, nextInst, queues, last, proc, txn, lock, history, slips>>

\* The request that committed fires its task.  If it cannot, or dies before,
\* nobody hears of it.
FireTask(after) ==
    /\ after \in firing
    /\ firing' = firing \ {after}
    /\ \/ tasks' = tasks \cup fireTasks({after}, TRUE) /\ UNCHANGED slips
       \/ Happens("fire") /\ UNCHANGED tasks
    /\ UNCHANGED <<phase, stores, opening, last, proc, txn, lock, history>>

\* The cron job: a single-loop task if a query finds a mutation.
FireAllTasks ==
    /\ Cron /\ index # {}
    /\ tasks' = tasks \cup fireTasks({0}, FALSE)
    /\ UNCHANGED <<phase, stores, firing, opening, last, proc, txn, lock, history, slips>>

-----------------------------------------------------------------------------
(* A worker: ProcessShardHandler, processShard, processTask.process.       *)

\* The worker is done with its lock, if its context is still alive.
Unlock(w) == IF w \in inside THEN Lock!Leave(w) ELSE UNCHANGED lock

\* The handler answers 200 and the task is gone.
Finish(w) ==
    /\ tasks' = tasks \ {proc[w].task}
    /\ proc' = [proc EXCEPT ![w] = IdleProc]
    /\ Unlock(w)
    /\ UNCHANGED <<firing, opening, last>>

Leased == {proc[w].task : w \in {v \in Workers : proc[v].pc # "idle"}}

\* Mutant: the lock's failure is ignored.
ProcessWithoutLock(w, t) ==
    /\ proc[w].pc = "idle" /\ t \in tasks \ Leased /\ t.eta <= 0
    /\ inside' = inside \cup {w} /\ UNCHANGED lapsed
    /\ proc' = [proc EXCEPT ![w] = [IdleProc EXCEPT !.pc = "check", !.task = t,
                  !.end = IF LoopDuration > 0 THEN LoopDuration ELSE None,
                  !.delay = DustSettle]]
    /\ UNCHANGED <<phase, stores, queues, last, txn, history, slips>>

\* The lock cannot be had: another worker is inside, the memcache item of one
\* that died is still there, or memcache fails.
LockFails ==
    \/ inside # {} /\ UNCHANGED slips
    \/ "crash" \in slips /\ UNCHANGED slips
    \/ Happens("busy")

\* A task that is due is delivered; a worker that does not get the lock gives
\* up, and the task is acknowledged.
processShard(w, t) ==
    /\ proc[w].pc = "idle" /\ t \in tasks \ Leased /\ t.eta <= 0
    /\ \/ /\ Lock!Enter(w)
          /\ proc' = [proc EXCEPT ![w] = [IdleProc EXCEPT !.pc = "check", !.task = t,
                        !.end = IF LoopDuration > 0 THEN LoopDuration ELSE None,
                        !.delay = DustSettle]]
          /\ UNCHANGED <<tasks, slips>>
       \/ /\ LockFails
          /\ tasks' = tasks \ {t}
          /\ UNCHANGED <<proc, lock>>
    /\ UNCHANGED <<phase, stores, firing, opening, last, txn, history>>

\* Another processor has already processed past the time of this task.
EarlyExit(w) == last # None /\ last + RoundFactor > proc[w].task.eta

CheckLast(w) ==
    /\ proc[w].pc = "check"
    /\ IF EarlyExit(w) THEN Finish(w)
       ELSE /\ proc' = [proc EXCEPT ![w].pc = "round"]
            /\ UNCHANGED <<queues, last, lock>>
    /\ UNCHANGED <<phase, stores, txn, history, slips>>

\* The shard query: the distinct roots with mutations, at most a batch.
ShardRoots ==
    LET all == {Target[e.kind] : e \in index}
    IN  IF BatchSize <= 0 THEN all
        ELSE {r \in all : Cardinality({q \in all : q < r}) < BatchSize}

StartRound(w) ==
    /\ proc[w].pc = "round"
    /\ txn' = [txn EXCEPT ![w] = [r \in Roots |->
                 IF r \in ShardRoots THEN [NoTxn EXCEPT !.st = "queued"] ELSE NoTxn]]
    /\ proc' = [proc EXCEPT ![w].pc = "work", ![w].worked = FALSE, ![w].failed = FALSE]
    /\ UNCHANGED <<phase, stores, queues, last, lock, history, slips>>

\* processRoundDelay.next: the delay before the next round, and the one after.
NextDelay(delay, didWork) ==
    LET max(a, b) == IF a > b THEN a ELSE b
        capped == MaxNoWorkDelay > 0 /\ delay > MaxNoWorkDelay
    IN  IF didWork THEN [now |-> DustSettle, next |-> DustSettle]
        ELSE [now  |-> max(1, IF capped THEN MaxNoWorkDelay ELSE delay),
              next |-> IF capped THEN MaxNoWorkDelay
                       ELSE delay * max(1, NoWorkDelayGrowth)]

\* The end of a round: an error leaves the task to the queue's retries; work
\* moves the "last" key; then the loop ends or sleeps.
EndRound(w) ==
    LET p == proc[w]
        d == NextDelay(p.delay, p.worked)
        over == \/ ~p.worked /\ (p.end = None \/ ~p.task.loop)
                \/ p.end # None /\ (p.end < 0 \/ (d.now > 0 /\ d.now > p.end))
    IN  /\ p.pc = "work"
        /\ \A r \in Roots : txn[w][r].st = "none"
        /\ last' = IF p.worked /\ ~p.failed THEN 0 ELSE last
        /\ \/ /\ p.failed
              /\ proc' = [proc EXCEPT ![w] = IdleProc]
              /\ Unlock(w)
              /\ UNCHANGED tasks
           \/ /\ ~p.failed /\ over
              /\ tasks' = tasks \ {p.task}
              /\ proc' = [proc EXCEPT ![w] = IdleProc]
              /\ Unlock(w)
           \/ /\ ~p.failed /\ ~over
              /\ proc' = [proc EXCEPT ![w].pc = "sleep", ![w].wake = d.now,
                                      ![w].delay = d.next]
              /\ UNCHANGED <<tasks, lock>>
        /\ UNCHANGED <<phase, stores, firing, opening, txn, history, slips>>

\* The sleep is over, or interrupted because the lock is lost.
Wake(w) ==
    /\ proc[w].pc = "sleep"
    /\ \/ /\ w \notin inside
          /\ Finish(w)
       \/ /\ proc[w].wake <= 0
          /\ proc' = [proc EXCEPT ![w].pc = "round"]
          /\ UNCHANGED <<queues, last, lock>>
    /\ UNCHANGED <<phase, stores, txn, history, slips>>

-----------------------------------------------------------------------------
(* processRoot, on a goroutine of its own per root.                        *)

SetTxn(w, r, x) == txn' = [txn EXCEPT ![w][r] = x]

\* Mutant: one mutation short of a batch.
BatchOneShort(w, r) ==
    FirstOf({e \in index : Target[e.kind] = r /\ Key(e) \notin proc[w].ban}, BatchSize - 1)

\* What the query for a root yields: the slice's capacity is the limit, and a
\* slice without capacity is full after the first mutation.
getBatchByRoot(w, r) ==
    LET hits == {e \in index : Target[e.kind] = r /\ (DelayedMutations => e.after <= 0)}
        wanted(S) == {e \in S : Key(e) \notin proc[w].ban}
    IN  IF BatchSize > 0 THEN FirstOf(wanted(hits), BatchSize)
        ELSE wanted(FirstOf(hits, 1))

\* loadFilteredMutations: the entities under the keys of the batch, as they
\* are now.  With the lock lost, the worker stops here.
LoadBatch(w, r) ==
    LET keys == {Key(e) : e \in getBatchByRoot(w, r)}
        loaded == {e \in journal : Key(e) \in keys}
    IN  /\ txn[w][r].st = "queued"
        /\ SetTxn(w, r, IF loaded = {} \/ w \notin inside THEN NoTxn
                        ELSE [NoTxn EXCEPT !.st = "run", !.batch = loaded, !.torun = loaded])
        /\ UNCHANGED <<phase, stores, queues, last, proc, lock, history, slips>>

\* A new mutation for the same root runs in the same transaction.
RunsNow(e, r) == Target[e.kind] = r /\ (DelayedMutations => e.after <= 0)

\* RollForward of one mutation, in a nested transaction that also journals
\* what it returns.  A mutation of the root's own group is deleted in the
\* transaction, one of another group, or one for which that fails, after it.
RollOne(w, r, e) ==
    LET x == txn[w][r]
        new == {NewEntry(r, nextInst + j, Emits[e.kind][j]) : j \in DOMAIN Emits[e.kind]}
        ran == [x EXCEPT !.torun = (@ \ {e}) \cup {n \in new : RunsNow(n, r)},
                         !.ran = @ \cup {e},
                         !.put = @ \cup new,
                         !.fire = @ \cup {n.after : n \in new}]
        deleted == [ran EXCEPT !.del = @ \cup {Key(e)}]
        toDelete == [ran EXCEPT !.toDel = @ \cup {Key(e)}]
    IN  /\ x.st = "run" /\ e \in x.torun
        /\ e.kind \notin Broken
        /\ nextInst + Len(Emits[e.kind]) <= MaxInst
        /\ nextInst' = nextInst + Len(Emits[e.kind])
        /\ \/ e.home = r /\ SetTxn(w, r, deleted) /\ UNCHANGED slips
           \/ e.home = r /\ SetTxn(w, r, toDelete) /\ Happens("inner")
           \/ e.home # r /\ SetTxn(w, r, toDelete) /\ UNCHANGED slips
        /\ UNCHANGED <<phase, journal, index, queues, last, proc, lock, history>>

\* Mutant: a mutation that failed is finished with.
RollFailsForGood(w, r, e) ==
    /\ txn[w][r].st = "run" /\ e \in txn[w][r].torun
    /\ \/ e.kind \in Broken /\ UNCHANGED slips
       \/ e.kind \notin Broken /\ Happens("roll")
    /\ SetTxn(w, r, [txn[w][r] EXCEPT !.torun = @ \ {e}, !.toDel = @ \cup {Key(e)}])
    /\ UNCHANGED <<phase, stores, queues, last, proc, lock, history>>

\* RollForward fails: the mutation is skipped and stays in the journal.
RollFails(w, r, e) ==
    /\ txn[w][r].st = "run" /\ e \in txn[w][r].torun
    /\ \/ e.kind \in Broken /\ UNCHANGED slips
       \/ e.kind \notin Broken /\ Happens("roll")
    /\ SetTxn(w, r, [txn[w][r] EXCEPT !.torun = @ \ {e}])
    /\ UNCHANGED <<phase, stores, queues, last, proc, lock, history>>

\* What a committed transaction leaves behind.
Committed(x) ==
    /\ journal' = Without(journal \cup x.put, x.del)
    /\ rolled' = rolled \cup Instances(x.ran)
    /\ twice' = twice \cup (Instances(x.ran) \cap rolled)
    /\ UNCHANGED named

Commit(w, r) ==
    LET x == txn[w][r]
    IN  /\ x.st = "run" /\ x.torun = {}
        /\ Committed(x)
        /\ SetTxn(w, r, [x EXCEPT !.st = "fire"])
        /\ UNCHANGED <<phase, index, nextInst, queues, last, proc, lock, slips>>

\* processRoot returns an error.
RootFails(w, r) ==
    /\ SetTxn(w, r, NoTxn)
    /\ proc' = [proc EXCEPT ![w].failed = TRUE]

\* The transaction conflicts with another: it is attempted again, with the
\* shards of the failed attempt still in allShards, or it is given up.
Conflict(w, r) ==
    LET x == txn[w][r]
    IN  /\ x.st = "run" /\ x.torun = {}
        /\ Happens("conflict")
        /\ \/ /\ SetTxn(w, r, [NoTxn EXCEPT !.st = "run", !.batch = x.batch,
                                            !.torun = x.batch, !.fire = x.fire])
              /\ UNCHANGED proc
           \/ RootFails(w, r)
        /\ UNCHANGED <<phase, stores, queues, last, lock, history>>

\* The transaction is applied although its commit reports an error.
CommitUnknown(w, r) ==
    /\ txn[w][r].st = "run" /\ txn[w][r].torun = {}
    /\ Happens("commit")
    /\ Committed(txn[w][r])
    /\ RootFails(w, r)
    /\ UNCHANGED <<phase, index, nextInst, queues, last, lock>>

\* Fire tasks for what was journalled.
FireRoot(w, r) ==
    LET x == txn[w][r]
    IN  /\ x.st = "fire"
        /\ SetTxn(w, r, IF x.toDel = {} THEN NoTxn ELSE [x EXCEPT !.st = "delete"])
        /\ \/ tasks' = tasks \cup fireTasks(x.fire, TRUE) /\ UNCHANGED slips
           \/ x.fire # {} /\ Happens("fire") /\ UNCHANGED tasks
        /\ UNCHANGED <<phase, stores, firing, opening, last, proc, lock, history>>

\* The mutations that live in other entity groups are counted, banned and
\* deleted, outside the transaction; an error is only logged.
DeleteDone(w, r) ==
    LET x == txn[w][r]
    IN  /\ x.st = "delete"
        /\ SetTxn(w, r, NoTxn)
        /\ proc' = [proc EXCEPT ![w].worked = TRUE, ![w].ban = @ \cup x.toDel]
        /\ \/ journal' = Without(journal, x.toDel) /\ UNCHANGED slips
           \/ Happens("delete") /\ UNCHANGED journal
        /\ UNCHANGED <<phase, index, nextInst, queues, last, lock, history>>

-----------------------------------------------------------------------------
(* The environment.                                                        *)

\* The lock item lapses, or a refresh fails and the context is canceled.
LoseLock(w) ==
    /\ proc[w].pc # "idle"
    /\ Happens("lock")
    /\ Lock!Lapse(w) \/ Lock!Leave(w)
    /\ UNCHANGED <<phase, stores, queues, last, proc, txn, history>>

\* The instance dies; the queue will deliver the task again.
Crash(w) ==
    /\ proc[w].pc # "idle"
    /\ Happens("crash")
    /\ proc' = [proc EXCEPT ![w] = IdleProc]
    /\ txn' = [txn EXCEPT ![w] = [r \in Roots |-> NoTxn]]
    /\ Unlock(w)
    /\ UNCHANGED <<phase, stores, queues, last, history>>

\* Queries catch up with the journal.
Settle ==
    /\ index # journal
    /\ index' = journal
    /\ UNCHANGED <<phase, journal, nextInst, queues, last, proc, txn, lock, history, slips>>

\* Time passes: everything ahead comes closer.
Tick ==
    LET sooner(t, bound) == IF t = None THEN None ELSE IF t > bound THEN t - 1 ELSE t
        aged(S) == {[e EXCEPT !.after = sooner(@, 0)] : e \in S}
    IN  /\ phase' = (phase + 1) % RoundFactor
        /\ journal' = aged(journal) /\ index' = aged(index)
        /\ firing' = {sooner(t, 0) : t \in firing} /\ opening' = aged(opening)
        /\ tasks' = {[t EXCEPT !.eta = sooner(@, -Horizon)] : t \in tasks}
        /\ last' = IF last = -Horizon THEN None ELSE sooner(last, -Horizon)
        /\ proc' = [w \in Workers |-> [proc[w] EXCEPT
                      !.task = [@ EXCEPT !.eta = sooner(@, -Horizon)],
                      !.end = sooner(@, -1), !.wake = sooner(@, 0)]]
        /\ txn' = [w \in Workers |-> [r \in Roots |-> [txn[w][r] EXCEPT
                     !.put = aged(@), !.fire = {sooner(t, 0) : t \in @}]]]
        /\ UNCHANGED <<nextInst, lock, history, slips>>

-----------------------------------------------------------------------------
Request ==
    \/ \E s \in Starts : RunMutation(s[1], s[2])
    \/ \E s \in Names : PutNamedMutations(s[1], s[2]) \/ CancelNamedMutations(s[1])
    \/ \E o \in opening : CommitNamed(o) \/ AbortNamed(o)

Root(w, r) ==
    \/ LoadBatch(w, r) \/ Commit(w, r) \/ Conflict(w, r) \/ CommitUnknown(w, r)
    \/ FireRoot(w, r) \/ DeleteDone(w, r)
    \/ \E e \in txn[w][r].torun : RollOne(w, r, e) \/ RollFails(w, r, e)

Worker(w) ==
    \/ \E t \in tasks : processShard(w, t)
    \/ CheckLast(w) \/ StartRound(w) \/ EndRound(w) \/ Wake(w)
    \/ \E r \in Roots : Root(w, r)

TumbleNext ==
    \/ Request \/ FireAllTasks \/ Settle \/ Tick
    \/ \E after \in firing : FireTask(after)
    \/ \E w \in Workers : Worker(w) \/ LoseLock(w) \/ Crash(w)

TumbleSpec == TumbleInit /\ [][TumbleNext]_tumbleVars

\* Workers run, the queue delivers, queries catch up, the cron job is called and
\* requests that committed go on to fire their task.
FairTumbleSpec ==
    /\ TumbleSpec
    /\ WF_tumbleVars(Tick) /\ WF_tumbleVars(Settle) /\ WF_tumbleVars(FireAllTasks)
    /\ WF_tumbleVars(\E after \in firing : FireTask(after))
    /\ \A w \in Workers : WF_tumbleVars(Worker(w))

-----------------------------------------------------------------------------
(* Properties.                                                             *)

\* Mutations are idempotent because they are occasionally run more than once;
\* occasionally means: only after a lock was lost, a worker died, or a delete or
\* the outcome of a commit got lost.
RunsOnce == twice # {} => slips \cap {"lock", "crash", "delete", "commit"} # {}

Mutations == 1..MaxInst
Waiting == Instances(journal) \ rolled
Withdrawn == named \ (Instances(journal) \cup rolled)
Promise == INSTANCE TumblePromise WITH waiting <- Waiting, withdrawn <- Withdrawn

\* Every journalled mutation waits until a committed transaction rolled it
\* forward and journalled all it produced (processRoot's skips, its two ways to
\* delete, conflicts and crashes).  Only one under a name may also disappear.
JournalPromise == Promise!PromiseSpec

\* A mutation that was put under a name and is gone before it ran was canceled or
\* replaced by its owner, or fell to a worker that had rolled a former mutation
\* forward under the same key and deletes by key (processRoot, PutNamedMutations).
NamedLossExplained ==
    [][\A e \in journal :
         e.inst \in Withdrawn' \ Withdrawn =>
           \/ CancelNamedMutations(e.home)
           \/ \E d \in journal' : Key(d) = Key(e) /\ d.inst > e.inst
           \/ \E w \in Workers, r \in Roots :
                 \E d \in txn[w][r].ran : Key(d) = Key(e) /\ d.inst < e.inst]_tumbleVars

\* The mutations that fail whenever they are run.
Failing == {d \in journal : d.kind \in Broken}

\* Enough of them come first to fill the batches of the mutation's root, or the
\* batches of roots.  They stay at the head of the queries for ever.
Starved(e) ==
    LET ahead == {d \in Failing : Target[d.kind] = Target[e.kind] /\ Before(d, e)}
        roots == {Target[d.kind] : d \in Failing} \cap 1..Target[e.kind] - 1
    IN  \/ Cardinality(ahead) >= (IF BatchSize > 0 THEN BatchSize ELSE 1)
        \/ BatchSize > 0 /\ Cardinality(roots) >= BatchSize

\* "Once a transaction chain starts, it will eventually complete": a journalled
\* mutation that can be rolled forward is, whatever tasks were lost, gave up or
\* failed, as long as the cron job is called; unless mutations that always fail
\* starve it for ever, which that promise of the documentation does not mention.
\* (Nor does the property speak of one whose results exceed the bound MaxInst.)
ChainCompletes ==
    \A i \in Mutations :
      (\E e \in journal : e.inst = i /\ e.kind \notin Broken /\ i \notin rolled)
        ~> \/ i \in rolled \cup Withdrawn
           \/ [](\E e \in journal :
                   /\ e.inst = i
                   /\ Starved(e) \/ nextInst + Len(Emits[e.kind]) > MaxInst)
=============================================================================
