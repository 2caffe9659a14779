------------------------------- MODULE LogDog -------------------------------
(***************************************************************************)
(* One LogDog log stream from ingestion to its archive.                    *)
(*                                                                         *)
(* Collector threads take the bundles of the stream from Pub/Sub, register *)
(* the stream with the Coordinator through a cache of promises             *)
(* (collector.go, coordinator/cache.go, promise.go), put the log entries   *)
(* in intermediate storage (bigtable/storage.go), and report the terminal  *)
(* index.  A bundle's entries are one row: the largest bundle (10 MiB,     *)
(* sizes.go) is no larger than a row may be (bigtable.go).                 *)
(* The Coordinator keeps the stream's LogStreamState (registerStream.go,   *)
(* terminateStream.go, archiveStream.go) and a named tumble mutation that  *)
(* publishes an archive task (createArchiveTask.go, archival.go); the      *)
(* archivists take the tasks from Pub/Sub and write the archive            *)
(* (archivist.go, storageSource.go).                                       *)
(*                                                                         *)
(* Pub/Sub delivers what is not acknowledged again, also while an earlier  *)
(* delivery is still being processed (for an archive task that counts as a *)
(* fault).  Every kind of fault happens at most once.                      *)
(*                                                                         *)
(* Time is the age of the stream: the time since LogStreamState's Updated, *)
(* which registration, termination and archival set.                       *)
(***************************************************************************)
EXTENDS Integers, Sequences, FiniteSets, FiniteSetsExt

CONSTANTS
    Handlers,        \* the threads of a collector process, numbers
    Archivists,      \* the archivist processes, numbers
    Bundles,         \* the Pub/Sub messages of the stream
    Entries,         \* the indexes of the log entries in a bundle
    TerminalIndex,   \* the terminal index a bundle carries, or NoIndex
    SettleDelay,
    CompletePeriod,
    MaxEntries,      \* bound: how many times the cache entry is made anew
    FaultKinds,      \* the faults that may happen
    MaxFaults        \* bound: how many of them happen in one behaviour

NoIndex == -1

ASSUME LogDogAssumption ==
    /\ Handlers \subseteq Nat /\ Archivists \subseteq Nat
    /\ SettleDelay \in Nat /\ CompletePeriod \in Nat
    /\ MaxEntries \in Nat \ {0} /\ MaxFaults \in Nat
    /\ \A b \in Bundles :
          /\ Entries[b] \in SUBSET Nat /\ IsFiniteSet(Entries[b])
          /\ TerminalIndex[b] \in Nat \cup {NoIndex}
          /\ Entries[b] # {} \/ TerminalIndex[b] # NoIndex

VARIABLES
    acked,      \* the bundles acknowledged to Pub/Sub
    handler,    \* what each collector thread is doing
    cache,      \* the cacheEntry objects, the latest one at the index live
    live,
    storage,    \* the log entries in intermediate storage
    refused,    \* the bundles whose entries storage refuses for good
    stream,     \* the Coordinator's LogStreamState
    age,        \* the time since stream was updated, up to MaxAge
    mutation,   \* the named CreateArchiveTask mutation: none or its kind, or that
                \* tumble retries a cleanup that an optimistic one has replaced
    rolling,    \* the key of a RollForward that has not committed, or 0
    keys,       \* the archival keys handed out
    tasks,      \* the archive tasks not acknowledged to Pub/Sub
    archivist,  \* what each archivist is doing
    faults      \* the faults that happened

collectorVars == <<acked, handler, cache, live, storage, refused>>
coordinatorVars == <<stream, age, mutation, rolling>>
archivistVars == <<keys, tasks, archivist>>
vars == <<acked, handler, cache, live, storage, refused, stream, age, mutation,
          rolling, keys, tasks, archivist, faults>>

MaxAge == Max({SettleDelay, CompletePeriod + 1})

IdleHandler == [pc |-> "idle", bundle |-> CHOOSE b \in Bundles : TRUE,
                entry |-> 0, put |-> "done", term |-> "done", err |-> "none"]
NewEntry == [terminal |-> NoIndex, register |-> "nil", terminate |-> "nil"]
IdleArchivist == [pc |-> "idle", task |-> [key |-> 0, settle |-> 0, complete |-> 0],
                  terminal |-> NoIndex, staged |-> {}]

Init ==
    /\ acked = {} /\ storage = {} /\ refused = {} /\ tasks = {} /\ faults = {}
    /\ handler = [h \in Handlers |-> IdleHandler]
    /\ cache = [i \in 1..MaxEntries |-> NewEntry] /\ live = 1
    /\ stream = [registered |-> FALSE, terminal |-> NoIndex, key |-> 0,
                 archived |-> FALSE, count |-> 0]
    /\ age = 0 /\ mutation = "none" /\ rolling = 0 /\ keys = 0
    /\ archivist = [a \in Archivists |-> IdleArchivist]

\* What is delivered goes to the first that is idle: they are interchangeable.
FirstIdle(who, n) ==
    /\ who[n].pc = "idle"
    /\ \A m \in DOMAIN who : who[m].pc = "idle" => m >= n

Fault(kind) ==
    /\ kind \in FaultKinds \ faults /\ Cardinality(faults) < MaxFaults
    /\ faults' = faults \cup {kind}

\* The prefix of the stream may expire at any time.
PrefixExpired == "prefix" \in faults

-----------------------------------------------------------------------------
(* The Coordinator.                                                        *)

Terminated(s) == s.archived \/ s.terminal >= 0

ArchivalState(s) ==
    CASE s.archived /\ s.count > s.terminal    -> "ArchivedComplete"
      [] s.archived /\ ~(s.count > s.terminal) -> "ArchivedPartial"
      [] ~s.archived /\ s.key # 0              -> "ArchiveTasked"
      [] OTHER                                 -> "NotArchived"

\* RegisterStream's transaction, with the terminal index of the request.  The
\* archival mutation is written under its name with the stream.
RegisterTxn(index) ==
    IF stream.registered
    THEN UNCHANGED coordinatorVars
    ELSE /\ stream' = [stream EXCEPT !.registered = TRUE, !.terminal = index]
         /\ mutation' = IF index >= 0 THEN "optimistic" ELSE "cleanup"
         /\ age' = 0
         /\ UNCHANGED rolling

\* TerminateStream's transaction when the stream is open.  It replaces the
\* mutation of the same name.  A RollForward of the old one that is under way in
\* the stream's entity group does not commit: tumble retries what it has loaded.
TerminateTxn(index) ==
    /\ stream' = [stream EXCEPT !.terminal = index]
    /\ mutation' = IF rolling = 0 THEN "optimistic" ELSE "retried"
    /\ age' = 0 /\ rolling' = 0

\* When the mutation may run (ProcessAfter; a retried one is running), and the
\* settle delay and complete period of the task it publishes.
Expiration(kind) ==
    CASE kind = "optimistic" -> SettleDelay
      [] kind = "cleanup"    -> CompletePeriod
      [] kind = "retried"    -> 0
TaskFor(kind, key) ==
    [key |-> key, settle |-> IF kind = "optimistic" THEN SettleDelay ELSE 0,
     complete |-> IF kind = "optimistic" THEN CompletePeriod ELSE 0]

\* CreateArchiveTask.RollForward: publishes the task within its transaction,
\* unless the stream has an archival task already or is archived.
RollForward ==
    /\ mutation # "none" /\ rolling = 0 /\ age >= Expiration(mutation)
    /\ IF ArchivalState(stream) = "NotArchived"
       THEN /\ keys' = keys + 1 /\ rolling' = keys + 1
            /\ tasks' = tasks \cup {TaskFor(mutation, keys + 1)}
            /\ UNCHANGED mutation
       ELSE /\ mutation' = "none"
            /\ UNCHANGED <<keys, rolling, tasks>>
    /\ UNCHANGED <<collectorVars, stream, age, archivist, faults>>

\* The transaction commits: the key is recorded and the mutation deleted, the
\* one that replaced it too.
CommitRollForward ==
    /\ rolling # 0
    /\ stream' = [stream EXCEPT !.key = rolling]
    /\ mutation' = "none" /\ rolling' = 0
    /\ UNCHANGED <<collectorVars, archivistVars, age, faults>>

\* Or it fails; the mutation under the name stays and the task is superfluous.
AbortRollForward ==
    /\ rolling # 0 \/ mutation = "retried"
    /\ Fault("roll")
    /\ rolling' = 0
    /\ mutation' = IF mutation = "retried" THEN "optimistic" ELSE mutation
    /\ UNCHANGED <<collectorVars, archivistVars, stream, age>>

\* Time passes.  The age of a stream that is archived decides nothing.
Tick ==
    /\ stream.registered /\ ~stream.archived /\ age < MaxAge
    /\ age' = age + 1
    /\ UNCHANGED <<collectorVars, archivistVars, stream, mutation, rolling, faults>>

-----------------------------------------------------------------------------
(* The collector.                                                          *)

\* A thread goes on with the result of the registration promise: an archived
\* stream's bundle is skipped and, like one that failed for good, acknowledged.
Registered(hd, result) ==
    CASE result = "running" -> [hd EXCEPT !.pc = "await"]
      [] result = "failed"  -> [hd EXCEPT !.pc = "failed"]
      [] result \in {"archived", "rejected"} -> [hd EXCEPT !.pc = "work"]
      [] result = "open" ->
            [hd EXCEPT !.pc = "work",
                       !.put = IF Entries[hd.bundle] # {} THEN "todo" ELSE "done",
                       !.term = IF TerminalIndex[hd.bundle] >= 0 THEN "todo" ELSE "done"]

\* A thread gets a bundle, and the promise of the cache entry: it makes it, and
\* will run it, when there is none.
Receive(h, b) ==
    /\ FirstIdle(handler, h) /\ b \notin acked
    /\ LET hd == [IdleHandler EXCEPT !.bundle = b, !.entry = live]
           p == cache[live].register
       IN  IF p = "nil"
           THEN /\ handler' = [handler EXCEPT ![h] = [hd EXCEPT !.pc = "register"]]
                /\ cache' = [cache EXCEPT ![live].register = "running"]
           ELSE /\ handler' = [handler EXCEPT ![h] = Registered(hd, p)]
                /\ UNCHANGED cache
    /\ UNCHANGED <<coordinatorVars, archivistVars, acked, live, storage, refused, faults>>

\* loadRemoteTerminalIndex: the first terminal index stays.
LoadTerminal(e, index) == [e EXCEPT !.terminal = IF @ < 0 THEN index ELSE @]

\* The registration promise that thread h runs is resolved, for h and for every
\* thread that awaits it.
ResolveRegister(h, result, index) ==
    LET i == handler[h].entry
    IN  /\ cache' = [cache EXCEPT ![i] =
                        LoadTerminal([@ EXCEPT !.register = result], index)]
        /\ handler' = [g \in Handlers |->
              IF g = h \/ (handler[g].pc = "await" /\ handler[g].entry = i)
              THEN Registered(handler[g], result) ELSE handler[g]]

\* The RegisterStream RPC of a promise.
RegisterStream(h) ==
    /\ handler[h].pc = "register" /\ ~PrefixExpired
    /\ RegisterTxn(TerminalIndex[handler[h].bundle])
    /\ ResolveRegister(h, IF stream'.archived THEN "archived" ELSE "open",
                       IF Terminated(stream') THEN stream'.terminal ELSE NoIndex)
    /\ UNCHANGED <<archivistVars, acked, live, storage, refused, faults>>

\* An expired prefix is an error for good, which the promise keeps.
RegisterRejected(h) ==
    /\ handler[h].pc = "register" /\ PrefixExpired
    /\ ResolveRegister(h, "rejected", NoIndex)
    /\ UNCHANGED <<coordinatorVars, archivistVars, acked, live, storage, refused, faults>>

\* A transient error, before or after the Coordinator's transaction.
RegisterFails(h) ==
    /\ handler[h].pc = "register" /\ Fault("register")
    /\ \/ ~PrefixExpired /\ RegisterTxn(TerminalIndex[handler[h].bundle])
       \/ UNCHANGED coordinatorVars
    /\ ResolveRegister(h, "failed", NoIndex)
    /\ UNCHANGED <<archivistVars, acked, live, storage, refused>>

\* Mutant: the failed promise stays in the cache.
ReturnBundle(h) ==
    /\ handler[h].pc = "failed"
    /\ handler' = [handler EXCEPT ![h] = IdleHandler]
    /\ UNCHANGED <<coordinatorVars, archivistVars, acked, cache, live, storage, refused, faults>>

\* A thread whose promise failed transiently clears it and returns the bundle.
ClearRegister(h) ==
    /\ handler[h].pc = "failed"
    /\ cache' = [cache EXCEPT ![handler[h].entry].register = IF @ = "failed" THEN "nil" ELSE @]
    /\ handler' = [handler EXCEPT ![h] = IdleHandler]
    /\ UNCHANGED <<coordinatorVars, archivistVars, acked, live, storage, refused, faults>>

\* Storage.Put writes the bundle's row.  A row that exists ends the call with
\* ErrExists, which the collector takes for success.
Put(h) ==
    /\ handler[h].pc = "work" /\ handler[h].put = "todo" /\ handler[h].bundle \notin refused
    /\ storage' = storage \cup Entries[handler[h].bundle]
    /\ handler' = [handler EXCEPT ![h].put = "done"]
    /\ UNCHANGED <<coordinatorVars, archivistVars, acked, cache, live, refused, faults>>

\* A transient error, before or after the row is written.
PutFails(h) ==
    /\ handler[h].pc = "work" /\ handler[h].put = "todo" /\ handler[h].bundle \notin refused
    /\ Fault("put")
    /\ storage' \in {storage, storage \cup Entries[handler[h].bundle]}
    /\ handler' = [handler EXCEPT ![h].put = "done", ![h].err = "transient"]
    /\ UNCHANGED <<coordinatorVars, archivistVars, acked, cache, live, refused>>

\* Storage refuses the bundle's data (InvalidArgument), as it will every time:
\* not a transient error.
PutRejected(h) ==
    /\ handler[h].pc = "work" /\ handler[h].put = "todo"
    /\ IF handler[h].bundle \in refused THEN UNCHANGED faults
       ELSE Fault("data") /\ ~(Entries[handler[h].bundle] \subseteq storage)
    /\ refused' = refused \cup {handler[h].bundle}
    /\ handler' = [handler EXCEPT ![h].put = "done"]
    /\ UNCHANGED <<coordinatorVars, archivistVars, acked, cache, live, storage>>

\* A thread goes on with the result of the termination promise.
AfterTerminate(hd, result) ==
    CASE result = "running" -> [hd EXCEPT !.term = "await"]
      [] result = "failed"  -> [hd EXCEPT !.term = "failed"]
      [] result \in {"ok", "rejected"} -> [hd EXCEPT !.term = "done"]

\* terminateStream: nothing to do when the cache knows a terminal index.  The
\* cache entry may be another one than at registration.
Terminate(h) ==
    /\ handler[h].pc = "work" /\ handler[h].term = "todo"
    /\ LET hd == [handler[h] EXCEPT !.entry = live]
           e == cache[live]
       IN  CASE e.terminal >= 0 ->
                  /\ handler' = [handler EXCEPT ![h] = AfterTerminate(hd, "ok")]
                  /\ UNCHANGED cache
             [] e.terminal < 0 /\ e.terminate = "nil" ->
                  /\ handler' = [handler EXCEPT ![h] = [hd EXCEPT !.term = "run"]]
                  /\ cache' = [cache EXCEPT ![live].terminate = "running"]
             [] OTHER ->
                  /\ handler' = [handler EXCEPT ![h] = AfterTerminate(hd, e.terminate)]
                  /\ UNCHANGED cache
    /\ UNCHANGED <<coordinatorVars, archivistVars, acked, live, storage, refused, faults>>

ResolveTerminate(h, result, index) ==
    LET i == handler[h].entry
    IN  /\ cache' = [cache EXCEPT ![i] =
                        LoadTerminal([@ EXCEPT !.terminate = result], index)]
        /\ handler' = [g \in Handlers |->
              IF g = h \/ (handler[g].term = "await" /\ handler[g].entry = i)
              THEN AfterTerminate(handler[g], result) ELSE handler[g]]

\* The TerminateStream RPC of a promise: a stream that has this terminal index
\* is left alone, one that has another is an error for good.
TerminateStream(h) ==
    /\ handler[h].term = "run"
    /\ LET index == TerminalIndex[handler[h].bundle]
       IN  CASE ~Terminated(stream) ->
                  TerminateTxn(index) /\ ResolveTerminate(h, "ok", index)
             [] Terminated(stream) /\ stream.terminal = index ->
                  UNCHANGED coordinatorVars /\ ResolveTerminate(h, "ok", index)
             [] Terminated(stream) /\ stream.terminal # index ->
                  UNCHANGED coordinatorVars /\ ResolveTerminate(h, "rejected", NoIndex)
    /\ UNCHANGED <<archivistVars, acked, live, storage, refused, faults>>

\* Mutant: the terminal index is cached whether the RPC succeeds or not.
TerminateFailsCached(h) ==
    /\ handler[h].term = "run" /\ Fault("terminate")
    /\ \/ ~Terminated(stream) /\ TerminateTxn(TerminalIndex[handler[h].bundle])
       \/ UNCHANGED coordinatorVars
    /\ ResolveTerminate(h, "failed", TerminalIndex[handler[h].bundle])
    /\ UNCHANGED <<archivistVars, acked, live, storage, refused>>

\* A transient error, before or after the Coordinator's transaction.
TerminateFails(h) ==
    /\ handler[h].term = "run" /\ Fault("terminate")
    /\ \/ ~Terminated(stream) /\ TerminateTxn(TerminalIndex[handler[h].bundle])
       \/ UNCHANGED coordinatorVars
    /\ ResolveTerminate(h, "failed", NoIndex)
    /\ UNCHANGED <<archivistVars, acked, live, storage, refused>>

ClearTerminate(h) ==
    /\ handler[h].term = "failed"
    /\ cache' = [cache EXCEPT ![handler[h].entry].terminate = IF @ = "failed" THEN "nil" ELSE @]
    /\ handler' = [handler EXCEPT ![h].term = "done", ![h].err = "transient"]
    /\ UNCHANGED <<coordinatorVars, archivistVars, acked, live, storage, refused, faults>>

\* Mutant: the bundle is acknowledged whatever the error.
FinishAlways(h) ==
    /\ handler[h].pc = "work" /\ handler[h].put = "done" /\ handler[h].term = "done"
    /\ acked' = acked \cup {handler[h].bundle}
    /\ handler' = [handler EXCEPT ![h] = IdleHandler]
    /\ UNCHANGED <<coordinatorVars, archivistVars, cache, live, storage, refused, faults>>

\* Both parts of the work have ended: the bundle is acknowledged, unless one of
\* them ended with a transient error.
Finish(h) ==
    /\ handler[h].pc = "work" /\ handler[h].put = "done" /\ handler[h].term = "done"
    /\ acked' = IF handler[h].err = "transient" THEN acked
                ELSE acked \cup {handler[h].bundle}
    /\ handler' = [handler EXCEPT ![h] = IdleHandler]
    /\ UNCHANGED <<coordinatorVars, archivistVars, cache, live, storage, refused, faults>>

\* The cache entry expires; threads that hold the old one go on with it.
ExpireEntry ==
    /\ live < MaxEntries /\ Fault("expire")
    /\ live' = live + 1
    /\ UNCHANGED <<coordinatorVars, archivistVars, acked, handler, cache, storage, refused>>

\* The collector process restarts: its threads and its cache are gone.
CollectorCrash ==
    /\ Fault("collector")
    /\ handler' = [h \in Handlers |-> IdleHandler]
    /\ cache' = [i \in 1..MaxEntries |-> NewEntry]
    /\ live' = 1
    /\ UNCHANGED <<coordinatorVars, archivistVars, acked, storage, refused>>

PrefixExpires ==
    /\ Fault("prefix")
    /\ UNCHANGED <<collectorVars, coordinatorVars, archivistVars>>

-----------------------------------------------------------------------------
(* The archivists.                                                         *)

\* Mutant: a premature task is taken for a superfluous one.
DiscardMismatch(t) ==
    /\ stream.archived \/ t.key # stream.key
    /\ tasks' = tasks \ {t}
    /\ UNCHANGED <<collectorVars, coordinatorVars, keys, archivist, faults>>

\* A task of an archived stream, or one whose key is not the recorded one, is
\* consumed.  While no key is recorded the task is premature and stays.
DiscardTask(t) ==
    /\ stream.archived \/ (stream.key # 0 /\ t.key # stream.key)
    /\ tasks' = tasks \ {t}
    /\ UNCHANGED <<collectorVars, coordinatorVars, keys, archivist, faults>>

\* checkComplete: the keys in storage are consecutive from 0, up to the terminal
\* index or as far as they go; the Get of bigtable is content with none at all.
CheckComplete(index) ==
    /\ index >= 0
    /\ \/ 0..index \subseteq storage
       \/ \A i \in storage : 0..i \subseteq storage

\* Pub/Sub delivers a task again that an archivist is still working on.
Delivered(t) ==
    IF \E a \in Archivists : archivist[a].pc # "idle" /\ archivist[a].task = t
    THEN Fault("redelivery") ELSE UNCHANGED faults

\* archiveTaskImpl up to the staging: a stream younger than the settle delay,
\* or one that must be complete and is not, is tried again later.  (Any other
\* task may begin at once: the threshold that puts off tasks dispatched lately,
\* and the checks for purged streams and of the protocol's version, are left out.)
BeginTask(a, t) ==
    /\ FirstIdle(archivist, a) /\ Delivered(t)
    /\ ~stream.archived /\ t.key = stream.key
    /\ age >= t.settle
    /\ age <= t.complete => CheckComplete(stream.terminal)
    /\ archivist' = [archivist EXCEPT ![a] =
          [pc |-> "stage", task |-> t, terminal |-> stream.terminal, staged |-> {}]]
    /\ UNCHANGED <<collectorVars, coordinatorVars, keys, tasks>>

\* The entries in storage, up to the terminal index if there is one, are written
\* to staging files, which are renamed to the archive's final ones (AssertLease
\* always succeeds).
Stage(a) ==
    /\ archivist[a].pc = "stage" /\ "stage" \notin faults
    /\ archivist' = [archivist EXCEPT ![a].pc = "report", ![a].staged =
          {i \in storage : archivist[a].terminal >= 0 => i <= archivist[a].terminal}]
    /\ UNCHANGED <<collectorVars, coordinatorVars, keys, tasks, faults>>

\* From now on staging fails with an error that is not transient, for every
\* archivist and every time.
StageBreaks ==
    /\ Fault("stage")
    /\ UNCHANGED <<collectorVars, coordinatorVars, archivistVars>>

\* The error is reported without archive URLs, and ArchiveStream rejects a
\* request without them, whatever the state of the stream: the task stays.
StageError(a) ==
    /\ archivist[a].pc = "stage" /\ "stage" \in faults
    /\ archivist' = [archivist EXCEPT ![a] = IdleArchivist]
    /\ UNCHANGED <<collectorVars, coordinatorVars, keys, tasks, faults>>

\* Mutant: an archived stream is archived again.
ArchiveStreamAgain(a) ==
    /\ archivist[a].pc = "report"
    /\ LET staged == archivist[a].staged
       IN  stream' = [stream EXCEPT !.archived = TRUE, !.key = 0,
                        !.terminal = IF staged = {} THEN NoIndex ELSE Max(staged),
                        !.count = Cardinality(staged)]
    /\ age' = 0 /\ rolling' = 0
    /\ archivist' = [archivist EXCEPT ![a].pc = "consume"]
    /\ UNCHANGED <<collectorVars, mutation, keys, tasks, faults>>

\* The Coordinator's ArchiveStream: nothing to do for an archived stream, an
\* error (the task stays) for one without a task.
ArchiveStream(a) ==
    /\ archivist[a].pc = "report"
    /\ LET staged == archivist[a].staged
       IN  CASE ArchivalState(stream) = "ArchiveTasked" ->
                  /\ stream' = [stream EXCEPT !.archived = TRUE, !.key = 0,
                        !.terminal = IF staged = {} THEN NoIndex ELSE Max(staged),
                        !.count = Cardinality(staged)]
                  /\ age' = 0 /\ rolling' = 0
                  /\ archivist' = [archivist EXCEPT ![a].pc = "consume"]
             [] ArchivalState(stream) = "NotArchived" ->
                  /\ archivist' = [archivist EXCEPT ![a] = IdleArchivist]
                  /\ UNCHANGED <<stream, age, rolling>>
             [] OTHER ->
                  /\ archivist' = [archivist EXCEPT ![a].pc = "consume"]
                  /\ UNCHANGED <<stream, age, rolling>>
    /\ UNCHANGED <<collectorVars, mutation, keys, tasks, faults>>

Consume(a) ==
    /\ archivist[a].pc = "consume"
    /\ tasks' = tasks \ {archivist[a].task}
    /\ archivist' = [archivist EXCEPT ![a] = IdleArchivist]
    /\ UNCHANGED <<collectorVars, coordinatorVars, keys, faults>>

\* The archivist stops, or gets a transient error, or loses an answer.
ArchivistFails(a) ==
    /\ archivist[a].pc # "idle" /\ Fault("archivist")
    /\ archivist' = [archivist EXCEPT ![a] = IdleArchivist]
    /\ UNCHANGED <<collectorVars, coordinatorVars, keys, tasks>>

-----------------------------------------------------------------------------
HandlerStep(h) ==
    \/ \E b \in Bundles : Receive(h, b)
    \/ RegisterStream(h) \/ RegisterRejected(h) \/ ClearRegister(h)
    \/ Put(h) \/ PutRejected(h)
    \/ Terminate(h) \/ TerminateStream(h) \/ ClearTerminate(h)
    \/ Finish(h)

ArchivistStep(a) ==
    \/ \E t \in tasks : BeginTask(a, t)
    \/ Stage(a) \/ StageError(a) \/ ArchiveStream(a) \/ Consume(a)

CoordinatorStep == RollForward \/ CommitRollForward

Environment ==
    \/ ExpireEntry \/ CollectorCrash \/ PrefixExpires \/ StageBreaks \/ AbortRollForward
    \/ \E h \in Handlers : RegisterFails(h) \/ PutFails(h) \/ TerminateFails(h)
    \/ \E a \in Archivists : ArchivistFails(a)

Next ==
    \/ \E h \in Handlers : HandlerStep(h)
    \/ \E a \in Archivists : ArchivistStep(a)
    \/ \E t \in tasks : DiscardTask(t)
    \/ CoordinatorStep \/ Tick \/ Environment

LogDogSpec == Init /\ [][Next]_vars

\* The threads run and the RPCs they make end, time passes, tumble processes the
\* stream's mutation once it is due, and Pub/Sub redelivers.
FairLogDogSpec ==
    /\ LogDogSpec
    /\ \A h \in Handlers : WF_vars(HandlerStep(h))
    /\ \A a \in Archivists : WF_vars(ArchivistStep(a))
    /\ WF_vars(\E t \in tasks : DiscardTask(t))
    /\ WF_vars(CoordinatorStep)
    /\ WF_vars(Tick)

-----------------------------------------------------------------------------
\* A bundle is acknowledged only once its entries are in storage, whatever faults
\* and duplicate deliveries came before, unless storage refuses just this bundle
\* for good, the stream was archived already or its prefix expired
\* (collector.go 400-423, main.go 180-221, bigtable.go 189-203).
AckedIsStored ==
    \A b \in acked :
        Entries[b] \subseteq storage \/ b \in refused \/ stream.archived \/ PrefixExpired

\* A terminal index in the cache, for which terminateStream makes no RPC, is the
\* one the Coordinator has recorded, until the archival replaces it
\* (cache.go 254-264, 282-299).
CachedIndexIsRecorded ==
    \A i \in 1..MaxEntries :
        cache[i].terminal >= 0 => stream.archived \/ stream.terminal = cache[i].terminal

\* While the Coordinator has a key recorded, the archive task with that key is
\* not consumed: tasks that came before their transaction committed are kept and
\* only the superfluous ones are dropped (archivist.go 262-284).
TaskedHasItsTask ==
    stream.key # 0 => \E t \in tasks : t.key = stream.key

\* The record of an archived stream never changes, whatever late terminations,
\* registrations and reports of other archivists arrive (archiveStream.go 58-61).
ArchivedOnce == [][stream.archived => stream' = stream]_vars

\* Every bundle is acknowledged, and a stream that is registered is archived, with
\* or without a terminal index and with entries missing or not, unless staging its
\* archive fails for good.
BundlesAckedStreamArchived ==
    <>[](/\ acked = Bundles
         /\ stream.registered => stream.archived \/ "stage" \in faults)

\* "If this request contained an error, we will record an empty archival"
\* (archiveStream.go 72-73): a stream whose archival has an error that any later
\* attempt meets again (archivist.go 354-357) is archived all the same.
FailedArchivalIsRecorded ==
    ("stage" \in faults /\ stream.key # 0) ~> stream.archived
=============================================================================
