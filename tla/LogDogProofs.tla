---------------------------- MODULE LogDogProofs ----------------------------
(***************************************************************************)
(* Safety of a LogDog stream, for any number of collector threads,         *)
(* archivists, bundles and faults.                                         *)
(***************************************************************************)
EXTENDS LogDog, FiniteLemmas

-----------------------------------------------------------------------------
(* The inductive invariant.                                                *)

RegisterStates == {"nil", "running", "failed", "open", "archived", "rejected"}
TerminateStates == {"nil", "running", "failed", "ok", "rejected"}
HandlerStates == {"idle", "register", "await", "failed", "work"}
PutStates == {"todo", "done"}
TermStates == {"todo", "run", "await", "failed", "done"}

\* The indexes of the log entries of a bundle, or of all that are in storage.
EntrySets == {S \in SUBSET Nat : IsFiniteSet(S)}

\* A thread's record.  Its bundle means nothing while it is idle.
HandlerRecords ==
    [pc : HandlerStates, bundle : Bundles \cup {CHOOSE b \in Bundles : TRUE},
     entry : 0..MaxEntries, put : PutStates, term : TermStates,
     err : {"none", "transient"}]

CacheEntries ==
    [terminal : Int, register : RegisterStates, terminate : TerminateStates]

CollectorTypeOK ==
    /\ handler \in [Handlers -> HandlerRecords]
    /\ cache \in [1..MaxEntries -> CacheEntries]
    /\ live \in 1..MaxEntries
    /\ acked \subseteq Bundles
    /\ \A h \in Handlers :
         /\ handler[h].pc # "idle" => handler[h].bundle \in Bundles /\ handler[h].entry # 0
         /\ handler[h].term # "done" =>
              handler[h].pc = "work" /\ TerminalIndex[handler[h].bundle] >= 0

\* The fields of LogStreamState.
StreamTypeOK ==
    /\ stream \in [registered : BOOLEAN, terminal : Int, key : Nat,
                   archived : BOOLEAN, count : Nat]
    /\ ~stream.registered => stream.terminal = NoIndex

\* The archival of the stream: who holds a key, and the task that goes with it.
ArchivalOK ==
    /\ rolling \in Nat /\ keys \in Nat
    /\ stream.archived => stream.registered /\ stream.key = 0 /\ rolling = 0
    /\ stream.key # 0 => stream.registered /\ \E t \in tasks : t.key = stream.key
    /\ mutation # "none" => stream.registered
    /\ rolling # 0 => /\ mutation # "none" /\ stream.key = 0
                      /\ \E t \in tasks : t.key = rolling

ArchiveTasks == [key : Nat, settle : Nat, complete : Nat]
ArchivistRecords ==
    [pc : {"idle", "stage", "report", "consume"}, task : ArchiveTasks, terminal : Int,
     staged : EntrySets]

\* An archivist that is about to consume its task has seen the stream archived.
ArchivistsOK ==
    /\ storage \in EntrySets /\ tasks \subseteq ArchiveTasks
    /\ archivist \in [Archivists -> ArchivistRecords]
    /\ \A a \in Archivists : archivist[a].pc = "consume" => stream.archived

\* What the cache and the threads believe of the stream is so.
CacheOK ==
    /\ \A i \in 1..MaxEntries :
         /\ cache[i].register = "open" => stream.registered
         /\ cache[i].register = "archived" => stream.archived
         /\ cache[i].register = "rejected" => PrefixExpired
    /\ \A h \in Handlers : handler[h].term # "done" => stream.registered

LogDogInv ==
    /\ CollectorTypeOK /\ StreamTypeOK /\ ArchivalOK /\ ArchivistsOK
    /\ CacheOK /\ CachedIndexIsRecorded

\* Bundles and storage hold finitely many entries, of which there is a last one.
LEMMA EntrySetFacts ==
  /\ {} \in EntrySets
  /\ \A S, T \in EntrySets : S \cup T \in EntrySets
  /\ \A S \in EntrySets : \A T \in SUBSET S : T \in EntrySets
  /\ \A S \in EntrySets : /\ Cardinality(S) \in Nat
                          /\ S # {} => Max(S) \in Nat
<1>1. {} \in EntrySets
  BY FS_EmptySet DEF EntrySets
<1>2. \A S, T \in EntrySets : S \cup T \in EntrySets
  BY FS_Union DEF EntrySets
<1>3. \A S \in EntrySets : \A T \in SUBSET S : T \in EntrySets
  BY FS_Subset DEF EntrySets
<1>4. ASSUME NEW S \in EntrySets PROVE Cardinality(S) \in Nat
  BY FS_CardinalityType DEF EntrySets
<1>5. ASSUME NEW S \in EntrySets, S # {} PROVE Max(S) \in Nat
  <2>1. \E x \in S : \A y \in S : x >= y
    BY <1>5, FiniteHasGreatest DEF EntrySets
  <2>2. Max(S) \in S
    BY <2>1 DEF Max
  <2> QED
    BY <2>2 DEF EntrySets
<1> QED
  BY <1>1, <1>2, <1>3, <1>4, <1>5

\* The entries of a bundle are such a set.
LEMMA BundleFacts ==
  ASSUME NEW b \in Bundles
  PROVE  Entries[b] \in EntrySets
  BY LogDogAssumption DEF EntrySets

\* The stream is empty and unregistered in the beginning.
LEMMA InitInv == Init => LogDogInv
  BY LogDogAssumption, EntrySetFacts DEF Init, LogDogInv, CollectorTypeOK, StreamTypeOK, ArchivalOK,
     ArchivistsOK, ArchivistRecords,
     ArchiveTasks, CacheOK, CachedIndexIsRecorded, HandlerRecords, CacheEntries,
     IdleHandler, NewEntry, IdleArchivist, NoIndex, RegisterStates,
     TerminateStates, HandlerStates, PutStates, TermStates

-----------------------------------------------------------------------------
(* What the operators on the threads' records return.                      *)

\* A thread that learns the result of the registration goes on with its bundle.
LEMMA RegisteredFacts ==
  ASSUME NEW hd \in HandlerRecords, hd.bundle \in Bundles, hd.term = "done",
         NEW result \in RegisterStates \ {"nil"}
  PROVE  LET n == Registered(hd, result)
         IN  /\ n \in HandlerRecords /\ n.pc # "idle"
             /\ n.bundle = hd.bundle /\ n.entry = hd.entry /\ n.err = hd.err
             /\ n.term # "done" => /\ n.pc = "work" /\ result = "open"
                                  /\ TerminalIndex[hd.bundle] >= 0
             /\ n.pc # "work" => n.put = hd.put
             /\ n.pc = "work" /\ Entries[hd.bundle] # {} =>
                  n.put = "todo" \/ result \in {"archived", "rejected"}
  BY LogDogAssumption DEF Registered, HandlerRecords, RegisterStates, HandlerStates, PutStates,
     TermStates

\* And one that learns the result of the termination with the rest of its work.
LEMMA AfterTerminateFacts ==
  ASSUME NEW hd \in HandlerRecords, NEW result \in TerminateStates \ {"nil"}
  PROVE  LET n == AfterTerminate(hd, result)
         IN  /\ n \in HandlerRecords /\ n.pc = hd.pc /\ n.put = hd.put
             /\ n.bundle = hd.bundle /\ n.entry = hd.entry /\ n.err = hd.err
  BY DEF AfterTerminate, HandlerRecords, TerminateStates, TermStates

-----------------------------------------------------------------------------
(* The steps of the Coordinator and of the archivists.                     *)

\* What the archival state tells about the record.
LEMMA ArchivalStateFacts ==
  ASSUME StreamTypeOK
  PROVE  /\ ArchivalState(stream) = "NotArchived" <=> ~stream.archived /\ stream.key = 0
         /\ ArchivalState(stream) = "ArchiveTasked" <=> ~stream.archived /\ stream.key # 0
  BY DEF StreamTypeOK, ArchivalState

\* The records that the steps build.
LEMMA RecordFacts ==
  /\ IdleArchivist \in ArchivistRecords /\ IdleArchivist.pc = "idle"
  /\ \A kind, key : key \in Nat => /\ TaskFor(kind, key) \in ArchiveTasks
                                   /\ TaskFor(kind, key).key = key
  BY LogDogAssumption, EntrySetFacts DEF IdleArchivist, ArchivistRecords, ArchiveTasks, TaskFor, NoIndex

\* Publishing, committing and failing to commit an archive task.
LEMMA RollForwardInv ==
  ASSUME LogDogInv, RollForward \/ CommitRollForward \/ AbortRollForward
  PROVE  LogDogInv'
<1> USE DEF LogDogInv, collectorVars, archivistVars, coordinatorVars
<1>1. CASE RollForward
  <2>1. StreamTypeOK' /\ CollectorTypeOK' /\ CacheOK' /\ CachedIndexIsRecorded'
    BY <1>1 DEF RollForward, StreamTypeOK, CollectorTypeOK, CacheOK,
       CachedIndexIsRecorded, PrefixExpired
  <2>2. CASE ArchivalState(stream) = "NotArchived"
    <3>1. ~stream.archived /\ stream.key = 0
      BY <2>2, ArchivalStateFacts
    <3>2. rolling' = keys + 1 /\ keys' = keys + 1 /\ keys + 1 # 0 /\ keys + 1 \in Nat
      BY <1>1, <2>2 DEF RollForward, ArchivalOK
    <3>3. tasks' = tasks \cup {TaskFor(mutation, keys + 1)}
      BY <1>1, <2>2 DEF RollForward
    <3>4. ArchivistsOK'
      BY <1>1, <3>2, <3>3, RecordFacts DEF RollForward, ArchivistsOK
    <3>5. \E t \in tasks' : t.key = keys + 1
      BY <3>2, <3>3, RecordFacts
    <3> QED
      BY <1>1, <2>1, <2>2, <3>1, <3>2, <3>4, <3>5 DEF RollForward, ArchivalOK
  <2>3. CASE ArchivalState(stream) # "NotArchived"
    BY <1>1, <2>1, <2>3 DEF RollForward, ArchivalOK, ArchivistsOK
  <2> QED
    BY <2>2, <2>3
<1>2. CASE CommitRollForward
  BY <1>2 DEF CommitRollForward, StreamTypeOK, CollectorTypeOK, ArchivistsOK, CacheOK,
     CachedIndexIsRecorded, PrefixExpired, ArchivalOK
<1>3. CASE AbortRollForward
  BY <1>3 DEF AbortRollForward, StreamTypeOK, CollectorTypeOK, ArchivistsOK, CacheOK,
     CachedIndexIsRecorded, PrefixExpired, ArchivalOK, Fault
<1> QED
  BY <1>1, <1>2, <1>3

\* An archivist's steps.
LEMMA ArchivistInv ==
  ASSUME LogDogInv, NEW a \in Archivists, ArchivistStep(a) \/ ArchivistFails(a)
  PROVE  LogDogInv'
<1> USE DEF LogDogInv, collectorVars, archivistVars, coordinatorVars
<1>1. ASSUME NEW t \in tasks, BeginTask(a, t) PROVE LogDogInv'
  <2>1. ArchivistsOK'
    BY <1>1, EntrySetFacts DEF BeginTask, ArchivistsOK, ArchivistRecords, StreamTypeOK
  <2> QED
    BY <1>1, <2>1 DEF BeginTask, Delivered, StreamTypeOK, CollectorTypeOK, CacheOK,
       CachedIndexIsRecorded, PrefixExpired, ArchivalOK, Fault
<1>2. CASE Stage(a)
  <2> DEFINE staged ==
           {i \in storage : archivist[a].terminal >= 0 => i <= archivist[a].terminal}
  <2>1. archivist' = [archivist EXCEPT ![a].pc = "report", ![a].staged = staged]
    BY <1>2 DEF Stage
  <2>2. staged \in EntrySets
    BY EntrySetFacts DEF ArchivistsOK
  <2> HIDE DEF staged
  <2> DEFINE n == [archivist[a] EXCEPT !.pc = "report", !.staged = staged]
  <2>3. n \in ArchivistRecords /\ n.pc = "report"
    BY <2>2 DEF ArchivistsOK, ArchivistRecords
  <2>4. archivist' = [archivist EXCEPT ![a] = n]
    BY <2>1 DEF ArchivistsOK
  <2> HIDE DEF n
  <2>5. ArchivistsOK'
    BY <1>2, <2>3, <2>4 DEF Stage, ArchivistsOK
  <2> QED
    BY <1>2, <2>5 DEF Stage, StreamTypeOK, CollectorTypeOK, CacheOK,
       CachedIndexIsRecorded, PrefixExpired, ArchivalOK
<1>3. CASE ArchiveStream(a)
  <2>1. CASE ArchivalState(stream) = "ArchiveTasked"
    <3> DEFINE max == IF archivist[a].staged = {} THEN NoIndex ELSE Max(archivist[a].staged)
               number == Cardinality(archivist[a].staged)
    <3>1. /\ stream' = [stream EXCEPT !.archived = TRUE, !.key = 0, !.terminal = max,
                                      !.count = number]
          /\ rolling' = 0 /\ archivist' = [archivist EXCEPT ![a].pc = "consume"]
      BY <1>3, <2>1 DEF ArchiveStream
    <3> HIDE DEF max, number
    <3>2. stream.registered
      BY <2>1, ArchivalStateFacts DEF ArchivalOK
    <3>3. max \in Int /\ number \in Nat
      BY EntrySetFacts DEF max, number, ArchivistsOK, ArchivistRecords, NoIndex
    <3>4. StreamTypeOK' /\ stream'.archived /\ stream'.registered /\ stream'.key = 0
      BY <3>1, <3>2, <3>3 DEF StreamTypeOK
    <3>5. ArchivalOK' /\ ArchivistsOK'
      BY <1>3, <3>1, <3>4 DEF ArchiveStream, ArchivalOK, ArchivistsOK, ArchivistRecords
    <3>6. CollectorTypeOK' /\ CacheOK' /\ CachedIndexIsRecorded'
      BY <1>3, <3>4 DEF ArchiveStream, CollectorTypeOK, CacheOK, CachedIndexIsRecorded,
         PrefixExpired
    <3> QED
      BY <3>4, <3>5, <3>6
  <2>2. CASE ArchivalState(stream) # "ArchiveTasked"
    <3>1. UNCHANGED <<stream, rolling>>
      BY <1>3, <2>2 DEF ArchiveStream
    <3>2. ArchivistsOK'
      BY <1>3, <2>2, <3>1, ArchivalStateFacts, RecordFacts
         DEF ArchiveStream, ArchivistsOK, ArchivistRecords, ArchivalOK
    <3> QED
      BY <1>3, <3>1, <3>2 DEF ArchiveStream, StreamTypeOK, CollectorTypeOK, CacheOK,
         CachedIndexIsRecorded, PrefixExpired, ArchivalOK
  <2> QED
    BY <2>1, <2>2
<1>4. CASE Consume(a)
  <2>1. stream.archived /\ stream' = stream /\ UNCHANGED <<rolling, mutation, keys>>
    BY <1>4 DEF Consume, ArchivistsOK
  <2>2. ArchivalOK' /\ StreamTypeOK'
    BY <2>1 DEF ArchivalOK, StreamTypeOK
  <2>3. ArchivistsOK'
    BY <1>4, <2>1, RecordFacts DEF Consume, ArchivistsOK
  <2> QED
    BY <1>4, <2>1, <2>2, <2>3 DEF Consume, CollectorTypeOK, CacheOK,
       CachedIndexIsRecorded, PrefixExpired
<1>5. CASE StageError(a)
  <2>1. ArchivistsOK'
    BY <1>5, RecordFacts DEF StageError, ArchivistsOK
  <2> QED
    BY <1>5, <2>1 DEF StageError, StreamTypeOK, CollectorTypeOK, CacheOK,
       CachedIndexIsRecorded, PrefixExpired, ArchivalOK
<1>6. CASE ArchivistFails(a)
  <2>1. ArchivistsOK'
    BY <1>6, RecordFacts DEF ArchivistFails, ArchivistsOK
  <2> QED
    BY <1>6, <2>1 DEF ArchivistFails, StreamTypeOK, CollectorTypeOK, CacheOK,
       CachedIndexIsRecorded, PrefixExpired, ArchivalOK, Fault
<1> QED
  BY <1>1, <1>2, <1>3, <1>4, <1>5, <1>6 DEF ArchivistStep

-----------------------------------------------------------------------------
(* The steps of the collector.                                             *)

\* A step that leaves the Coordinator and the archivists alone only has to keep
\* what is known of the collector.
LEMMA CollectorFrame ==
  ASSUME LogDogInv, UNCHANGED <<coordinatorVars, archivistVars>>, storage' \in EntrySets
  PROVE  StreamTypeOK' /\ ArchivalOK' /\ ArchivistsOK'
  BY DEF LogDogInv, coordinatorVars, archivistVars, StreamTypeOK, ArchivalOK, ArchivistsOK

\* RegisterStream's transaction: the stream is registered then, and nothing else
\* changes if it was before.
LEMMA RegisterTxnFacts ==
  ASSUME LogDogInv, NEW index \in Int, RegisterTxn(index), UNCHANGED archivistVars,
         UNCHANGED storage
  PROVE  /\ StreamTypeOK' /\ ArchivalOK' /\ ArchivistsOK'
         /\ stream'.registered /\ stream'.archived = stream.archived
         /\ stream.registered => stream' = stream
         /\ ~stream.registered => /\ ~stream.archived
                                  /\ \A i \in 1..MaxEntries : ~(cache[i].terminal >= 0)
<1> USE DEF LogDogInv, coordinatorVars, archivistVars
<1>1. CASE stream.registered
  BY <1>1 DEF RegisterTxn, StreamTypeOK, ArchivalOK, ArchivistsOK
<1>2. CASE ~stream.registered
  <2>1. /\ stream' = [stream EXCEPT !.registered = TRUE, !.terminal = index]
        /\ rolling' = rolling /\ mutation' \in {"optimistic", "cleanup"}
    BY <1>2 DEF RegisterTxn
  <2>2. /\ StreamTypeOK' /\ stream'.registered
        /\ stream'.archived = stream.archived /\ stream'.key = stream.key
    BY <2>1 DEF StreamTypeOK
  <2>3. ~stream.archived /\ stream.key = 0 /\ rolling = 0
    BY <1>2 DEF ArchivalOK
  <2>4. ArchivalOK' /\ ArchivistsOK'
    BY <2>1, <2>2, <2>3 DEF ArchivalOK, ArchivistsOK
  <2>5. \A i \in 1..MaxEntries : ~(cache[i].terminal >= 0)
    BY <1>2, <2>3 DEF StreamTypeOK, CachedIndexIsRecorded, NoIndex
  <2> QED
    BY <1>2, <2>2, <2>3, <2>4, <2>5
<1> QED
  BY <1>1, <1>2

\* Resolving a registration promise: what becomes of the threads and the cache.
LEMMA ResolveRegisterFacts ==
  ASSUME LogDogInv, NEW h \in Handlers, handler[h].pc = "register",
         NEW result \in RegisterStates \ {"nil"}, NEW index \in Int,
         ResolveRegister(h, result, index), UNCHANGED <<acked, live>>
  PROVE  /\ CollectorTypeOK'
         /\ \A i \in 1..MaxEntries :
              /\ cache'[i].register \in {cache[i].register, result}
              /\ cache'[i].terminal # cache[i].terminal =>
                   cache[i].terminal < 0 /\ cache'[i].terminal = index
         /\ \A g \in Handlers :
              \/ handler'[g] = handler[g]
              \/ /\ handler[g].pc \in {"register", "await"}
                 /\ handler'[g] = Registered(handler[g], result)
<1> USE DEF LogDogInv
<1> DEFINE i == handler[h].entry
<1>1. i \in 1..MaxEntries
  BY LogDogAssumption DEF CollectorTypeOK, HandlerRecords
<1>2. cache' = [cache EXCEPT ![i] = LoadTerminal([@ EXCEPT !.register = result], index)]
  BY DEF ResolveRegister
<1>3. /\ LoadTerminal([cache[i] EXCEPT !.register = result], index) \in CacheEntries
      /\ LoadTerminal([cache[i] EXCEPT !.register = result], index).register = result
      /\ LoadTerminal([cache[i] EXCEPT !.register = result], index).terminal =
           IF cache[i].terminal < 0 THEN index ELSE cache[i].terminal
  BY <1>1 DEF LoadTerminal, CacheEntries, CollectorTypeOK
<1>4. /\ cache' \in [1..MaxEntries -> CacheEntries]
      /\ \A k \in 1..MaxEntries :
              /\ cache'[k].register \in {cache[k].register, result}
              /\ cache'[k].terminal # cache[k].terminal =>
                   cache[k].terminal < 0 /\ cache'[k].terminal = index
  BY <1>1, <1>2, <1>3 DEF CollectorTypeOK
<1>5. handler' = [g \in Handlers |->
              IF g = h \/ (handler[g].pc = "await" /\ handler[g].entry = i)
              THEN Registered(handler[g], result) ELSE handler[g]]
  BY DEF ResolveRegister
<1>6. ASSUME NEW g \in Handlers
      PROVE  /\ handler'[g] \in HandlerRecords
             /\ \/ handler'[g] = handler[g]
                \/ /\ handler[g].pc \in {"register", "await"}
                   /\ handler'[g] = Registered(handler[g], result)
             /\ handler'[g].pc # "idle" => handler'[g].bundle \in Bundles /\ handler'[g].entry # 0
             /\ handler'[g].term # "done" =>
                  handler'[g].pc = "work" /\ TerminalIndex[handler'[g].bundle] >= 0
  <2>1. CASE g = h \/ (handler[g].pc = "await" /\ handler[g].entry = i)
    <3>1. handler[g] \in HandlerRecords /\ handler[g].bundle \in Bundles /\ handler[g].term = "done"
          /\ handler[g].entry # 0 /\ handler[g].pc \in {"register", "await"}
      BY <2>1 DEF CollectorTypeOK
    <3>2. handler'[g] = Registered(handler[g], result)
      BY <1>5, <2>1
    <3> QED
      BY <3>1, <3>2, RegisteredFacts
  <2>2. CASE ~(g = h \/ (handler[g].pc = "await" /\ handler[g].entry = i))
    BY <1>5, <2>2 DEF CollectorTypeOK
  <2> QED
    BY <2>1, <2>2
<1>7. CollectorTypeOK'
  BY <1>4, <1>5, <1>6 DEF CollectorTypeOK
<1> QED
  BY <1>4, <1>6, <1>7

\* The cache and the threads agree with the stream after a registration promise
\* was resolved with what the Coordinator's record says.
LEMMA RegisterInv ==
  ASSUME LogDogInv, NEW h \in Handlers,
         RegisterStream(h) \/ RegisterRejected(h) \/ RegisterFails(h)
  PROVE  LogDogInv'
<1> DEFINE bundle == handler[h].bundle
<1>0. handler[h].pc = "register" /\ UNCHANGED <<archivistVars, acked, live, storage>>
  BY DEF RegisterStream, RegisterRejected, RegisterFails
<1>1. TerminalIndex[bundle] \in Int /\ NoIndex \in Int
  BY <1>0, LogDogAssumption DEF LogDogInv, CollectorTypeOK, NoIndex
<1>2. CASE RegisterStream(h)
  <2> DEFINE result == IF stream'.archived THEN "archived" ELSE "open"
             index == IF Terminated(stream') THEN stream'.terminal ELSE NoIndex
  <2>1. RegisterTxn(TerminalIndex[bundle]) /\ ResolveRegister(h, result, index) /\ faults' = faults
    BY <1>2 DEF RegisterStream
  <2>2. /\ StreamTypeOK' /\ ArchivalOK' /\ ArchivistsOK'
        /\ stream'.registered /\ stream'.archived = stream.archived
        /\ stream.registered => stream' = stream
        /\ ~stream.registered => /\ ~stream.archived
                                 /\ \A i \in 1..MaxEntries : ~(cache[i].terminal >= 0)
    BY <1>0, <1>1, <2>1, RegisterTxnFacts
  <2>3. index \in Int /\ result \in RegisterStates \ {"nil"}
    BY <1>1, <2>2 DEF StreamTypeOK, RegisterStates
  <2>4. index >= 0 => index = stream'.terminal
    BY DEF NoIndex
  <2> HIDE DEF index
  <2>5. /\ CollectorTypeOK'
        /\ \A i \in 1..MaxEntries :
              /\ cache'[i].register \in {cache[i].register, result}
              /\ cache'[i].terminal # cache[i].terminal =>
                   cache[i].terminal < 0 /\ cache'[i].terminal = index
        /\ \A g \in Handlers :
              \/ handler'[g] = handler[g]
              \/ /\ handler[g].pc \in {"register", "await"}
                 /\ handler'[g] = Registered(handler[g], result)
    BY <1>0, <2>1, <2>3, ResolveRegisterFacts
  <2>6. CacheOK'
    BY <2>1, <2>2, <2>5 DEF LogDogInv, CacheOK, PrefixExpired
  <2>7. CachedIndexIsRecorded'
    BY <2>2, <2>4, <2>5 DEF LogDogInv, CachedIndexIsRecorded
  <2> QED
    BY <2>2, <2>5, <2>6, <2>7 DEF LogDogInv
<1>3. ASSUME NEW result \in {"rejected", "failed"}, ResolveRegister(h, result, NoIndex),
             result = "rejected" => PrefixExpired, faults \subseteq faults',
             StreamTypeOK', ArchivalOK', ArchivistsOK',
             stream'.archived = stream.archived, stream.registered => stream' = stream,
             ~stream.registered => \A i \in 1..MaxEntries : ~(cache[i].terminal >= 0)
      PROVE  LogDogInv'
  <2>1. result \in RegisterStates \ {"nil"}
    BY DEF RegisterStates
  <2>2. /\ CollectorTypeOK'
        /\ \A i \in 1..MaxEntries :
              /\ cache'[i].register \in {cache[i].register, result}
              /\ cache'[i].terminal # cache[i].terminal =>
                   cache[i].terminal < 0 /\ cache'[i].terminal = NoIndex
        /\ \A g \in Handlers :
              \/ handler'[g] = handler[g]
              \/ /\ handler[g].pc \in {"register", "await"}
                 /\ handler'[g] = Registered(handler[g], result)
    BY <1>0, <1>1, <1>3, <2>1, ResolveRegisterFacts
  <2>3. ASSUME NEW g \in Handlers, handler'[g].term # "done" PROVE stream'.registered
    <3>1. handler'[g] = Registered(handler[g], result) => handler'[g].term = handler[g].term
      BY DEF Registered, LogDogInv, CollectorTypeOK, HandlerRecords
    <3> QED
      BY <1>3, <2>2, <2>3, <3>1 DEF LogDogInv, CacheOK
  <2>4. CacheOK'
    BY <1>3, <2>2, <2>3 DEF LogDogInv, CacheOK, PrefixExpired
  <2>5. CachedIndexIsRecorded'
    BY <1>3, <2>2 DEF LogDogInv, CachedIndexIsRecorded, NoIndex
  <2> QED
    BY <1>3, <2>2, <2>4, <2>5 DEF LogDogInv
<1>4. CASE RegisterRejected(h)
  <2>1. StreamTypeOK' /\ ArchivalOK' /\ ArchivistsOK'
    BY <1>0, <1>4, CollectorFrame DEF RegisterRejected, LogDogInv, ArchivistsOK
  <2>2. stream' = stream /\ faults' = faults /\ ResolveRegister(h, "rejected", NoIndex)
        /\ PrefixExpired
    BY <1>4 DEF RegisterRejected, coordinatorVars
  <2>3. ~stream.registered => \A i \in 1..MaxEntries : ~(cache[i].terminal >= 0)
    BY DEF LogDogInv, ArchivalOK, StreamTypeOK, CachedIndexIsRecorded, NoIndex
  <2> QED
    BY <1>3, <2>1, <2>2, <2>3
<1>5. CASE RegisterFails(h)
  <2>1. ResolveRegister(h, "failed", NoIndex) /\ faults \subseteq faults'
    BY <1>5 DEF RegisterFails, Fault
  <2>2. ~stream.registered => \A i \in 1..MaxEntries : ~(cache[i].terminal >= 0)
    BY DEF LogDogInv, ArchivalOK, StreamTypeOK, CachedIndexIsRecorded, NoIndex
  <2>3. CASE RegisterTxn(TerminalIndex[bundle])
    BY <1>0, <1>1, <1>3, <2>1, <2>2, <2>3, RegisterTxnFacts
  <2>4. CASE UNCHANGED coordinatorVars
    <3>1. StreamTypeOK' /\ ArchivalOK' /\ ArchivistsOK'
      BY <1>0, <2>4, CollectorFrame DEF LogDogInv, ArchivistsOK
    <3>2. stream' = stream
      BY <2>4 DEF coordinatorVars
    <3> QED
      BY <1>3, <2>1, <2>2, <3>1, <3>2
  <2> QED
    BY <1>5, <2>3, <2>4 DEF RegisterFails
<1> QED
  BY <1>2, <1>4, <1>5

\* The record of an idle thread.
LEMMA IdleHandlerFacts ==
  /\ IdleHandler \in HandlerRecords /\ IdleHandler.pc = "idle" /\ IdleHandler.term = "done"
  /\ IdleHandler.err = "none" /\ IdleHandler.put = "done"
  BY LogDogAssumption DEF IdleHandler, HandlerRecords, HandlerStates, PutStates, TermStates

\* A thread replaces its record by another one that is in order.
LEMMA ThreadUpdate ==
  ASSUME CollectorTypeOK, NEW h \in Handlers, NEW n \in HandlerRecords,
         n.pc # "idle" => n.bundle \in Bundles /\ n.entry # 0,
         n.term # "done" => n.pc = "work" /\ TerminalIndex[n.bundle] >= 0,
         handler' = [handler EXCEPT ![h] = n],
         cache' \in [1..MaxEntries -> CacheEntries], live' = live, acked' \subseteq Bundles
  PROVE  CollectorTypeOK'
  BY DEF CollectorTypeOK

\* A bundle that is received finds the stream's promise, or makes it.
LEMMA ReceiveInv ==
  ASSUME LogDogInv, NEW h \in Handlers, NEW b \in Bundles, Receive(h, b)
  PROVE  LogDogInv'
<1> DEFINE hd == [IdleHandler EXCEPT !.bundle = b, !.entry = live]
           p == cache[live].register
<1>1. /\ hd \in HandlerRecords /\ hd.bundle = b /\ hd.entry = live /\ hd.term = "done"
      /\ live \in 1..MaxEntries /\ live # 0
  <2>1. live \in 1..MaxEntries /\ live # 0 /\ live \in 0..MaxEntries
    BY LogDogAssumption DEF LogDogInv, CollectorTypeOK
  <2> QED
    BY <2>1, IdleHandlerFacts DEF HandlerRecords
<1>2. StreamTypeOK' /\ ArchivalOK' /\ ArchivistsOK'
  BY CollectorFrame DEF Receive, LogDogInv, ArchivistsOK
<1>3. UNCHANGED <<stream, acked, live, faults>>
  BY DEF Receive, coordinatorVars
<1>4. CASE p = "nil"
  <2>1. /\ handler' = [handler EXCEPT ![h] = [hd EXCEPT !.pc = "register"]]
        /\ cache' = [cache EXCEPT ![live].register = "running"]
    BY <1>4 DEF Receive
  <2> HIDE DEF hd
  <2>2. CollectorTypeOK'
    BY <1>1, <1>3, <2>1 DEF LogDogInv, CollectorTypeOK, HandlerRecords, CacheEntries,
       HandlerStates, RegisterStates
  <2>3. CacheOK' /\ CachedIndexIsRecorded'
    BY <1>1, <1>3, <2>1 DEF LogDogInv, CollectorTypeOK, CacheEntries, HandlerRecords,
       CacheOK, CachedIndexIsRecorded, PrefixExpired
  <2> QED
    BY <1>2, <2>2, <2>3 DEF LogDogInv
<1>5. CASE p # "nil"
  <2>1. handler' = [handler EXCEPT ![h] = Registered(hd, p)] /\ cache' = cache
    BY <1>5 DEF Receive
  <2>2. p \in RegisterStates \ {"nil"}
    BY <1>1, <1>5 DEF LogDogInv, CollectorTypeOK, CacheEntries
  <2> HIDE DEF hd, p
  <2> DEFINE n == Registered(hd, p)
  <2>3. /\ n \in HandlerRecords /\ n.pc # "idle" /\ n.bundle = b /\ n.entry = live
        /\ n.term # "done" => n.pc = "work" /\ p = "open" /\ TerminalIndex[b] >= 0
    BY <1>1, <2>2, RegisteredFacts
  <2>4. handler' = [handler EXCEPT ![h] = n]
    BY <2>1
  <2> HIDE DEF n
  <2>5. CollectorTypeOK'
    BY <1>1, <1>3, <2>1, <2>3, <2>4 DEF LogDogInv, CollectorTypeOK
  <2>6. p = "open" => stream.registered
    BY <1>1 DEF p, LogDogInv, CacheOK
  <2>7. CacheOK' /\ CachedIndexIsRecorded'
    BY <1>3, <2>1, <2>3, <2>4, <2>6 DEF LogDogInv, CollectorTypeOK, CacheOK,
       CachedIndexIsRecorded, PrefixExpired
  <2> QED
    BY <1>2, <2>5, <2>7 DEF LogDogInv
<1> QED
  BY <1>4, <1>5

\* Steps of a thread on its own record and, at most, its entry's promises.
LEMMA ThreadInv ==
  ASSUME LogDogInv, NEW h \in Handlers,
         \/ ClearRegister(h) \/ ClearTerminate(h) \/ Finish(h)
         \/ Put(h) \/ PutFails(h) \/ PutRejected(h)
  PROVE  LogDogInv'
<1> USE DEF LogDogInv
<1>1. /\ IdleHandler \in HandlerRecords /\ IdleHandler.pc = "idle" /\ IdleHandler.term = "done"
  BY IdleHandlerFacts
<1>2. storage' \in EntrySets
  <2>1. handler[h].pc = "work" => Entries[handler[h].bundle] \in EntrySets
    BY BundleFacts DEF CollectorTypeOK
  <2> QED
    BY <2>1, EntrySetFacts DEF ClearRegister, Put, PutFails, PutRejected, ClearTerminate, Finish,
       ArchivistsOK
<1>3. StreamTypeOK' /\ ArchivalOK' /\ ArchivistsOK' /\ UNCHANGED <<stream, live>>
      /\ faults \subseteq faults'
  BY <1>2, CollectorFrame DEF ClearRegister, Put, PutFails, PutRejected, ClearTerminate, Finish,
     Fault, coordinatorVars
<1>4. CASE ClearRegister(h)
  <2>1. handler[h].entry \in 1..MaxEntries
    BY <1>4 DEF ClearRegister, CollectorTypeOK, HandlerRecords
  <2>2. CollectorTypeOK'
    BY <1>1, <1>4, <2>1 DEF ClearRegister, CollectorTypeOK, CacheEntries, RegisterStates
  <2>3. CacheOK' /\ CachedIndexIsRecorded'
    BY <1>1, <1>3, <1>4, <2>1 DEF ClearRegister, CollectorTypeOK, CacheEntries, CacheOK,
       CachedIndexIsRecorded, PrefixExpired
  <2> QED
    BY <1>3, <2>2, <2>3
<1>5. CASE Put(h) \/ PutFails(h) \/ PutRejected(h)
  <2>1. PICK err \in {"none", "transient"} :
          handler' = [handler EXCEPT ![h].put = "done", ![h].err = err]
    <3>1. handler[h].err \in {"none", "transient"}
      BY DEF CollectorTypeOK, HandlerRecords
    <3>2. ASSUME handler' = [handler EXCEPT ![h].put = "done"]
          PROVE  handler' = [handler EXCEPT ![h].put = "done", ![h].err = handler[h].err]
      BY <3>2 DEF CollectorTypeOK, HandlerRecords
    <3> QED
      BY <1>5, <3>1, <3>2 DEF Put, PutFails, PutRejected
  <2> DEFINE n == [handler[h] EXCEPT !.put = "done", !.err = err]
  <2>2. /\ n \in HandlerRecords /\ n.pc = handler[h].pc /\ n.bundle = handler[h].bundle
        /\ n.entry = handler[h].entry /\ n.term = handler[h].term
    BY DEF CollectorTypeOK, HandlerRecords, PutStates
  <2>3. handler' = [handler EXCEPT ![h] = n] /\ UNCHANGED <<acked, cache>>
    BY <1>5, <2>1 DEF Put, PutFails, PutRejected, CollectorTypeOK, HandlerRecords
  <2> HIDE DEF n
  <2>4. CollectorTypeOK'
    BY <1>3, <2>2, <2>3, ThreadUpdate DEF CollectorTypeOK
  <2> QED
    BY <1>3, <2>2, <2>3, <2>4 DEF CollectorTypeOK, CacheOK, CachedIndexIsRecorded, PrefixExpired
<1>6. CASE ClearTerminate(h)
  <2>1. handler[h].term = "failed" /\ handler[h].pc = "work"
    BY <1>6 DEF ClearTerminate, CollectorTypeOK
  <2>2. handler[h].entry \in 1..MaxEntries /\ handler[h].bundle \in Bundles
    BY <2>1, LogDogAssumption DEF CollectorTypeOK, HandlerRecords
  <2> DEFINE n == [handler[h] EXCEPT !.term = "done", !.err = "transient"]
  <2>3. /\ n \in HandlerRecords /\ n.pc = handler[h].pc /\ n.bundle = handler[h].bundle
        /\ n.entry = handler[h].entry /\ n.term = "done"
    BY DEF CollectorTypeOK, HandlerRecords, TermStates
  <2>4. handler' = [handler EXCEPT ![h] = n]
    BY <1>6 DEF ClearTerminate, CollectorTypeOK, HandlerRecords
  <2>5. /\ cache' \in [1..MaxEntries -> CacheEntries]
        /\ \A i \in 1..MaxEntries : /\ cache'[i].register = cache[i].register
                                    /\ cache'[i].terminal = cache[i].terminal
    BY <1>6, <2>2 DEF ClearTerminate, CollectorTypeOK, CacheEntries, TerminateStates
  <2> HIDE DEF n
  <2>6. CollectorTypeOK'
    BY <1>3, <1>6, <2>2, <2>3, <2>4, <2>5, ThreadUpdate DEF CollectorTypeOK, ClearTerminate
  <2> QED
    BY <1>3, <2>3, <2>4, <2>5, <2>6 DEF CollectorTypeOK, CacheOK, CachedIndexIsRecorded,
       PrefixExpired
<1>7. CASE Finish(h)
  <2>1. CollectorTypeOK'
    BY <1>1, <1>7 DEF Finish, CollectorTypeOK
  <2> QED
    BY <1>1, <1>3, <1>7, <2>1 DEF Finish, CollectorTypeOK, CacheOK, CachedIndexIsRecorded,
       PrefixExpired
<1> QED
  BY <1>4, <1>5, <1>6, <1>7

\* terminateStream, up to the RPC.
LEMMA TerminateInv ==
  ASSUME LogDogInv, NEW h \in Handlers, Terminate(h)
  PROVE  LogDogInv'
<1> USE DEF LogDogInv
<1> DEFINE hd == [handler[h] EXCEPT !.entry = live]
           e == cache[live]
<1>1. /\ handler[h].pc = "work" /\ handler[h].term = "todo" /\ handler[h].bundle \in Bundles
      /\ TerminalIndex[handler[h].bundle] >= 0 /\ stream.registered
      /\ live \in 1..MaxEntries /\ live # 0 /\ live \in 0..MaxEntries
  BY LogDogAssumption DEF Terminate, CollectorTypeOK, CacheOK
<1>2. /\ hd \in HandlerRecords /\ hd.pc = "work" /\ hd.term = "todo" /\ hd.entry = live
      /\ hd.bundle = handler[h].bundle
  BY <1>1 DEF CollectorTypeOK, HandlerRecords
<1>3. StreamTypeOK' /\ ArchivalOK' /\ ArchivistsOK' /\ UNCHANGED <<stream, live, faults, acked>>
  BY CollectorFrame DEF Terminate, coordinatorVars, ArchivistsOK
<1>4. e.terminal \in Int /\ e.terminate \in TerminateStates
  BY <1>1 DEF CollectorTypeOK, CacheEntries
<1>5. ASSUME NEW n \in HandlerRecords, handler' = [handler EXCEPT ![h] = n],
             n.pc = "work", n.bundle = handler[h].bundle, n.entry = live,
             cache' \in [1..MaxEntries -> CacheEntries],
             \A i \in 1..MaxEntries : /\ cache'[i].register = cache[i].register
                                      /\ cache'[i].terminal = cache[i].terminal
      PROVE  LogDogInv'
  <2>1. CollectorTypeOK'
    BY <1>1, <1>3, <1>5, ThreadUpdate DEF CollectorTypeOK
  <2> QED
    BY <1>1, <1>3, <1>5, <2>1 DEF CollectorTypeOK, CacheOK, CachedIndexIsRecorded, PrefixExpired
<1>6. CASE e.terminal >= 0
  <2> DEFINE n == AfterTerminate(hd, "ok")
  <2>1. handler' = [handler EXCEPT ![h] = n] /\ cache' = cache
    BY <1>4, <1>6 DEF Terminate
  <2> HIDE DEF hd
  <2>2. n \in HandlerRecords /\ n.pc = "work" /\ n.bundle = hd.bundle /\ n.entry = live
    BY <1>2, AfterTerminateFacts DEF TerminateStates
  <2> HIDE DEF n
  <2> QED
    BY <1>2, <1>5, <2>1, <2>2 DEF CollectorTypeOK
<1>7. CASE e.terminal < 0 /\ e.terminate = "nil" /\ ~(e.terminal >= 0)
  <2>1. /\ handler' = [handler EXCEPT ![h] = [hd EXCEPT !.term = "run"]]
        /\ cache' = [cache EXCEPT ![live].terminate = "running"]
    BY <1>7 DEF Terminate
  <2> HIDE DEF hd
  <2>2. /\ [hd EXCEPT !.term = "run"] \in HandlerRecords
        /\ [hd EXCEPT !.term = "run"].pc = "work"
        /\ [hd EXCEPT !.term = "run"].bundle = hd.bundle
        /\ [hd EXCEPT !.term = "run"].entry = live
    BY <1>2 DEF HandlerRecords, TermStates
  <2>3. /\ cache' \in [1..MaxEntries -> CacheEntries]
        /\ \A i \in 1..MaxEntries : /\ cache'[i].register = cache[i].register
                                    /\ cache'[i].terminal = cache[i].terminal
    BY <1>1, <2>1 DEF CollectorTypeOK, CacheEntries, TerminateStates
  <2> QED
    BY <1>2, <1>5, <2>1, <2>2, <2>3
<1>8. CASE ~(e.terminal >= 0) /\ ~(e.terminal < 0 /\ e.terminate = "nil")
  <2> DEFINE n == AfterTerminate(hd, e.terminate)
  <2>1. handler' = [handler EXCEPT ![h] = n] /\ cache' = cache
    BY <1>8 DEF Terminate
  <2>2. e.terminate \in TerminateStates \ {"nil"}
    BY <1>4, <1>8
  <2> HIDE DEF hd, e
  <2>3. n \in HandlerRecords /\ n.pc = "work" /\ n.bundle = hd.bundle /\ n.entry = live
    BY <1>2, <2>2, AfterTerminateFacts
  <2> HIDE DEF n
  <2> QED
    BY <1>2, <1>5, <2>1, <2>3 DEF CollectorTypeOK
<1> QED
  BY <1>6, <1>7, <1>8

\* Resolving a termination promise: what becomes of the threads and the cache.
LEMMA ResolveTerminateFacts ==
  ASSUME LogDogInv, NEW h \in Handlers, handler[h].term = "run",
         NEW result \in TerminateStates \ {"nil"}, NEW index \in Int,
         ResolveTerminate(h, result, index), UNCHANGED <<acked, live>>
  PROVE  /\ CollectorTypeOK'
         /\ \A i \in 1..MaxEntries :
              /\ cache'[i].register = cache[i].register
              /\ cache'[i].terminal # cache[i].terminal =>
                   cache[i].terminal < 0 /\ cache'[i].terminal = index
         /\ \A g \in Handlers :
              \/ handler'[g] = handler[g]
              \/ /\ handler[g].term \in {"run", "await"}
                 /\ handler'[g] = AfterTerminate(handler[g], result)
<1> USE DEF LogDogInv
<1> DEFINE i == handler[h].entry
           e == LoadTerminal([cache[i] EXCEPT !.terminate = result], index)
<1>1. i \in 1..MaxEntries
  BY LogDogAssumption DEF CollectorTypeOK, HandlerRecords
<1>2. cache' = [cache EXCEPT ![i] = e]
  BY <1>1 DEF ResolveTerminate, CollectorTypeOK
<1>3. /\ e \in CacheEntries /\ e.register = cache[i].register
      /\ e.terminal = IF cache[i].terminal < 0 THEN index ELSE cache[i].terminal
  BY <1>1 DEF LoadTerminal, CacheEntries, CollectorTypeOK
<1> HIDE DEF e
<1>4. /\ cache' \in [1..MaxEntries -> CacheEntries]
      /\ \A k \in 1..MaxEntries :
              /\ cache'[k].register = cache[k].register
              /\ cache'[k].terminal # cache[k].terminal =>
                   cache[k].terminal < 0 /\ cache'[k].terminal = index
  BY <1>1, <1>2, <1>3 DEF CollectorTypeOK
<1>5. handler' = [g \in Handlers |->
              IF g = h \/ (handler[g].term = "await" /\ handler[g].entry = i)
              THEN AfterTerminate(handler[g], result) ELSE handler[g]]
  BY DEF ResolveTerminate
<1>6. ASSUME NEW g \in Handlers
      PROVE  /\ handler'[g] \in HandlerRecords
             /\ \/ handler'[g] = handler[g]
                \/ /\ handler[g].term \in {"run", "await"}
                   /\ handler'[g] = AfterTerminate(handler[g], result)
             /\ handler'[g].pc # "idle" => handler'[g].bundle \in Bundles /\ handler'[g].entry # 0
             /\ handler'[g].term # "done" =>
                  handler'[g].pc = "work" /\ TerminalIndex[handler'[g].bundle] >= 0
  <2>1. CASE g = h \/ (handler[g].term = "await" /\ handler[g].entry = i)
    <3>1. /\ handler[g] \in HandlerRecords /\ handler[g].bundle \in Bundles
          /\ handler[g].pc = "work" /\ TerminalIndex[handler[g].bundle] >= 0
          /\ handler[g].entry # 0 /\ handler[g].term \in {"run", "await"}
      BY <2>1 DEF CollectorTypeOK
    <3>2. handler'[g] = AfterTerminate(handler[g], result)
      BY <1>5, <2>1
    <3> QED
      BY <3>1, <3>2, AfterTerminateFacts
  <2>2. CASE ~(g = h \/ (handler[g].term = "await" /\ handler[g].entry = i))
    BY <1>5, <2>2 DEF CollectorTypeOK
  <2> QED
    BY <2>1, <2>2
<1>7. CollectorTypeOK'
  BY <1>4, <1>5, <1>6 DEF CollectorTypeOK
<1> QED
  BY <1>4, <1>6, <1>7

\* TerminateStream's transaction: it is run on an open stream that is registered,
\* whose terminal index no cache entry knows.
LEMMA TerminateTxnFacts ==
  ASSUME LogDogInv, NEW index \in Int, ~Terminated(stream), stream.registered,
         TerminateTxn(index), UNCHANGED <<archivistVars, storage>>
  PROVE  /\ StreamTypeOK' /\ ArchivalOK' /\ ArchivistsOK'
         /\ stream'.registered /\ stream'.terminal = index
         /\ ~stream.archived /\ ~stream'.archived
         /\ \A i \in 1..MaxEntries : ~(cache[i].terminal >= 0)
<1> USE DEF LogDogInv, archivistVars
<1>1. /\ stream' = [stream EXCEPT !.terminal = index]
      /\ rolling' = 0 /\ mutation' # "none"
  BY DEF TerminateTxn
<1>2. /\ StreamTypeOK' /\ stream'.registered /\ stream'.terminal = index
      /\ stream'.archived = stream.archived /\ stream'.key = stream.key
  BY <1>1 DEF StreamTypeOK
<1>3. ~stream.archived /\ ~(stream.terminal >= 0)
  BY DEF Terminated
<1>4. ArchivalOK' /\ ArchivistsOK'
  BY <1>1, <1>2, <1>3 DEF ArchivalOK, ArchivistsOK
<1>5. \A i \in 1..MaxEntries : ~(cache[i].terminal >= 0)
  BY <1>3 DEF CachedIndexIsRecorded
<1> QED
  BY <1>2, <1>3, <1>4, <1>5

\* The termination RPC, whatever its outcome.
LEMMA TerminateStreamInv ==
  ASSUME LogDogInv, NEW h \in Handlers, TerminateStream(h) \/ TerminateFails(h)
  PROVE  LogDogInv'
<1> DEFINE index == TerminalIndex[handler[h].bundle]
<1>1. /\ handler[h].term = "run" /\ UNCHANGED <<archivistVars, acked, live, storage>>
      /\ faults \subseteq faults'
  BY DEF TerminateStream, TerminateFails, Fault
<1>2. index \in Int /\ NoIndex \in Int /\ ~(NoIndex >= 0)
  BY <1>1, LogDogAssumption DEF LogDogInv, CollectorTypeOK, NoIndex
<1>3. stream.registered
  BY <1>1 DEF LogDogInv, CacheOK
<1> HIDE DEF index
<1>4. ASSUME NEW result \in {"ok", "rejected", "failed"}, NEW i \in Int,
             ResolveTerminate(h, result, i),
             StreamTypeOK', ArchivalOK', ArchivistsOK', stream'.registered,
             i >= 0 => stream'.terminal = i,
             \/ stream' = stream
             \/ ~stream.archived /\ \A k \in 1..MaxEntries : ~(cache[k].terminal >= 0)
      PROVE  LogDogInv'
  <2>1. result \in TerminateStates \ {"nil"}
    BY DEF TerminateStates
  <2>2. /\ CollectorTypeOK'
        /\ \A k \in 1..MaxEntries :
              /\ cache'[k].register = cache[k].register
              /\ cache'[k].terminal # cache[k].terminal =>
                   cache[k].terminal < 0 /\ cache'[k].terminal = i
    BY <1>1, <1>4, <2>1, ResolveTerminateFacts
  <2>3. CacheOK'
    BY <1>1, <1>4, <2>2 DEF LogDogInv, CacheOK, PrefixExpired
  <2>4. CachedIndexIsRecorded'
    BY <1>4, <2>2 DEF LogDogInv, CachedIndexIsRecorded
  <2> QED
    BY <1>4, <2>2, <2>3, <2>4 DEF LogDogInv
<1>5. UNCHANGED coordinatorVars =>
        StreamTypeOK' /\ ArchivalOK' /\ ArchivistsOK' /\ stream' = stream
  BY <1>1, CollectorFrame DEF LogDogInv, ArchivistsOK, coordinatorVars
<1>6. ASSUME ~Terminated(stream), TerminateTxn(index),
             ResolveTerminate(h, "ok", index) \/ ResolveTerminate(h, "failed", NoIndex)
      PROVE  LogDogInv'
  <2>1. /\ StreamTypeOK' /\ ArchivalOK' /\ ArchivistsOK'
        /\ stream'.registered /\ stream'.terminal = index
        /\ ~stream.archived /\ ~stream'.archived
        /\ \A i \in 1..MaxEntries : ~(cache[i].terminal >= 0)
    BY <1>1, <1>2, <1>3, <1>6, TerminateTxnFacts
  <2> QED
    BY <1>2, <1>4, <1>6, <2>1
<1>7. ASSUME UNCHANGED coordinatorVars,
             \/ stream.terminal = index /\ ResolveTerminate(h, "ok", index)
             \/ ResolveTerminate(h, "rejected", NoIndex)
             \/ ResolveTerminate(h, "failed", NoIndex)
      PROVE  LogDogInv'
  BY <1>2, <1>3, <1>4, <1>5, <1>7
<1>8. CASE TerminateStream(h)
  BY <1>6, <1>7, <1>8 DEF TerminateStream, index
<1>9. CASE TerminateFails(h)
  BY <1>6, <1>7, <1>9 DEF TerminateFails, index
<1> QED
  BY <1>8, <1>9

\* What happens to the collector, the prefix, superfluous tasks and the time.
LEMMA EnvironmentInv ==
  ASSUME LogDogInv,
         \/ ExpireEntry \/ CollectorCrash \/ PrefixExpires \/ StageBreaks \/ Tick
         \/ \E t \in tasks : DiscardTask(t)
  PROVE  LogDogInv'
<1> USE DEF LogDogInv
<1>1. CASE ExpireEntry
  <2>1. StreamTypeOK' /\ ArchivalOK' /\ ArchivistsOK'
    BY <1>1, CollectorFrame DEF ExpireEntry, ArchivistsOK
  <2>2. live' \in 1..MaxEntries
    BY <1>1, LogDogAssumption DEF ExpireEntry, CollectorTypeOK
  <2> QED
    BY <1>1, <2>1, <2>2 DEF ExpireEntry, Fault, coordinatorVars, CollectorTypeOK, CacheOK,
       CachedIndexIsRecorded, PrefixExpired
<1>2. CASE CollectorCrash
  <2>1. StreamTypeOK' /\ ArchivalOK' /\ ArchivistsOK'
    BY <1>2, CollectorFrame DEF CollectorCrash, ArchivistsOK
  <2>2. NewEntry \in CacheEntries /\ NewEntry.register = "nil" /\ ~(NewEntry.terminal >= 0)
    BY DEF NewEntry, CacheEntries, NoIndex, RegisterStates, TerminateStates
  <2>3. live' \in 1..MaxEntries
    BY <1>2, LogDogAssumption DEF CollectorCrash
  <2>4. CollectorTypeOK'
    BY <1>2, <2>2, <2>3, IdleHandlerFacts DEF CollectorCrash, CollectorTypeOK
  <2> QED
    BY <1>2, <2>1, <2>2, <2>4, IdleHandlerFacts DEF CollectorCrash, CacheOK,
       CachedIndexIsRecorded
<1>3. CASE PrefixExpires \/ StageBreaks
  <2>1. StreamTypeOK' /\ ArchivalOK' /\ ArchivistsOK'
    BY <1>3, CollectorFrame DEF PrefixExpires, StageBreaks, ArchivistsOK, collectorVars
  <2> QED
    BY <1>3, <2>1 DEF PrefixExpires, StageBreaks, Fault, coordinatorVars, collectorVars, CollectorTypeOK,
       CacheOK, CachedIndexIsRecorded, PrefixExpired
<1>4. CASE Tick
  BY <1>4 DEF Tick, collectorVars, archivistVars, CollectorTypeOK, StreamTypeOK, ArchivalOK,
     ArchivistsOK, CacheOK, CachedIndexIsRecorded, PrefixExpired
<1>5. ASSUME NEW t \in tasks, DiscardTask(t) PROVE LogDogInv'
  <2>1. tasks' = tasks \ {t} /\ (stream.archived \/ (stream.key # 0 /\ t.key # stream.key))
    BY <1>5 DEF DiscardTask
  <2>2. ArchivalOK'
    BY <1>5, <2>1 DEF DiscardTask, ArchivalOK, coordinatorVars
  <2> QED
    BY <1>5, <2>2 DEF DiscardTask, coordinatorVars, collectorVars, CollectorTypeOK,
       StreamTypeOK, ArchivistsOK, CacheOK, CachedIndexIsRecorded, PrefixExpired
<1> QED
  BY <1>1, <1>2, <1>3, <1>4, <1>5

\* Every step of the stream's parts preserves the invariant.
LEMMA NextInv ==
  ASSUME LogDogInv, [Next]_vars
  PROVE  LogDogInv'
<1>1. CASE UNCHANGED vars
  BY <1>1 DEF vars, LogDogInv, CollectorTypeOK, StreamTypeOK, ArchivalOK, ArchivistsOK,
     CacheOK, CachedIndexIsRecorded, PrefixExpired
<1>2. ASSUME NEW h \in Handlers, HandlerStep(h) PROVE LogDogInv'
  BY <1>2, ReceiveInv, RegisterInv, ThreadInv, TerminateInv, TerminateStreamInv
     DEF HandlerStep
<1>3. ASSUME NEW a \in Archivists, ArchivistStep(a) PROVE LogDogInv'
  BY <1>3, ArchivistInv
<1>4. CASE CoordinatorStep
  BY <1>4, RollForwardInv DEF CoordinatorStep
<1>5. CASE Environment
  BY <1>5, RollForwardInv, RegisterInv, ThreadInv, TerminateStreamInv, ArchivistInv,
     EnvironmentInv DEF Environment
<1>6. CASE Tick \/ \E t \in tasks : DiscardTask(t)
  BY <1>6, EnvironmentInv
<1> QED
  BY <1>1, <1>2, <1>3, <1>4, <1>5, <1>6 DEF Next

-----------------------------------------------------------------------------
(* What only grows.                                                        *)

\* Entries stay in storage, bundles stay refused, the record of an archived stream
\* stays as it is, and a fault that happened has happened.
LEMMA Monotone ==
  ASSUME LogDogInv, [Next]_vars
  PROVE  /\ storage \subseteq storage' /\ refused \subseteq refused' /\ faults \subseteq faults'
         /\ stream.archived => stream' = stream
<1> USE DEF collectorVars, coordinatorVars, archivistVars
<1>1. CASE UNCHANGED vars
  BY <1>1 DEF vars
<1>2. ASSUME NEW h \in Handlers,
             HandlerStep(h) \/ RegisterFails(h) \/ PutFails(h) \/ TerminateFails(h)
      PROVE  /\ storage \subseteq storage' /\ refused \subseteq refused' /\ faults \subseteq faults'
             /\ stream.archived => stream' = stream
  <2>1. stream.archived => stream.registered /\ Terminated(stream)
    BY DEF LogDogInv, ArchivalOK, Terminated
  <2> QED
    BY <1>2, <2>1 DEF HandlerStep, Receive, RegisterStream, RegisterRejected, ClearRegister,
       Put, PutRejected, Terminate, TerminateStream, ClearTerminate, Finish, RegisterFails,
       PutFails, TerminateFails, RegisterTxn, Fault
<1>3. ASSUME NEW a \in Archivists, ArchivistStep(a) \/ ArchivistFails(a)
      PROVE  /\ storage \subseteq storage' /\ refused \subseteq refused' /\ faults \subseteq faults'
             /\ stream.archived => stream' = stream
  <2>1. stream.archived => ArchivalState(stream) # "ArchiveTasked"
    BY ArchivalStateFacts DEF LogDogInv
  <2> QED
    BY <1>3, <2>1 DEF ArchivistStep, BeginTask, Stage, ArchiveStream, Consume, StageError,
       ArchivistFails, Delivered, Fault
<1>4. CASE CoordinatorStep \/ AbortRollForward
  <2>1. stream.archived => rolling = 0
    BY DEF LogDogInv, ArchivalOK
  <2> QED
    BY <1>4, <2>1 DEF CoordinatorStep, RollForward, CommitRollForward, AbortRollForward, Fault
<1>5. CASE \/ ExpireEntry \/ CollectorCrash \/ PrefixExpires \/ StageBreaks \/ Tick
           \/ \E t \in tasks : DiscardTask(t)
  BY <1>5 DEF ExpireEntry, CollectorCrash, PrefixExpires, StageBreaks, Tick, DiscardTask, Fault
<1> QED
  BY <1>1, <1>2, <1>3, <1>4, <1>5 DEF Next, Environment

-----------------------------------------------------------------------------
(* The entries of an acknowledged bundle.                                  *)

\* What the acknowledgement of a bundle promises.
Kept(b) == Entries[b] \subseteq storage \/ b \in refused \/ stream.archived \/ PrefixExpired

\* A thread still has its entries to put, or has put them or need not, unless it
\* met an error and will not acknowledge.
ThreadKeeps(hd) ==
    /\ hd.pc # "work" => hd.put = "done"
    /\ hd.pc = "work" /\ hd.err # "transient" => hd.put = "todo" \/ Kept(hd.bundle)

KeptInv == AckedIsStored /\ \A h \in Handlers : ThreadKeeps(handler[h])

\* What was kept stays kept.
LEMMA KeptGrows ==
  ASSUME LogDogInv, [Next]_vars
  PROVE  /\ \A b \in Bundles : Kept(b) => Kept(b)'
         /\ \A h \in Handlers :
              handler'[h] = handler[h] /\ ThreadKeeps(handler[h]) => ThreadKeeps(handler[h])'
<1>1. ASSUME NEW b PROVE Kept(b) => Kept(b)'
  BY Monotone DEF Kept, PrefixExpired
<1>2. ASSUME NEW h \in Handlers, handler'[h] = handler[h], ThreadKeeps(handler[h])
      PROVE  ThreadKeeps(handler[h])'
  BY <1>1, <1>2 DEF ThreadKeeps
<1> QED
  BY <1>1, <1>2

\* A thread that learns what became of the registration has its entries to put,
\* or nothing to keep.
LEMMA RegisteredKeeps ==
  ASSUME LogDogInv', NEW hd \in HandlerRecords, hd.bundle \in Bundles, hd.term = "done",
         hd.put = "done", NEW result \in RegisterStates \ {"nil"},
         result = "archived" => stream'.archived,
         result = "rejected" => PrefixExpired',
         NEW h \in Handlers, handler'[h] = Registered(hd, result)
  PROVE  ThreadKeeps(handler[h])'
<1> DEFINE n == Registered(hd, result)
<1>1. /\ n.bundle = hd.bundle
      /\ n.pc # "work" => n.put = hd.put
      /\ n.pc = "work" /\ Entries[hd.bundle] # {} =>
           n.put = "todo" \/ result \in {"archived", "rejected"}
  BY RegisteredFacts
<1>2. handler'[h] = n
  OBVIOUS
<1> HIDE DEF n
<1> QED
  BY <1>1, <1>2 DEF ThreadKeeps, Kept

\* The steps that put the entries.
LEMMA PutKeeps ==
  ASSUME LogDogInv, NEW h \in Handlers, Put(h) \/ PutFails(h) \/ PutRejected(h)
  PROVE  ThreadKeeps(handler[h])'
<1> DEFINE hd == handler[h]
<1>1. hd \in HandlerRecords /\ hd.pc = "work"
  BY DEF Put, PutFails, PutRejected, LogDogInv, CollectorTypeOK
<1>2. CASE PutFails(h)
  <2>1. handler'[h].err = "transient" /\ handler'[h].pc = "work"
    BY <1>1, <1>2 DEF PutFails, LogDogInv, CollectorTypeOK, HandlerRecords
  <2> QED
    BY <2>1 DEF ThreadKeeps
<1>3. CASE Put(h) \/ PutRejected(h)
  <2>1. handler'[h].bundle = hd.bundle /\ handler'[h].pc = "work"
    BY <1>1, <1>3 DEF Put, PutRejected, LogDogInv, CollectorTypeOK, HandlerRecords
  <2>2. Entries[hd.bundle] \subseteq storage' \/ hd.bundle \in refused'
    BY <1>3 DEF Put, PutRejected
  <2> QED
    BY <2>1, <2>2 DEF ThreadKeeps, Kept
<1> QED
  BY <1>2, <1>3

\* A bundle that is acknowledged is kept.
LEMMA FinishKeeps ==
  ASSUME KeptInv, NEW h \in Handlers, Finish(h)
  PROVE  AckedIsStored'
<1> DEFINE b == handler[h].bundle
<1>1. /\ UNCHANGED <<storage, refused, stream, faults>>
      /\ acked' = IF handler[h].err = "transient" THEN acked ELSE acked \cup {b}
      /\ handler[h].pc = "work" /\ handler[h].put = "done"
  BY DEF Finish, coordinatorVars
<1>2. handler[h].err # "transient" => Kept(b)
  BY <1>1 DEF KeptInv, ThreadKeeps
<1> QED
  BY <1>1, <1>2 DEF KeptInv, AckedIsStored, Kept, PrefixExpired

\* A thread that goes on with the same work.
LEMMA SameWorkKeeps ==
  ASSUME LogDogInv, KeptInv, [Next]_vars, NEW g \in Handlers,
         handler'[g].pc = handler[g].pc, handler'[g].bundle = handler[g].bundle,
         handler'[g].put = handler[g].put,
         handler'[g].err \in {handler[g].err, "transient"}
  PROVE  ThreadKeeps(handler[g])'
<1>1. handler[g].pc = "work" => handler[g].bundle \in Bundles
  BY DEF LogDogInv, CollectorTypeOK
<1>2. handler[g].bundle \in Bundles /\ Kept(handler[g].bundle) => Kept(handler[g].bundle)'
  <2>1. handler'[g].bundle = handler[g].bundle
    OBVIOUS
  <2>2. Kept(handler[g].bundle) => \/ Entries[handler[g].bundle] \subseteq storage'
                                   \/ handler[g].bundle \in refused'
                                   \/ stream'.archived \/ PrefixExpired'
    BY Monotone DEF Kept, PrefixExpired
  <2> QED
    BY <2>1, <2>2 DEF Kept
<1> QED
  BY <1>1, <1>2 DEF KeptInv, ThreadKeeps

\* An idle thread has nothing to keep.
LEMMA IdleKeeps ==
  ASSUME NEW g \in Handlers, handler'[g] = IdleHandler
  PROVE  ThreadKeeps(handler[g])'
  BY IdleHandlerFacts DEF ThreadKeeps

\* Every thread's obligation survives the steps that resolve a registration.
LEMMA RegisterKeeps ==
  ASSUME LogDogInv, KeptInv, [Next]_vars, LogDogInv', NEW h \in Handlers,
         RegisterStream(h) \/ RegisterRejected(h) \/ RegisterFails(h)
  PROVE  \A g \in Handlers : ThreadKeeps(handler[g])'
<1>1. PICK result \in RegisterStates \ {"nil"}, index \in Int :
        /\ ResolveRegister(h, result, index)
        /\ result = "archived" => stream'.archived
        /\ result = "rejected" => PrefixExpired'
  <2>1. CASE RegisterStream(h)
    <3> DEFINE result == IF stream'.archived THEN "archived" ELSE "open"
               index == IF Terminated(stream') THEN stream'.terminal ELSE NoIndex
    <3>1. ResolveRegister(h, result, index)
      BY <2>1 DEF RegisterStream
    <3>2. result \in RegisterStates \ {"nil"} /\ index \in Int
      BY DEF RegisterStates, LogDogInv, StreamTypeOK, NoIndex
    <3> QED
      BY <3>1, <3>2
  <2>2. CASE RegisterRejected(h)
    BY <2>2 DEF RegisterRejected, RegisterStates, NoIndex, PrefixExpired
  <2>3. CASE RegisterFails(h)
    BY <2>3 DEF RegisterFails, RegisterStates, NoIndex
  <2> QED
    BY <2>1, <2>2, <2>3
<1>2. handler[h].pc = "register" /\ UNCHANGED <<acked, live>>
  BY DEF RegisterStream, RegisterRejected, RegisterFails
<1>3. \A g \in Handlers :
              \/ handler'[g] = handler[g]
              \/ /\ handler[g].pc \in {"register", "await"}
                 /\ handler'[g] = Registered(handler[g], result)
  BY <1>1, <1>2, ResolveRegisterFacts
<1> TAKE g \in Handlers
<1>4. CASE handler'[g] = handler[g]
  BY <1>4, KeptGrows DEF KeptInv
<1>5. CASE /\ handler[g].pc \in {"register", "await"}
           /\ handler'[g] = Registered(handler[g], result)
  <2>1. /\ handler[g] \in HandlerRecords /\ handler[g].bundle \in Bundles
        /\ handler[g].term = "done" /\ handler[g].put = "done"
    BY <1>5 DEF LogDogInv, CollectorTypeOK, KeptInv, ThreadKeeps
  <2> QED
    BY <1>1, <1>5, <2>1, RegisteredKeeps
<1> QED
  BY <1>3, <1>4, <1>5

\* And those of the termination.
LEMMA TerminateKeeps ==
  ASSUME LogDogInv, KeptInv, [Next]_vars, NEW h \in Handlers,
         Terminate(h) \/ TerminateStream(h) \/ TerminateFails(h) \/ ClearTerminate(h)
  PROVE  \A g \in Handlers : ThreadKeeps(handler[g])'
<1> SUFFICES ASSUME NEW g \in Handlers
             PROVE  /\ handler'[g].pc = handler[g].pc /\ handler'[g].bundle = handler[g].bundle
                    /\ handler'[g].put = handler[g].put
                    /\ handler'[g].err \in {handler[g].err, "transient"}
  BY SameWorkKeeps
<1>1. handler[g] \in HandlerRecords /\ handler[h] \in HandlerRecords
  BY DEF LogDogInv, CollectorTypeOK
<1>2. CASE ClearTerminate(h)
  BY <1>1, <1>2 DEF ClearTerminate, LogDogInv, CollectorTypeOK, HandlerRecords
<1>3. CASE TerminateStream(h) \/ TerminateFails(h)
  <2>1. PICK result \in TerminateStates \ {"nil"}, index \in Int : ResolveTerminate(h, result, index)
    <3>1. NoIndex \in Int /\ {"ok", "rejected", "failed"} \subseteq TerminateStates \ {"nil"}
      BY DEF NoIndex, TerminateStates
    <3>2. handler[h].term = "run" => TerminalIndex[handler[h].bundle] \in Int
      BY LogDogAssumption DEF LogDogInv, CollectorTypeOK, NoIndex
    <3> QED
      BY <1>3, <3>1, <3>2 DEF TerminateStream, TerminateFails
  <2>2. handler[h].term = "run" /\ UNCHANGED <<acked, live>>
    BY <1>3 DEF TerminateStream, TerminateFails
  <2>3. \/ handler'[g] = handler[g]
        \/ /\ handler[g].term \in {"run", "await"}
           /\ handler'[g] = AfterTerminate(handler[g], result)
    BY <2>1, <2>2, ResolveTerminateFacts
  <2> QED
    BY <1>1, <2>1, <2>3, AfterTerminateFacts
<1>4. CASE Terminate(h)
  <2> DEFINE hd == [handler[h] EXCEPT !.entry = live]
  <2>1. /\ cache[live].terminal \in Int /\ cache[live].terminate \in TerminateStates
        /\ live \in 0..MaxEntries
    BY DEF LogDogInv, CollectorTypeOK, CacheEntries
  <2>2. /\ hd \in HandlerRecords /\ hd.pc = handler[h].pc /\ hd.bundle = handler[h].bundle
        /\ hd.put = handler[h].put /\ hd.err = handler[h].err
    BY <1>1, <2>1 DEF HandlerRecords
  <2>3. PICK n : /\ handler' = [handler EXCEPT ![h] = n]
                 /\ \/ n = [hd EXCEPT !.term = "run"]
                    \/ \E result \in TerminateStates \ {"nil"} : n = AfterTerminate(hd, result)
    <3>1. "ok" \in TerminateStates \ {"nil"}
      BY DEF TerminateStates
    <3>2. CASE cache[live].terminal >= 0
      <4>1. handler' = [handler EXCEPT ![h] = AfterTerminate(hd, "ok")]
        BY <1>4, <2>1, <3>2 DEF Terminate
      <4> QED
        BY <3>1, <4>1
    <3>3. CASE cache[live].terminal < 0 /\ cache[live].terminate = "nil"
      <4>1. handler' = [handler EXCEPT ![h] = [hd EXCEPT !.term = "run"]]
        BY <1>4, <2>1, <3>3 DEF Terminate
      <4> QED
        BY <4>1
    <3>4. CASE cache[live].terminal < 0 /\ cache[live].terminate # "nil"
      <4>1. handler' = [handler EXCEPT ![h] = AfterTerminate(hd, cache[live].terminate)]
        BY <1>4, <2>1, <3>4 DEF Terminate
      <4> QED
        BY <2>1, <3>4, <4>1
    <3> QED
      BY <2>1, <3>2, <3>3, <3>4
  <2> HIDE DEF hd
  <2>4. /\ n.pc = hd.pc /\ n.put = hd.put /\ n.bundle = hd.bundle /\ n.err = hd.err
    BY <2>2, <2>3, AfterTerminateFacts DEF HandlerRecords
  <2> QED
    BY <2>2, <2>3, <2>4 DEF LogDogInv, CollectorTypeOK
<1> QED
  BY <1>2, <1>3, <1>4

\* Every step keeps the promise of the acknowledged bundles.
LEMMA NextKeeps ==
  ASSUME LogDogInv, KeptInv, [Next]_vars
  PROVE  KeptInv'
<1>1. LogDogInv'
  BY NextInv
<1>2. ASSUME acked' = acked PROVE AckedIsStored'
  BY <1>2, KeptGrows DEF KeptInv, AckedIsStored, Kept, LogDogInv, CollectorTypeOK
<1>3. ASSUME UNCHANGED <<handler, acked>> PROVE KeptInv'
  BY <1>2, <1>3, KeptGrows DEF KeptInv
<1>4. ASSUME NEW h \in Handlers, NEW b \in Bundles, Receive(h, b) PROVE KeptInv'
  <2> DEFINE hd == [IdleHandler EXCEPT !.bundle = b, !.entry = live]
             p == cache[live].register
  <2>1. acked' = acked /\ stream' = stream /\ faults' = faults
    BY <1>4 DEF Receive, coordinatorVars
  <2>2. /\ hd \in HandlerRecords /\ hd.bundle = b /\ hd.term = "done" /\ hd.put = "done"
        /\ live \in 1..MaxEntries
    <3>1. live \in 1..MaxEntries /\ live \in 0..MaxEntries
      BY LogDogAssumption DEF LogDogInv, CollectorTypeOK
    <3> QED
      BY <3>1, IdleHandlerFacts DEF HandlerRecords
  <2>3. p \in RegisterStates
    BY <2>2 DEF LogDogInv, CollectorTypeOK, CacheEntries
  <2>4. (p = "archived" => stream'.archived) /\ (p = "rejected" => PrefixExpired')
    BY <2>1, <2>2 DEF LogDogInv, CacheOK, PrefixExpired
  <2>5. ThreadKeeps(handler[h])'
    <3>1. CASE p = "nil"
      <4>1. handler'[h] = [hd EXCEPT !.pc = "register"]
        BY <1>4, <3>1 DEF Receive, LogDogInv, CollectorTypeOK
      <4> HIDE DEF hd
      <4>2. handler'[h].pc = "register" /\ handler'[h].put = "done"
        BY <2>2, <4>1 DEF HandlerRecords
      <4> QED
        BY <4>2 DEF ThreadKeeps
    <3>2. CASE p # "nil"
      <4>1. handler'[h] = Registered(hd, p)
        BY <1>4, <3>2 DEF Receive, LogDogInv, CollectorTypeOK
      <4> HIDE DEF hd, p
      <4> QED
        BY <1>1, <1>4, <2>2, <2>3, <2>4, <3>2, <4>1, RegisteredKeeps
    <3> QED
      BY <3>1, <3>2
  <2>6. \A g \in Handlers : g # h => handler'[g] = handler[g]
    BY <1>4 DEF Receive, LogDogInv, CollectorTypeOK
  <2> QED
    BY <1>2, <2>1, <2>5, <2>6, KeptGrows DEF KeptInv
<1>5. ASSUME NEW h \in Handlers,
             RegisterStream(h) \/ RegisterRejected(h) \/ RegisterFails(h)
      PROVE  KeptInv'
  <2>1. acked' = acked
    BY <1>5 DEF RegisterStream, RegisterRejected, RegisterFails
  <2> QED
    BY <1>1, <1>2, <1>5, <2>1, RegisterKeeps DEF KeptInv
<1>6. ASSUME NEW h \in Handlers,
             Terminate(h) \/ TerminateStream(h) \/ TerminateFails(h) \/ ClearTerminate(h)
      PROVE  KeptInv'
  <2>1. acked' = acked
    BY <1>6 DEF Terminate, TerminateStream, TerminateFails, ClearTerminate
  <2> QED
    BY <1>2, <1>6, <2>1, TerminateKeeps DEF KeptInv
<1>7. ASSUME NEW h \in Handlers, Put(h) \/ PutFails(h) \/ PutRejected(h) PROVE KeptInv'
  <2>1. acked' = acked
    BY <1>7 DEF Put, PutFails, PutRejected
  <2>2. \A g \in Handlers : g # h => handler'[g] = handler[g]
    BY <1>7 DEF Put, PutFails, PutRejected, LogDogInv, CollectorTypeOK
  <2> QED
    BY <1>2, <1>7, <2>1, <2>2, PutKeeps, KeptGrows DEF KeptInv
<1>8. ASSUME NEW h \in Handlers, Finish(h) \/ ClearRegister(h) PROVE KeptInv'
  <2>1. handler'[h] = IdleHandler /\ \A g \in Handlers : g # h => handler'[g] = handler[g]
    BY <1>8 DEF Finish, ClearRegister, LogDogInv, CollectorTypeOK
  <2>2. AckedIsStored'
    <3>1. CASE Finish(h)
      BY <3>1, FinishKeeps
    <3>2. CASE ClearRegister(h)
      BY <1>2, <3>2 DEF ClearRegister
    <3> QED
      BY <1>8, <3>1, <3>2
  <2> QED
    BY <2>1, <2>2, IdleKeeps, KeptGrows DEF KeptInv
<1>9. CASE CollectorCrash
  <2>1. acked' = acked /\ \A g \in Handlers : handler'[g] = IdleHandler
    BY <1>9 DEF CollectorCrash
  <2> QED
    BY <1>2, <2>1, IdleKeeps DEF KeptInv
<1>10. ASSUME NEW a \in Archivists, ArchivistStep(a) \/ ArchivistFails(a)
       PROVE  KeptInv'
  BY <1>3, <1>10 DEF ArchivistStep, BeginTask, Stage, ArchiveStream, Consume, StageError,
     ArchivistFails, collectorVars
<1>11. CASE \/ UNCHANGED vars \/ CoordinatorStep \/ AbortRollForward \/ ExpireEntry
            \/ PrefixExpires \/ StageBreaks \/ Tick \/ \E t \in tasks : DiscardTask(t)
  BY <1>3, <1>11 DEF vars, CoordinatorStep, RollForward, CommitRollForward, AbortRollForward,
     ExpireEntry, PrefixExpires, StageBreaks, Tick, DiscardTask, collectorVars
<1> QED
  BY <1>4, <1>5, <1>6, <1>7, <1>8, <1>9, <1>10, <1>11 DEF Next, HandlerStep, Environment

-----------------------------------------------------------------------------
(* The theorems.                                                           *)

\* The inductive invariant holds in every behaviour of the stream.
THEOREM LogDogInvariance == LogDogSpec => []LogDogInv
<1>1. LogDogInv /\ [Next]_vars => LogDogInv'
  BY NextInv
<1> QED
  BY InitInv, <1>1, PTL DEF LogDogSpec

\* A terminal index in the collector's cache, for which terminateStream makes no
\* RPC, is the Coordinator's, whatever promises failed, entries expired and
\* duplicate bundles were in flight (cache.go 254-264, 282-299).
THEOREM CachedIndexInvariance == LogDogSpec => []CachedIndexIsRecorded
<1>1. LogDogInv => CachedIndexIsRecorded
  BY DEF LogDogInv
<1> QED
  BY <1>1, LogDogInvariance, PTL

\* The archive task of a recorded key is not lost: neither a premature delivery
\* nor one of several archivists consumes it (archivist.go 262-284).
THEOREM TaskedInvariance == LogDogSpec => []TaskedHasItsTask
<1>1. LogDogInv => TaskedHasItsTask
  BY DEF LogDogInv, ArchivalOK, TaskedHasItsTask
<1> QED
  BY <1>1, LogDogInvariance, PTL

\* The record of an archived stream is final (archiveStream.go 58-61).
THEOREM ArchivedOnceTheorem == LogDogSpec => ArchivedOnce
<1>1. LogDogInv /\ [Next]_vars => [stream.archived => stream' = stream]_vars
  BY Monotone
<1> QED
  BY <1>1, LogDogInvariance, PTL DEF LogDogSpec, ArchivedOnce

\* A bundle is acknowledged only once its entries are stored, or storage refuses
\* just that bundle, or the stream is archived or its prefix has expired, whatever
\* faults and duplicates came before (collector.go 400-423, main.go 180-221).
THEOREM AckedInvariance == LogDogSpec => []AckedIsStored
<1>1. Init => KeptInv
  BY IdleHandlerFacts DEF Init, KeptInv, AckedIsStored, ThreadKeeps
<1>2. LogDogInv /\ KeptInv /\ [Next]_vars => KeptInv'
  BY NextKeeps
<1>3. KeptInv => AckedIsStored
  BY DEF KeptInv
<1> QED
  BY <1>1, <1>2, <1>3, LogDogInvariance, PTL DEF LogDogSpec
=============================================================================
