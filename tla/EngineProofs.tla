---------------------------- MODULE EngineProofs ----------------------------
(***************************************************************************)
(* Safety of the scheduler engine's request handlers, for any number of    *)
(* them in flight, any faults and any limits, and that they implement the  *)
(* promise of module Job.                                                  *)
(***************************************************************************)
EXTENDS Engine, JobProofs, FiniteLemmas

-----------------------------------------------------------------------------
(* Types.                                                                  *)

RemoteStates == {"none", "pending", "running", "done"}
TimerTasks == [inv : Nat, seq : Nat]
Messages == [inv : Nat, event : {"running", "done"}]
Deliveries == {{}} \cup StartTasks \cup TimerTasks \cup Messages
Errors == {"none", "transient", "fatal"}
WorkerRecords ==
    [pc : {"idle", "launch", "rpc", "handle", "abort", "save", "respond"},
     kind : {"none", "start", "timer", "pubsub", "abort"},
     task : Deliveries, id : Nat,
     saved : [status : Statuses, MutationsCount : Nat],
     status : Statuses, timer : BOOLEAN, err : Errors, saveErr : SaveErrors]

EngineTypesOK ==
    /\ invs \in Seq(Invocations) /\ Len(invs) = lastInv
    /\ remote \in Seq(RemoteStates) /\ Len(remote) = lastInv
    /\ timerQ \subseteq TimerTasks /\ msgs \subseteq Messages
    /\ workers \in [Workers -> WorkerRecords]

-----------------------------------------------------------------------------
(* The inductive invariant.                                                *)

\* The Job entity, as far as the engine is concerned.  Unlike in module Job, a
\* queued job may have lost its start task.
JobOK ==
    /\ JobTypeOK
    /\ js.State # "IMPOSSIBLE"
    /\ js.InvocationNonce # 0 <=> js.State \in Active
    /\ js.InvocationID # 0 => js.State \in Active
    /\ js.InvocationNonce <= nonce
    /\ js.State # "DISABLED" => job.exists

\* One start task per invocation request.  It is executed once more than there
\* are attempts, and once more if the transaction at its head fails.
StartTasksOK ==
    /\ \A t \in startQ : t.nonce \in 1..nonce
    /\ \A t, u \in startQ : t.nonce = u.nonce => t = u
    /\ \A t \in startQ : t.retry <= InvocationRetryLimit \/
                         ("start" \in faults /\ t.retry <= InvocationRetryLimit + 1)

Expected(v) == IsExpectingInvocation(job.State, v)

\* The attempts of a request have increasing retry counts.  Those of the current
\* request are known to the job, and only the last of them may not be final.
AttemptsOK ==
    /\ js.InvocationID \in 0..lastInv
    /\ \A i \in InvIDs : invs[i].nonce \in 1..nonce
    /\ \A i \in InvIDs : invs[i].nonce = js.InvocationNonce =>
         /\ js.InvocationID # 0 /\ invs[i].retry <= js.InvocationRetryCount
         /\ invs[i].retry < InvocationRetryLimit
         /\ ~Final(invs[i].status) => i = js.InvocationID
    /\ \A i, k \in InvIDs : invs[i].nonce = invs[k].nonce /\ i < k =>
         invs[i].retry < invs[k].retry /\ invs[i].retry < InvocationRetryLimit

\* Only invocations with a remote task have timers and messages.
DeliveriesOK ==
    /\ \A t \in timerQ : t.inv \in InvIDs /\ remote[t.inv] # "none"
    /\ \A m \in msgs : m.inv \in InvIDs /\ remote[m.inv] # "none"
                       /\ (m.event = "done" => remote[m.inv] = "done")

\* A controller's copy of its Invocation: not final, and not older than the
\* entity unless that was saved since.
CopyOK(c) ==
    /\ c.id \in InvIDs /\ ~Final(c.saved.status)
    /\ c.saved.MutationsCount <= invs[c.id].MutationsCount
    /\ ~Conflict(c) => invs[c.id].status = c.saved.status

\* A controller that launches an invocation.  As long as there is no remote task
\* nobody but users interferes with it, and then the job expects it no longer.
LaunchOK(c) ==
    /\ invs[c.id].nonce = c.task.nonce /\ c.saved.status = "STARTING"
    /\ c.pc \in {"launch", "rpc"} => c.status = "STARTING" /\ ~c.timer /\ remote[c.id] = "none"
    /\ c.pc = "save" =>
         /\ c.status # "STARTING" /\ (c.err = "transient" => c.status = "FAILED")
         /\ c.timer => remote[c.id] # "none"
         /\ c.err # "none" /\ "orphan" \notin faults => remote[c.id] = "none"
    /\ remote[c.id] = "none" /\ Conflict(c) => ~Expected(c.task.nonce)

\* The handler of a start task.  It acknowledges the task when the job does not
\* expect the invocation any longer.
StarterOK(c) ==
    /\ c.task \in startQ /\ c.task.retry < InvocationRetryLimit
    /\ c.pc \in {"launch", "rpc", "save", "respond"}
    /\ c.pc # "respond" => LaunchOK(c)
    /\ c.pc = "respond" /\ c.err # "transient" /\
       faults \cap {"save", "orphan", "fatal"} = {} =>
         ~Expected(c.task.nonce)

\* The handler of a timer or of a message.  One that is told that the task is
\* done finds it so, and acknowledges when the invocation is final (or could not
\* be saved, a fatal error).
CallbackOK(c) ==
    /\ c.pc \in {"handle", "save", "respond"}
    /\ c.task.inv \in InvIDs /\ remote[c.task.inv] # "none"
    /\ c.pc # "respond" => c.id = c.task.inv
    /\ c.pc = "handle" => c.status = c.saved.status
    /\ c.pc = "save" => c.saved.status = "STARTING" <=> c.status = "STARTING"
    /\ c.kind = "pubsub" =>
         /\ c.task \in Messages
         /\ c.task.event = "done" =>
              /\ remote[c.task.inv] = "done"
              /\ c.pc = "save" => Final(c.status) \/ c.err = "transient"
              /\ c.pc = "respond" => \/ NotificationResult(c) = "transient"
                                     \/ Final(invs[c.task.inv].status) \/ "fatal" \in faults

WorkerOK(c) ==
    /\ c.pc = "idle" <=> c.kind = "none"
    /\ c.pc \in {"launch", "rpc", "handle", "save"} => CopyOK(c)
    /\ c.kind = "start" => StarterOK(c)
    /\ c.kind \in {"timer", "pubsub"} => CallbackOK(c)
    /\ c.kind = "abort" => /\ c.pc \in {"abort", "save"} /\ c.id \in InvIDs
                           /\ c.pc = "save" => c.status = "ABORTED" /\ ~c.timer

WorkersOK ==
    /\ \A w \in Workers : WorkerOK(workers[w])
    /\ \A v, w \in Workers : workers[v].kind = "start" /\ workers[w].kind = "start"
                             /\ workers[v].task = workers[w].task => v = w

EngineInv ==
    /\ JobOK /\ EngineTypesOK /\ StartTasksOK /\ AttemptsOK /\ JobAndInvocationAgree
    /\ OneAttemptAtATime /\ DeliveriesOK /\ WorkersOK /\ DoneMessageNotLost
-----------------------------------------------------------------------------
(* Events of the state machine, as far as invocations are concerned.  They *)
(* keep the current one, forget it, or queue a new one.                    *)

\* What the engine needs to know of a machine.
EngineMachine(m) ==
    /\ m \in Machines
    /\ m.State.State # "IMPOSSIBLE"
    /\ m.State.InvocationNonce # 0 <=> m.State.State \in Active
    /\ m.State.InvocationID # 0 => m.State.State \in Active
    /\ m.State.InvocationNonce <= m.Nonce

SameInvocation(s, r) ==
    /\ r.InvocationID = s.InvocationID /\ r.InvocationNonce = s.InvocationNonce
    /\ r.InvocationRetryCount = s.InvocationRetryCount
    /\ r.State \in Queued <=> s.State \in Queued
    /\ r.State \in Running <=> s.State \in Running
NoInvocation(r) == r.InvocationID = 0 /\ r.InvocationNonce = 0

Keeps(m, r) ==
    /\ EngineMachine(r) /\ m.Nonce <= r.Nonce /\ r.starts = m.starts
    /\ SameInvocation(m.State, r.State)
    /\ r.State.State = "DISABLED" <=> m.State.State = "DISABLED"
Forgets(m, r) ==
    /\ EngineMachine(r) /\ m.Nonce <= r.Nonce /\ r.starts = m.starts
    /\ NoInvocation(r.State)
QueuesNew(m, r) ==
    /\ EngineMachine(r) /\ r.State.State = "QUEUED" /\ r.State.InvocationID = 0
    /\ r.State.InvocationNonce > m.Nonce
    /\ r.starts = m.starts \cup {[nonce |-> r.State.InvocationNonce, retry |-> 0]}

\* Schedule.Next returns a time, whenever the previous invocation has ended.
LEMMA NextTickIsTime ==
    ASSUME NEW sched \in Schedules \cup {Triggered}, NEW t \in 1..MaxTime, NEW prev \in Nat
    PROVE  NextTick(sched, t, prev) \in Nat
<1> USE SchedulesAssumption, TimeAssumption
<1>1. t \in Nat /\ sched.interval \in Nat /\ sched.offset \in Nat
  BY DEF ScheduleRecords, Triggered
<1>2. sched.kind = "cron" => CronNext(sched, t) \in Nat
  BY CronAssumption DEF Triggered
<1> QED
  BY <1>1, <1>2 DEF NextTick

\* Setting the tick leaves the invocation alone.
LEMMA ScheduleTickKeeps ==
    ASSUME NEW m, EngineMachine(m)
    PROVE  Keeps(m, scheduleTick(m)) /\ scheduleTick(m).State.State = m.State.State
<1> DEFINE next == NextTick(m.Schedule, m.Now, m.State.PrevTime)
<1>1. m \in Machines /\ m.State \in JobStates
  BY DEF EngineMachine, Machines
<1>2. next \in Nat
  BY <1>1, NextTickIsTime DEF Machines, JobStates
<1> HIDE DEF next
<1>3. CASE next = m.State.TickTime
  <2>1. scheduleTick(m) = m
    BY <1>3 DEF scheduleTick, next
  <2> QED
    BY <1>1, <2>1 DEF Keeps, SameInvocation, Machines, EngineMachine
<1>4. CASE next # m.State.TickTime
  <2> DEFINE fresh == m.Nonce + 1
             s == [m.State EXCEPT !.TickTime = next, !.TickNonce = fresh]
             q == IF next = DistantFuture THEN m.ticks
                  ELSE m.ticks \cup {[nonce |-> fresh, eta |-> next]}
             r == [m EXCEPT !.Nonce = fresh, !.State = s, !.ticks = q]
  <2>1. scheduleTick(m) = r
    BY <1>4 DEF scheduleTick, next
  <2>2. fresh \in Nat /\ m.Nonce \in Nat /\ m.Nonce < fresh
    BY <1>1 DEF Machines
  <2>3. /\ s \in JobStates /\ s.State = m.State.State /\ SameInvocation(m.State, s)
    BY <1>1, <1>2, <2>2 DEF JobStates, SameInvocation
  <2>4. q \in SUBSET TickTasks
    BY <1>1, <1>2, <2>2 DEF Machines, TickTasks
  <2> HIDE DEF s, q, fresh
  <2>5. r \in Machines /\ r.State = s /\ r.Nonce = fresh /\ r.starts = m.starts
    BY <1>1, <2>2, <2>3, <2>4 DEF Machines
  <2> HIDE DEF r
  <2>6. s.InvocationNonce \in Nat
    BY <2>3 DEF JobStates
  <2> QED
    BY <2>1, <2>2, <2>3, <2>5, <2>6 DEF EngineMachine, Keeps, SameInvocation
<1> QED
  BY <1>3, <1>4

\* So does resetting it.
LEMMA ResetTickKeeps ==
    ASSUME NEW m, EngineMachine(m)
    PROVE  Keeps(m, resetTick(m)) /\ resetTick(m).State.State = m.State.State
<1> DEFINE s == [m.State EXCEPT !.TickTime = ZeroTime, !.TickNonce = 0]
           r == [m EXCEPT !.State = s]
<1>1. m \in Machines /\ m.State \in JobStates /\ m.Nonce \in Nat
  BY DEF EngineMachine, Machines
<1>2. resetTick(m) = r
  BY DEF resetTick
<1>3. s \in JobStates /\ s.State = m.State.State /\ SameInvocation(m.State, s)
  BY <1>1 DEF JobStates, SameInvocation, ZeroTime
<1> HIDE DEF s
<1>4. r \in Machines /\ r.State = s /\ r.Nonce = m.Nonce /\ r.starts = m.starts
  BY <1>1, <1>3 DEF Machines
<1> HIDE DEF r
<1> QED
  BY <1>1, <1>2, <1>3, <1>4 DEF EngineMachine, Keeps, SameInvocation

\* So does the switch between SCHEDULED and SUSPENDED.
LEMMA SuspendKeeps ==
    ASSUME NEW m, EngineMachine(m)
    PROVE  /\ Keeps(m, maybeSuspendOrResume(m))
           /\ m.State.State \in Waiting => maybeSuspendOrResume(m).State.State \in Waiting
<1> DEFINE distant == m.State.TickTime = DistantFuture
           kind == IF m.State.State = "SCHEDULED" /\ distant THEN "SUSPENDED"
                   ELSE IF m.State.State = "SUSPENDED" /\ ~distant THEN "SCHEDULED"
                   ELSE m.State.State
           s == [m.State EXCEPT !.State = kind]
           r == [m EXCEPT !.State = s]
<1>1. m \in Machines /\ m.State \in JobStates /\ m.Nonce \in Nat
  BY DEF EngineMachine, Machines
<1>2. maybeSuspendOrResume(m) = r
  BY DEF maybeSuspendOrResume
<1>3. /\ kind \in StateKinds /\ kind # "IMPOSSIBLE"
      /\ kind = m.State.State \/ (kind \in Waiting /\ m.State.State \in Waiting)
  BY <1>1 DEF EngineMachine, JobStates, StateKinds, Waiting
<1> HIDE DEF kind
<1>4. /\ s \in JobStates /\ s.State = kind
      /\ s.InvocationID = m.State.InvocationID /\ s.InvocationNonce = m.State.InvocationNonce
      /\ s.InvocationRetryCount = m.State.InvocationRetryCount
  BY <1>1, <1>3 DEF JobStates
<1> HIDE DEF s
<1>5. r \in Machines /\ r.State = s /\ r.Nonce = m.Nonce /\ r.starts = m.starts
  BY <1>1, <1>4 DEF Machines
<1> HIDE DEF r
<1> QED
  BY <1>1, <1>2, <1>3, <1>4, <1>5
     DEF EngineMachine, Keeps, SameInvocation, Active, Queued, Running, Waiting

\* One event after another.
LEMMA KeepsTwice ==
    ASSUME NEW m, NEW a, NEW r, m.Nonce \in Nat, a.Nonce \in Nat, r.Nonce \in Nat, Keeps(a, r)
    PROVE  /\ Keeps(m, a) => Keeps(m, r)
           /\ Forgets(m, a) => Forgets(m, r)
           /\ QueuesNew(m, a) => r.State.State # "QUEUED" \/ QueuesNew(m, r)
BY DEF Keeps, Forgets, QueuesNew, SameInvocation, NoInvocation

\* A job that is enabled begins without an invocation.
LEMMA EnabledEffect ==
    ASSUME NEW m, EngineMachine(m)
    PROVE  LET r == OnJobEnabled(m) IN
           /\ r.State.State # "DISABLED"
           /\ Keeps(m, r) \/ Forgets(m, r)
<1>1. m \in Machines /\ m.State \in JobStates /\ m.Nonce \in Nat
  BY DEF EngineMachine, Machines
<1>2. CASE m.State.State # "DISABLED"
  <2>1. OnJobEnabled(m) = m
    BY <1>2 DEF OnJobEnabled
  <2> QED
    BY <1>1, <1>2, <2>1 DEF Keeps, SameInvocation
<1>3. CASE m.State.State = "DISABLED"
  <2> DEFINE c == [m EXCEPT !.State = CleanState("SCHEDULED")]
             t == scheduleTick(c)
             r == maybeSuspendOrResume(t)
  <2>1. OnJobEnabled(m) = r
    BY <1>3 DEF OnJobEnabled
  <2>2. CleanState("SCHEDULED") \in JobStates
    BY DEF CleanState, JobStates, StateKinds, Waiting, Active, ZeroTime
  <2>3. /\ c \in Machines /\ c.State = CleanState("SCHEDULED")
        /\ c.Nonce = m.Nonce /\ c.starts = m.starts
    BY <1>1, <2>2 DEF Machines
  <2> HIDE DEF c
  <2>4. /\ c.State.State = "SCHEDULED" /\ c.State.InvocationNonce = 0 /\ c.State.InvocationID = 0
    BY <2>3 DEF CleanState
  <2>5. EngineMachine(c) /\ Forgets(m, c)
    BY <1>1, <2>3, <2>4 DEF EngineMachine, Forgets, NoInvocation, Active, Queued, Running
  <2>6. Keeps(c, t) /\ t.State.State = "SCHEDULED"
    BY <2>4, <2>5, ScheduleTickKeeps
  <2> HIDE DEF t
  <2>7. EngineMachine(t) /\ t.Nonce \in Nat
    BY <2>6 DEF Keeps, EngineMachine, Machines
  <2>8. Keeps(t, r)
    BY <2>7, SuspendKeeps
  <2> HIDE DEF r
  <2>9. r.Nonce \in Nat /\ r.State.State # "DISABLED"
    BY <2>6, <2>8 DEF Keeps, EngineMachine, Machines
  <2>10. Forgets(m, t)
    BY <1>1, <2>3, <2>5, <2>6, <2>7, KeepsTwice
  <2>11. Forgets(m, r)
    BY <1>1, <2>7, <2>8, <2>9, <2>10, KeepsTwice
  <2> QED
    BY <2>1, <2>9, <2>11
<1> QED
  BY <1>2, <1>3

\* A job that is disabled forgets its invocation.
LEMMA DisabledEffect ==
    ASSUME NEW m \in Machines
    PROVE  Forgets(m, OnJobDisabled(m)) /\ OnJobDisabled(m).State.State = "DISABLED"
<1> DEFINE r == [m EXCEPT !.State = CleanState("DISABLED")]
<1>1. CleanState("DISABLED") \in JobStates
  BY DEF CleanState, JobStates, StateKinds, ZeroTime
<1>2. /\ r \in Machines /\ r.State = CleanState("DISABLED")
      /\ m.Nonce \in Nat /\ r.Nonce = m.Nonce /\ r.starts = m.starts
  BY <1>1 DEF Machines
<1>3. OnJobDisabled(m) = r
  BY DEF OnJobDisabled
<1> HIDE DEF r
<1>4. r.State.State = "DISABLED" /\ r.State.InvocationNonce = 0 /\ r.State.InvocationID = 0
  BY <1>2 DEF CleanState
<1> QED
  BY <1>2, <1>3, <1>4 DEF EngineMachine, Forgets, NoInvocation, Active, Queued, Running

\* A change of the schedule moves the tick only.
LEMMA ScheduleChangeEffect ==
    ASSUME NEW m, EngineMachine(m)
    PROVE  Keeps(m, OnScheduleChange(m))
<1>1. m.Nonce \in Nat
  BY DEF EngineMachine, Machines
<1>2. Keeps(m, m)
  BY <1>1 DEF Keeps, SameInvocation
<1>3. Keeps(m, scheduleTick(m)) /\ Keeps(m, resetTick(m))
  BY ScheduleTickKeeps, ResetTickKeeps
<1> DEFINE t == scheduleTick(m)
           r == maybeSuspendOrResume(t)
<1>4. Keeps(m, r)
  <2> HIDE DEF t
  <2>1. Keeps(m, t) /\ EngineMachine(t) /\ t.Nonce \in Nat
    BY <1>3 DEF Keeps, EngineMachine, Machines, t
  <2>2. Keeps(t, r)
    BY <2>1, SuspendKeeps
  <2> HIDE DEF r
  <2>3. r.Nonce \in Nat
    BY <2>2 DEF Keeps, EngineMachine, Machines
  <2> QED
    BY <1>1, <2>1, <2>2, <2>3, KeepsTwice
<1> QED
  BY <1>2, <1>3, <1>4 DEF OnScheduleChange

\* queueInvocation draws a nonce and emits the start task with it.
LEMMA QueueEffect ==
    ASSUME NEW m, EngineMachine(m)
    PROVE  QueuesNew(m, queueInvocation(m))
<1> DEFINE fresh == m.Nonce + 1
           a == [m.State EXCEPT !.State = "QUEUED", !.InvocationNonce = fresh]
           s == [a EXCEPT !.InvocationRetryCount = 0, !.InvocationID = 0, !.Overruns = 0]
           q == m.starts \cup {[nonce |-> fresh, retry |-> 0]}
           r == [m EXCEPT !.Nonce = fresh, !.State = s, !.starts = q]
<1>1. m \in Machines /\ m.State \in JobStates /\ m.Nonce \in Nat /\ fresh \in Nat
  BY DEF EngineMachine, Machines
<1>2. queueInvocation(m) = r
  BY DEF queueInvocation
<1>3. fresh # 0 /\ fresh > m.Nonce
  BY <1>1
<1> HIDE DEF fresh
<1>4. a \in JobStates /\ a.State = "QUEUED" /\ a.InvocationNonce = fresh
  BY <1>1 DEF JobStates, StateKinds, Active, Queued
<1> HIDE DEF a
<1>5. s \in JobStates /\ s.State = "QUEUED" /\ s.InvocationNonce = fresh /\ s.InvocationID = 0
  BY <1>4 DEF JobStates
<1>6. q \in SUBSET StartTasks
  BY <1>1 DEF Machines, StartTasks
<1> HIDE DEF s, q
<1>7. r \in Machines /\ r.starts = q /\ r.Nonce = fresh /\ r.State = s
  BY <1>1, <1>5, <1>6 DEF Machines
<1> HIDE DEF r
<1> QED
  BY <1>1, <1>2, <1>3, <1>5, <1>7 DEF EngineMachine, QueuesNew, Active, Queued, q

\* An active machine counts the tick it skips.
LEMMA SkipEffect ==
    ASSUME NEW m, EngineMachine(m), m.State.State \in Active
    PROVE  Keeps(m, skipTick(m))
<1> DEFINE kind == IF m.State.State \in Running THEN "OVERRUN"
                   ELSE IF m.State.State \in Queued THEN "SLOW_QUEUE"
                   ELSE "IMPOSSIBLE"
           n == m.State.Overruns + 1
           s == [m.State EXCEPT !.State = kind, !.Overruns = n]
           q == m.overruns \cup {[inv |-> s.InvocationNonce, overruns |-> s.Overruns,
                                  runningID |-> s.InvocationID]}
           r == [m EXCEPT !.State = s, !.overruns = q]
<1>1. m \in Machines /\ m.State \in JobStates /\ m.Nonce \in Nat
  BY DEF EngineMachine, Machines
<1>2. skipTick(m) = r
  BY <1>1 DEF skipTick, Machines, JobStates
<1>3. /\ m.State.State \in Running => kind = "OVERRUN"
      /\ m.State.State \notin Running => m.State.State \in Queued /\ kind = "SLOW_QUEUE"
      /\ kind \in StateKinds
  BY DEF Active, Queued, Running, StateKinds
<1>4. n \in Nat
  BY <1>1 DEF JobStates
<1> HIDE DEF kind, n
<1>5. /\ s \in JobStates /\ s.State = kind
      /\ s.InvocationNonce = m.State.InvocationNonce /\ s.InvocationID = m.State.InvocationID
      /\ s.InvocationRetryCount = m.State.InvocationRetryCount
  BY <1>1, <1>3, <1>4 DEF JobStates
<1> HIDE DEF s
<1>6. q \in SUBSET OverrunTasks
  BY <1>1, <1>5 DEF Machines, OverrunTasks, JobStates
<1> HIDE DEF q
<1>7. r \in Machines /\ r.starts = m.starts /\ r.Nonce = m.Nonce /\ r.State = s
  BY <1>1, <1>5, <1>6 DEF Machines
<1> HIDE DEF r
<1> QED
  BY <1>1, <1>2, <1>3, <1>5, <1>7
     DEF EngineMachine, Keeps, SameInvocation, Active, Queued, Running

\* A tick queues a new invocation, or leaves the one there is alone.
LEMMA TimerTickEffect ==
    ASSUME NEW m, EngineMachine(m), NEW n
    PROVE  LET r == OnTimerTick(m, n) IN Keeps(m, r) \/ QueuesNew(m, r)
<1> DEFINE next == IF IsAbsolute(m.Schedule) THEN scheduleTick(m) ELSE resetTick(m)
           r == OnTimerTick(m, n)
<1>1. m.Nonce \in Nat /\ m.State \in JobStates
  BY DEF EngineMachine, Machines
<1>2. CASE ~IsExpectingTick(m.State, n) \/ TickTooSoon(m, n)
  <2>1. r = m
    BY <1>2 DEF OnTimerTick
  <2> QED
    BY <1>1, <2>1 DEF Keeps, SameInvocation
<1>3. CASE ~(~IsExpectingTick(m.State, n) \/ TickTooSoon(m, n))
  <2>1. r = IF next.State.State = "SCHEDULED" THEN queueInvocation(next) ELSE skipTick(next)
    BY <1>3 DEF OnTimerTick
  <2>2. Keeps(m, next) /\ next.State.State = m.State.State
    BY ScheduleTickKeeps, ResetTickKeeps
  <2> HIDE DEF next
  <2>3. EngineMachine(next) /\ next.Nonce \in Nat
    BY <2>2 DEF Keeps, EngineMachine, Machines
  <2>4. CASE m.State.State = "SCHEDULED"
    <3>1. QueuesNew(next, r)
      BY <2>1, <2>2, <2>3, <2>4, QueueEffect
    <3> HIDE DEF r
    <3>2. r.State.InvocationNonce \in Nat
      BY <3>1 DEF QueuesNew, EngineMachine, Machines, JobStates
    <3>3. QueuesNew(m, r)
      BY <1>1, <2>2, <2>3, <3>1, <3>2 DEF QueuesNew, Keeps
    <3> QED
      BY <3>3 DEF r
  <2>5. CASE m.State.State # "SCHEDULED"
    <3>1. m.State.State \in Active
      BY <1>1, <1>3, <2>5 DEF IsExpectingTick, EngineMachine, JobStates, StateKinds, Waiting
    <3>2. Keeps(next, r)
      BY <2>1, <2>2, <2>3, <2>5, <3>1, SkipEffect
    <3> HIDE DEF r
    <3>3. r.Nonce \in Nat
      BY <3>2 DEF Keeps, EngineMachine, Machines
    <3>4. Keeps(m, r)
      BY <1>1, <2>2, <2>3, <3>2, <3>3, KeepsTwice
    <3> QED
      BY <3>4 DEF r
  <2> QED
    BY <2>4, <2>5
<1> QED
  BY <1>2, <1>3

\* A manual invocation is a new one.
LEMMA ManualEffect ==
    ASSUME NEW m, EngineMachine(m)
    PROVE  QueuesNew(m, OnManualInvocation(m))
<1> DEFINE q == queueInvocation(m)
           r == resetTick(q)
<1>1. QueuesNew(m, q)
  BY QueueEffect
<1>2. OnManualInvocation(m) = IF IsAbsolute(m.Schedule) THEN q ELSE r
  BY DEF OnManualInvocation
<1> HIDE DEF q
<1>3. EngineMachine(q)
  BY <1>1 DEF QueuesNew
<1>4. Keeps(q, r) /\ r.State.State = q.State.State
  BY <1>3, ResetTickKeeps
<1> HIDE DEF r
<1>5. QueuesNew(m, r)
  BY <1>1, <1>4 DEF QueuesNew, Keeps, SameInvocation
<1> QED
  BY <1>1, <1>2, <1>5

\* The end of an invocation.
LEMMA FinishedEffect ==
    ASSUME NEW m, EngineMachine(m)
    PROVE  Forgets(m, invocationFinished(m)) /\ invocationFinished(m).State.State \in Waiting
<1> DEFINE a == [m.State EXCEPT !.State = "SCHEDULED", !.PrevTime = m.Now,
                                !.InvocationNonce = 0]
           s == [a EXCEPT !.InvocationRetryCount = 0, !.InvocationID = 0, !.Overruns = 0]
           c == [m EXCEPT !.State = s]
           t == scheduleTick(c)
           r == maybeSuspendOrResume(t)
<1>1. invocationFinished(m) = r
  BY DEF invocationFinished
<1>2. m \in Machines /\ m.State \in JobStates /\ m.Now \in 1..MaxTime /\ m.Nonce \in Nat
  BY DEF EngineMachine, Machines
<1>3. a \in JobStates /\ a.State = "SCHEDULED" /\ a.InvocationNonce = 0
  <2>1. m.Now \in Nat /\ "SCHEDULED" \in StateKinds
    BY <1>2, TimeAssumption DEF StateKinds, Waiting
  <2> QED
    BY <1>2, <2>1 DEF JobStates
<1> HIDE DEF a
<1>4. s \in JobStates /\ s.State = "SCHEDULED" /\ s.InvocationNonce = 0 /\ s.InvocationID = 0
  BY <1>3 DEF JobStates
<1> HIDE DEF s
<1>5. c \in Machines /\ c.State = s /\ c.Nonce = m.Nonce /\ c.starts = m.starts
  BY <1>2, <1>4 DEF Machines
<1> HIDE DEF c
<1>6. EngineMachine(c) /\ Forgets(m, c)
  BY <1>2, <1>4, <1>5 DEF EngineMachine, Forgets, NoInvocation, Active, Queued, Running
<1>7. Keeps(c, t) /\ t.State.State = "SCHEDULED"
  BY <1>4, <1>5, <1>6, ScheduleTickKeeps
<1> HIDE DEF t
<1>8. EngineMachine(t) /\ t.Nonce \in Nat /\ c.Nonce \in Nat
  BY <1>2, <1>5, <1>7 DEF Keeps, EngineMachine, Machines
<1>9. Keeps(t, r) /\ r.State.State \in Waiting
  BY <1>7, <1>8, SuspendKeeps DEF Waiting
<1> HIDE DEF r
<1>10. r.Nonce \in Nat
  BY <1>9 DEF Keeps, EngineMachine, Machines
<1>11. Forgets(m, t)
  BY <1>2, <1>6, <1>7, <1>8, KeepsTwice
<1> QED
  BY <1>1, <1>2, <1>8, <1>9, <1>10, <1>11, KeepsTwice

\* A manual abort leaves no invocation.
LEMMA AbortEffect ==
    ASSUME NEW m, EngineMachine(m)
    PROVE  /\ Forgets(m, OnManualAbort(m))
           /\ OnManualAbort(m).State.State = "DISABLED" <=> m.State.State = "DISABLED"
<1>1. m.Nonce \in Nat
  BY DEF EngineMachine, Machines
<1>2. CASE m.State.InvocationNonce # 0
  BY <1>2, FinishedEffect DEF OnManualAbort, EngineMachine, Active, Queued, Running, Waiting
<1>3. CASE m.State.InvocationNonce = 0
  BY <1>1, <1>3 DEF OnManualAbort, EngineMachine, Forgets, NoInvocation
<1> QED
  BY <1>2, <1>3

\* A new attempt of a queued invocation.
LEMMA StartingEffect ==
    ASSUME NEW m, EngineMachine(m), NEW n, IsExpectingInvocation(m.State, n),
           NEW id \in Nat \ {0}, NEW retry \in Nat
    PROVE  LET r == OnInvocationStarting(m, n, id, retry) IN
           /\ EngineMachine(r) /\ r.Nonce = m.Nonce /\ r.starts = m.starts
           /\ r.State.InvocationID = id /\ r.State.InvocationNonce = m.State.InvocationNonce
           /\ r.State.InvocationRetryCount = retry /\ r.State.State = m.State.State
<1> DEFINE s == [m.State EXCEPT !.InvocationID = id, !.InvocationRetryCount = retry]
           r == [m EXCEPT !.State = s]
<1>1. m \in Machines /\ m.State \in JobStates
  BY DEF EngineMachine, Machines
<1>2. OnInvocationStarting(m, n, id, retry) = r
  BY DEF OnInvocationStarting
<1>3. /\ s \in JobStates /\ s.State = m.State.State /\ s.InvocationID = id
      /\ s.InvocationNonce = m.State.InvocationNonce /\ s.InvocationRetryCount = retry
  BY <1>1 DEF JobStates
<1> HIDE DEF s
<1>4. r \in Machines /\ r.State = s /\ r.Nonce = m.Nonce /\ r.starts = m.starts
  BY <1>1, <1>3 DEF Machines
<1> HIDE DEF r
<1> QED
  BY <1>2, <1>3, <1>4 DEF EngineMachine, IsExpectingInvocation, Active

\* A queued invocation that has started is running.
LEMMA StartedEffect ==
    ASSUME NEW m, EngineMachine(m), m.State.State \in Queued
    PROVE  LET r == OnInvocationStarted(m, m.State.InvocationID) IN
           /\ EngineMachine(r) /\ r.Nonce = m.Nonce /\ r.starts = m.starts
           /\ r.State.State \in Running /\ r.State.InvocationID = m.State.InvocationID
           /\ r.State.InvocationNonce = m.State.InvocationNonce
           /\ r.State.InvocationRetryCount = m.State.InvocationRetryCount
<1> DEFINE kind == IF m.State.State = "QUEUED" THEN "RUNNING"
                   ELSE IF m.State.State = "SLOW_QUEUE" THEN "OVERRUN"
                   ELSE "IMPOSSIBLE"
           s == [m.State EXCEPT !.State = kind]
           r == [m EXCEPT !.State = s]
<1>1. m \in Machines /\ m.State \in JobStates
  BY DEF EngineMachine, Machines
<1>2. OnInvocationStarted(m, m.State.InvocationID) = r
  BY DEF OnInvocationStarted
<1>3. kind \in StateKinds /\ kind \in Running
  BY DEF StateKinds, Active, Queued, Running
<1> HIDE DEF kind
<1>4. /\ s \in JobStates /\ s.State = kind /\ s.InvocationID = m.State.InvocationID
      /\ s.InvocationNonce = m.State.InvocationNonce
      /\ s.InvocationRetryCount = m.State.InvocationRetryCount
  BY <1>1, <1>3 DEF JobStates
<1> HIDE DEF s
<1>5. r \in Machines /\ r.State = s /\ r.Nonce = m.Nonce /\ r.starts = m.starts
  BY <1>1, <1>4 DEF Machines
<1> HIDE DEF r
<1> QED
  BY <1>2, <1>3, <1>4, <1>5 DEF EngineMachine, Active, Queued, Running
-----------------------------------------------------------------------------
(* Transactions on the Job entity.                                         *)

JobKeeps == startQ' = startQ /\ SameInvocation(js, js')
JobForgets == startQ' = startQ /\ NoInvocation(js')
JobQueues ==
    /\ js'.State = "QUEUED" /\ js'.InvocationID = 0 /\ js'.InvocationNonce > nonce
    /\ startQ' = startQ \cup {[nonce |-> js'.InvocationNonce, retry |-> 0]}

\* What a transaction that is not about an attempt does to the current
\* invocation request.
JobMoves == nonce <= nonce' /\ (JobKeeps \/ JobForgets \/ JobQueues)

\* A committed machine is the job's new state.
LEMMA CommitMachine ==
    ASSUME JobOK, NEW j \in Jobs, NEW m, EngineMachine(m),
           m.State.State # "DISABLED" => j.exists,
           rollSM(j, m), now' = now, lastInv' \in Nat, UNCHANGED <<overrunInvs, overrunsLost>>
    PROVE  JobOK' /\ js' = m.State /\ nonce' = m.Nonce /\ startQ' = m.starts
<1>1. m \in Machines /\ m.State \in JobStates /\ m.Nonce \in Nat
      /\ m.ticks \in SUBSET TickTasks /\ m.starts \in SUBSET StartTasks
      /\ m.overruns \in SUBSET OverrunTasks
  BY DEF EngineMachine, Machines
<1>2. job' \in Jobs /\ job'.State = m.State /\ job'.exists = j.exists
  BY <1>1 DEF rollSM, Jobs
<1>3. JobTypeOK'
  BY <1>1, <1>2 DEF JobOK, JobTypeOK, rollSM
<1>4. nonce' = m.Nonce /\ startQ' = m.starts /\ js' = m.State
  BY <1>2 DEF rollSM, js
<1> QED
  BY <1>2, <1>3, <1>4 DEF JobOK, EngineMachine

\* The machine of the stored job.
LEMMA JobMachine ==
    ASSUME JobOK, NEW j \in Jobs, j.State = job.State
    PROVE  LET m == MachineFor(j) IN
           EngineMachine(m) /\ m.State = js /\ m.Nonce = nonce /\ m.starts = startQ
<1> DEFINE m == MachineFor(j)
<1>1. m \in Machines /\ m.State = job.State /\ m.Nonce = nonce /\ m.starts = startQ
  BY MachineForFacts DEF JobOK
<1> HIDE DEF m
<1>2. EngineMachine(m)
  BY <1>1 DEF JobOK, EngineMachine, js
<1> QED
  BY <1>1, <1>2 DEF m, js

\* A transaction that commits what an event makes of the stored job.
LEMMA CommitEvent ==
    ASSUME JobOK, NEW j \in Jobs, NEW m, m.Nonce = nonce, m.starts = startQ,
           NEW r, (Keeps(m, r) /\ m.State = js) \/ Forgets(m, r) \/ QueuesNew(m, r),
           r.State.State # "DISABLED" => j.exists,
           rollSM(j, r), now' = now, lastInv' = lastInv, UNCHANGED <<overrunInvs, overrunsLost>>
    PROVE  JobOK' /\ JobMoves /\ js' = r.State
<1>1. EngineMachine(r)
  BY DEF Keeps, Forgets, QueuesNew
<1>2. lastInv' \in Nat
  BY DEF JobOK, JobTypeOK
<1>3. JobOK' /\ js' = r.State /\ nonce' = r.Nonce /\ startQ' = r.starts
  BY <1>1, <1>2, CommitMachine
<1>4. r.Nonce \in Nat /\ r.State.InvocationNonce \in Nat /\ nonce \in Nat
      /\ r.State.InvocationNonce <= r.Nonce
  BY <1>1 DEF JobOK, JobTypeOK, EngineMachine, Machines, JobStates
<1>5. JobMoves
  BY <1>3, <1>4 DEF JobMoves, JobKeeps, JobForgets, JobQueues, Keeps, Forgets, QueuesNew
<1> QED
  BY <1>3, <1>5

\* A job definition is added, updated or re-enabled.
LEMMA UpdateMoves ==
    ASSUME JobOK, NEW sched \in Schedules, updateJob(sched)
    PROVE  JobOK' /\ JobMoves
<1> DEFINE old == IF job.exists THEN job ELSE NewJob(sched)
           new == [old EXCEPT !.exists = TRUE, !.Enabled = TRUE, !.Schedule = sched]
           m == MachineFor(new)
           enabled == IF old.Enabled THEN m ELSE OnJobEnabled(m)
           rolled == IF effectiveSchedule(new) # effectiveSchedule(old)
                     THEN OnScheduleChange(enabled) ELSE enabled
<1>1. rollSM(new, rolled) /\ now' = now /\ lastInv' = lastInv /\ UNCHANGED <<overrunInvs, overrunsLost>>
  BY DEF updateJob
<1>2. CleanState("DISABLED") \in JobStates /\ job \in Jobs /\ JobTypeOK /\ nonce \in Nat
  BY DEF CleanState, JobStates, StateKinds, ZeroTime, JobOK, JobTypeOK
<1>3. old \in Jobs /\ (old.State = js \/ old.State = CleanState("DISABLED"))
      /\ (~job.exists => NoInvocation(old.State) /\ NoInvocation(js))
      /\ (job.exists => old = job)
  <2>1. CASE job.exists
    BY <1>2, <2>1 DEF js
  <2>2. CASE ~job.exists
    <3>1. old \in Jobs /\ old.State = CleanState("DISABLED")
      BY <1>2, <2>2 DEF NewJob, Jobs
    <3>2. NoInvocation(CleanState("DISABLED"))
      BY DEF NoInvocation, CleanState
    <3>3. NoInvocation(js)
      BY <2>2 DEF NoInvocation, JobOK, Active, Queued, Running
    <3> QED
      BY <2>2, <3>1, <3>2, <3>3
  <2> QED
    BY <2>1, <2>2
<1> HIDE DEF old
<1>4. new \in Jobs /\ new.State = old.State /\ new.exists
  BY <1>3 DEF Jobs
<1> HIDE DEF new
<1>5. m \in Machines /\ m.State = new.State /\ m.Nonce = nonce /\ m.starts = startQ
  BY <1>2, <1>4, MachineForFacts
<1> HIDE DEF m
<1>6. EngineMachine(m)
  <2>1. CASE job.exists
    BY <1>3, <1>4, <1>5, <2>1 DEF JobOK, EngineMachine, js
  <2>2. CASE ~job.exists
    <3>1. old.State.State = "DISABLED"
      BY <1>3, <2>2 DEF CleanState, JobOK
    <3> QED
      BY <1>2, <1>3, <1>4, <1>5, <2>2, <3>1
         DEF EngineMachine, NoInvocation, Active, Queued, Running
  <2> QED
    BY <2>1, <2>2
<1>7. Keeps(m, enabled) \/ Forgets(m, enabled)
  <2>1. Keeps(m, m)
    BY <1>2, <1>5, <1>6 DEF Keeps, SameInvocation
  <2> QED
    BY <1>6, <2>1, EnabledEffect
<1> HIDE DEF enabled
<1>8. EngineMachine(enabled) /\ enabled.Nonce \in Nat
  BY <1>7 DEF Keeps, Forgets, EngineMachine, Machines
<1>9. Keeps(enabled, rolled)
  <2>1. Keeps(enabled, enabled)
    BY <1>8 DEF Keeps, SameInvocation
  <2> QED
    BY <1>8, <2>1, ScheduleChangeEffect
<1> HIDE DEF rolled
<1>10. Keeps(m, rolled) \/ Forgets(m, rolled)
  <2>1. rolled.Nonce \in Nat
    BY <1>9 DEF Keeps, EngineMachine, Machines
  <2> QED
    BY <1>2, <1>5, <1>7, <1>8, <1>9, <2>1, KeepsTwice
<1>11. (Keeps(m, rolled) /\ m.State = js) \/ Forgets(m, rolled)
  BY <1>3, <1>4, <1>5, <1>10 DEF Keeps, Forgets, SameInvocation, NoInvocation, js
<1> QED
  BY <1>1, <1>4, <1>5, <1>11, CommitEvent

\* The other transactions that the engine's front end and its timers perform.
LEMMA JobTxnMoves ==
    ASSUME JobOK, JobTxn
    PROVE  JobOK' /\ JobMoves /\ lastInv' = lastInv
<1> DEFINE m == MachineFor(job)
<1>1. job \in Jobs /\ nonce \in Nat
  BY DEF JobOK, JobTypeOK
<1>2. EngineMachine(m) /\ m.State = js /\ m.Nonce = nonce /\ m.starts = startQ
  BY <1>1, JobMachine
<1>3. ASSUME NEW sched \in Schedules, updateJob(sched)
      PROVE  JobOK' /\ JobMoves /\ lastInv' = lastInv
  BY <1>3, UpdateMoves DEF updateJob
<1>4. CASE disableJob
  <2> DEFINE new == [job EXCEPT !.Enabled = FALSE]
             n == MachineFor(new)
             r == OnJobDisabled(n)
  <2>1. rollSM(new, r) /\ now' = now /\ lastInv' = lastInv /\ UNCHANGED <<overrunInvs, overrunsLost>>
    BY <1>4 DEF disableJob
  <2>2. new \in Jobs /\ new.State = job.State
    BY <1>1 DEF Jobs
  <2> HIDE DEF new
  <2>3. EngineMachine(n) /\ n.Nonce = nonce /\ n.starts = startQ
    BY <2>2, JobMachine
  <2> HIDE DEF n
  <2>4. Forgets(n, r) /\ r.State.State = "DISABLED"
    BY <2>3, DisabledEffect DEF EngineMachine
  <2> HIDE DEF r
  <2> QED
    BY <2>1, <2>2, <2>3, <2>4, CommitEvent
<1>5. ASSUME NEW paused \in BOOLEAN, setPausedFlag(paused)
      PROVE  JobOK' /\ JobMoves /\ lastInv' = lastInv
  <2> DEFINE new == [job EXCEPT !.Paused = paused]
             n == MachineFor(new)
             r == OnScheduleChange(n)
  <2>1. rollSM(new, r) /\ now' = now /\ lastInv' = lastInv /\ UNCHANGED <<overrunInvs, overrunsLost>>
        /\ job.exists
    BY <1>5 DEF setPausedFlag
  <2>2. new \in Jobs /\ new.State = job.State /\ new.exists
    BY <1>1, <2>1 DEF Jobs
  <2> HIDE DEF new
  <2>3. EngineMachine(n) /\ n.State = js /\ n.Nonce = nonce /\ n.starts = startQ
    BY <2>2, JobMachine
  <2> HIDE DEF n
  <2>4. Keeps(n, r)
    BY <2>3, ScheduleChangeEffect
  <2> HIDE DEF r
  <2> QED
    BY <2>1, <2>2, <2>3, <2>4, CommitEvent
<1>6. CASE resetJobOnDevServer
  <2> DEFINE d == OnJobDisabled(m)
             r == OnJobEnabled(d)
  <2>1. rollSM(job, r) /\ now' = now /\ lastInv' = lastInv /\ UNCHANGED <<overrunInvs, overrunsLost>>
        /\ job.exists
    BY <1>6 DEF resetJobOnDevServer
  <2> HIDE DEF m
  <2>2. Forgets(m, d) /\ d.Nonce \in Nat
    BY <1>2, DisabledEffect DEF EngineMachine, Forgets, Machines
  <2> HIDE DEF d
  <2>3. Keeps(d, r) \/ Forgets(d, r)
    BY <2>2, EnabledEffect DEF Forgets
  <2> HIDE DEF r
  <2>4. r.Nonce \in Nat
    BY <2>3 DEF Keeps, Forgets, EngineMachine, Machines
  <2>5. Forgets(m, r)
    BY <1>1, <1>2, <2>2, <2>3, <2>4 DEF Keeps, Forgets, SameInvocation, NoInvocation
  <2> QED
    BY <1>1, <1>2, <2>1, <2>5, CommitEvent
<1>7. CASE TriggerInvocation
  <2> DEFINE r == OnManualInvocation(m)
  <2>1. rollSM(job, r) /\ now' = now /\ lastInv' = lastInv /\ UNCHANGED <<overrunInvs, overrunsLost>>
        /\ job.exists
    BY <1>7 DEF TriggerInvocation
  <2> HIDE DEF m
  <2>2. QueuesNew(m, r)
    BY <1>2, ManualEffect
  <2> HIDE DEF r
  <2> QED
    BY <1>1, <1>2, <2>1, <2>2, CommitEvent
<1>8. ASSUME NEW t \in tickQ, NEW acked \in BOOLEAN, jobTimerTick(t, acked)
      PROVE  JobOK' /\ JobMoves /\ lastInv' = lastInv
  <2> DEFINE r == OnTimerTick(m, t.nonce)
             q == IF acked THEN r.ticks \ {t} ELSE r.ticks
             a == [r EXCEPT !.ticks = q]
  <2>1. rollSM(job, a) /\ now' = now /\ lastInv' = lastInv /\ UNCHANGED <<overrunInvs, overrunsLost>>
    BY <1>8 DEF jobTimerTick
  <2> HIDE DEF m
  <2>2. Keeps(m, r) \/ QueuesNew(m, r)
    BY <1>2, TimerTickEffect
  <2>3. m.State.State = "DISABLED" => Keeps(m, r) /\ r.State.State = "DISABLED"
    BY <1>1, <1>2, <2>2 DEF OnTimerTick, IsExpectingTick, Keeps, SameInvocation
  <2> HIDE DEF r
  <2>4. r \in Machines /\ q \in SUBSET TickTasks
    BY <2>2 DEF Keeps, QueuesNew, EngineMachine, Machines
  <2> HIDE DEF q
  <2>5. a \in Machines /\ a.State = r.State /\ a.Nonce = r.Nonce /\ a.starts = r.starts
    BY <2>4 DEF Machines
  <2> HIDE DEF a
  <2>6. Keeps(m, a) \/ QueuesNew(m, a)
    BY <2>2, <2>5 DEF Keeps, QueuesNew, EngineMachine
  <2>7. a.State.State # "DISABLED" => job.exists
    BY <1>2, <2>3, <2>5 DEF JobOK
  <2> QED
    BY <1>1, <1>2, <2>1, <2>6, <2>7, CommitEvent
<1>9. ASSUME NEW t \in overrunQ, NEW acked \in BOOLEAN, recordOverrun(t, acked)
      PROVE  JobOK' /\ JobMoves /\ lastInv' = lastInv
  <2>1. UNCHANGED <<now, job, nonce, lastInv, tickQ, startQ>>
        /\ overrunQ' \subseteq OverrunTasks /\ overrunInvs' \subseteq OverrunTasks
        /\ overrunsLost' \subseteq OverrunTasks
    BY <1>9 DEF recordOverrun, JobOK, JobTypeOK
  <2>2. js' = js
    BY <2>1 DEF js
  <2> QED
    BY <1>1, <2>1, <2>2 DEF JobOK, JobTypeOK, JobMoves, JobKeeps, SameInvocation
<1>10. CASE AdvanceClock
  <2>1. UNCHANGED <<job, nonce, lastInv, tickQ, startQ, overrunQ, overrunInvs, overrunsLost>>
        /\ now' \in 1..MaxTime
    BY <1>10, TimeAssumption DEF AdvanceClock, JobOK, JobTypeOK
  <2>2. js' = js
    BY <2>1 DEF js
  <2> QED
    BY <1>1, <2>1, <2>2 DEF JobOK, JobTypeOK, JobMoves, JobKeeps, SameInvocation
<1> QED
  BY <1>3, <1>4, <1>5, <1>6, <1>7, <1>8, <1>9, <1>10 DEF JobTxn

\* The job half of an abort.
LEMMA AbortMoves ==
    ASSUME JobOK, AbortJobTxn
    PROVE  JobOK' /\ JobMoves /\ JobForgets /\ lastInv' = lastInv
<1> DEFINE m == MachineFor(job)
           r == OnManualAbort(m)
<1>1. job \in Jobs /\ job.exists
      /\ rollSM(job, r) /\ now' = now /\ lastInv' = lastInv /\ UNCHANGED <<overrunInvs, overrunsLost>>
  BY DEF JobOK, JobTypeOK, AbortJobTxn
<1>2. EngineMachine(m) /\ m.State = js /\ m.Nonce = nonce /\ m.starts = startQ
  BY <1>1, JobMachine
<1> HIDE DEF m
<1>3. Forgets(m, r)
  BY <1>2, AbortEffect
<1> HIDE DEF r
<1>4. JobOK' /\ JobMoves /\ js' = r.State
  BY <1>1, <1>2, <1>3, CommitEvent
<1>5. startQ' = startQ
  BY <1>1, <1>2, <1>3 DEF rollSM, Forgets
<1> QED
  BY <1>1, <1>3, <1>4, <1>5 DEF JobForgets, Forgets

\* A new attempt gets the next ID, and the job takes note of it.
LEMMA AttemptMoves ==
    ASSUME JobOK, NEW t \in startQ, StartAttempt(t)
    PROVE  /\ JobOK' /\ lastInv' = lastInv + 1 /\ nonce' = nonce /\ startQ' = startQ
           /\ js'.InvocationID = lastInv' /\ js'.InvocationNonce = js.InvocationNonce
           /\ js'.InvocationRetryCount = t.retry /\ js'.State = js.State
           /\ t.retry < InvocationRetryLimit /\ Expected(t.nonce)
           /\ js.InvocationID # 0 => js.InvocationRetryCount < t.retry
<1> DEFINE m == MachineFor(job)
           r == OnInvocationStarting(m, t.nonce, lastInv + 1, t.retry)
<1>1. /\ job \in Jobs /\ now' = now /\ UNCHANGED <<overrunInvs, overrunsLost>> /\ lastInv' = lastInv + 1
      /\ lastInv \in Nat /\ t.retry \in Nat
      /\ t.retry < InvocationRetryLimit /\ Expected(t.nonce)
      /\ js.InvocationID # 0 => js.InvocationRetryCount < t.retry
  BY DEF JobOK, JobTypeOK, StartAttempt, Expected, StartTasks, js
<1>2. rollSM(job, r)
  BY <1>1 DEF StartAttempt
<1>3. EngineMachine(m) /\ m.State = js /\ m.Nonce = nonce /\ m.starts = startQ
  BY <1>1, JobMachine
<1> HIDE DEF m
<1>4. IsExpectingInvocation(m.State, t.nonce) /\ lastInv + 1 \in Nat \ {0}
  BY <1>1, <1>3 DEF Expected, js
<1>5. /\ EngineMachine(r) /\ r.Nonce = m.Nonce /\ r.starts = m.starts
      /\ r.State.InvocationID = lastInv + 1 /\ r.State.InvocationNonce = m.State.InvocationNonce
      /\ r.State.InvocationRetryCount = t.retry /\ r.State.State = m.State.State
  BY <1>1, <1>3, <1>4, StartingEffect
<1> HIDE DEF r
<1>6. r.State.State # "DISABLED" => job.exists
  BY <1>3, <1>5 DEF JobOK
<1>7. JobOK' /\ js' = r.State /\ nonce' = r.Nonce /\ startQ' = r.starts
  BY <1>1, <1>2, <1>5, <1>6, CommitMachine
<1> QED
  BY <1>1, <1>3, <1>5, <1>7

\* The attempt that writes the request off.
LEMMA GiveUpMoves ==
    ASSUME JobOK, NEW t \in startQ, NEW acked \in BOOLEAN, StartGiveUp(t, acked)
    PROVE  /\ JobOK' /\ lastInv' = lastInv + 1 /\ nonce <= nonce'
           /\ startQ' = startQ \/ startQ' = startQ \ {t}
           /\ NoInvocation(js') /\ t.retry >= InvocationRetryLimit /\ Expected(t.nonce)
<1> DEFINE m == MachineFor(job)
           id == lastInv + 1
           a == OnInvocationStarting(m, t.nonce, id, t.retry)
           b == OnInvocationStarted(a, id)
           d == OnInvocationDone(b, id)
           q == IF acked THEN d.starts \ {t} ELSE d.starts
           r == [d EXCEPT !.starts = q]
<1>1. /\ job \in Jobs /\ now' = now /\ UNCHANGED <<overrunInvs, overrunsLost>> /\ lastInv' = lastInv + 1
      /\ lastInv \in Nat /\ id \in Nat \ {0} /\ t.retry \in Nat /\ nonce \in Nat
      /\ t.retry >= InvocationRetryLimit /\ Expected(t.nonce)
  BY DEF JobOK, JobTypeOK, StartGiveUp, Expected, StartTasks, js
<1>2. rollSM(job, r)
  BY DEF StartGiveUp
<1>3. EngineMachine(m) /\ m.State = js /\ m.Nonce = nonce /\ m.starts = startQ
  BY <1>1, JobMachine
<1> HIDE DEF m, id
<1>4. IsExpectingInvocation(m.State, t.nonce) /\ m.State.State \in Queued
  BY <1>1, <1>3 DEF Expected, IsExpectingInvocation, js
<1>5. /\ EngineMachine(a) /\ a.Nonce = m.Nonce /\ a.starts = m.starts
      /\ a.State.InvocationID = id /\ a.State.State \in Queued
  BY <1>1, <1>3, <1>4, StartingEffect
<1> HIDE DEF a
<1>6. /\ EngineMachine(b) /\ b.Nonce = a.Nonce /\ b.starts = a.starts
      /\ b.State.InvocationID = id /\ b.State.State \in Running
  BY <1>5, StartedEffect
<1> HIDE DEF b
<1>7. d = invocationFinished(b)
  BY <1>6 DEF OnInvocationDone
<1>8. Forgets(b, d)
  BY <1>6, <1>7, FinishedEffect
<1> HIDE DEF d
<1>9. d \in Machines /\ q \in SUBSET StartTasks /\ (q = startQ \/ q = startQ \ {t})
      /\ nonce <= d.Nonce
  BY <1>3, <1>5, <1>6, <1>8 DEF Forgets, EngineMachine, Machines
<1> HIDE DEF q
<1>10. r \in Machines /\ r.State = d.State /\ r.Nonce = d.Nonce /\ r.starts = q
  BY <1>9 DEF Machines
<1> HIDE DEF r
<1>11. EngineMachine(r) /\ NoInvocation(r.State)
  BY <1>8, <1>10 DEF Forgets, EngineMachine
<1>12. job.exists
  BY <1>3, <1>4 DEF JobOK, Queued
<1>13. JobOK' /\ js' = r.State /\ nonce' = r.Nonce /\ startQ' = r.starts
  BY <1>1, <1>2, <1>11, <1>12, CommitMachine
<1> QED
  BY <1>1, <1>9, <1>10, <1>11, <1>13

\* What a save by the controller c makes of the job: nothing, if its invocation
\* is not the current one, or only its log has changed.
SaveMoves(c, touchJob) ==
    /\ nonce <= nonce' /\ startQ' = startQ
    /\ \/ js' = js /\ (js.InvocationID # c.id \/ ~touchJob \/ c.status = c.saved.status)
       \/ /\ js.InvocationID = c.id /\ touchJob
          /\ c.saved.status = "STARTING" /\ c.status = "RUNNING"
          /\ js'.State \in Running /\ js'.InvocationID = js.InvocationID
          /\ js'.InvocationNonce = js.InvocationNonce
          /\ js'.InvocationRetryCount = js.InvocationRetryCount
       \/ /\ js.InvocationID = c.id /\ touchJob /\ Final(c.status)
          /\ NoInvocation(js')

\* A save rolls the job forward by one of the steps of module Job.
LEMMA SaveRolls ==
    ASSUME JobOK, NEW c, NEW touchJob \in BOOLEAN, c.id # 0,
           c.saved.status \in {"STARTING", "RUNNING"}, c.status \in Statuses,
           c.status = "STARTING" => c.saved.status = "STARTING",
           js.InvocationID = c.id /\ c.saved.status = "STARTING" => js.State \in Queued,
           js.InvocationID = c.id /\ c.saved.status = "RUNNING" => js.State \in Running,
           SaveEffect(c, touchJob), UNCHANGED <<now, lastInv, overrunInvs, overrunsLost>>
    PROVE  /\ JobOK' /\ SaveMoves(c, touchJob)
           /\ UNCHANGED jobVars \/ InvocationNext
<1> DEFINE m == MachineFor(job)
           id == job.State.InvocationID
           hasStartedOrFailed == c.saved.status = "STARTING" /\ c.status # "STARTING"
           hasFinished == ~Final(c.saved.status) /\ Final(c.status)
           started == IF hasStartedOrFailed THEN OnInvocationStarted(m, c.id) ELSE m
           rolled == IF hasFinished THEN OnInvocationDone(started, c.id) ELSE started
<1>1. job \in Jobs /\ nonce \in Nat /\ lastInv' \in Nat
  BY DEF JobOK, JobTypeOK
<1>2. EngineMachine(m) /\ m.State = js /\ m.Nonce = nonce /\ m.starts = startQ
  BY <1>1, JobMachine
<1>3. ASSUME UNCHANGED <<job, nonce, tickQ, startQ, overrunQ>>
      PROVE  JobOK' /\ UNCHANGED jobVars /\ js' = js /\ nonce <= nonce'
  BY <1>1, <1>3 DEF JobOK, JobTypeOK, jobVars, js
<1>4. CASE ~(touchJob /\ job.exists /\ id = c.id)
  <2>1. UNCHANGED <<job, nonce, tickQ, startQ, overrunQ>>
    BY <1>4 DEF SaveEffect
  <2>2. js.InvocationID # c.id \/ ~touchJob
    BY <1>4 DEF JobOK, js, Active, Queued, Running
  <2> QED
    BY <1>3, <2>1, <2>2 DEF SaveMoves
<1>5. CASE touchJob /\ job.exists /\ id = c.id
  <2>1. rollSM(job, rolled)
    BY <1>5 DEF SaveEffect
  <2>2. js.InvocationID = c.id /\ c.id = id /\ id # 0 /\ js = job.State
    BY <1>5 DEF js
  <2>3. CASE c.status = c.saved.status
    <3>1. rolled = m
      BY <2>3 DEF Final, FinalStatuses
    <3>2. /\ job' = [job EXCEPT !.State = m.State] /\ nonce' = nonce /\ startQ' = startQ
          /\ tickQ' = m.ticks /\ overrunQ' = m.overruns
      BY <1>2, <2>1, <3>1 DEF rollSM
    <3>3. job' = job /\ tickQ' = tickQ /\ overrunQ' = overrunQ
      BY <1>1, <1>2, <2>2, <3>2 DEF MachineFor, Jobs
    <3> QED
      BY <1>3, <2>3, <3>2, <3>3 DEF SaveMoves
  <2>4. CASE c.saved.status = "STARTING" /\ c.status = "RUNNING"
    <3> DEFINE r == OnInvocationStarted(m, id)
    <3>1. rolled = r
      BY <2>2, <2>4 DEF Final, FinalStatuses
    <3>2. InvocationStarted
      BY <1>5, <2>1, <2>2, <2>4, <3>1 DEF InvocationStarted
    <3>3. rollSM(job, r) /\ m.State.State \in Queued /\ m.State.InvocationID = id
      BY <1>2, <2>1, <2>2, <2>4, <3>1
    <3> HIDE DEF m
    <3>4. /\ EngineMachine(r) /\ r.Nonce = m.Nonce /\ r.starts = m.starts
          /\ r.State.State \in Running /\ r.State.InvocationID = m.State.InvocationID
          /\ r.State.InvocationNonce = m.State.InvocationNonce
          /\ r.State.InvocationRetryCount = m.State.InvocationRetryCount
      BY <1>2, <3>3, StartedEffect
    <3> HIDE DEF r
    <3>5. JobOK' /\ js' = r.State /\ nonce' = r.Nonce /\ startQ' = r.starts
      BY <1>1, <1>5, <3>3, <3>4, CommitMachine
    <3> QED
      BY <1>1, <1>2, <1>5, <2>2, <2>4, <3>2, <3>4, <3>5 DEF SaveMoves, InvocationNext
  <2>5. CASE c.saved.status = "STARTING" /\ Final(c.status)
    <3> DEFINE a == OnInvocationStarted(m, id)
               r == OnInvocationDone(a, id)
    <3>1. rolled = r
      BY <2>2, <2>5 DEF Final, FinalStatuses
    <3>2. InvocationStartedAndDone
      BY <1>5, <2>1, <2>2, <2>5, <3>1 DEF InvocationStartedAndDone
    <3>3. rollSM(job, r) /\ m.State.State \in Queued /\ m.State.InvocationID = id
      BY <1>2, <2>1, <2>2, <2>5, <3>1
    <3> HIDE DEF m
    <3>4. /\ EngineMachine(a) /\ a.Nonce = m.Nonce /\ a.starts = m.starts
          /\ a.State.State \in Running /\ a.State.InvocationID = id
      BY <1>2, <3>3, StartedEffect
    <3> HIDE DEF a
    <3>5. r = invocationFinished(a)
      BY <3>4 DEF OnInvocationDone
    <3>6. Forgets(a, r)
      BY <3>4, <3>5, FinishedEffect
    <3> HIDE DEF r
    <3>7. JobOK' /\ js' = r.State /\ nonce' = r.Nonce /\ startQ' = r.starts
      BY <1>1, <1>5, <3>3, <3>6, CommitMachine DEF Forgets
    <3> QED
      BY <1>2, <1>5, <2>2, <2>5, <3>2, <3>4, <3>6, <3>7 DEF SaveMoves, InvocationNext, Forgets
  <2>6. CASE c.saved.status = "RUNNING" /\ Final(c.status)
    <3> DEFINE r == OnInvocationDone(m, id)
    <3>1. rolled = r
      BY <2>2, <2>6 DEF Final, FinalStatuses
    <3>2. InvocationDone
      BY <1>5, <2>1, <2>2, <2>6, <3>1 DEF InvocationDone
    <3>3. rollSM(job, r) /\ m.State.State \in Running /\ m.State.InvocationID = id
      BY <1>2, <2>1, <2>2, <2>6, <3>1
    <3> HIDE DEF m
    <3>4. r = invocationFinished(m)
      BY <3>3 DEF OnInvocationDone
    <3>5. Forgets(m, r)
      BY <1>2, <3>4, FinishedEffect
    <3> HIDE DEF r
    <3>6. JobOK' /\ js' = r.State /\ nonce' = r.Nonce /\ startQ' = r.starts
      BY <1>1, <1>5, <3>3, <3>5, CommitMachine DEF Forgets
    <3> QED
      BY <1>2, <1>5, <2>2, <2>6, <3>2, <3>5, <3>6 DEF SaveMoves, InvocationNext, Forgets
  <2> QED
    BY <2>3, <2>4, <2>5, <2>6 DEF Statuses, Final
<1> QED
  BY <1>4, <1>5
-----------------------------------------------------------------------------
(* What every step of the engine does to what a worker has seen before it. *)

Onward ==
    /\ lastInv <= lastInv' /\ faults \subseteq faults'
    /\ \A i \in InvIDs :
         /\ invs'[i].nonce = invs[i].nonce /\ invs'[i].retry = invs[i].retry
         /\ invs[i].MutationsCount <= invs'[i].MutationsCount
         /\ invs'[i].MutationsCount = invs[i].MutationsCount => invs'[i] = invs[i]
         /\ Final(invs[i].status) => invs'[i] = invs[i]
         /\ remote[i] # "none" => remote'[i] # "none"
         /\ remote[i] = "done" => remote'[i] = "done"
    /\ \A v \in 1..nonce : IsExpectingInvocation(job'.State, v) => Expected(v)

\* Nobody takes the start task of the worker c away, and while its remote task
\* does not exist its Invocation is written by others only when the job expects
\* it no longer.
Undisturbed(c) ==
    c.kind = "start" =>
        /\ c.task \in startQ'
        /\ c.pc # "respond" /\ remote[c.id] = "none" =>
             /\ remote'[c.id] = "none"
             /\ invs'[c.id] = invs[c.id] \/ ~IsExpectingInvocation(job'.State, c.task.nonce)

\* An Invocation and its remote task have the types of their fields.
LEMMA InvocationTypes ==
    ASSUME EngineTypesOK, NEW i \in InvIDs
    PROVE  /\ invs[i] \in Invocations /\ remote[i] \in RemoteStates
           /\ invs[i].nonce \in Nat /\ invs[i].retry \in Nat
           /\ invs[i].MutationsCount \in Nat /\ invs[i].status \in Statuses
           /\ i \in Nat /\ i # 0
<1>1. Len(invs) \in Nat /\ i \in 1..Len(invs) /\ i \in 1..Len(remote)
  BY DEF EngineTypesOK, InvIDs
<1>2. invs[i] \in Invocations /\ remote[i] \in RemoteStates
  BY <1>1 DEF EngineTypesOK
<1> QED
  BY <1>1, <1>2 DEF Invocations

\* The same of the records of workers.
LEMMA WorkerTypes ==
    ASSUME EngineTypesOK, NEW w \in Workers
    PROVE  workers[w] \in WorkerRecords
BY DEF EngineTypesOK

\* The fields of a worker's record.
LEMMA WorkerFields ==
    ASSUME NEW c \in WorkerRecords
    PROVE  /\ c.pc \in {"idle", "launch", "rpc", "handle", "abort", "save", "respond"}
           /\ c.kind \in {"none", "start", "timer", "pubsub", "abort"} /\ c.id \in Nat
           /\ c.saved \in [status : Statuses, MutationsCount : Nat]
           /\ c.saved.status \in Statuses /\ c.saved.MutationsCount \in Nat
           /\ c.status \in Statuses /\ c.timer \in BOOLEAN
           /\ c.err \in Errors /\ c.saveErr \in SaveErrors
BY DEF WorkerRecords

\* A copy of an Invocation does not get better than it was.
LEMMA CopyKept ==
    ASSUME EngineTypesOK, EngineTypesOK', Onward, NEW c \in WorkerRecords, CopyOK(c)
    PROVE  CopyOK(c)' /\ (Conflict(c) => Conflict(c)')
           /\ (invs'[c.id] = invs[c.id] \/ Conflict(c)')
<1>1. c.id \in InvIDs /\ ~Final(c.saved.status)
      /\ c.saved.MutationsCount <= invs[c.id].MutationsCount
      /\ (~Conflict(c) => invs[c.id].status = c.saved.status)
  BY DEF CopyOK
<1>2. lastInv \in Nat /\ lastInv' \in Nat /\ lastInv <= lastInv'
  BY DEF Onward, EngineTypesOK
<1>3. c.id \in InvIDs'
  BY <1>1, <1>2 DEF InvIDs
<1>4. invs[c.id].MutationsCount \in Nat /\ invs[c.id]'.MutationsCount \in Nat
  <2>1. invs[c.id].MutationsCount \in Nat
    BY <1>1, InvocationTypes
  <2>2. (invs[c.id].MutationsCount \in Nat)'
    <3>1. invs' \in Seq(Invocations) /\ c.id \in 1..Len(invs')
      BY <1>3 DEF EngineTypesOK, InvIDs
    <3>2. invs'[c.id] \in Invocations
      BY <3>1
    <3> QED
      BY <3>2 DEF Invocations
  <2> QED
    BY <2>1, <2>2
<1>5. c.saved.MutationsCount \in Nat
  BY WorkerFields
<1>6. /\ invs[c.id].MutationsCount <= invs'[c.id].MutationsCount
      /\ invs'[c.id].MutationsCount = invs[c.id].MutationsCount => invs'[c.id] = invs[c.id]
  BY <1>1 DEF Onward
<1> QED
  BY <1>1, <1>3, <1>4, <1>5, <1>6 DEF CopyOK, Conflict

\* A worker that a step leaves alone stays as it should be.
LEMMA WorkerKept ==
    ASSUME EngineTypesOK, EngineTypesOK', StartTasksOK, Onward,
           NEW c \in WorkerRecords, WorkerOK(c), Undisturbed(c)
    PROVE  WorkerOK(c)'
<1>1. c.pc \in {"launch", "rpc", "handle", "save"} => CopyOK(c)'
  BY CopyKept DEF WorkerOK
<1>2. \A i \in InvIDs : i \in InvIDs'
  BY DEF Onward, EngineTypesOK, InvIDs
<1>3. ASSUME c.kind = "start" PROVE StarterOK(c)'
  <2>1. /\ StarterOK(c) /\ c.task \in startQ /\ c.task \in startQ'
        /\ c.task.nonce \in 1..nonce
    BY <1>3 DEF WorkerOK, StarterOK, Undisturbed, StartTasksOK
  <2>2. IsExpectingInvocation(job'.State, c.task.nonce) => Expected(c.task.nonce)
    BY <2>1 DEF Onward
  <2>3. ASSUME c.pc # "respond" PROVE LaunchOK(c)'
    <3>1. CopyOK(c) /\ LaunchOK(c) /\ c.id \in InvIDs
      BY <1>3, <2>1, <2>3 DEF WorkerOK, StarterOK, CopyOK
    <3>2. /\ invs'[c.id].nonce = invs[c.id].nonce
          /\ remote[c.id] # "none" => remote'[c.id] # "none"
          /\ faults \subseteq faults'
      BY <3>1 DEF Onward
    <3>3. remote[c.id] = "none" =>
            /\ remote'[c.id] = "none"
            /\ invs'[c.id] = invs[c.id] \/ ~IsExpectingInvocation(job'.State, c.task.nonce)
      BY <1>3, <2>3 DEF Undisturbed
    <3>4. remote'[c.id] = "none" /\ Conflict(c)' =>
            ~IsExpectingInvocation(job'.State, c.task.nonce)
      BY <2>2, <3>1, <3>2, <3>3 DEF LaunchOK, Conflict
    <3>5. "orphan" \notin faults' => "orphan" \notin faults
      BY <3>2
    <3> QED
      BY <3>1, <3>2, <3>3, <3>4, <3>5 DEF LaunchOK, Expected
  <2>4. c.pc = "respond" /\ c.err # "transient" /\ faults' \cap {"save", "orphan", "fatal"} = {} =>
          ~IsExpectingInvocation(job'.State, c.task.nonce)
    BY <2>1, <2>2 DEF StarterOK, Onward
  <2> QED
    BY <2>1, <2>3, <2>4 DEF StarterOK, Expected
<1>4. ASSUME c.kind \in {"timer", "pubsub"} PROVE CallbackOK(c)'
  <2>1. CallbackOK(c) /\ c.task.inv \in InvIDs
    BY <1>4 DEF WorkerOK, CallbackOK
  <2>2. /\ remote[c.task.inv] # "none" => remote'[c.task.inv] # "none"
        /\ remote[c.task.inv] = "done" => remote'[c.task.inv] = "done"
        /\ Final(invs[c.task.inv].status) => invs'[c.task.inv] = invs[c.task.inv]
        /\ "fatal" \in faults => "fatal" \in faults'
    BY <2>1 DEF Onward
  <2> QED
    BY <1>2, <2>1, <2>2 DEF CallbackOK
<1> QED
  BY <1>1, <1>2, <1>3, <1>4 DEF WorkerOK

\* All workers but w are left alone.
LEMMA OtherWorkers ==
    ASSUME EngineTypesOK, EngineTypesOK', StartTasksOK, WorkersOK, Onward,
           NEW w \in Workers, NEW d, workers' = [workers EXCEPT ![w] = d], WorkerOK(d)',
           \A v \in Workers \ {w} : Undisturbed(workers[v]),
           \/ d.kind # "start"
           \/ d.task = workers[w].task /\ workers[w].kind = "start"
           \/ ~Leased("start", d.task)
    PROVE  WorkersOK'
<1>1. workers'[w] = d /\ \A v \in Workers \ {w} : workers'[v] = workers[v]
  BY DEF EngineTypesOK
<1>2. ASSUME NEW v \in Workers PROVE WorkerOK(workers[v])'
  <2>1. CASE v = w
    BY <1>1, <2>1
  <2>2. CASE v # w
    <3>1. PICK c : c = workers[v]
      OBVIOUS
    <3>2. c \in WorkerRecords /\ WorkerOK(c) /\ Undisturbed(c)
      BY <2>2, <3>1, WorkerTypes DEF WorkersOK
    <3>3. WorkerOK(c)'
      BY <3>2, WorkerKept
    <3> QED
      BY <1>1, <2>2, <3>1, <3>3
  <2> QED
    BY <2>1, <2>2
<1>3. ASSUME NEW u \in Workers, NEW v \in Workers, workers'[u].kind = "start",
             workers'[v].kind = "start", workers'[u].task = workers'[v].task
      PROVE  u = v
  BY <1>1, <1>3 DEF WorkersOK, Leased
<1> QED
  BY <1>2, <1>3 DEF WorkersOK

\* No worker moves.
LEMMA SameWorkers ==
    ASSUME EngineTypesOK, EngineTypesOK', StartTasksOK, WorkersOK, Onward, workers' = workers,
           \A v \in Workers : Undisturbed(workers[v])
    PROVE  WorkersOK'
<1>1. ASSUME NEW v \in Workers PROVE WorkerOK(workers[v])'
  <2>1. PICK c : c = workers[v]
    OBVIOUS
  <2>2. c \in WorkerRecords /\ WorkerOK(c) /\ Undisturbed(c)
    BY <2>1, WorkerTypes DEF WorkersOK
  <2>3. WorkerOK(c)'
    BY <2>2, WorkerKept
  <2> QED
    BY <2>1, <2>3
<1> QED
  BY <1>1 DEF WorkersOK
-----------------------------------------------------------------------------
(* Steps that leave the table of invocations alone.                        *)

\* What becomes of the current invocation request.
Requests ==
    /\ nonce <= nonce'
    /\ \/ SameInvocation(js, js')
       \/ NoInvocation(js')
       \/ js'.State = "QUEUED" /\ js'.InvocationID = 0 /\ js'.InvocationNonce > nonce

\* Transactions on the job are such steps.
LEMMA MovesRequests ==
    ASSUME JobMoves
    PROVE  Requests
BY DEF JobMoves, JobKeeps, JobForgets, JobQueues, Requests

\* So are steps that do not touch it.
LEMMA StillRequests ==
    ASSUME JobOK, UNCHANGED <<job, nonce>>
    PROVE  Requests
BY DEF JobOK, JobTypeOK, Requests, SameInvocation, js

\* A job comes to expect a new request only.
LEMMA ExpectsNothingElse ==
    ASSUME JobOK, JobOK', Requests
    PROVE  \A v \in 1..nonce : IsExpectingInvocation(job'.State, v) => Expected(v)
<1>1. js'.InvocationNonce \in Nat /\ nonce \in Nat
  BY DEF JobOK, JobTypeOK, Jobs, JobStates, js
<1> QED
  BY <1>1 DEF Requests, SameInvocation, NoInvocation, IsExpectingInvocation, Expected, js

\* The attempts agree with the job as before.
LEMMA QuietTable ==
    ASSUME JobOK, JobOK', AttemptsOK, JobAndInvocationAgree, OneAttemptAtATime,
           invs' = invs, lastInv' = lastInv, Requests
    PROVE  AttemptsOK' /\ JobAndInvocationAgree' /\ OneAttemptAtATime'
<1>1. /\ js.InvocationNonce \in Nat /\ js'.InvocationNonce \in Nat /\ js'.InvocationID \in Nat
      /\ nonce \in Nat /\ nonce' \in Nat /\ nonce <= nonce' /\ lastInv \in Nat
      /\ InvIDs' = InvIDs
  BY DEF JobOK, JobTypeOK, Jobs, JobStates, js, Requests, InvIDs
<1>2. OneAttemptAtATime'
  BY <1>1 DEF OneAttemptAtATime
<1>3. \A i \in InvIDs : invs[i].nonce \in 1..nonce'
  BY <1>1 DEF AttemptsOK
<1>4. \A i, k \in InvIDs : invs[i].nonce = invs[k].nonce /\ i < k =>
         invs[i].retry < invs[k].retry /\ invs[i].retry < InvocationRetryLimit
  BY DEF AttemptsOK
<1>5. CASE SameInvocation(js, js')
  <2>1. /\ js'.InvocationID = js.InvocationID /\ js'.InvocationNonce = js.InvocationNonce
        /\ js'.InvocationRetryCount = js.InvocationRetryCount
        /\ js'.State \in Queued <=> js.State \in Queued
        /\ js'.State \in Running <=> js.State \in Running
    BY <1>5 DEF SameInvocation
  <2>2. AttemptsOK'
    BY <1>1, <1>3, <1>4, <2>1 DEF AttemptsOK
  <2>3. JobAndInvocationAgree'
    BY <2>1 DEF JobAndInvocationAgree
  <2> QED
    BY <1>2, <2>2, <2>3
<1>6. CASE js'.InvocationID = 0 /\ (js'.InvocationNonce = 0 \/ js'.InvocationNonce > nonce)
  <2>1. \A i \in InvIDs : invs[i].nonce # js'.InvocationNonce
    BY <1>1, <1>6 DEF AttemptsOK
  <2>2. AttemptsOK'
    BY <1>1, <1>3, <1>4, <1>6, <2>1 DEF AttemptsOK
  <2>3. JobAndInvocationAgree'
    BY <1>6 DEF JobAndInvocationAgree
  <2> QED
    BY <1>2, <2>2, <2>3
<1> QED
  BY <1>5, <1>6 DEF Requests, NoInvocation

\* A step that leaves the table of invocations alone.
LEMMA QuietBase ==
    ASSUME EngineInv, JobOK', invs' = invs, lastInv' = lastInv, Requests, faults \subseteq faults',
           remote' \in Seq(RemoteStates), Len(remote') = Len(remote),
           timerQ' \subseteq TimerTasks, msgs' \subseteq Messages,
           workers' \in [Workers -> WorkerRecords],
           \A i \in InvIDs : /\ remote[i] # "none" => remote'[i] # "none"
                             /\ remote[i] = "done" => remote'[i] = "done"
    PROVE  EngineTypesOK' /\ AttemptsOK' /\ JobAndInvocationAgree' /\ OneAttemptAtATime' /\ Onward
<1>1. EngineTypesOK'
  BY DEF EngineInv, EngineTypesOK
<1>2. AttemptsOK' /\ JobAndInvocationAgree' /\ OneAttemptAtATime'
  BY QuietTable DEF EngineInv
<1>3. Onward
  <2>1. \A v \in 1..nonce : IsExpectingInvocation(job'.State, v) => Expected(v)
    BY ExpectsNothingElse DEF EngineInv
  <2>2. lastInv <= lastInv'
    BY DEF EngineInv, JobOK, JobTypeOK
  <2>3. \A i \in InvIDs : invs[i].MutationsCount <= invs[i].MutationsCount
    BY InvocationTypes DEF EngineInv
  <2> QED
    BY <2>1, <2>2, <2>3 DEF Onward
<1> QED
  BY <1>1, <1>2, <1>3

\* What such a step has to leave to the other workers.
LEMMA QuietWorker ==
    ASSUME NEW c, WorkerOK(c), invs' = invs, c.kind = "start" => c.task \in startQ',
           \A i \in InvIDs : remote[i] = "none" => remote'[i] = "none"
    PROVE  Undisturbed(c)
<1>1. c.kind = "start" /\ c.pc # "respond" => c.id \in InvIDs
  BY DEF WorkerOK, StarterOK, CopyOK
<1> QED
  BY <1>1 DEF Undisturbed

\* No message that its task is done is acknowledged too early, but for an error.
KeepsDoneMessages ==
    \/ faults' \cap {"fatal", "reject"} # {}
    \/ \A m \in msgs : m \in msgs' \/ m.event # "done" \/ Final(invs[m.inv].status)

\* None is acknowledged at all.
LEMMA SameMessages ==
    ASSUME msgs' = msgs
    PROVE  KeepsDoneMessages
BY DEF KeepsDoneMessages

\* The part of the queues and the messages in steps that leave remote tasks alone.
LEMMA QuietQueues ==
    ASSUME EngineInv, lastInv' = lastInv, invs' = invs, remote' = remote,
           timerQ' \subseteq timerQ, msgs' \subseteq msgs, faults \subseteq faults',
           KeepsDoneMessages
    PROVE  DeliveriesOK' /\ DoneMessageNotLost'
<1>1. InvIDs' = InvIDs
  BY DEF InvIDs
<1>2. DeliveriesOK'
  BY <1>1 DEF EngineInv, DeliveriesOK
<1>3. DoneMessageNotLost'
  BY <1>1 DEF EngineInv, DoneMessageNotLost, KeepsDoneMessages
<1> QED
  BY <1>2, <1>3

\* One worker moves on, and nothing is taken away from the others.
LEMMA QuietWorkerStep ==
    ASSUME EngineInv, JobOK', StartTasksOK', invs' = invs, lastInv' = lastInv, Requests,
           faults \subseteq faults', remote' = remote, timerQ' \subseteq timerQ, msgs' \subseteq msgs,
           KeepsDoneMessages,
           NEW w \in Workers, NEW d \in WorkerRecords, workers' = [workers EXCEPT ![w] = d],
           Onward => WorkerOK(d)',
           \A v \in Workers \ {w} : workers[v].kind = "start" => workers[v].task \in startQ',
           \/ d.kind # "start"
           \/ d.task = workers[w].task /\ workers[w].kind = "start"
    PROVE  EngineInv' /\ Onward
<1>1. /\ remote' \in Seq(RemoteStates) /\ Len(remote') = Len(remote)
      /\ timerQ' \subseteq TimerTasks /\ msgs' \subseteq Messages
      /\ workers' \in [Workers -> WorkerRecords]
  BY DEF EngineInv, EngineTypesOK
<1>2. EngineTypesOK' /\ AttemptsOK' /\ JobAndInvocationAgree' /\ OneAttemptAtATime' /\ Onward
  BY <1>1, QuietBase
<1>3. DeliveriesOK' /\ DoneMessageNotLost'
  BY QuietQueues
<1>4. ASSUME NEW v \in Workers \ {w} PROVE Undisturbed(workers[v])
  <2>1. PICK c : c = workers[v]
    OBVIOUS
  <2>2. WorkerOK(c) /\ (c.kind = "start" => c.task \in startQ')
    BY <2>1 DEF EngineInv, WorkersOK
  <2> QED
    BY <2>1, <2>2, QuietWorker
<1>5. WorkersOK'
  BY <1>2, <1>4, OtherWorkers DEF EngineInv
<1> QED
  BY <1>2, <1>3, <1>5 DEF EngineInv

\* No worker moves.
LEMMA CalmStep ==
    ASSUME EngineInv, JobOK', StartTasksOK', invs' = invs, lastInv' = lastInv, Requests,
           faults \subseteq faults', remote' = remote, timerQ' \subseteq timerQ, msgs' \subseteq msgs,
           KeepsDoneMessages,
           workers' = workers,
           \A v \in Workers : workers[v].kind = "start" => workers[v].task \in startQ'
    PROVE  EngineInv' /\ Onward
<1>1. /\ remote' \in Seq(RemoteStates) /\ Len(remote') = Len(remote)
      /\ timerQ' \subseteq TimerTasks /\ msgs' \subseteq Messages
      /\ workers' \in [Workers -> WorkerRecords]
  BY DEF EngineInv, EngineTypesOK
<1>2. EngineTypesOK' /\ AttemptsOK' /\ JobAndInvocationAgree' /\ OneAttemptAtATime' /\ Onward
  BY <1>1, QuietBase
<1>3. DeliveriesOK' /\ DoneMessageNotLost'
  BY QuietQueues
<1>4. ASSUME NEW v \in Workers PROVE Undisturbed(workers[v])
  <2>1. PICK c : c = workers[v]
    OBVIOUS
  <2>2. WorkerOK(c) /\ (c.kind = "start" => c.task \in startQ')
    BY <2>1 DEF EngineInv, WorkersOK
  <2> QED
    BY <2>1, <2>2, QuietWorker
<1>5. WorkersOK'
  BY <1>2, <1>4, SameWorkers DEF EngineInv
<1> QED
  BY <1>2, <1>3, <1>5 DEF EngineInv
-----------------------------------------------------------------------------
(* The records of workers.                                                 *)

\* A worker without a request.
LEMMA IdleOK == IdleWorker \in WorkerRecords /\ WorkerOK(IdleWorker)'
                /\ IdleWorker.kind = "none"
BY DEF IdleWorker, WorkerRecords, WorkerOK, Deliveries, Statuses, Errors, SaveErrors

\* A worker that has read its Invocation.
LEMMA ControllerFields ==
    ASSUME NEW kind \in {"start", "timer", "pubsub", "abort"}, NEW task \in Deliveries,
           NEW id \in Nat, NEW inv \in Invocations,
           NEW pc \in {"launch", "handle", "save"}
    PROVE  LET d == Controller(kind, task, id, inv, pc) IN
           /\ d \in WorkerRecords /\ d.pc = pc /\ d.kind = kind /\ d.task = task /\ d.id = id
           /\ d.saved.status = inv.status /\ d.saved.MutationsCount = inv.MutationsCount
           /\ d.status = inv.status /\ ~d.timer
<1> DEFINE saved == [status |-> inv.status, MutationsCount |-> inv.MutationsCount]
           a == [IdleWorker EXCEPT !.pc = pc, !.kind = kind, !.task = task]
           d == [a EXCEPT !.id = id, !.saved = saved, !.status = inv.status]
<1>1. Controller(kind, task, id, inv, pc) = d
  BY DEF Controller
<1>2. saved \in [status : Statuses, MutationsCount : Nat] /\ inv.status \in Statuses
      /\ saved.status = inv.status /\ saved.MutationsCount = inv.MutationsCount
  BY DEF Invocations
<1> HIDE DEF saved
<1>3. IdleWorker \in WorkerRecords /\ IdleWorker.timer = FALSE
  BY IdleOK DEF IdleWorker
<1>4. /\ a \in WorkerRecords /\ a.pc = pc /\ a.kind = kind /\ a.task = task
      /\ a.timer = FALSE
  BY <1>3 DEF WorkerRecords
<1> HIDE DEF a
<1>5. /\ d \in WorkerRecords /\ d.pc = pc /\ d.kind = kind /\ d.task = task /\ d.id = id
      /\ d.saved = saved /\ d.status = inv.status
      /\ d.timer = FALSE
  BY <1>2, <1>4 DEF WorkerRecords
<1> HIDE DEF d
<1> QED
  BY <1>1, <1>2, <1>5

\* A worker that is about to respond.
LEMMA ResponseFields ==
    ASSUME NEW c \in WorkerRecords, NEW err \in Errors, NEW saveErr \in SaveErrors
    PROVE  LET d == Response(c, err, saveErr) IN
           /\ d \in WorkerRecords /\ d.pc = "respond" /\ d.kind = c.kind /\ d.task = c.task
           /\ d.err = err /\ d.saveErr = saveErr
<1> DEFINE a == [IdleWorker EXCEPT !.pc = "respond", !.kind = c.kind, !.task = c.task]
           d == [a EXCEPT !.err = err, !.saveErr = saveErr]
<1>1. Response(c, err, saveErr) = d
  BY DEF Response
<1>2. c.kind \in {"none", "start", "timer", "pubsub", "abort"} /\ c.task \in Deliveries
  BY DEF WorkerRecords
<1>3. a \in WorkerRecords /\ a.pc = "respond" /\ a.kind = c.kind /\ a.task = c.task
  BY <1>2, IdleOK DEF WorkerRecords
<1> HIDE DEF a
<1>4. /\ d \in WorkerRecords /\ d.pc = "respond" /\ d.kind = c.kind /\ d.task = c.task
      /\ d.err = err /\ d.saveErr = saveErr
  BY <1>3 DEF WorkerRecords
<1> QED
  BY <1>1, <1>4

\* A worker that LaunchTask has returned to.
LEMMA LaunchedFields ==
    ASSUME NEW c \in WorkerRecords, NEW status \in Statuses, NEW timer \in BOOLEAN,
           NEW err \in Errors
    PROVE  LET d == Launched(c, status, timer, err) IN
           /\ d \in WorkerRecords /\ d.pc = "save" /\ d.kind = c.kind /\ d.task = c.task
           /\ d.id = c.id /\ d.saved = c.saved /\ d.timer = timer
           /\ d.status = (IF status = "STARTING" THEN "FAILED" ELSE status)
           /\ d.err = err \/ (d.err = "fatal" /\ err = "transient")
<1> DEFINE st == IF status = "STARTING" THEN "FAILED" ELSE status
           er == IF err = "transient" /\ c.task.retry + 1 >= InvocationRetryLimit
                 THEN "fatal" ELSE err
           d == [c EXCEPT !.pc = "save", !.timer = timer, !.status = st, !.err = er]
<1>1. Launched(c, status, timer, err) = d
  BY DEF Launched
<1>2. st \in Statuses /\ er \in Errors /\ (er = err \/ (er = "fatal" /\ err = "transient"))
  BY DEF Statuses, FinalStatuses, Errors
<1> HIDE DEF er
<1>3. d.status = st
  BY DEF WorkerRecords
<1> HIDE DEF st
<1>4. /\ d \in WorkerRecords /\ d.pc = "save" /\ d.kind = c.kind /\ d.task = c.task
      /\ d.id = c.id /\ d.saved = c.saved /\ d.timer = timer /\ d.err = er
  BY <1>2 DEF WorkerRecords
<1> QED
  BY <1>1, <1>2, <1>3, <1>4 DEF st

\* A worker whose handler has returned.
LEMMA HandledFields ==
    ASSUME NEW c \in WorkerRecords, NEW status \in Statuses, NEW timer \in BOOLEAN,
           NEW err \in Errors
    PROVE  LET d == Handled(c, status, timer, err) IN
           /\ d \in WorkerRecords /\ d.pc = "save" /\ d.kind = c.kind /\ d.task = c.task
           /\ d.id = c.id /\ d.saved = c.saved /\ d.timer = timer /\ d.err = err
           /\ d.status = (IF err = "fatal" THEN "FAILED" ELSE status)
<1> DEFINE st == IF err = "fatal" THEN "FAILED" ELSE status
           d == [c EXCEPT !.pc = "save", !.timer = timer, !.err = err, !.status = st]
<1>1. Handled(c, status, timer, err) = d
  BY DEF Handled
<1>2. st \in Statuses
  BY DEF Statuses, FinalStatuses
<1>3. d.status = st
  BY DEF WorkerRecords
<1> HIDE DEF st
<1>4. /\ d \in WorkerRecords /\ d.pc = "save" /\ d.kind = c.kind /\ d.task = c.task
      /\ d.id = c.id /\ d.saved = c.saved /\ d.timer = timer /\ d.err = err
  BY <1>2 DEF WorkerRecords
<1> QED
  BY <1>1, <1>2, <1>3, <1>4 DEF st

-----------------------------------------------------------------------------
(* Start tasks.                                                            *)

\* A transaction on the job only adds start tasks.
LEMMA MovesTasks ==
    ASSUME JobOK, JobOK', StartTasksOK, JobMoves, faults' = faults
    PROVE  StartTasksOK' /\ startQ \subseteq startQ'
<1>1. /\ nonce \in Nat /\ nonce' \in Nat /\ nonce <= nonce' /\ InvocationRetryLimit \in Nat
      /\ js'.InvocationNonce \in Nat /\ js'.InvocationNonce <= nonce'
  BY LimitsAssumption DEF JobOK, JobTypeOK, Jobs, JobStates, js, JobMoves
<1>2. \A t \in startQ : t.nonce \in 1..nonce'
  BY <1>1 DEF StartTasksOK
<1>3. CASE startQ' = startQ
  BY <1>2, <1>3 DEF StartTasksOK
<1>4. CASE JobQueues
  <2> DEFINE new == [nonce |-> js'.InvocationNonce, retry |-> 0]
  <2>1. startQ' = startQ \cup {new} /\ new.nonce \in 1..nonce' /\ new.retry = 0 /\ new.nonce > nonce
    BY <1>1, <1>4 DEF JobQueues
  <2> HIDE DEF new
  <2>2. \A t \in startQ : t.nonce # new.nonce
    BY <1>1, <2>1 DEF StartTasksOK
  <2> QED
    BY <1>1, <1>2, <2>1, <2>2 DEF StartTasksOK
<1> QED
  BY <1>3, <1>4 DEF JobMoves, JobKeeps, JobForgets

\* A start task leaves the queue.
LEMMA DropTasks ==
    ASSUME JobOK, StartTasksOK, NEW t \in startQ, StartDrop(t), faults \subseteq faults'
    PROVE  /\ JobOK' /\ StartTasksOK' /\ UNCHANGED <<job, nonce, lastInv>>
           /\ \A u \in startQ : u # t => u \in startQ'
<1>1. startQ' = startQ \ {t} /\ UNCHANGED <<now, job, nonce, lastInv, tickQ, overrunQ, overrunInvs, overrunsLost>>
  BY DEF StartDrop
<1> QED
  BY <1>1 DEF JobOK, JobTypeOK, StartTasksOK, js

\* A start task is to be executed again.  The queue never refuses, since it
\* grants more executions than there are attempts.
LEMMA RetryTasks ==
    ASSUME JobOK, StartTasksOK, NEW t \in startQ, RetryOrDrop(t), faults \subseteq faults',
           \/ t.retry < InvocationRetryLimit
           \/ "start" \notin faults /\ "start" \in faults'
    PROVE  /\ JobOK' /\ StartTasksOK' /\ UNCHANGED <<job, nonce, lastInv>>
           /\ \A u \in startQ : u # t => u \in startQ'
           /\ StartRetry(t)
<1> DEFINE new == [t EXCEPT !.retry = @ + 1]
<1>1. /\ InvocationRetryLimit \in Nat /\ TaskRetryLimit \in Nat
      /\ InvocationRetryLimit < TaskRetryLimit /\ t \in StartTasks /\ t.retry \in Nat
  BY LimitsAssumption, EngineAssumption DEF JobOK, JobTypeOK, StartTasks
<1>2. t.retry <= InvocationRetryLimit
  BY <1>1 DEF StartTasksOK
<1>3. StartRetry(t)
  BY <1>1, <1>2 DEF RetryOrDrop
<1>4. startQ' = (startQ \ {t}) \cup {new} /\ UNCHANGED <<now, job, nonce, lastInv, tickQ, overrunQ, overrunInvs, overrunsLost>>
  BY <1>3 DEF StartRetry
<1>5. new \in StartTasks /\ new.nonce = t.nonce /\ new.retry = t.retry + 1
  BY <1>1 DEF StartTasks
<1> HIDE DEF new
<1>6. startQ' \subseteq StartTasks
  BY <1>4, <1>5 DEF JobOK, JobTypeOK
<1>7. JobOK'
  BY <1>4, <1>6 DEF JobOK, JobTypeOK, js
<1>8. \A u \in startQ' : u.nonce \in 1..nonce'
  BY <1>4, <1>5 DEF StartTasksOK
<1>9. \A u, v \in startQ' : u.nonce = v.nonce => u = v
  BY <1>4, <1>5 DEF StartTasksOK
<1>10. \A u \in startQ' : u.retry <= InvocationRetryLimit \/
                          ("start" \in faults' /\ u.retry <= InvocationRetryLimit + 1)
  BY <1>1, <1>2, <1>4, <1>5 DEF StartTasksOK
<1> QED
  BY <1>3, <1>4, <1>7, <1>8, <1>9, <1>10 DEF StartTasksOK

\* The start task of a worker is not that of another, nor one that is not leased.
LEMMA LeasedTasks ==
    ASSUME EngineInv, NEW v \in Workers, workers[v].kind = "start"
    PROVE  /\ workers[v].task \in startQ /\ workers[v].task.retry < InvocationRetryLimit
           /\ \A t : ~Leased("start", t) => workers[v].task # t
           /\ \A w \in Workers : workers[w].kind = "start" /\ w # v =>
                workers[v].task # workers[w].task
BY DEF EngineInv, WorkersOK, WorkerOK, StarterOK, Leased
-----------------------------------------------------------------------------
(* The steps, one by one.  First those that leave the table of invocations *)
(* and the remote tasks alone.                                             *)

\* What the step is to module Job.
Refines == JobNext \/ LosesStartTask \/ UNCHANGED jobVars

\* The job's own transactions.
LEMMA JobTxnStep ==
    ASSUME EngineInv, JobTxn
    PROVE  EngineInv' /\ Onward /\ Refines
<1>1. JobOK /\ StartTasksOK /\ UNCHANGED engineVars
  BY DEF EngineInv, JobTxn
<1>2. JobOK' /\ JobMoves /\ lastInv' = lastInv
  BY <1>1, JobTxnMoves
<1>3. StartTasksOK' /\ startQ \subseteq startQ'
  BY <1>1, <1>2, MovesTasks DEF engineVars
<1>4. \A v \in Workers : workers[v].kind = "start" => workers[v].task \in startQ'
  BY <1>3, LeasedTasks
<1>5. EngineInv' /\ Onward
  BY <1>1, <1>2, <1>3, <1>4, MovesRequests, SameMessages, CalmStep DEF engineVars
<1>6. Refines
  BY DEF JobTxn, Refines, JobNext, UserNext, QueueNext
<1> QED
  BY <1>5, <1>6

\* A user aborts the job: the worker remembers the invocation to abort.
LEMMA AbortJobStep ==
    ASSUME EngineInv, NEW w \in Workers, AbortJob(w)
    PROVE  EngineInv' /\ Onward /\ Refines
<1> DEFINE id == job.State.InvocationID
<1>1. /\ JobOK /\ StartTasksOK /\ AbortJobTxn /\ UNCHANGED <<invs, timerQ, msgs, remote, faults>>
      /\ id = 0 => UNCHANGED workers
  BY DEF EngineInv, AbortJob
<1>2. JobOK' /\ JobMoves /\ lastInv' = lastInv
  BY <1>1, AbortMoves
<1>3. StartTasksOK' /\ startQ \subseteq startQ'
  BY <1>1, <1>2, MovesTasks
<1>4. \A v \in Workers : workers[v].kind = "start" => workers[v].task \in startQ'
  BY <1>3, LeasedTasks
<1>5. Refines
  BY <1>1 DEF Refines, JobNext, UserNext
<1>6. /\ Requests /\ invs' = invs /\ timerQ' \subseteq timerQ /\ msgs' = msgs
      /\ remote' = remote /\ faults \subseteq faults'
  BY <1>1, <1>2, MovesRequests
<1>7. CASE id = 0
  <2> HIDE DEF id
  <2>1. UNCHANGED workers
    BY <1>1, <1>7
  <2> QED
    BY <1>2, <1>3, <1>4, <1>5, <1>6, <2>1, SameMessages, CalmStep
<1>8. CASE id # 0
  <2>1. id \in InvIDs /\ id \in Nat /\ InvIDs' = InvIDs
    BY <1>2, <1>8 DEF EngineInv, AttemptsOK, InvIDs, JobOK, JobTypeOK, js
  <2>2. PICK d : d = [IdleWorker EXCEPT !.pc = "abort", !.kind = "abort", !.id = id]
    OBVIOUS
  <2>3. d \in WorkerRecords /\ d.pc = "abort" /\ d.kind = "abort" /\ d.id = id
    BY <2>1, <2>2, IdleOK DEF WorkerRecords
  <2>4. WorkerOK(d)'
    BY <2>1, <2>3 DEF WorkerOK
  <2>5. workers' = [workers EXCEPT ![w] = d]
    BY <1>8, <2>2 DEF AbortJob
  <2> HIDE DEF id
  <2>6. d \in WorkerRecords /\ d.kind # "start"
    BY <2>3
  <2> QED
    BY <1>2, <1>3, <1>4, <1>5, <1>6, <2>4, <2>5, <2>6, SameMessages, QuietWorkerStep
<1> QED
  BY <1>7, <1>8

\* The retry was unnecessary: the start task is acknowledged.
LEMMA SkipAttemptStep ==
    ASSUME EngineInv, NEW t \in startQ, SkipAttempt(t)
    PROVE  EngineInv' /\ Onward /\ Refines
<1>1. ~Leased("start", t) /\ StartAck(t) /\ StartDrop(t) /\ UNCHANGED engineVars
  BY DEF SkipAttempt, StartAck, StartDrop
<1>2. /\ JobOK' /\ StartTasksOK' /\ UNCHANGED <<job, nonce, lastInv>>
      /\ \A u \in startQ : u # t => u \in startQ'
  BY <1>1, DropTasks DEF EngineInv, engineVars
<1>3. \A v \in Workers : workers[v].kind = "start" => workers[v].task \in startQ'
  BY <1>1, <1>2, LeasedTasks
<1>4. EngineInv' /\ Onward
  BY <1>1, <1>2, <1>3, StillRequests, SameMessages, CalmStep DEF engineVars, EngineInv
<1>5. Refines
  BY <1>1 DEF Refines, JobNext, QueueNext
<1> QED
  BY <1>4, <1>5

\* The transaction at the head of startInvocation fails: the task is retried, or
\* dropped if the error is fatal.
LEMMA StartTxnFailsStep ==
    ASSUME EngineInv, NEW t \in startQ, StartTxnFails(t)
    PROVE  EngineInv' /\ Onward /\ Refines
<1>1. /\ ~Leased("start", t) /\ UNCHANGED <<invs, timerQ, msgs, remote, workers>>
      /\ faults \subseteq faults'
  BY DEF StartTxnFails, Fault
<1>2. /\ JobOK' /\ StartTasksOK' /\ UNCHANGED <<job, nonce, lastInv>>
      /\ \A u \in startQ : u # t => u \in startQ'
      /\ Refines
  <2>1. CASE Fault("start") /\ RetryOrDrop(t)
    <3>1. "start" \notin faults /\ "start" \in faults'
      BY <2>1 DEF Fault
    <3>2. /\ JobOK' /\ StartTasksOK' /\ UNCHANGED <<job, nonce, lastInv>>
          /\ \A u \in startQ : u # t => u \in startQ'
          /\ StartRetry(t)
      BY <1>1, <2>1, <3>1, RetryTasks DEF EngineInv
    <3> QED
      BY <3>2 DEF Refines, JobNext, QueueNext
  <2>2. CASE Fault("fatal") /\ StartDrop(t)
    <3>1. /\ JobOK' /\ StartTasksOK' /\ UNCHANGED <<job, nonce, lastInv>>
          /\ \A u \in startQ : u # t => u \in startQ'
      BY <1>1, <2>2, DropTasks DEF EngineInv
    <3> QED
      BY <2>2, <3>1 DEF Refines, LosesStartTask, Fault
  <2> QED
    BY <2>1, <2>2 DEF StartTxnFails
<1>3. \A v \in Workers : workers[v].kind = "start" => workers[v].task \in startQ'
  BY <1>1, <1>2, LeasedTasks
<1>4. EngineInv' /\ Onward
  BY <1>1, <1>2, <1>3, StillRequests, SameMessages, CalmStep DEF EngineInv
<1> QED
  BY <1>2, <1>4

\* A start task is answered.  It is dropped only when the job does not expect it.
LEMMA RespondStartStep ==
    ASSUME EngineInv, NEW w \in Workers, RespondStart(w)
    PROVE  EngineInv' /\ Onward /\ Refines
<1>1. PICK c : c = workers[w]
  OBVIOUS
<1>2. /\ c.pc = "respond" /\ c.kind = "start"
      /\ IF c.err = "transient" THEN RetryOrDrop(c.task) ELSE StartDrop(c.task)
      /\ workers' = [workers EXCEPT ![w] = IdleWorker]
      /\ UNCHANGED <<invs, timerQ, msgs, remote, faults>>
  BY <1>1 DEF RespondStart, Finish
<1>3. StarterOK(c) /\ c.task \in startQ /\ c.task.retry < InvocationRetryLimit
  BY <1>1, <1>2 DEF EngineInv, WorkersOK, WorkerOK, StarterOK
<1>4. /\ JobOK' /\ StartTasksOK' /\ UNCHANGED <<job, nonce, lastInv>>
      /\ \A u \in startQ : u # c.task => u \in startQ'
      /\ c.err = "transient" => StartRetry(c.task)
  <2>1. CASE c.err = "transient"
    BY <1>2, <1>3, <2>1, RetryTasks DEF EngineInv
  <2>2. CASE c.err # "transient"
    BY <1>2, <1>3, <2>2, DropTasks DEF EngineInv
  <2> QED
    BY <2>1, <2>2
<1>5. \A v \in Workers \ {w} : workers[v].kind = "start" => workers[v].task \in startQ'
  BY <1>1, <1>2, <1>4, LeasedTasks
<1>6. EngineInv' /\ Onward
  BY <1>2, <1>4, <1>5, StillRequests, IdleOK, SameMessages, QuietWorkerStep DEF EngineInv
<1>7. Refines
  <2>1. CASE c.err = "transient"
    BY <1>3, <1>4, <2>1 DEF Refines, JobNext, QueueNext
  <2>2. CASE c.err # "transient"
    <3>1. faults \cap {"save", "orphan", "fatal"} = {} => StartAck(c.task)
      BY <1>2, <1>3, <2>2 DEF StarterOK, Expected, StartDrop, StartAck
    <3> QED
      BY <1>2, <1>3, <2>2, <3>1 DEF Refines, LosesStartTask, JobNext, QueueNext
  <2> QED
    BY <2>1, <2>2
<1> QED
  BY <1>6, <1>7

\* A request that touches neither the job nor its queues goes on.
LEMMA StillWorkerStep ==
    ASSUME EngineInv, UNCHANGED <<jobVars, invs, remote>>, faults \subseteq faults',
           timerQ' \subseteq timerQ, msgs' \subseteq msgs,
           KeepsDoneMessages,
           NEW w \in Workers, NEW d \in WorkerRecords, workers' = [workers EXCEPT ![w] = d],
           Onward => WorkerOK(d)',
           \/ d.kind # "start"
           \/ d.task = workers[w].task /\ workers[w].kind = "start"
    PROVE  EngineInv' /\ Onward /\ Refines
<1>1. UNCHANGED <<job, nonce, lastInv, startQ, jobVars>>
  BY DEF jobVars
<1>2. JobOK' /\ StartTasksOK'
  BY DEF EngineInv, JobOK, JobTypeOK, StartTasksOK, js, jobVars
<1>3. \A v \in Workers \ {w} : workers[v].kind = "start" => workers[v].task \in startQ'
  BY <1>1, LeasedTasks
<1>4. EngineInv' /\ Onward
  BY <1>1, <1>2, <1>3, StillRequests, QuietWorkerStep DEF EngineInv
<1> QED
  BY <1>1, <1>4 DEF Refines

\* The request dies.
LEMMA CrashStep ==
    ASSUME EngineInv, NEW w \in Workers, Crash(w)
    PROVE  EngineInv' /\ Onward /\ Refines
<1>1. PICK c : c = workers[w]
  OBVIOUS
<1>2. /\ faults \subseteq faults'
      /\ IF c.kind = "start" THEN RetryOrDrop(c.task) ELSE UNCHANGED jobVars
      /\ workers' = [workers EXCEPT ![w] = IdleWorker]
      /\ UNCHANGED <<invs, timerQ, msgs, remote>>
  BY <1>1 DEF Crash, Finish, Fault
<1>3. CASE c.kind = "start"
  <2>1. c.task \in startQ /\ c.task.retry < InvocationRetryLimit
    BY <1>1, <1>3 DEF EngineInv, WorkersOK, WorkerOK, StarterOK
  <2>2. /\ JobOK' /\ StartTasksOK' /\ UNCHANGED <<job, nonce, lastInv>>
        /\ \A u \in startQ : u # c.task => u \in startQ'
        /\ StartRetry(c.task)
    BY <1>2, <1>3, <2>1, RetryTasks DEF EngineInv
  <2>3. \A v \in Workers \ {w} : workers[v].kind = "start" => workers[v].task \in startQ'
    BY <1>1, <1>3, <2>2, LeasedTasks
  <2>4. EngineInv' /\ Onward
    BY <1>2, <2>2, <2>3, StillRequests, IdleOK, SameMessages, QuietWorkerStep DEF EngineInv
  <2>5. Refines
    BY <2>1, <2>2 DEF Refines, JobNext, QueueNext
  <2> QED
    BY <2>4, <2>5
<1>4. CASE c.kind # "start"
  BY <1>2, <1>4, IdleOK, SameMessages, StillWorkerStep
<1> QED
  BY <1>3, <1>4

\* No request goes on, and neither the job nor its queues are touched.
LEMMA StillStep ==
    ASSUME EngineInv, UNCHANGED <<jobVars, invs, remote, workers>>, faults \subseteq faults',
           timerQ' \subseteq timerQ, msgs' \subseteq msgs,
           KeepsDoneMessages
    PROVE  EngineInv' /\ Onward /\ Refines
<1>1. UNCHANGED <<job, nonce, lastInv, startQ, jobVars>>
  BY DEF jobVars
<1>2. JobOK' /\ StartTasksOK'
  BY DEF EngineInv, JobOK, JobTypeOK, StartTasksOK, js, jobVars
<1>3. \A v \in Workers : workers[v].kind = "start" => workers[v].task \in startQ'
  BY <1>1, LeasedTasks
<1>4. EngineInv' /\ Onward
  BY <1>1, <1>2, <1>3, StillRequests, CalmStep DEF EngineInv
<1> QED
  BY <1>1, <1>4 DEF Refines

\* A timer or a message is delivered to an Invocation that is not final.
LEMMA BeginCallbackStep ==
    ASSUME EngineInv, NEW w \in Workers, NEW kind \in {"timer", "pubsub"},
           NEW task \in Deliveries, task.inv \in InvIDs, remote[task.inv] # "none",
           kind = "pubsub" =>
               task \in Messages /\ (task.event = "done" => remote[task.inv] = "done"),
           BeginCallback(w, kind, task, task.inv)
    PROVE  EngineInv' /\ Onward /\ Refines
<1>1. PICK d : d = Controller(kind, task, task.inv, invs[task.inv], "handle")
  OBVIOUS
<1>2. /\ ~Final(invs[task.inv].status) /\ workers' = [workers EXCEPT ![w] = d]
      /\ UNCHANGED <<jobVars, invs, timerQ, msgs, remote, faults>>
  BY <1>1 DEF BeginCallback
<1>3. invs[task.inv] \in Invocations /\ task.inv \in Nat /\ invs[task.inv].MutationsCount \in Nat
  BY InvocationTypes DEF EngineInv
<1>4. /\ d \in WorkerRecords /\ d.pc = "handle" /\ d.kind = kind /\ d.task = task
      /\ d.id = task.inv /\ d.saved.status = invs[task.inv].status
      /\ d.saved.MutationsCount = invs[task.inv].MutationsCount /\ d.status = invs[task.inv].status
  <2>1. PICK inv : inv = invs[task.inv]
    OBVIOUS
  <2>2. kind \in {"start", "timer", "pubsub", "abort"} /\ "handle" \in {"launch", "handle", "save"}
    OBVIOUS
  <2> QED
    BY <1>1, <1>3, <2>1, <2>2, ControllerFields
<1>5. InvIDs' = InvIDs
  BY <1>2 DEF jobVars, InvIDs
<1>6. CopyOK(d)'
  BY <1>2, <1>3, <1>4, <1>5 DEF CopyOK, Conflict
<1>7. CallbackOK(d)'
  BY <1>2, <1>4, <1>5 DEF CallbackOK
<1>8. WorkerOK(d)'
  BY <1>4, <1>6, <1>7 DEF WorkerOK
<1> QED
  BY <1>2, <1>4, <1>8, SameMessages, StillWorkerStep

\* The invocation timers and the messages.
LEMMA DeliveryStep ==
    ASSUME EngineInv,
           \/ \E w \in Workers, t \in timerQ : BeginTimer(w, t)
           \/ \E t \in timerQ : SkipTimer(t) \/ RejectTimer(t)
           \/ \E w \in Workers, msg \in msgs : BeginNotification(w, msg)
           \/ \E msg \in msgs : SkipNotification(msg) \/ RejectNotification(msg)
    PROVE  EngineInv' /\ Onward /\ Refines
<1>1. timerQ \subseteq TimerTasks /\ msgs \subseteq Messages /\ DeliveriesOK
  BY DEF EngineInv, EngineTypesOK
<1>2. ASSUME NEW w \in Workers, NEW t \in timerQ, BeginTimer(w, t)
      PROVE  EngineInv' /\ Onward /\ Refines
  <2>1. t \in Deliveries /\ t.inv \in InvIDs /\ remote[t.inv] # "none"
    BY <1>1 DEF Deliveries, DeliveriesOK
  <2>2. BeginCallback(w, "timer", t, t.inv)
    BY <1>2 DEF BeginTimer
  <2> QED
    BY <2>1, <2>2, BeginCallbackStep
<1>3. ASSUME NEW t \in timerQ, SkipTimer(t)
      PROVE  EngineInv' /\ Onward /\ Refines
  BY <1>3, SameMessages, StillStep DEF SkipTimer
<1>4. ASSUME NEW w \in Workers, NEW msg \in msgs, BeginNotification(w, msg)
      PROVE  EngineInv' /\ Onward /\ Refines
  <2>1. /\ msg \in Deliveries /\ msg.inv \in InvIDs /\ remote[msg.inv] # "none"
        /\ msg \in Messages /\ (msg.event = "done" => remote[msg.inv] = "done")
    BY <1>1 DEF Deliveries, DeliveriesOK
  <2>2. BeginCallback(w, "pubsub", msg, msg.inv)
    BY <1>4 DEF BeginNotification
  <2> QED
    BY <2>1, <2>2, BeginCallbackStep
<1>5. ASSUME NEW msg \in msgs, SkipNotification(msg)
      PROVE  EngineInv' /\ Onward /\ Refines
  <2>1. KeepsDoneMessages
    BY <1>5 DEF SkipNotification, KeepsDoneMessages
  <2> QED
    BY <1>5, <2>1, StillStep DEF SkipNotification
<1>6. ASSUME NEW t \in timerQ, RejectTimer(t)
      PROVE  EngineInv' /\ Onward /\ Refines
  BY <1>6, SameMessages, StillStep DEF RejectTimer, Fault
<1>7. ASSUME NEW msg \in msgs, RejectNotification(msg)
      PROVE  EngineInv' /\ Onward /\ Refines
  <2>1. KeepsDoneMessages /\ faults \subseteq faults'
    BY <1>7 DEF RejectNotification, Fault, KeepsDoneMessages
  <2> QED
    BY <1>7, <2>1, StillStep DEF RejectNotification
<1> QED
  BY <1>2, <1>3, <1>4, <1>5, <1>6, <1>7

\* The handler has asked the remote service: a task that is done is found so,
\* unless the call fails.
LEMMA CheckStep ==
    ASSUME EngineInv, NEW w \in Workers, CheckTaskStatus(w)
    PROVE  EngineInv' /\ Onward /\ Refines
<1>1. PICK c : c = workers[w]
  OBVIOUS
<1>2. c.pc = "handle" /\ UNCHANGED <<jobVars, invs, timerQ, msgs, remote>>
      /\ c \in WorkerRecords /\ WorkerOK(c)
  BY <1>1, WorkerTypes DEF CheckTaskStatus, EngineInv, WorkersOK
<1>3. /\ c.kind \in {"timer", "pubsub"} /\ CopyOK(c) /\ CallbackOK(c) /\ c.id = c.task.inv
      /\ c.saved.status \in {"STARTING", "RUNNING"}
  <2>1. c.kind \in {"timer", "pubsub"}
    BY <1>2, WorkerFields DEF WorkerOK, StarterOK
  <2> QED
    BY <1>2, <2>1, WorkerFields DEF WorkerOK, CopyOK, CallbackOK, Final, Statuses
<1>4. PICK status \in Statuses, timer \in BOOLEAN, err \in Errors :
        /\ workers' = [workers EXCEPT ![w] = Handled(c, status, timer, err)]
        /\ c.saved.status = "STARTING" => status = "STARTING" /\ err = "transient"
        /\ c.saved.status = "RUNNING" => status # "STARTING"
        /\ remote[c.id] = "done" => Final(status) \/ err # "none"
        /\ faults \subseteq faults'
  <2> DEFINE Goal(status, timer, err) ==
               /\ workers' = [workers EXCEPT ![w] = Handled(c, status, timer, err)]
               /\ c.saved.status = "STARTING" => status = "STARTING" /\ err = "transient"
               /\ c.saved.status = "RUNNING" => status # "STARTING"
               /\ remote[c.id] = "done" => Final(status) \/ err # "none"
               /\ faults \subseteq faults'
             isTimer == c.kind = "timer"
             Return(status, timer, err) ==
               workers' = [workers EXCEPT ![w] = Handled(c, status, timer, err)]
  <2>1. \/ /\ c.saved.status = "STARTING"
           /\ Return("STARTING", FALSE, "transient")
           /\ UNCHANGED faults
        \/ /\ c.saved.status = "RUNNING"
           /\ remote[c.id] \in {"pending", "running"}
           /\ Return("RUNNING", isTimer, "none")
           /\ UNCHANGED faults
        \/ /\ c.saved.status = "RUNNING"
           /\ remote[c.id] = "done"
           /\ \E status \in {"SUCCEEDED", "FAILED"} : Return(status, FALSE, "none")
           /\ UNCHANGED faults
        \/ /\ c.saved.status = "RUNNING"
           /\ Fault("rpc")
           /\ \E err \in {"transient", "fatal"} : Return("RUNNING", FALSE, err)
    BY <1>1 DEF CheckTaskStatus
  <2> HIDE DEF Return
  <2>2. CASE c.saved.status = "STARTING" /\ Return("STARTING", FALSE, "transient") /\ UNCHANGED faults
    <3>1. Goal("STARTING", FALSE, "transient") /\ "STARTING" \in Statuses /\ "transient" \in Errors
      BY <2>2 DEF Return, Statuses, Errors
    <3> QED
      BY <3>1
  <2>3. CASE /\ c.saved.status = "RUNNING" /\ remote[c.id] \in {"pending", "running"}
             /\ Return("RUNNING", isTimer, "none") /\ UNCHANGED faults
    <3>1. Goal("RUNNING", isTimer, "none") /\ "RUNNING" \in Statuses /\ "none" \in Errors
      BY <2>3 DEF Return, Statuses, Errors
    <3> QED
      BY <3>1
  <2>4. ASSUME NEW status \in {"SUCCEEDED", "FAILED"}, c.saved.status = "RUNNING",
               Return(status, FALSE, "none"), UNCHANGED faults
        PROVE  \E s \in Statuses, t \in BOOLEAN, e \in Errors : Goal(s, t, e)
    <3>1. Goal(status, FALSE, "none") /\ status \in Statuses /\ "none" \in Errors
      BY <2>4 DEF Return, Statuses, Errors, Final, FinalStatuses
    <3> QED
      BY <3>1
  <2>5. ASSUME NEW err \in {"transient", "fatal"}, c.saved.status = "RUNNING",
               Return("RUNNING", FALSE, err), Fault("rpc")
        PROVE  \E s \in Statuses, t \in BOOLEAN, e \in Errors : Goal(s, t, e)
    <3>1. Goal("RUNNING", FALSE, err) /\ "RUNNING" \in Statuses /\ err \in Errors
      BY <2>5 DEF Return, Statuses, Errors, Fault
    <3> QED
      BY <3>1
  <2> QED
    BY <2>1, <2>2, <2>3, <2>4, <2>5
<1>5. PICK d : d = Handled(c, status, timer, err)
  OBVIOUS
<1>6. /\ d \in WorkerRecords /\ d.pc = "save" /\ d.kind = c.kind /\ d.task = c.task
      /\ d.id = c.id /\ d.saved = c.saved /\ d.timer = timer /\ d.err = err
      /\ d.status = (IF err = "fatal" THEN "FAILED" ELSE status)
  BY <1>2, <1>5, HandledFields
<1>7. ASSUME Onward PROVE WorkerOK(d)'
  <2>1. CopyOK(d)'
    <3>1. InvIDs' = InvIDs
      BY <1>2 DEF InvIDs, jobVars
    <3> QED
      BY <1>2, <1>3, <1>6, <3>1 DEF CopyOK, Conflict
  <2>2. CallbackOK(c) /\ UNCHANGED <<invs, remote, lastInv>>
    BY <1>2, <1>3 DEF jobVars
  <2>3. /\ d.saved.status = "STARTING" <=> d.status = "STARTING"
        /\ remote[d.id] = "done" => Final(d.status) \/ d.err = "transient"
    BY <1>3, <1>4, <1>6 DEF Final, FinalStatuses, Errors
  <2>4. CallbackOK(d)'
    BY <1>3, <1>6, <2>2, <2>3 DEF CallbackOK, InvIDs
  <2> QED
    BY <1>3, <1>6, <2>1, <2>4 DEF WorkerOK
<1>8. workers' = [workers EXCEPT ![w] = d] /\ faults \subseteq faults' /\ d.kind # "start"
  BY <1>3, <1>4, <1>5, <1>6
<1> QED
  BY <1>2, <1>6, <1>7, <1>8, SameMessages, StillWorkerStep

\* A timer is acknowledged or not: nothing depends on it.
LEMMA RespondTimerStep ==
    ASSUME EngineInv, NEW w \in Workers, RespondTimer(w)
    PROVE  EngineInv' /\ Onward /\ Refines
<1>1. /\ timerQ' \subseteq timerQ /\ workers' = [workers EXCEPT ![w] = IdleWorker]
      /\ UNCHANGED <<jobVars, invs, msgs, remote, faults>>
  BY DEF RespondTimer, Finish
<1> QED
  BY <1>1, IdleOK, SameMessages, StillWorkerStep

\* A message is acknowledged when it is not needed any longer.
LEMMA RespondNotificationStep ==
    ASSUME EngineInv, NEW w \in Workers, RespondNotification(w)
    PROVE  EngineInv' /\ Onward /\ Refines
<1>1. PICK c : c = workers[w]
  OBVIOUS
<1>2. /\ c.pc = "respond" /\ c.kind = "pubsub"
      /\ msgs' = IF NotificationResult(c) = "transient" THEN msgs ELSE msgs \ {c.task}
      /\ workers' = [workers EXCEPT ![w] = IdleWorker]
      /\ UNCHANGED <<jobVars, invs, timerQ, remote, faults>>
  BY <1>1 DEF RespondNotification, Finish
<1>3. CallbackOK(c)
  BY <1>1, <1>2 DEF EngineInv, WorkersOK, WorkerOK
<1>4. KeepsDoneMessages
  BY <1>2, <1>3 DEF CallbackOK, KeepsDoneMessages
<1>5. msgs' \subseteq msgs
  BY <1>2
<1> QED
  BY <1>2, <1>4, <1>5, IdleOK, StillWorkerStep

\* The copy of an Invocation that is to be aborted.
LEMMA BeginAbortStep ==
    ASSUME EngineInv, NEW w \in Workers, NEW id \in InvIDs, ~Final(invs[id].status),
           BeginAbort(w, id), UNCHANGED <<jobVars, invs, timerQ, msgs, remote, faults>>
    PROVE  EngineInv' /\ Onward /\ Refines
<1>1. PICK a : a = Controller("abort", {}, id, invs[id], "save")
  OBVIOUS
<1>2. PICK d : d = [a EXCEPT !.status = "ABORTED"]
  OBVIOUS
<1>3. workers' = [workers EXCEPT ![w] = d]
  BY <1>1, <1>2 DEF BeginAbort
<1>4. invs[id] \in Invocations /\ id \in Nat /\ invs[id].MutationsCount \in Nat
  BY InvocationTypes DEF EngineInv
<1>5. /\ a \in WorkerRecords /\ a.pc = "save" /\ a.kind = "abort" /\ a.id = id
      /\ a.saved.status = invs[id].status
      /\ a.saved.MutationsCount = invs[id].MutationsCount /\ ~a.timer
  <2>1. {} \in Deliveries
    BY DEF Deliveries
  <2>2. PICK inv : inv = invs[id]
    OBVIOUS
  <2> QED
    BY <1>1, <1>4, <2>1, <2>2, ControllerFields
<1>6. /\ d \in WorkerRecords /\ d.pc = "save" /\ d.kind = "abort" /\ d.id = id
      /\ d.saved = a.saved /\ ~d.timer /\ d.status = "ABORTED"
  BY <1>2, <1>5 DEF WorkerRecords, Statuses, FinalStatuses
<1>7. WorkerOK(d)'
  <2>1. InvIDs' = InvIDs
    BY DEF InvIDs, jobVars
  <2>2. CopyOK(d)'
    BY <1>4, <1>5, <1>6, <2>1 DEF CopyOK, Conflict
  <2> QED
    BY <1>6, <2>1, <2>2 DEF WorkerOK
<1> QED
  BY <1>3, <1>6, <1>7, SameMessages, StillWorkerStep

\* Aborts of invocations, before they are saved.
LEMMA AbortReadStep ==
    ASSUME EngineInv, NEW w \in Workers,
           (\E id \in InvIDs : AbortInvocation(w, id)) \/ ReadAborted(w)
    PROVE  EngineInv' /\ Onward /\ Refines
<1>1. ASSUME NEW id \in InvIDs, AbortInvocation(w, id)
      PROVE  EngineInv' /\ Onward /\ Refines
  BY <1>1, BeginAbortStep DEF AbortInvocation
<1>2. CASE ReadAborted(w)
  <2>1. PICK id : id = workers[w].id
    OBVIOUS
  <2>2. /\ workers[w].pc = "abort"
        /\ IF Final(invs[id].status) THEN Finish(w) ELSE BeginAbort(w, id)
        /\ UNCHANGED <<jobVars, invs, timerQ, msgs, remote, faults>>
    BY <1>2, <2>1 DEF ReadAborted
  <2>3. id \in InvIDs
    <3>1. PICK c : c = workers[w]
      OBVIOUS
    <3>2. c \in WorkerRecords /\ WorkerOK(c) /\ c.pc = "abort"
      BY <2>2, <3>1, WorkerTypes DEF EngineInv, WorkersOK
    <3>3. c.kind = "abort"
      BY <3>2, WorkerFields DEF WorkerOK, StarterOK, CallbackOK
    <3> QED
      BY <2>1, <3>1, <3>2, <3>3 DEF WorkerOK
  <2>4. CASE Final(invs[id].status)
    BY <2>2, <2>4, IdleOK, SameMessages, StillWorkerStep DEF Finish
  <2>5. CASE ~Final(invs[id].status)
    BY <2>2, <2>3, <2>5, BeginAbortStep
  <2> QED
    BY <2>4, <2>5
<1> QED
  BY <1>1, <1>2

-----------------------------------------------------------------------------
(* Remote tasks come into being and make progress.                         *)

\* Workers that launch invocations have different ones.
LEMMA DistinctIDs ==
    ASSUME EngineInv, NEW v \in Workers, NEW w \in Workers, v # w,
           workers[v].kind = "start", workers[v].pc # "respond",
           workers[w].kind = "start", workers[w].pc # "respond"
    PROVE  workers[v].id # workers[w].id
<1>1. /\ invs[workers[v].id].nonce = workers[v].task.nonce
      /\ invs[workers[w].id].nonce = workers[w].task.nonce
  BY DEF EngineInv, WorkersOK, WorkerOK, StarterOK, LaunchOK
<1>2. workers[v].task # workers[w].task /\ workers[v].task \in startQ /\ workers[w].task \in startQ
  BY LeasedTasks
<1> QED
  BY <1>1, <1>2 DEF EngineInv, StartTasksOK

\* The state of one remote task changes.
LEMMA RemoteChange ==
    ASSUME EngineInv, NEW id \in InvIDs, NEW s \in {"pending", "running", "done"},
           remote[id] # "done", remote' = [remote EXCEPT ![id] = s],
           UNCHANGED <<jobVars, invs, timerQ>>, faults \subseteq faults',
           msgs' \subseteq Messages, workers' \in [Workers -> WorkerRecords]
    PROVE  /\ remote'[id] = s /\ \A i \in InvIDs \ {id} : remote'[i] = remote[i]
           /\ JobOK' /\ StartTasksOK' /\ EngineTypesOK' /\ AttemptsOK'
           /\ JobAndInvocationAgree' /\ OneAttemptAtATime' /\ Onward
           /\ InvIDs' = InvIDs /\ startQ' = startQ /\ job' = job
<1>1. /\ remote \in Seq(RemoteStates) /\ Len(remote) = lastInv /\ Len(remote) \in Nat
      /\ id \in 1..Len(remote) /\ s \in RemoteStates /\ timerQ \subseteq TimerTasks
  BY DEF EngineInv, EngineTypesOK, InvIDs, RemoteStates
<1>2. /\ remote' \in Seq(RemoteStates) /\ Len(remote') = Len(remote)
      /\ remote'[id] = s /\ \A i \in InvIDs \ {id} : remote'[i] = remote[i]
  BY <1>1 DEF InvIDs
<1>3. UNCHANGED <<job, nonce, lastInv, startQ>> /\ InvIDs' = InvIDs
  BY DEF jobVars, InvIDs
<1>4. JobOK' /\ StartTasksOK'
  BY DEF EngineInv, JobOK, JobTypeOK, StartTasksOK, js, jobVars
<1>5. \A i \in InvIDs : /\ remote[i] # "none" => remote'[i] # "none"
                        /\ remote[i] = "done" => remote'[i] = "done"
  BY <1>2
<1>6. timerQ' \subseteq TimerTasks /\ Requests
  BY <1>1, <1>3, StillRequests DEF EngineInv
<1>7. EngineTypesOK' /\ AttemptsOK' /\ JobAndInvocationAgree' /\ OneAttemptAtATime' /\ Onward
  BY <1>2, <1>3, <1>4, <1>5, <1>6, QuietBase
<1> QED
  BY <1>2, <1>3, <1>4, <1>7

\* The remote service publishes what happens to a task.
LEMMA RemoteStep ==
    ASSUME EngineInv, NEW id \in InvIDs, RemoteStarted(id) \/ RemoteDone(id)
    PROVE  EngineInv' /\ Onward /\ Refines
<1>1. PICK s \in {"running", "done"} :
        /\ remote[id] \in {"pending", "running"}
        /\ remote' = [remote EXCEPT ![id] = s]
        /\ msgs' = msgs \cup {[inv |-> id, event |-> s]}
        /\ UNCHANGED <<jobVars, invs, timerQ, workers, faults>>
  BY DEF RemoteStarted, RemoteDone
<1>2. PICK m : m = [inv |-> id, event |-> s]
  OBVIOUS
<1>3. m \in Messages /\ m.inv = id /\ m.event = s /\ id \in Nat
  <2>1. id \in Nat
    BY InvocationTypes DEF EngineInv
  <2> QED
    BY <1>2, <2>1 DEF Messages
<1>4. msgs' = msgs \cup {m} /\ msgs' \subseteq Messages /\ workers' \in [Workers -> WorkerRecords]
      /\ s \in {"pending", "running", "done"} /\ remote[id] # "done" /\ remote[id] # "none"
  BY <1>1, <1>2, <1>3 DEF EngineInv, EngineTypesOK
<1>5. /\ remote'[id] = s /\ \A i \in InvIDs \ {id} : remote'[i] = remote[i]
      /\ JobOK' /\ StartTasksOK' /\ EngineTypesOK' /\ AttemptsOK'
      /\ JobAndInvocationAgree' /\ OneAttemptAtATime' /\ Onward
      /\ InvIDs' = InvIDs /\ startQ' = startQ /\ job' = job
  BY <1>1, <1>4, RemoteChange
<1>6. DeliveriesOK'
  <2>1. \A t \in timerQ' : t.inv \in InvIDs' /\ remote'[t.inv] # "none"
    BY <1>1, <1>5 DEF EngineInv, DeliveriesOK
  <2>2. \A n \in msgs : n.inv \in InvIDs' /\ remote'[n.inv] # "none"
                        /\ (n.event = "done" => remote'[n.inv] = "done")
    BY <1>4, <1>5 DEF EngineInv, DeliveriesOK
  <2> QED
    BY <1>3, <1>4, <1>5, <2>1, <2>2 DEF DeliveriesOK
<1>7. DoneMessageNotLost'
  BY <1>1, <1>2, <1>4, <1>5 DEF EngineInv, DoneMessageNotLost
<1>8. ASSUME NEW v \in Workers PROVE Undisturbed(workers[v])
  <2>1. PICK c : c = workers[v]
    OBVIOUS
  <2>2. WorkerOK(c) /\ (c.kind = "start" => c.task \in startQ')
    BY <1>5, <2>1, LeasedTasks DEF EngineInv, WorkersOK
  <2>3. \A i \in InvIDs : remote[i] = "none" => remote'[i] = "none"
    BY <1>4, <1>5
  <2> QED
    BY <1>1, <2>1, <2>2, <2>3, QuietWorker
<1>9. WorkersOK'
  BY <1>1, <1>5, <1>8, SameWorkers DEF EngineInv
<1> QED
  BY <1>1, <1>5, <1>6, <1>7, <1>9 DEF EngineInv, Refines

\* What LaunchTask may return, and whether it has created a remote task.
LaunchReturns(w, c, status, timer, err) ==
    /\ workers' = [workers EXCEPT ![w] = Launched(c, status, timer, err)]
    /\ remote' = remote \/ remote' = [remote EXCEPT ![c.id] = "pending"]
    /\ timer => remote' = [remote EXCEPT ![c.id] = "pending"]
    /\ err # "none" => status = "STARTING" /\ (remote' = remote \/ "orphan" \in faults')
    /\ faults \subseteq faults'

\* LaunchTask returns in one of these ways.
LEMMA LaunchCases ==
    ASSUME NEW w \in Workers, LaunchTask(w), NEW c, c = workers[w]
    PROVE  \E status \in Statuses, timer \in BOOLEAN, err \in Errors :
             LaunchReturns(w, c, status, timer, err)
<1> DEFINE Return(status, timer, err) ==
             workers' = [workers EXCEPT ![w] = Launched(c, status, timer, err)]
           CreateRemote == remote' = [remote EXCEPT ![c.id] = "pending"]
<1>1. \/ Return("RUNNING", TRUE, "none") /\ CreateRemote /\ UNCHANGED faults
      \/ /\ \E status \in {"SUCCEEDED", "FAILED"} : Return(status, FALSE, "none")
         /\ UNCHANGED <<remote, faults>>
      \/ /\ \E err \in {"transient", "fatal"} : Return("STARTING", FALSE, err)
         /\ \/ UNCHANGED <<remote, faults>>
            \/ Fault("orphan") /\ CreateRemote
  BY DEF LaunchTask
<1> HIDE DEF Return
<1>2. CASE Return("RUNNING", TRUE, "none") /\ CreateRemote /\ UNCHANGED faults
  <2>1. LaunchReturns(w, c, "RUNNING", TRUE, "none") /\ "RUNNING" \in Statuses /\ "none" \in Errors
    BY <1>2 DEF LaunchReturns, Return, Statuses, Errors
  <2> QED
    BY <2>1
<1>3. ASSUME NEW status \in {"SUCCEEDED", "FAILED"}, Return(status, FALSE, "none"),
             UNCHANGED <<remote, faults>>
      PROVE  \E s \in Statuses, t \in BOOLEAN, e \in Errors : LaunchReturns(w, c, s, t, e)
  <2>1. LaunchReturns(w, c, status, FALSE, "none") /\ status \in Statuses /\ "none" \in Errors
    BY <1>3 DEF LaunchReturns, Return, Statuses, FinalStatuses, Errors
  <2> QED
    BY <2>1
<1>4. ASSUME NEW err \in {"transient", "fatal"}, Return("STARTING", FALSE, err),
             UNCHANGED <<remote, faults>> \/ (Fault("orphan") /\ CreateRemote)
      PROVE  \E s \in Statuses, t \in BOOLEAN, e \in Errors : LaunchReturns(w, c, s, t, e)
  <2>1. LaunchReturns(w, c, "STARTING", FALSE, err) /\ "STARTING" \in Statuses /\ err \in Errors
    BY <1>4 DEF LaunchReturns, Return, Statuses, Errors, Fault
  <2> QED
    BY <2>1
<1> QED
  BY <1>1, <1>2, <1>3, <1>4

\* A worker that launches handles a start task, and has no remote task yet.
LEMMA LauncherFacts ==
    ASSUME EngineInv, NEW w \in Workers, NEW c, c = workers[w], c.pc \in {"launch", "rpc"}
    PROVE  /\ c \in WorkerRecords /\ WorkerOK(c) /\ c.kind = "start" /\ CopyOK(c)
           /\ StarterOK(c) /\ LaunchOK(c) /\ c.id \in InvIDs /\ remote[c.id] = "none"
           /\ c.status = "STARTING" /\ c.saved.status = "STARTING" /\ ~c.timer
<1>1. c \in WorkerRecords /\ WorkerOK(c)
  BY WorkerTypes DEF EngineInv, WorkersOK
<1>2. c.kind = "start"
  BY <1>1, WorkerFields DEF WorkerOK, CallbackOK
<1>3. CopyOK(c) /\ StarterOK(c)
  BY <1>1, <1>2 DEF WorkerOK
<1>4. LaunchOK(c) /\ c.id \in InvIDs
  BY <1>3 DEF StarterOK, CopyOK
<1> QED
  BY <1>1, <1>2, <1>3, <1>4 DEF LaunchOK

\* LaunchTask returns.
LEMMA LaunchStep ==
    ASSUME EngineInv, NEW w \in Workers, LaunchTask(w)
    PROVE  EngineInv' /\ Onward /\ Refines
<1>1. PICK c : c = workers[w]
  OBVIOUS
<1>2. c.pc \in {"launch", "rpc"} /\ UNCHANGED <<jobVars, invs, timerQ, msgs>>
  BY <1>1 DEF LaunchTask
<1>3. /\ c \in WorkerRecords /\ WorkerOK(c) /\ c.kind = "start" /\ CopyOK(c)
      /\ StarterOK(c) /\ LaunchOK(c) /\ c.id \in InvIDs /\ remote[c.id] = "none"
      /\ c.saved.status = "STARTING"
  BY <1>1, <1>2, LauncherFacts
<1>4. PICK status \in Statuses, timer \in BOOLEAN, err \in Errors :
        LaunchReturns(w, c, status, timer, err)
  BY <1>1, LaunchCases
<1>5. PICK d : d = Launched(c, status, timer, err)
  OBVIOUS
<1>6. /\ d \in WorkerRecords /\ d.pc = "save" /\ d.kind = c.kind /\ d.task = c.task
      /\ d.id = c.id /\ d.saved = c.saved /\ d.timer = timer
      /\ d.status = (IF status = "STARTING" THEN "FAILED" ELSE status)
      /\ d.err = err \/ (d.err = "fatal" /\ err = "transient")
  BY <1>3, <1>5, LaunchedFields
<1>7. workers' = [workers EXCEPT ![w] = d] /\ workers' \in [Workers -> WorkerRecords]
      /\ faults \subseteq faults'
  BY <1>4, <1>5, <1>6 DEF LaunchReturns, EngineInv, EngineTypesOK
<1>8. /\ UNCHANGED <<job, startQ, invs, lastInv>> /\ InvIDs' = InvIDs
  BY <1>2 DEF jobVars, InvIDs
<1>9. ASSUME timer => remote'[c.id] # "none",
             err # "none" /\ "orphan" \notin faults' => remote'[c.id] = "none"
      PROVE  WorkerOK(d)'
  <2>1. CopyOK(d)'
    BY <1>3, <1>6, <1>8 DEF CopyOK, Conflict
  <2>2. remote'[c.id] = "none" /\ Conflict(d)' => ~IsExpectingInvocation(job'.State, c.task.nonce)
    BY <1>3, <1>6, <1>8 DEF LaunchOK, Conflict, Expected
  <2>3. d.status # "STARTING" /\ (d.err = "transient" => d.status = "FAILED")
    BY <1>4, <1>6 DEF LaunchReturns
  <2>4. LaunchOK(d)'
    BY <1>3, <1>6, <1>8, <1>9, <2>2, <2>3 DEF LaunchOK, Expected
  <2>5. StarterOK(d)'
    BY <1>3, <1>6, <1>8, <2>4 DEF StarterOK
  <2> QED
    BY <1>3, <1>6, <2>1, <2>5 DEF WorkerOK
<1>10. CASE remote' = remote
  <2>1. ~timer \/ remote'[c.id] # "none"
    <3>1. timer => remote' = [remote EXCEPT ![c.id] = "pending"]
      BY <1>4 DEF LaunchReturns
    <3>2. remote \in Seq(RemoteStates) /\ c.id \in 1..Len(remote)
      BY <1>3 DEF EngineInv, EngineTypesOK, InvIDs
    <3> QED
      BY <3>1, <3>2
  <2>2. WorkerOK(d)'
    BY <1>3, <1>9, <1>10, <2>1
  <2>3. d.task = workers[w].task /\ workers[w].kind = "start"
    BY <1>1, <1>3, <1>6
  <2> QED
    BY <1>2, <1>6, <1>7, <1>10, <2>2, <2>3, SameMessages, StillWorkerStep
<1>11. CASE remote' # remote
  <2>1. remote' = [remote EXCEPT ![c.id] = "pending"] /\ (err # "none" => "orphan" \in faults')
    BY <1>4, <1>11 DEF LaunchReturns
  <2>2. remote[c.id] # "done" /\ "pending" \in {"pending", "running", "done"} /\ msgs' \subseteq Messages
    BY <1>2, <1>3 DEF EngineInv, EngineTypesOK
  <2>3. /\ remote'[c.id] = "pending" /\ \A i \in InvIDs \ {c.id} : remote'[i] = remote[i]
        /\ JobOK' /\ StartTasksOK' /\ EngineTypesOK' /\ AttemptsOK'
        /\ JobAndInvocationAgree' /\ OneAttemptAtATime' /\ Onward
        /\ InvIDs' = InvIDs /\ startQ' = startQ /\ job' = job
    BY <1>2, <1>3, <1>7, <2>1, <2>2, RemoteChange
  <2>4. WorkerOK(d)'
    BY <1>9, <2>1, <2>3
  <2>5. DeliveriesOK' /\ DoneMessageNotLost'
    BY <1>2, <1>3, <1>7, <2>3 DEF EngineInv, DeliveriesOK, DoneMessageNotLost
  <2>6. ASSUME NEW v \in Workers \ {w} PROVE Undisturbed(workers[v])
    <3>1. PICK a : a = workers[v]
      OBVIOUS
    <3>2. WorkerOK(a) /\ (a.kind = "start" => a.task \in startQ')
          /\ (a.kind = "start" /\ a.pc # "respond" => a.id # c.id)
      BY <1>1, <1>2, <1>3, <2>3, <3>1, LeasedTasks, DistinctIDs DEF EngineInv, WorkersOK
    <3>3. a.kind = "start" /\ a.pc # "respond" => a.id \in InvIDs
      BY <3>2 DEF WorkerOK, StarterOK, CopyOK
    <3>4. Undisturbed(a)
      BY <1>8, <2>3, <3>2, <3>3 DEF Undisturbed
    <3> QED
      BY <3>1, <3>4
  <2>7. WorkersOK'
    <3>1. d.task = workers[w].task /\ workers[w].kind = "start"
      BY <1>1, <1>3, <1>6
    <3> QED
      BY <1>7, <2>3, <2>4, <2>6, <3>1, OtherWorkers DEF EngineInv
  <2> QED
    BY <1>2, <2>3, <2>5, <2>7 DEF EngineInv, Refines
<1> QED
  BY <1>10, <1>11

-----------------------------------------------------------------------------
(* saveImpl: the table of invocations and the job change together.         *)

Written(tbl, id, s, n) == [tbl EXCEPT ![id].status = s, ![id].MutationsCount = n]

\* One entity of the table is written.
LEMMA WriteEntity ==
    ASSUME NEW tbl \in Seq(Invocations), NEW id \in 1..Len(tbl), NEW s \in Statuses, NEW n \in Nat
    PROVE  LET new == Written(tbl, id, s, n) IN
           /\ new \in Seq(Invocations) /\ Len(new) = Len(tbl)
           /\ new[id].status = s /\ new[id].MutationsCount = n
           /\ new[id].nonce = tbl[id].nonce /\ new[id].retry = tbl[id].retry
           /\ \A i \in 1..Len(tbl) : i # id => new[i] = tbl[i]
<1>1. PICK a : a = [tbl[id] EXCEPT !.status = s, !.MutationsCount = n]
  OBVIOUS
<1>2. tbl[id] \in Invocations
  OBVIOUS
<1>3. /\ a \in Invocations /\ a.status = s /\ a.MutationsCount = n
      /\ a.nonce = tbl[id].nonce /\ a.retry = tbl[id].retry
  BY <1>1, <1>2 DEF Invocations
<1>4. PICK new : new = [tbl EXCEPT ![id] = a]
  OBVIOUS
<1>5. /\ new \in Seq(Invocations) /\ Len(new) = Len(tbl) /\ new[id] = a
      /\ \A i \in 1..Len(tbl) : i # id => new[i] = tbl[i]
  BY <1>3, <1>4
<1>6. new = Written(tbl, id, s, n)
  BY <1>1, <1>4 DEF Written
<1> QED
  BY <1>3, <1>5, <1>6

\* The invocation of a controller that is about to save.
LEMMA SaverFacts ==
    ASSUME EngineInv, NEW w \in Workers, NEW c, c = workers[w], c.pc \in {"launch", "save"}
    PROVE  /\ c \in WorkerRecords /\ WorkerOK(c) /\ CopyOK(c) /\ c.id \in InvIDs
           /\ c.saved.status \in {"STARTING", "RUNNING"}
           /\ c.status = "STARTING" => c.saved.status = "STARTING"
           /\ c.timer => remote[c.id] # "none"
           /\ c.kind \in {"start", "timer", "pubsub", "abort"}
<1>1. c \in WorkerRecords /\ WorkerOK(c)
  BY WorkerTypes DEF EngineInv, WorkersOK
<1>2. CopyOK(c) /\ c.id \in InvIDs /\ c.kind \in {"start", "timer", "pubsub", "abort"}
  BY <1>1, WorkerFields DEF WorkerOK, CopyOK
<1>3. c.saved.status \in {"STARTING", "RUNNING"}
  BY <1>1, <1>2, WorkerFields DEF CopyOK, Final, Statuses
<1>4. (c.status = "STARTING" => c.saved.status = "STARTING") /\ (c.timer => remote[c.id] # "none")
  <2>1. CASE c.kind = "start"
    BY <1>1, <2>1 DEF WorkerOK, StarterOK, LaunchOK
  <2>2. CASE c.kind \in {"timer", "pubsub"}
    BY <1>1, <2>2 DEF WorkerOK, CallbackOK
  <2>3. CASE c.kind = "abort"
    BY <1>1, <2>3 DEF WorkerOK
  <2> QED
    BY <1>2, <2>1, <2>2, <2>3
<1> QED
  BY <1>1, <1>2, <1>3, <1>4

\* A save that succeeds finds the Invocation as the controller has read it, and
\* the job in the state that goes with it.
LEMMA SavedState ==
    ASSUME EngineInv, NEW c \in WorkerRecords, CopyOK(c), ~Conflict(c),
           c.saved.status \in {"STARTING", "RUNNING"}
    PROVE  /\ invs[c.id].status = c.saved.status /\ ~Final(invs[c.id].status)
           /\ invs[c.id].MutationsCount = c.saved.MutationsCount
           /\ js.InvocationID = c.id /\ c.saved.status = "STARTING" => js.State \in Queued
           /\ js.InvocationID = c.id /\ c.saved.status = "RUNNING" => js.State \in Running
           /\ js.InvocationID # c.id => js.InvocationNonce # invs[c.id].nonce
<1>1. /\ c.id \in InvIDs /\ invs[c.id].status = c.saved.status
      /\ invs[c.id].MutationsCount = c.saved.MutationsCount /\ ~Final(c.saved.status)
  BY DEF CopyOK, Conflict
<1>2. c.id # 0
  BY <1>1, InvocationTypes DEF EngineInv
<1>3. js.InvocationID = c.id => js.State \in Queued \cup Running
  BY <1>2 DEF EngineInv, JobOK, Active
<1>4. js.InvocationID = c.id => /\ js.State \in Running => invs[c.id].status = "RUNNING"
                                /\ js.State \in Queued => invs[c.id].status \in {"STARTING", "FAILED"}
  BY <1>2 DEF EngineInv, JobAndInvocationAgree
<1>5. invs[c.id].nonce = js.InvocationNonce => c.id = js.InvocationID
  BY <1>1 DEF EngineInv, AttemptsOK
<1> QED
  BY <1>1, <1>3, <1>4, <1>5

\* What becomes of the table.
LEMMA SaveTable ==
    ASSUME EngineTypesOK, NEW c \in WorkerRecords, c.id \in InvIDs, NEW touchJob,
           SaveEffect(c, touchJob), lastInv' = lastInv
    PROVE  /\ invs' \in Seq(Invocations) /\ Len(invs') = Len(invs)
           /\ invs'[c.id].status = c.status
           /\ invs'[c.id].MutationsCount = c.saved.MutationsCount + 1
           /\ invs'[c.id].nonce = invs[c.id].nonce /\ invs'[c.id].retry = invs[c.id].retry
           /\ \A i \in InvIDs : i # c.id => invs'[i] = invs[i]
<1>1. PICK id, s, n : id = c.id /\ s = c.status /\ n = c.saved.MutationsCount + 1
  OBVIOUS
<1>2. /\ invs \in Seq(Invocations) /\ id \in 1..Len(invs) /\ s \in Statuses /\ n \in Nat
      /\ InvIDs = 1..Len(invs)
  BY <1>1, WorkerFields DEF EngineTypesOK, InvIDs
<1> DEFINE new == Written(invs, id, s, n)
<1>3. /\ new \in Seq(Invocations) /\ Len(new) = Len(invs)
      /\ new[id].status = s /\ new[id].MutationsCount = n
      /\ new[id].nonce = invs[id].nonce /\ new[id].retry = invs[id].retry
      /\ \A i \in 1..Len(invs) : i # id => new[i] = invs[i]
  BY <1>2, WriteEntity
<1>4. invs' = new
  BY <1>1 DEF SaveEffect, Written
<1> HIDE DEF new
<1> QED
  BY <1>1, <1>2, <1>3, <1>4

\* What becomes of the timers.
LEMMA SaveTimers ==
    ASSUME EngineTypesOK, NEW c \in WorkerRecords, NEW touchJob, SaveEffect(c, touchJob)
    PROVE  timerQ' \subseteq TimerTasks /\ (\A t \in timerQ' : t \in timerQ \/ (c.timer /\ t.inv = c.id))
<1>1. PICK t : t = [inv |-> c.id, seq |-> c.saved.MutationsCount + 1]
  OBVIOUS
<1>2. t \in TimerTasks /\ t.inv = c.id
  BY <1>1, WorkerFields DEF TimerTasks
<1>3. timerQ' = timerQ \/ (c.timer /\ timerQ' = timerQ \cup {t})
  BY <1>1 DEF SaveEffect
<1> QED
  BY <1>2, <1>3 DEF EngineTypesOK

\* The attempts and the job go on agreeing.  A controller that changes the status
\* of its Invocation and tells the job leaves no job that expects to start it.
LEMMA SaveAgrees ==
    ASSUME JobOK, JobOK', AttemptsOK, JobAndInvocationAgree, OneAttemptAtATime,
           NEW c, NEW touchJob \in BOOLEAN, SaveMoves(c, touchJob), lastInv' = lastInv,
           ~touchJob => c.saved.status = "STARTING" /\ c.status = "FAILED",
           c.id \in InvIDs, invs[c.id].status = c.saved.status, ~Final(invs[c.id].status),
           js.InvocationID = c.id /\ c.saved.status = "STARTING" => js.State \in Queued,
           js.InvocationID # c.id => js.InvocationNonce # invs[c.id].nonce,
           invs'[c.id].status = c.status, invs'[c.id].nonce = invs[c.id].nonce,
           invs'[c.id].retry = invs[c.id].retry,
           \A i \in InvIDs : i # c.id => invs'[i] = invs[i]
    PROVE  /\ AttemptsOK' /\ JobAndInvocationAgree' /\ OneAttemptAtATime'
           /\ \A v \in 1..nonce : IsExpectingInvocation(job'.State, v) => Expected(v)
           /\ touchJob /\ c.status # c.saved.status =>
                ~IsExpectingInvocation(job'.State, invs[c.id].nonce)
<1>1. /\ js.InvocationNonce \in Nat /\ js'.InvocationNonce \in Nat /\ js'.InvocationID \in Nat
      /\ nonce \in Nat /\ nonce' \in Nat /\ nonce <= nonce' /\ lastInv \in Nat
      /\ InvIDs' = InvIDs /\ js = job.State /\ js' = job'.State
  BY DEF JobOK, JobTypeOK, Jobs, JobStates, js, SaveMoves, InvIDs
<1>2. \A i \in InvIDs : /\ invs'[i].nonce = invs[i].nonce /\ invs'[i].retry = invs[i].retry
                        /\ Final(invs[i].status) => invs'[i] = invs[i]
  OBVIOUS
<1>3. OneAttemptAtATime'
  BY <1>1, <1>2 DEF OneAttemptAtATime
<1>4. \A i \in InvIDs : invs'[i].nonce \in 1..nonce'
  BY <1>1, <1>2 DEF AttemptsOK
<1>5. \A i, k \in InvIDs : invs'[i].nonce = invs'[k].nonce /\ i < k =>
         invs'[i].retry < invs'[k].retry /\ invs'[i].retry < InvocationRetryLimit
  BY <1>2 DEF AttemptsOK
<1>6. ASSUME js'.InvocationID = js.InvocationID, js'.InvocationNonce = js.InvocationNonce,
             js'.InvocationRetryCount = js.InvocationRetryCount
      PROVE  AttemptsOK'
  <2>1. js'.InvocationID \in 0..lastInv
    BY <1>6 DEF AttemptsOK
  <2>2. ASSUME NEW i \in InvIDs, invs'[i].nonce = js'.InvocationNonce
        PROVE  /\ js'.InvocationID # 0 /\ invs'[i].retry <= js'.InvocationRetryCount
               /\ invs'[i].retry < InvocationRetryLimit
               /\ ~Final(invs'[i].status) => i = js'.InvocationID
    <3>1. /\ js.InvocationID # 0 /\ invs[i].retry <= js.InvocationRetryCount
          /\ invs[i].retry < InvocationRetryLimit
          /\ ~Final(invs[i].status) => i = js.InvocationID
      BY <1>2, <1>6, <2>2 DEF AttemptsOK
    <3> QED
      BY <1>2, <1>6, <3>1
  <2> QED
    BY <1>1, <1>4, <1>5, <2>1, <2>2 DEF AttemptsOK
<1>7. CASE js' = js /\ (js.InvocationID # c.id \/ ~touchJob \/ c.status = c.saved.status)
  <2>1. JobAndInvocationAgree'
    <3>1. CASE js.InvocationID = 0 \/ js.InvocationID # c.id
      <4>1. js.InvocationID # 0 => js.InvocationID \in InvIDs
        BY <1>1 DEF AttemptsOK, InvIDs
      <4> QED
        BY <1>7, <3>1, <4>1 DEF JobAndInvocationAgree
    <3>2. CASE js.InvocationID = c.id /\ c.status = c.saved.status
      BY <1>7, <3>2 DEF JobAndInvocationAgree
    <3>3. CASE js.InvocationID = c.id /\ ~touchJob
      BY <1>7, <3>3 DEF JobAndInvocationAgree, Queued, Running
    <3> QED
      BY <1>7, <3>1, <3>2, <3>3
  <2>2. \A v : IsExpectingInvocation(job'.State, v) => Expected(v)
    BY <1>1, <1>7 DEF Expected
  <2>3. touchJob /\ c.status # c.saved.status => ~IsExpectingInvocation(job'.State, invs[c.id].nonce)
    BY <1>1, <1>7 DEF IsExpectingInvocation
  <2> QED
    BY <1>3, <1>6, <1>7, <2>1, <2>2, <2>3
<1>8. CASE /\ js.InvocationID = c.id /\ c.status = "RUNNING"
           /\ js'.State \in Running /\ js'.InvocationID = js.InvocationID
           /\ js'.InvocationNonce = js.InvocationNonce
           /\ js'.InvocationRetryCount = js.InvocationRetryCount
  <2>1. \A v : ~IsExpectingInvocation(job'.State, v) /\ js'.State \notin Queued
    BY <1>1, <1>8 DEF IsExpectingInvocation, Queued, Running
  <2>2. JobAndInvocationAgree'
    BY <1>8, <2>1 DEF JobAndInvocationAgree
  <2> QED
    BY <1>3, <1>6, <1>8, <2>1, <2>2
<1>9. CASE NoInvocation(js')
  <2>1. js'.State \notin Active /\ js'.InvocationID = 0 /\ js'.InvocationNonce = 0
    BY <1>9 DEF NoInvocation, JobOK
  <2>2. \A v : ~IsExpectingInvocation(job'.State, v)
    BY <1>1, <2>1 DEF IsExpectingInvocation, Active
  <2>3. \A i \in InvIDs : invs'[i].nonce # js'.InvocationNonce
    BY <1>1, <1>4, <2>1
  <2>4. AttemptsOK'
    BY <1>1, <1>4, <1>5, <2>1, <2>3 DEF AttemptsOK
  <2>5. JobAndInvocationAgree'
    BY <2>1 DEF JobAndInvocationAgree
  <2> QED
    BY <1>3, <2>2, <2>4, <2>5
<1> QED
  BY <1>7, <1>8, <1>9 DEF SaveMoves

\* What the controller that has saved may rely on.
SaveKnows(c, touchJob) ==
    /\ Onward /\ InvIDs' = InvIDs /\ startQ' = startQ
    /\ invs'[c.id].status = c.status /\ invs'[c.id].nonce = invs[c.id].nonce
    /\ invs'[c.id].MutationsCount = c.saved.MutationsCount + 1
    /\ touchJob /\ c.status # c.saved.status =>
         ~IsExpectingInvocation(job'.State, invs[c.id].nonce)

\* A save that succeeds, all but the workers.
LEMMA SaveBase ==
    ASSUME EngineInv, NEW w \in Workers, NEW c, c = workers[w], c.pc \in {"launch", "save"},
           NEW touchJob \in BOOLEAN,
           ~touchJob => c.saved.status = "STARTING" /\ c.status = "FAILED",
           ~Conflict(c), SaveEffect(c, touchJob),
           UNCHANGED <<faults, now, lastInv, overrunInvs, overrunsLost, msgs, remote>>,
           workers' \in [Workers -> WorkerRecords]
    PROVE  /\ JobOK' /\ EngineTypesOK' /\ StartTasksOK' /\ AttemptsOK' /\ JobAndInvocationAgree'
           /\ OneAttemptAtATime' /\ DeliveriesOK' /\ DoneMessageNotLost' /\ Refines
           /\ SaveKnows(c, touchJob) /\ \A i \in InvIDs : i # c.id => invs'[i] = invs[i]
<1>1. /\ c \in WorkerRecords /\ CopyOK(c) /\ c.id \in InvIDs
      /\ c.saved.status \in {"STARTING", "RUNNING"}
      /\ c.status = "STARTING" => c.saved.status = "STARTING"
      /\ c.timer => remote[c.id] # "none"
  BY SaverFacts
<1>2. /\ invs[c.id].status = c.saved.status /\ ~Final(invs[c.id].status)
      /\ invs[c.id].MutationsCount = c.saved.MutationsCount
      /\ js.InvocationID = c.id /\ c.saved.status = "STARTING" => js.State \in Queued
      /\ js.InvocationID = c.id /\ c.saved.status = "RUNNING" => js.State \in Running
      /\ js.InvocationID # c.id => js.InvocationNonce # invs[c.id].nonce
  BY <1>1, SavedState
<1>3. c.id # 0 /\ c.status \in Statuses /\ c.saved.MutationsCount \in Nat
  BY <1>1, InvocationTypes, WorkerFields DEF EngineInv
<1>4. JobOK' /\ SaveMoves(c, touchJob) /\ (UNCHANGED jobVars \/ InvocationNext)
  BY <1>1, <1>2, <1>3, SaveRolls DEF EngineInv
<1>5. /\ invs' \in Seq(Invocations) /\ Len(invs') = Len(invs)
      /\ invs'[c.id].status = c.status
      /\ invs'[c.id].MutationsCount = c.saved.MutationsCount + 1
      /\ invs'[c.id].nonce = invs[c.id].nonce /\ invs'[c.id].retry = invs[c.id].retry
      /\ \A i \in InvIDs : i # c.id => invs'[i] = invs[i]
  BY <1>1, SaveTable DEF EngineInv
<1>6. timerQ' \subseteq TimerTasks /\ (\A t \in timerQ' : t \in timerQ \/ (c.timer /\ t.inv = c.id))
  BY <1>1, SaveTimers DEF EngineInv
<1>7. /\ AttemptsOK' /\ JobAndInvocationAgree' /\ OneAttemptAtATime'
      /\ \A v \in 1..nonce : IsExpectingInvocation(job'.State, v) => Expected(v)
      /\ touchJob /\ c.status # c.saved.status =>
           ~IsExpectingInvocation(job'.State, invs[c.id].nonce)
  BY <1>1, <1>2, <1>4, <1>5, SaveAgrees DEF EngineInv
<1>8. EngineTypesOK'
  BY <1>5, <1>6 DEF EngineInv, EngineTypesOK
<1>9. InvIDs' = InvIDs /\ startQ' = startQ
  BY <1>4 DEF InvIDs, SaveMoves
<1>10. StartTasksOK'
  <2>1. nonce \in Nat /\ nonce' \in Nat /\ nonce <= nonce'
    BY <1>4 DEF EngineInv, JobOK, JobTypeOK, SaveMoves
  <2>2. \A t \in startQ : t.nonce \in 1..nonce'
    BY <2>1 DEF EngineInv, StartTasksOK
  <2> QED
    BY <1>9, <2>2 DEF EngineInv, StartTasksOK
<1>11. DeliveriesOK'
  BY <1>1, <1>6, <1>9 DEF EngineInv, DeliveriesOK
<1>12. \A i \in InvIDs : Final(invs[i].status) => invs'[i] = invs[i]
  BY <1>2, <1>5
<1>13. DoneMessageNotLost'
  BY <1>9, <1>12 DEF EngineInv, DoneMessageNotLost
<1>14. Onward
  <2>1. \A i \in InvIDs : /\ invs'[i].nonce = invs[i].nonce /\ invs'[i].retry = invs[i].retry
                          /\ invs[i].MutationsCount <= invs'[i].MutationsCount
                          /\ invs'[i].MutationsCount = invs[i].MutationsCount => invs'[i] = invs[i]
    <3>1. \A i \in InvIDs : invs[i].MutationsCount \in Nat
      BY InvocationTypes DEF EngineInv
    <3> QED
      BY <1>2, <1>3, <1>5, <3>1
  <2>2. lastInv <= lastInv'
    BY DEF EngineInv, JobOK, JobTypeOK
  <2> QED
    BY <1>7, <1>12, <2>1, <2>2 DEF Onward
<1>15. Refines
  BY <1>4 DEF Refines, JobNext
<1> QED
  BY <1>4, <1>5, <1>7, <1>8, <1>9, <1>10, <1>11, <1>13, <1>14, <1>15 DEF SaveKnows

\* A save that succeeds.
LEMMA SaveSucceeds ==
    ASSUME EngineInv, NEW w \in Workers, NEW c, c = workers[w], c.pc \in {"launch", "save"},
           NEW touchJob \in BOOLEAN,
           ~touchJob => c.kind = "start" /\ c.saved.status = "STARTING" /\ c.status = "FAILED",
           ~Conflict(c), SaveEffect(c, touchJob),
           UNCHANGED <<faults, now, lastInv, overrunInvs, overrunsLost, msgs, remote>>,
           NEW d \in WorkerRecords, workers' = [workers EXCEPT ![w] = d],
           d.kind # "start" \/ (d.task = c.task /\ c.kind = "start"),
           SaveKnows(c, touchJob) => WorkerOK(d)'
    PROVE  EngineInv' /\ Onward /\ Refines
<1>1. workers' \in [Workers -> WorkerRecords]
  BY DEF EngineInv, EngineTypesOK
<1>2. /\ JobOK' /\ EngineTypesOK' /\ StartTasksOK' /\ AttemptsOK' /\ JobAndInvocationAgree'
      /\ OneAttemptAtATime' /\ DeliveriesOK' /\ DoneMessageNotLost' /\ Refines
      /\ SaveKnows(c, touchJob) /\ \A i \in InvIDs : i # c.id => invs'[i] = invs[i]
  BY <1>1, SaveBase
<1>3. WorkerOK(c) /\ CopyOK(c) /\ c.kind \in {"start", "timer", "pubsub", "abort"}
      /\ c.saved.status \in {"STARTING", "RUNNING"}
  BY SaverFacts
<1>4. ASSUME NEW v \in Workers \ {w} PROVE Undisturbed(workers[v])
  <2>1. PICK a : a = workers[v]
    OBVIOUS
  <2>2. WorkerOK(a) /\ (a.kind = "start" => a.task \in startQ')
    BY <1>2, <2>1, LeasedTasks DEF EngineInv, WorkersOK, SaveKnows
  <2>3. ASSUME a.kind = "start", a.pc # "respond", remote[a.id] = "none"
        PROVE  invs'[a.id] = invs[a.id] \/ ~IsExpectingInvocation(job'.State, a.task.nonce)
    <3>1. a.id \in InvIDs /\ invs[a.id].nonce = a.task.nonce
      BY <2>2, <2>3 DEF WorkerOK, StarterOK, CopyOK, LaunchOK
    <3>2. CASE a.id # c.id
      BY <1>2, <3>1, <3>2
    <3>3. CASE a.id = c.id
      <4>1. c.kind # "start"
        BY <2>1, <2>3, <3>3, DistinctIDs
      <4>2. c.kind \notin {"timer", "pubsub"}
        BY <1>3, <2>3, <3>3 DEF WorkerOK, CallbackOK
      <4>3. c.kind = "abort" /\ touchJob /\ c.status # c.saved.status
        BY <1>3, <4>1, <4>2 DEF WorkerOK
      <4> QED
        BY <1>2, <3>1, <3>3, <4>3 DEF SaveKnows
    <3> QED
      BY <3>2, <3>3
  <2>4. Undisturbed(a)
    BY <2>2, <2>3 DEF Undisturbed
  <2> QED
    BY <2>1, <2>4
<1>5. Onward /\ WorkerOK(d)'
  BY <1>2 DEF SaveKnows
<1>6. WorkersOK'
  BY <1>2, <1>4, <1>5, OtherWorkers DEF EngineInv
<1> QED
  BY <1>2, <1>5, <1>6 DEF EngineInv


\* Why a save has failed.
SaveFault(c, saveErr) ==
    /\ Conflict(c) \/ faults' \cap {"save", "fatal"} # {}
    /\ saveErr = "fatal" => "fatal" \in faults'

\* A save that fails changes nothing but the history of faults.
LEMMA SaveFails ==
    ASSUME EngineInv, NEW w \in Workers, NEW c, c = workers[w], NEW touchJob,
           NEW saveErr \in SaveErrors, saveErr # "none", saveImpl(c, touchJob, saveErr),
           NEW d \in WorkerRecords, workers' = [workers EXCEPT ![w] = d],
           d.kind # "start" \/ (d.task = c.task /\ c.kind = "start"),
           (Onward /\ UNCHANGED <<jobVars, invs, remote>> /\ SaveFault(c, saveErr)) => WorkerOK(d)'
    PROVE  EngineInv' /\ Onward /\ Refines
<1>1. /\ UNCHANGED <<job, nonce, tickQ, startQ, overrunQ, invs, timerQ>>
      /\ UNCHANGED <<now, lastInv, overrunInvs, overrunsLost, msgs, remote>>
      /\ faults \subseteq faults' /\ SaveFault(c, saveErr)
  BY DEF saveImpl, Fault, SaveErrors, SaveFault
<1>2. UNCHANGED <<jobVars, invs, remote>>
  BY <1>1 DEF jobVars
<1>3. Onward => WorkerOK(d)'
  BY <1>1, <1>2
<1>4. timerQ' \subseteq timerQ /\ msgs' \subseteq msgs /\ KeepsDoneMessages
  BY <1>1, SameMessages
<1> QED
  BY <1>1, <1>2, <1>3, <1>4, StillWorkerStep

\* The record of a controller that has saved its log before the launch.
LEMMA SavedFields ==
    ASSUME NEW c \in WorkerRecords
    PROVE  LET d == [Saved(c) EXCEPT !.pc = "rpc"] IN
           /\ d \in WorkerRecords /\ d.pc = "rpc" /\ d.kind = c.kind /\ d.task = c.task
           /\ d.id = c.id /\ d.saved.status = c.status /\ d.status = c.status /\ ~d.timer
           /\ d.saved.MutationsCount = c.saved.MutationsCount + 1
<1>1. PICK saved : saved = [status |-> c.status, MutationsCount |-> c.saved.MutationsCount + 1]
  OBVIOUS
<1>2. /\ saved \in [status : Statuses, MutationsCount : Nat] /\ saved.status = c.status
      /\ saved.MutationsCount = c.saved.MutationsCount + 1
  BY <1>1, WorkerFields
<1>3. PICK a : a = [c EXCEPT !.saved = saved, !.timer = FALSE]
  OBVIOUS
<1>4. /\ a \in WorkerRecords /\ a.kind = c.kind /\ a.task = c.task
      /\ a.id = c.id /\ a.saved = saved /\ a.status = c.status /\ a.timer = FALSE
  BY <1>2, <1>3 DEF WorkerRecords
<1>5. PICK d : d = [a EXCEPT !.pc = "rpc"]
  OBVIOUS
<1>6. /\ d \in WorkerRecords /\ d.pc = "rpc" /\ d.kind = c.kind /\ d.task = c.task
      /\ d.id = c.id /\ d.saved = saved /\ d.status = c.status /\ d.timer = FALSE
  BY <1>4, <1>5 DEF WorkerRecords
<1>7. d = [Saved(c) EXCEPT !.pc = "rpc"]
  BY <1>1, <1>3, <1>5 DEF Saved
<1> QED
  BY <1>2, <1>6, <1>7

\* LaunchTask dumps its log.
LEMMA SaveLogStep ==
    ASSUME EngineInv, NEW w \in Workers, LaunchSaveLog(w)
    PROVE  EngineInv' /\ Onward /\ Refines
<1>1. PICK c : c = workers[w]
  OBVIOUS
<1>2. c.pc = "launch"
  BY <1>1 DEF LaunchSaveLog
<1>3. PICK saveErr \in SaveErrors :
        /\ saveImpl(c, TRUE, saveErr)
        /\ workers' = [workers EXCEPT ![w] =
               [(IF saveErr = "none" THEN Saved(c) ELSE c) EXCEPT !.pc = "rpc"]]
  BY <1>1 DEF LaunchSaveLog
<1>4. /\ c \in WorkerRecords /\ WorkerOK(c) /\ c.kind = "start" /\ CopyOK(c)
      /\ StarterOK(c) /\ LaunchOK(c) /\ c.id \in InvIDs /\ remote[c.id] = "none"
      /\ c.status = "STARTING" /\ c.saved.status = "STARTING" /\ ~c.timer
  BY <1>1, <1>2, LauncherFacts
<1>5. CASE saveErr = "none"
  <2>1. PICK d : d = [Saved(c) EXCEPT !.pc = "rpc"]
    OBVIOUS
  <2>2. workers' = [workers EXCEPT ![w] = d]
    BY <1>3, <1>5, <2>1
  <2>3. /\ d \in WorkerRecords /\ d.pc = "rpc" /\ d.kind = c.kind /\ d.task = c.task
        /\ d.id = c.id /\ d.saved.status = c.status /\ d.status = c.status /\ ~d.timer
        /\ d.saved.MutationsCount = c.saved.MutationsCount + 1
    BY <1>4, <2>1, SavedFields
  <2>4. /\ ~Conflict(c) /\ SaveEffect(c, TRUE)
        /\ UNCHANGED <<faults, now, lastInv, overrunInvs, overrunsLost, msgs, remote>>
    BY <1>3, <1>5 DEF saveImpl
  <2>5. ASSUME SaveKnows(c, TRUE) PROVE WorkerOK(d)'
    <3>1. c.saved.MutationsCount + 1 \in Nat
      BY <1>4, WorkerFields
    <3>2. CopyOK(d)' /\ ~Conflict(d)'
      BY <1>4, <2>3, <2>5, <3>1 DEF CopyOK, Conflict, SaveKnows, Final, FinalStatuses
    <3>3. LaunchOK(d)'
      BY <1>4, <2>3, <2>4, <2>5, <3>2 DEF LaunchOK, SaveKnows
    <3>4. StarterOK(d)'
      BY <1>4, <2>3, <2>5, <3>3 DEF StarterOK, SaveKnows
    <3> QED
      BY <1>4, <2>3, <3>2, <3>4 DEF WorkerOK
  <2>6. c.pc \in {"launch", "save"} /\ TRUE \in BOOLEAN /\ (d.task = c.task /\ c.kind = "start")
    BY <1>2, <1>4, <2>3
  <2> QED
    BY <1>1, <2>2, <2>3, <2>4, <2>5, <2>6, SaveSucceeds
<1>6. CASE saveErr # "none"
  <2>1. PICK d : d = [c EXCEPT !.pc = "rpc"]
    OBVIOUS
  <2>2. workers' = [workers EXCEPT ![w] = d]
    BY <1>3, <1>6, <2>1
  <2>3. /\ d \in WorkerRecords /\ d.pc = "rpc" /\ d.kind = c.kind /\ d.task = c.task
        /\ d.id = c.id /\ d.saved = c.saved /\ d.status = c.status /\ d.timer = c.timer
    BY <1>4, <2>1 DEF WorkerRecords
  <2>4. ASSUME Onward, UNCHANGED <<jobVars, invs, remote>>
        PROVE  WorkerOK(d)'
    <3>1. InvIDs' = InvIDs /\ startQ' = startQ /\ job' = job /\ invs' = invs /\ remote' = remote
      BY <2>4 DEF InvIDs, jobVars
    <3>2. CopyOK(d)'
      BY <1>4, <2>3, <3>1 DEF CopyOK, Conflict
    <3>3. LaunchOK(d)'
      BY <1>4, <2>3, <3>1 DEF LaunchOK, Conflict, Expected
    <3>4. StarterOK(d)'
      BY <1>4, <2>3, <3>1, <3>3 DEF StarterOK
    <3> QED
      BY <1>4, <2>3, <3>2, <3>4 DEF WorkerOK
  <2>5. saveImpl(c, TRUE, saveErr) /\ (d.task = c.task /\ c.kind = "start")
    BY <1>3, <1>4, <2>3
  <2> QED
    BY <1>1, <1>6, <2>2, <2>3, <2>4, <2>5, SaveFails
<1> QED
  BY <1>5, <1>6

\* The end of an abort.
LEMMA SaveAbortedStep ==
    ASSUME EngineInv, NEW w \in Workers, SaveAborted(w)
    PROVE  EngineInv' /\ Onward /\ Refines
<1>1. PICK c : c = workers[w]
  OBVIOUS
<1>2. c.pc = "save" /\ c.kind = "abort" /\ workers' = [workers EXCEPT ![w] = IdleWorker]
  BY <1>1 DEF SaveAborted, Finish
<1>3. PICK saveErr \in SaveErrors : saveImpl(c, TRUE, saveErr)
  BY <1>1 DEF SaveAborted
<1>4. CASE saveErr = "none"
  <2>1. /\ ~Conflict(c) /\ SaveEffect(c, TRUE) /\ c.pc \in {"launch", "save"} /\ TRUE \in BOOLEAN
        /\ UNCHANGED <<faults, now, lastInv, overrunInvs, overrunsLost, msgs, remote>>
    BY <1>2, <1>3, <1>4 DEF saveImpl
  <2> QED
    BY <1>1, <1>2, <2>1, IdleOK, SaveSucceeds
<1>5. CASE saveErr # "none"
  BY <1>1, <1>2, <1>3, <1>5, IdleOK, SaveFails
<1> QED
  BY <1>4, <1>5

\* The save of a callback.  A message that the task is done is answered without
\* error only when the invocation is final.
LEMMA SaveCallbackStep ==
    ASSUME EngineInv, NEW w \in Workers, SaveCallback(w)
    PROVE  EngineInv' /\ Onward /\ Refines
<1>1. PICK c : c = workers[w]
  OBVIOUS
<1>2. c.pc = "save" /\ c.kind \in {"timer", "pubsub"} /\ c \in WorkerRecords /\ WorkerOK(c)
  BY <1>1, WorkerTypes DEF SaveCallback, EngineInv, WorkersOK
<1>3. PICK saveErr \in SaveErrors : saveImpl(c, TRUE, saveErr)
                                    /\ workers' = [workers EXCEPT ![w] = Response(c, c.err, saveErr)]
  BY <1>1 DEF SaveCallback
<1>4. PICK d : d = Response(c, c.err, saveErr)
  OBVIOUS
<1>5. /\ d \in WorkerRecords /\ d.pc = "respond" /\ d.kind = c.kind /\ d.task = c.task
      /\ d.err = c.err /\ d.saveErr = saveErr
  BY <1>2, <1>4, ResponseFields, WorkerFields
<1>6. workers' = [workers EXCEPT ![w] = d] /\ d.kind # "start"
  BY <1>2, <1>3, <1>4, <1>5
<1>7. CallbackOK(c) /\ c.task.inv \in InvIDs /\ remote[c.task.inv] # "none" /\ c.id = c.task.inv
  BY <1>2 DEF WorkerOK, CallbackOK
<1>8. ASSUME Onward, InvIDs' = InvIDs,
             \/ saveErr = "transient" \/ "fatal" \in faults'
             \/ invs'[c.id].status = c.status
      PROVE  WorkerOK(d)'
  <2>1. /\ remote'[c.task.inv] # "none"
        /\ remote[c.task.inv] = "done" => remote'[c.task.inv] = "done"
    BY <1>7, <1>8 DEF Onward
  <2>2. c.kind = "pubsub" /\ c.task.event = "done" =>
          \/ NotificationResult(d) = "transient"
          \/ Final(invs'[c.task.inv].status) \/ "fatal" \in faults'
    BY <1>2, <1>5, <1>7, <1>8 DEF CallbackOK, NotificationResult
  <2>3. CallbackOK(d)'
    BY <1>2, <1>5, <1>7, <1>8, <2>1, <2>2 DEF CallbackOK, NotificationResult
  <2> QED
    BY <1>2, <1>5, <2>3 DEF WorkerOK
<1>9. CASE saveErr = "none"
  <2>1. /\ ~Conflict(c) /\ SaveEffect(c, TRUE) /\ c.pc \in {"launch", "save"} /\ TRUE \in BOOLEAN
        /\ UNCHANGED <<faults, now, lastInv, overrunInvs, overrunsLost, msgs, remote>>
    BY <1>2, <1>3, <1>9 DEF saveImpl
  <2>2. SaveKnows(c, TRUE) => WorkerOK(d)'
    BY <1>8 DEF SaveKnows
  <2> QED
    BY <1>1, <1>5, <1>6, <2>1, <2>2, SaveSucceeds
<1>10. CASE saveErr # "none"
  <2>1. Onward /\ UNCHANGED <<jobVars, invs, remote>> /\ SaveFault(c, saveErr) => WorkerOK(d)'
    BY <1>8, <1>10 DEF jobVars, InvIDs, SaveFault, SaveErrors
  <2>2. saveImpl(c, TRUE, saveErr)
    BY <1>3
  <2>3. d.kind # "start" \/ (d.task = c.task /\ c.kind = "start")
    BY <1>6
  <2> QED
    BY <1>1, <1>5, <1>6, <1>10, <2>1, <2>2, <2>3, SaveFails
<1> QED
  BY <1>9, <1>10

\* The save of a launch.  One that fails is reported, unless LaunchTask has
\* failed for good.  That, or a fatal error of the save, leaves the job waiting
\* for a task that is dropped.
LEMMA SaveLaunchedStep ==
    ASSUME EngineInv, NEW w \in Workers, SaveLaunched(w)
    PROVE  EngineInv' /\ Onward /\ Refines
<1>1. PICK c : c = workers[w]
  OBVIOUS
<1>2. c.pc = "save" /\ c.kind = "start" /\ c \in WorkerRecords /\ WorkerOK(c)
  BY <1>1, WorkerTypes DEF SaveLaunched, EngineInv, WorkersOK
<1>3. PICK saveErr \in SaveErrors :
        /\ saveImpl(c, c.err # "transient", saveErr)
        /\ workers' = [workers EXCEPT ![w] =
               Response(c, IF c.err = "none" THEN saveErr ELSE c.err, "none")]
  BY <1>1 DEF SaveLaunched
<1>4. PICK err : err = IF c.err = "none" THEN saveErr ELSE c.err
  OBVIOUS
<1>5. /\ err \in Errors /\ "none" \in SaveErrors
      /\ err # "transient" => \/ c.err = "fatal"
                              \/ c.err = "none" /\ saveErr \in {"none", "fatal"}
  BY <1>2, <1>4, WorkerFields DEF Errors, SaveErrors
<1>6. PICK d : d = Response(c, err, "none")
  OBVIOUS
<1>7. /\ d \in WorkerRecords /\ d.pc = "respond" /\ d.kind = c.kind /\ d.task = c.task
      /\ d.err = err
  BY <1>2, <1>5, <1>6, ResponseFields
<1>8. workers' = [workers EXCEPT ![w] = d]
  BY <1>3, <1>4, <1>6
<1>9. /\ CopyOK(c) /\ c.id \in InvIDs /\ StarterOK(c) /\ LaunchOK(c)
      /\ invs[c.id].nonce = c.task.nonce /\ c.saved.status = "STARTING"
      /\ c.status # "STARTING" /\ (c.err = "transient" => c.status = "FAILED")
      /\ c.err # "none" /\ "orphan" \notin faults => remote[c.id] = "none"
      /\ remote[c.id] = "none" /\ Conflict(c) => ~Expected(c.task.nonce)
  BY <1>2 DEF WorkerOK, StarterOK, LaunchOK, CopyOK
<1>10. ASSUME startQ' = startQ,
              err # "transient" /\ faults' \cap {"save", "orphan", "fatal"} = {} =>
                ~IsExpectingInvocation(job'.State, c.task.nonce)
       PROVE  WorkerOK(d)'
  <2>1. StarterOK(d)'
    BY <1>2, <1>7, <1>9, <1>10 DEF StarterOK, Expected
  <2> QED
    BY <1>2, <1>7, <2>1 DEF WorkerOK
<1>11. CASE saveErr = "none"
  <2>1. PICK touchJob : touchJob = (c.err # "transient")
    OBVIOUS
  <2>2. /\ ~Conflict(c) /\ SaveEffect(c, touchJob) /\ c.pc \in {"launch", "save"}
        /\ touchJob \in BOOLEAN
        /\ UNCHANGED <<faults, now, lastInv, overrunInvs, overrunsLost, msgs, remote>>
    BY <1>2, <1>3, <1>11, <2>1 DEF saveImpl
  <2>3. ~touchJob => c.kind = "start" /\ c.saved.status = "STARTING" /\ c.status = "FAILED"
    BY <1>2, <1>9, <2>1
  <2>4. SaveKnows(c, touchJob) => WorkerOK(d)'
    BY <1>5, <1>9, <1>10, <2>1 DEF SaveKnows
  <2> QED
    BY <1>1, <1>2, <1>7, <1>8, <2>2, <2>3, <2>4, SaveSucceeds
<1>12. CASE saveErr # "none"
  <2>1. PICK touchJob : touchJob = (c.err # "transient")
    OBVIOUS
  <2>2. saveImpl(c, touchJob, saveErr)
    BY <1>3, <2>1
  <2>3. ASSUME Onward, UNCHANGED <<jobVars, invs, remote>>, SaveFault(c, saveErr)
        PROVE  WorkerOK(d)'
    <3>1. startQ' = startQ /\ job' = job /\ faults \subseteq faults'
      BY <2>3 DEF jobVars, Onward
    <3>2. ASSUME err # "transient", faults' \cap {"save", "orphan", "fatal"} = {}
          PROVE  ~Expected(c.task.nonce)
      <4>1. c.err = "fatal" /\ "orphan" \notin faults /\ Conflict(c)
        BY <1>5, <1>12, <2>3, <3>1, <3>2 DEF SaveFault
      <4> QED
        BY <1>9, <4>1
    <3> QED
      BY <1>10, <3>1, <3>2 DEF Expected
  <2> QED
    BY <1>1, <1>2, <1>7, <1>8, <1>12, <2>2, <2>3, SaveFails
<1> QED
  BY <1>11, <1>12

-----------------------------------------------------------------------------
(* startInvocation: a new invocation, and the end of the previous attempt. *)

\* The previous attempt is failed if it is not final.
LEMMA OldTable ==
    ASSUME NEW tbl \in Seq(Invocations), NEW prev \in 1..Len(tbl),
           NEW old, old = [tbl EXCEPT ![prev].status = "FAILED", ![prev].MutationsCount = @ + 1]
    PROVE  old = Written(tbl, prev, "FAILED", tbl[prev].MutationsCount + 1)
<1>1. tbl[prev] \in Invocations
  OBVIOUS
<1>2. old = [tbl EXCEPT ![prev] = [tbl[prev] EXCEPT !.status = "FAILED", !.MutationsCount = @ + 1]]
  BY <1>1 DEF Invocations
<1>3. [tbl[prev] EXCEPT !.status = "FAILED", !.MutationsCount = @ + 1] =
        [tbl[prev] EXCEPT !.status = "FAILED", !.MutationsCount = tbl[prev].MutationsCount + 1]
  BY <1>1 DEF Invocations
<1> QED
  BY <1>2, <1>3 DEF Written

\* The table of invocations with a new one.
LEMMA NewTable ==
    ASSUME EngineTypesOK, js.InvocationID \in 0..lastInv, NEW t \in StartTasks,
           NEW s \in {"STARTING", "FAILED"}, invs' = NewInvocation(t, s), lastInv' = lastInv + 1
    PROVE  /\ invs' \in Seq(Invocations) /\ Len(invs') = lastInv'
           /\ invs'[lastInv'] \in Invocations
           /\ invs'[lastInv'].nonce = t.nonce /\ invs'[lastInv'].retry = t.retry
           /\ invs'[lastInv'].status = s /\ invs'[lastInv'].MutationsCount = 0
           /\ \A i \in InvIDs :
                /\ invs'[i].nonce = invs[i].nonce /\ invs'[i].retry = invs[i].retry
                /\ i # js.InvocationID => invs'[i] = invs[i]
                /\ Final(invs[i].status) => invs'[i] = invs[i]
                /\ i = js.InvocationID => Final(invs'[i].status)
                /\ invs[i].MutationsCount <= invs'[i].MutationsCount
                /\ invs'[i].MutationsCount = invs[i].MutationsCount => invs'[i] = invs[i]
<1> DEFINE prev == js.InvocationID
           old == IF prev = 0 \/ Final(invs[prev].status) THEN invs
                  ELSE [invs EXCEPT ![prev].status = "FAILED", ![prev].MutationsCount = @ + 1]
           new == [nonce |-> t.nonce, status |-> s, MutationsCount |-> 0, retry |-> t.retry]
<1>1. invs' = Append(old, new)
  BY DEF NewInvocation, js
<1>2. /\ invs \in Seq(Invocations) /\ Len(invs) = lastInv /\ lastInv \in Nat /\ InvIDs = 1..Len(invs)
  BY DEF EngineTypesOK, InvIDs
<1>3. /\ new \in Invocations /\ new.nonce = t.nonce /\ new.retry = t.retry
      /\ new.status = s /\ new.MutationsCount = 0
  BY DEF Invocations, StartTasks, Statuses, FinalStatuses
<1>4. /\ old \in Seq(Invocations) /\ Len(old) = Len(invs)
      /\ \A i \in InvIDs :
           /\ old[i].nonce = invs[i].nonce /\ old[i].retry = invs[i].retry
           /\ i # prev => old[i] = invs[i]
           /\ Final(invs[i].status) => old[i] = invs[i]
           /\ i = prev => Final(old[i].status)
           /\ invs[i].MutationsCount <= old[i].MutationsCount
           /\ old[i].MutationsCount = invs[i].MutationsCount => old[i] = invs[i]
  <2>1. \A i \in InvIDs : invs[i].MutationsCount \in Nat /\ i # 0
    BY InvocationTypes
  <2>2. CASE prev = 0 \/ Final(invs[prev].status)
    <3>1. old = invs
      BY <2>2
    <3> QED
      BY <1>2, <2>1, <2>2, <3>1
  <2>3. CASE prev # 0 /\ ~Final(invs[prev].status)
    <3>1. prev \in 1..Len(invs)
      BY <1>2, <2>3
    <3> HIDE DEF prev
    <3>2. PICK n : n = invs[prev].MutationsCount + 1
      OBVIOUS
    <3>3. PICK tbl : tbl = Written(invs, prev, "FAILED", n)
      OBVIOUS
    <3>4. old = tbl
      <4>1. PICK mid : mid = [invs EXCEPT ![prev].status = "FAILED", ![prev].MutationsCount = @ + 1]
        OBVIOUS
      <4>2. mid = Written(invs, prev, "FAILED", n)
        BY <1>2, <3>1, <3>2, <4>1, OldTable
      <4> QED
        BY <2>3, <3>3, <4>1, <4>2
    <3> HIDE DEF old
    <3>5. n \in Nat /\ "FAILED" \in Statuses /\ invs[prev].MutationsCount < n
      BY <1>2, <2>1, <3>1, <3>2 DEF Statuses, FinalStatuses
    <3>6. /\ tbl \in Seq(Invocations) /\ Len(tbl) = Len(invs)
          /\ tbl[prev].status = "FAILED" /\ tbl[prev].MutationsCount = n
          /\ tbl[prev].nonce = invs[prev].nonce /\ tbl[prev].retry = invs[prev].retry
          /\ \A i \in 1..Len(invs) : i # prev => tbl[i] = invs[i]
      BY <1>2, <3>1, <3>3, <3>5, WriteEntity
    <3>7. Final(tbl[prev].status)
      BY <3>6 DEF Final, FinalStatuses
    <3> QED
      BY <1>2, <2>1, <2>3, <3>1, <3>4, <3>5, <3>6, <3>7
  <2> QED
    BY <2>2, <2>3
<1> HIDE DEF old, new
<1>5. /\ invs' \in Seq(Invocations) /\ Len(invs') = lastInv' /\ invs'[lastInv'] = new
      /\ \A i \in InvIDs : invs'[i] = old[i]
  <2>1. /\ Append(old, new) \in Seq(Invocations) /\ Len(Append(old, new)) = Len(old) + 1
        /\ Append(old, new)[Len(old) + 1] = new
        /\ \A i \in 1..Len(old) : Append(old, new)[i] = old[i]
    BY <1>3, <1>4
  <2> QED
    BY <1>1, <1>2, <1>4, <2>1
<1> QED
  BY <1>3, <1>4, <1>5

\* What the transaction at the head of startInvocation makes of the job: it takes
\* note of the attempt, or gives the request up.
NotesAttempt(t, s) ==
    /\ js'.InvocationID = lastInv' /\ js'.InvocationNonce = js.InvocationNonce
    /\ js'.InvocationRetryCount = t.retry /\ js'.State = js.State
    /\ t.retry < InvocationRetryLimit /\ s = "STARTING"
    /\ js.InvocationID # 0 => js.InvocationRetryCount < t.retry
GivesUp(t, s) ==
    NoInvocation(js') /\ t.retry >= InvocationRetryLimit /\ s = "FAILED"

\* The attempts of the request, and the new one.
LEMMA NewAgrees ==
    ASSUME EngineInv, JobOK', NEW t \in startQ, NEW s \in {"STARTING", "FAILED"},
           invs' = NewInvocation(t, s), lastInv' = lastInv + 1, nonce <= nonce',
           Expected(t.nonce), NotesAttempt(t, s) \/ GivesUp(t, s)
    PROVE  /\ AttemptsOK' /\ JobAndInvocationAgree' /\ OneAttemptAtATime'
           /\ \A v \in 1..nonce : IsExpectingInvocation(job'.State, v) => Expected(v)
<1>1. /\ js.InvocationNonce \in Nat /\ js'.InvocationNonce \in Nat /\ js'.InvocationID \in Nat
      /\ js.InvocationRetryCount \in Nat /\ t.retry \in Nat /\ InvocationRetryLimit \in Nat
      /\ nonce \in Nat /\ nonce' \in Nat /\ lastInv \in Nat /\ lastInv' \in Nat
      /\ js = job.State /\ js' = job'.State /\ t \in StartTasks /\ t.nonce \in 1..nonce
  BY LimitsAssumption DEF EngineInv, JobOK, JobTypeOK, Jobs, JobStates, js, StartTasksOK, StartTasks
<1>2. js.InvocationNonce = t.nonce /\ js.State \in Queued
  BY <1>1 DEF Expected, IsExpectingInvocation
<1>3. /\ invs'[lastInv'].nonce = t.nonce /\ invs'[lastInv'].retry = t.retry
      /\ invs'[lastInv'].status = s
      /\ \A i \in InvIDs :
           /\ invs'[i].nonce = invs[i].nonce /\ invs'[i].retry = invs[i].retry
           /\ Final(invs[i].status) => invs'[i] = invs[i]
           /\ i = js.InvocationID => Final(invs'[i].status)
  BY <1>1, NewTable DEF EngineInv, AttemptsOK
<1>4. InvIDs' = InvIDs \cup {lastInv'} /\ lastInv' \notin InvIDs
      /\ \A i \in InvIDs : i \in Nat /\ i < lastInv'
  BY <1>1 DEF InvIDs
<1>5. ASSUME NEW i \in InvIDs, invs'[i].nonce = t.nonce
      PROVE  /\ js.InvocationID # 0 /\ Final(invs'[i].status) /\ invs'[i].retry \in Nat
             /\ invs'[i].retry <= js.InvocationRetryCount
             /\ invs'[i].retry < InvocationRetryLimit /\ invs'[i].retry < t.retry
  <2>1. /\ js.InvocationID # 0 /\ invs[i].retry <= js.InvocationRetryCount
        /\ invs[i].retry < InvocationRetryLimit
        /\ ~Final(invs[i].status) => i = js.InvocationID
    BY <1>2, <1>3, <1>5 DEF EngineInv, AttemptsOK
  <2>2. invs[i].retry \in Nat
    BY InvocationTypes DEF EngineInv
  <2>3. invs[i].retry < t.retry
    BY <1>1, <2>1, <2>2 DEF NotesAttempt, GivesUp
  <2> QED
    BY <1>3, <2>1, <2>2, <2>3
<1>6. OneAttemptAtATime'
  BY <1>3, <1>4, <1>5 DEF EngineInv, OneAttemptAtATime
<1>7. \A i \in InvIDs' : invs'[i].nonce \in 1..nonce'
  <2>1. \A i \in InvIDs : invs'[i].nonce \in 1..nonce
    BY <1>3 DEF EngineInv, AttemptsOK
  <2> QED
    BY <1>1, <1>3, <1>4, <2>1
<1>8. ASSUME NEW i \in InvIDs', NEW k \in InvIDs', invs'[i].nonce = invs'[k].nonce, i < k
      PROVE  invs'[i].retry < invs'[k].retry /\ invs'[i].retry < InvocationRetryLimit
  <2>1. i \in InvIDs
    BY <1>1, <1>4, <1>8
  <2>2. CASE k \in InvIDs
    BY <1>3, <1>8, <2>1, <2>2 DEF EngineInv, AttemptsOK
  <2>3. CASE k = lastInv'
    BY <1>3, <1>5, <1>8, <2>1, <2>3
  <2> QED
    BY <1>4, <2>2, <2>3
<1>9. CASE NotesAttempt(t, s)
  <2>1. ASSUME NEW i \in InvIDs', invs'[i].nonce = js'.InvocationNonce
        PROVE  /\ js'.InvocationID # 0 /\ invs'[i].retry <= js'.InvocationRetryCount
               /\ invs'[i].retry < InvocationRetryLimit
               /\ ~Final(invs'[i].status) => i = js'.InvocationID
    <3>1. js'.InvocationID # 0 /\ js'.InvocationNonce = t.nonce
      BY <1>1, <1>2, <1>9 DEF NotesAttempt
    <3>2. CASE i \in InvIDs
      BY <1>1, <1>5, <1>9, <2>1, <3>1, <3>2 DEF NotesAttempt
    <3>3. CASE i = lastInv'
      BY <1>1, <1>3, <1>9, <3>1, <3>3 DEF NotesAttempt
    <3> QED
      BY <1>4, <3>2, <3>3
  <2>2. AttemptsOK'
    <3>1. js'.InvocationID \in 0..lastInv'
      BY <1>1, <1>9 DEF NotesAttempt
    <3> QED
      BY <1>7, <1>8, <2>1, <3>1 DEF AttemptsOK
  <2>3. js'.State \notin Running
    BY <1>2, <1>9 DEF NotesAttempt, Queued, Running
  <2>4. JobAndInvocationAgree'
    BY <1>2, <1>3, <1>9, <2>3 DEF NotesAttempt, JobAndInvocationAgree
  <2>5. \A v : IsExpectingInvocation(job'.State, v) => Expected(v)
    BY <1>1, <1>9 DEF NotesAttempt, IsExpectingInvocation, Expected
  <2> QED
    BY <1>6, <2>2, <2>4, <2>5
<1>10. CASE GivesUp(t, s)
  <2>1. js'.State \notin Active /\ js'.InvocationID = 0 /\ js'.InvocationNonce = 0
    BY <1>10 DEF GivesUp, NoInvocation, JobOK
  <2>2. \A v : ~IsExpectingInvocation(job'.State, v)
    BY <1>1, <2>1 DEF IsExpectingInvocation, Active
  <2>3. \A i \in InvIDs' : invs'[i].nonce # js'.InvocationNonce
    BY <1>1, <1>7, <2>1
  <2>4. AttemptsOK'
    BY <1>1, <1>7, <1>8, <2>1, <2>3 DEF AttemptsOK
  <2>5. JobAndInvocationAgree'
    BY <2>1 DEF JobAndInvocationAgree
  <2> QED
    BY <1>6, <2>2, <2>4, <2>5
<1> QED
  BY <1>9, <1>10

\* A new invocation, all but the worker that launches it.
LEMMA NewBase ==
    ASSUME EngineInv, JobOK', NEW t \in startQ, NEW s \in {"STARTING", "FAILED"},
           invs' = NewInvocation(t, s), remote' = Append(remote, "none"),
           lastInv' = lastInv + 1, nonce <= nonce',
           Expected(t.nonce), NotesAttempt(t, s) \/ GivesUp(t, s),
           ~Leased("start", t), \A u \in startQ : u # t => u \in startQ',
           UNCHANGED <<timerQ, msgs, faults>>, workers' \in [Workers -> WorkerRecords]
    PROVE  /\ EngineTypesOK' /\ AttemptsOK' /\ JobAndInvocationAgree' /\ OneAttemptAtATime'
           /\ DeliveriesOK' /\ DoneMessageNotLost' /\ Onward
           /\ \A v \in Workers : Undisturbed(workers[v])
<1>1. /\ AttemptsOK' /\ JobAndInvocationAgree' /\ OneAttemptAtATime'
      /\ \A v \in 1..nonce : IsExpectingInvocation(job'.State, v) => Expected(v)
  BY NewAgrees
<1>2. lastInv \in Nat /\ t \in StartTasks /\ js.InvocationID \in 0..lastInv
  BY DEF EngineInv, JobOK, JobTypeOK, AttemptsOK
<1>3. /\ invs' \in Seq(Invocations) /\ Len(invs') = lastInv'
      /\ \A i \in InvIDs :
           /\ invs'[i].nonce = invs[i].nonce /\ invs'[i].retry = invs[i].retry
           /\ i # js.InvocationID => invs'[i] = invs[i]
           /\ Final(invs[i].status) => invs'[i] = invs[i]
           /\ invs[i].MutationsCount <= invs'[i].MutationsCount
           /\ invs'[i].MutationsCount = invs[i].MutationsCount => invs'[i] = invs[i]
  BY <1>2, NewTable DEF EngineInv
<1>4. /\ remote' \in Seq(RemoteStates) /\ Len(remote') = lastInv' /\ remote'[lastInv'] = "none"
      /\ \A i \in InvIDs : remote'[i] = remote[i]
  <2>1. remote \in Seq(RemoteStates) /\ Len(remote) = lastInv /\ InvIDs = 1..Len(remote)
        /\ "none" \in RemoteStates
    BY DEF EngineInv, EngineTypesOK, InvIDs, RemoteStates
  <2> QED
    BY <1>2, <2>1
<1>5. InvIDs' = InvIDs \cup {lastInv'}
  BY <1>2 DEF InvIDs
<1>6. EngineTypesOK'
  BY <1>3, <1>4 DEF EngineInv, EngineTypesOK
<1>7. DeliveriesOK'
  BY <1>4, <1>5 DEF EngineInv, DeliveriesOK
<1>8. DoneMessageNotLost'
  BY <1>3, <1>4, <1>5 DEF EngineInv, DoneMessageNotLost
<1>9. Onward
  <2>1. lastInv <= lastInv' /\ faults \subseteq faults'
    BY <1>2
  <2>2. \A i \in InvIDs : /\ remote[i] # "none" => remote'[i] # "none"
                          /\ remote[i] = "done" => remote'[i] = "done"
    BY <1>4
  <2> HIDE <1>4
  <2> QED
    BY <1>1, <1>3, <2>1, <2>2 DEF Onward
<1>10. ASSUME NEW v \in Workers PROVE Undisturbed(workers[v])
  <2>1. PICK c : c = workers[v]
    OBVIOUS
  <2>2. WorkerOK(c) /\ (c.kind = "start" => c.task \in startQ /\ c.task # t /\ c.task \in startQ')
    BY <2>1, LeasedTasks DEF EngineInv, WorkersOK
  <2>3. ASSUME c.kind = "start", c.pc # "respond"
        PROVE  c.id \in InvIDs /\ invs'[c.id] = invs[c.id]
    <3>1. c.id \in InvIDs /\ invs[c.id].nonce = c.task.nonce
      BY <2>2, <2>3 DEF WorkerOK, StarterOK, CopyOK, LaunchOK
    <3>2. c.id # 0
      BY <3>1, InvocationTypes DEF EngineInv
    <3>3. c.task.nonce # t.nonce
      BY <2>2, <2>3 DEF EngineInv, StartTasksOK
    <3>4. js.InvocationNonce = t.nonce
      BY DEF Expected, IsExpectingInvocation, js
    <3>5. c.id # js.InvocationID
      BY <3>1, <3>2, <3>3, <3>4 DEF EngineInv, JobAndInvocationAgree
    <3> QED
      BY <1>3, <3>1, <3>5
  <2>4. Undisturbed(c)
    BY <1>4, <2>2, <2>3 DEF Undisturbed
  <2> QED
    BY <2>1, <2>4
<1> QED
  BY <1>1, <1>6, <1>7, <1>8, <1>9, <1>10

\* A new attempt.
LEMMA BeginAttemptStep ==
    ASSUME EngineInv, NEW w \in Workers, NEW t \in startQ, BeginAttempt(w, t)
    PROVE  EngineInv' /\ Onward /\ Refines
<1>1. /\ ~Leased("start", t) /\ StartAttempt(t) /\ invs' = NewInvocation(t, "STARTING")
      /\ remote' = Append(remote, "none") /\ UNCHANGED <<timerQ, msgs, faults>>
  BY DEF BeginAttempt
<1>2. /\ JobOK' /\ lastInv' = lastInv + 1 /\ nonce' = nonce /\ startQ' = startQ
      /\ js'.InvocationID = lastInv' /\ js'.InvocationNonce = js.InvocationNonce
      /\ js'.InvocationRetryCount = t.retry /\ js'.State = js.State
      /\ t.retry < InvocationRetryLimit /\ Expected(t.nonce)
      /\ js.InvocationID # 0 => js.InvocationRetryCount < t.retry
  BY <1>1, AttemptMoves DEF EngineInv
<1>3. NotesAttempt(t, "STARTING") /\ nonce <= nonce' /\ t \in StartTasks /\ t \in Deliveries
  BY <1>2 DEF NotesAttempt, EngineInv, JobOK, JobTypeOK, Deliveries
<1>4. /\ lastInv \in Nat /\ lastInv' \in Nat /\ lastInv' \in InvIDs'
      /\ js.InvocationID \in 0..lastInv
  BY <1>2 DEF EngineInv, JobOK, JobTypeOK, InvIDs, AttemptsOK
<1>5. /\ invs'[lastInv'] \in Invocations /\ invs'[lastInv'].nonce = t.nonce
      /\ invs'[lastInv'].status = "STARTING" /\ invs'[lastInv'].MutationsCount = 0
  BY <1>1, <1>2, <1>3, <1>4, NewTable DEF EngineInv
<1>6. remote'[lastInv'] = "none"
  BY <1>1, <1>2 DEF EngineInv, EngineTypesOK
<1>7. PICK inv : inv = invs'[lastInv']
  OBVIOUS
<1>8. PICK d : d = Controller("start", t, lastInv', inv, "launch")
  OBVIOUS
<1>9. /\ d \in WorkerRecords /\ d.pc = "launch" /\ d.kind = "start" /\ d.task = t /\ d.id = lastInv'
      /\ d.saved.status = inv.status /\ d.saved.MutationsCount = inv.MutationsCount
      /\ d.status = inv.status /\ ~d.timer
  BY <1>3, <1>4, <1>5, <1>7, <1>8, ControllerFields
<1>10. workers' = [workers EXCEPT ![w] = d] /\ workers' \in [Workers -> WorkerRecords]
  BY <1>7, <1>8, <1>9 DEF BeginAttempt, EngineInv, EngineTypesOK
<1>11. WorkerOK(d)'
  <2>1. CopyOK(d)' /\ ~Conflict(d)'
    BY <1>4, <1>5, <1>7, <1>9 DEF CopyOK, Conflict, Final, FinalStatuses
  <2>2. LaunchOK(d)'
    BY <1>5, <1>6, <1>7, <1>9, <2>1 DEF LaunchOK
  <2>3. StarterOK(d)'
    BY <1>2, <1>9, <2>2 DEF StarterOK
  <2> QED
    BY <1>9, <2>1, <2>3 DEF WorkerOK
<1>12. /\ EngineTypesOK' /\ AttemptsOK' /\ JobAndInvocationAgree' /\ OneAttemptAtATime'
       /\ DeliveriesOK' /\ DoneMessageNotLost' /\ Onward
       /\ \A v \in Workers : Undisturbed(workers[v])
  BY <1>1, <1>2, <1>3, <1>10, NewBase
<1>13. WorkersOK'
  BY <1>1, <1>9, <1>10, <1>11, <1>12, OtherWorkers DEF EngineInv
<1>14. StartTasksOK'
  BY <1>1, <1>2 DEF EngineInv, StartTasksOK
<1>15. Refines
  BY <1>1 DEF Refines, JobNext, QueueNext
<1> QED
  BY <1>2, <1>12, <1>13, <1>14, <1>15 DEF EngineInv

\* The request is written off.
LEMMA WriteOffStep ==
    ASSUME EngineInv, NEW t \in startQ, NEW acked \in BOOLEAN, GiveUp(t, acked)
    PROVE  EngineInv' /\ Onward /\ Refines
<1>1. /\ ~Leased("start", t) /\ StartGiveUp(t, acked) /\ invs' = NewInvocation(t, "FAILED")
      /\ remote' = Append(remote, "none") /\ UNCHANGED <<timerQ, msgs, workers, faults>>
  BY DEF GiveUp
<1>2. /\ JobOK' /\ lastInv' = lastInv + 1 /\ nonce <= nonce'
      /\ startQ' = startQ \/ startQ' = startQ \ {t}
      /\ NoInvocation(js') /\ t.retry >= InvocationRetryLimit /\ Expected(t.nonce)
  BY <1>1, GiveUpMoves DEF EngineInv
<1>3. /\ GivesUp(t, "FAILED") /\ workers' \in [Workers -> WorkerRecords]
      /\ \A u \in startQ : u # t => u \in startQ'
  BY <1>1, <1>2 DEF GivesUp, EngineInv, EngineTypesOK
<1>4. /\ EngineTypesOK' /\ AttemptsOK' /\ JobAndInvocationAgree' /\ OneAttemptAtATime'
      /\ DeliveriesOK' /\ DoneMessageNotLost' /\ Onward
      /\ \A v \in Workers : Undisturbed(workers[v])
  BY <1>1, <1>2, <1>3, NewBase
<1>5. WorkersOK'
  BY <1>1, <1>4, SameWorkers DEF EngineInv
<1>6. StartTasksOK'
  <2>1. nonce \in Nat /\ nonce' \in Nat
    BY <1>2 DEF EngineInv, JobOK, JobTypeOK
  <2>2. \A u \in startQ : u.nonce \in 1..nonce'
    BY <1>2, <2>1 DEF EngineInv, StartTasksOK
  <2> QED
    BY <1>1, <1>2, <2>2 DEF EngineInv, StartTasksOK
<1>7. Refines
  BY <1>1 DEF Refines, JobNext, QueueNext
<1> QED
  BY <1>2, <1>4, <1>5, <1>6, <1>7 DEF EngineInv

-----------------------------------------------------------------------------
(* The theorems.                                                           *)

\* Before the job is first put there is nothing in flight.
LEMMA EngineInvInit ==
    ASSUME EngineInit
    PROVE  EngineInv
<1>1. /\ JobInit /\ invs = <<>> /\ remote = <<>> /\ timerQ = {} /\ msgs = {} /\ faults = {}
      /\ workers = [w \in Workers |-> IdleWorker]
  BY DEF EngineInit
<1>2. nonce = 0 /\ lastInv = 0 /\ startQ = {} /\ js = CleanState("DISABLED")
  BY <1>1 DEF JobInit, NewJob, js
<1>3. /\ js.State = "DISABLED" /\ js.InvocationNonce = 0 /\ js.InvocationID = 0
  BY <1>2 DEF CleanState
<1>4. JobOK
  <2>1. JobTypeOK
    BY <1>1, JobInvInit DEF JobInv
  <2> QED
    BY <1>2, <1>3, <2>1 DEF JobOK, Active, Queued, Running
<1>5. EngineTypesOK
  <2>1. IdleWorker \in WorkerRecords
    BY IdleOK
  <2> QED
    BY <1>1, <1>2, <2>1 DEF EngineTypesOK
<1>6. InvIDs = {}
  BY <1>2 DEF InvIDs
<1>7. StartTasksOK /\ AttemptsOK /\ JobAndInvocationAgree /\ OneAttemptAtATime
      /\ DeliveriesOK /\ DoneMessageNotLost
  BY <1>1, <1>2, <1>3, <1>6
     DEF StartTasksOK, AttemptsOK, JobAndInvocationAgree, OneAttemptAtATime,
         DeliveriesOK, DoneMessageNotLost
<1>8. WorkersOK
  <2>1. \A w \in Workers : workers[w] = IdleWorker
    BY <1>1
  <2>2. WorkerOK(IdleWorker) /\ IdleWorker.kind # "start"
    BY DEF IdleWorker, WorkerOK
  <2> QED
    BY <2>1, <2>2 DEF WorkersOK
<1> QED
  BY <1>4, <1>5, <1>7, <1>8 DEF EngineInv

\* Every step keeps the invariant, moves on, and is a step of module Job or not
\* one at all, or drops a start task after a fatal error.
LEMMA EngineStep ==
    ASSUME EngineInv, [EngineNext]_vars
    PROVE  EngineInv' /\ Onward /\ Refines
<1>1. CASE JobTxn
  BY <1>1, JobTxnStep
<1>2. CASE BeginNext
  BY <1>2, BeginAttemptStep, WriteOffStep, SkipAttemptStep, StartTxnFailsStep, DeliveryStep
     DEF BeginNext
<1>3. ASSUME NEW w \in Workers, WorkerStep(w) \/ LaunchSaveLog(w) \/ Crash(w)
      PROVE  EngineInv' /\ Onward /\ Refines
  BY <1>3, LaunchStep, SaveLaunchedStep, RespondStartStep, CheckStep, SaveCallbackStep,
     RespondTimerStep, RespondNotificationStep, AbortReadStep, SaveAbortedStep,
     SaveLogStep, CrashStep
     DEF WorkerStep
<1>4. CASE AbortNext
  BY <1>4, AbortJobStep, AbortReadStep DEF AbortNext
<1>5. CASE RemoteNext
  BY <1>5, RemoteStep DEF RemoteNext
<1>6. CASE UNCHANGED vars
  <2>1. UNCHANGED <<jobVars, invs, remote, workers>> /\ UNCHANGED <<timerQ, msgs, faults>>
    BY <1>6 DEF vars, jobVars
  <2> QED
    BY <2>1, SameMessages, StillStep
<1> QED
  BY <1>1, <1>2, <1>3, <1>4, <1>5, <1>6 DEF EngineNext, WorkerNext

\* The inductive invariant holds in every state the engine reaches, however many
\* requests are in flight and whatever faults occur.
THEOREM EngineInvariance == EngineSafety => []EngineInv
<1>1. EngineInit => EngineInv
  BY EngineInvInit
<1>2. EngineInv /\ [EngineNext]_vars => EngineInv'
  BY EngineStep
<1> QED
  BY <1>1, <1>2, PTL DEF EngineSafety

\* The Job entity and the Invocation it points to agree in every state, although
\* saveImpl, startInvocation and AbortJob write them in separate transactions.
THEOREM EntitiesAgree == EngineSafety => []JobAndInvocationAgree
<1>1. EngineInv => JobAndInvocationAgree
  BY DEF EngineInv
<1> QED
  BY <1>1, EngineInvariance, PTL

\* Of the attempts that one InvocationNonce spawns at most one is not final.
THEOREM OneAttempt == EngineSafety => []OneAttemptAtATime
<1>1. EngineInv => OneAttemptAtATime
  BY DEF EngineInv
<1> QED
  BY <1>1, EngineInvariance, PTL

\* handlePubSubMessage acknowledges that a task is done only when its invocation
\* is final, as long as no callback was rejected and no datastore call failed
\* inside a transaction.
THEOREM DoneMessagesKept == EngineSafety => []DoneMessageNotLost
<1>1. EngineInv => DoneMessageNotLost
  BY DEF EngineInv
<1> QED
  BY <1>1, EngineInvariance, PTL

\* The attempts of a request have different retry counts, and all but the last
\* of them are below the limit: that makes one more than the limit at most.
LEMMA FewAttempts ==
    ASSUME EngineInv, NEW n
    PROVE  Cardinality({k \in InvIDs : invs[k].nonce = n}) <= InvocationRetryLimit + 1
<1> DEFINE L == InvocationRetryLimit
           S == {k \in InvIDs : invs[k].nonce = n}
           f == [k \in S |-> IF invs[k].retry < L THEN invs[k].retry ELSE L]
<1>1. L \in Nat
  BY LimitsAssumption
<1>2. \A k \in S : k \in Nat /\ invs[k].retry \in Nat
  BY InvocationTypes DEF EngineInv
<1>3. f \in [S -> 0..L]
  BY <1>1, <1>2
<1>4. ASSUME NEW i \in S, NEW k \in S, i < k PROVE f[i] # f[k]
  <2>1. invs[i].retry < invs[k].retry /\ invs[i].retry < L
    BY <1>4 DEF EngineInv, AttemptsOK
  <2> QED
    BY <1>1, <1>2, <2>1
<1>5. \A i, k \in S : f[i] = f[k] => i = k
  <2> HIDE DEF f
  <2> QED
    BY <1>2, <1>4
<1>6. f \in Injection(S, 0..L)
  <2> HIDE DEF f, S
  <2> QED
    BY <1>3, <1>5 DEF Injection, IsInjective
<1>7. IsFiniteSet(0..L) /\ Cardinality(0..L) = L + 1
  BY <1>1, FS_Interval
<1>8. Cardinality(S) <= Cardinality(0..L)
  <2> HIDE DEF f, S
  <2> QED
    BY <1>6, <1>7, FS_Injection
<1> QED
  BY <1>7, <1>8

\* However the attempts fail or crash, one request makes at most
\* InvocationRetryLimit of them, and one more Invocation that records the failure.
THEOREM RetriesBounded == EngineSafety => []AttemptsBounded
<1>1. EngineInv => AttemptsBounded
  BY FewAttempts DEF AttemptsBounded
<1> QED
  BY <1>1, EngineInvariance, PTL

\* No handler overwrites a final Invocation, whatever stale copy it holds.
THEOREM FinalStays == EngineSafety => FinalIsImmutable
<1>1. EngineInv /\ [EngineNext]_vars =>
        [\A i \in InvIDs : Final(invs[i].status) => invs'[i] = invs[i]]_vars
  BY EngineStep DEF Onward
<1> QED
  BY <1>1, EngineInvariance, PTL DEF EngineSafety, FinalIsImmutable

\* The request handlers implement module Job: every step of theirs is one of its
\* transactions, leaves the job alone, or takes a start task off its queue and
\* nothing else, and the last happens only after a fatal error of a transaction,
\* a save that failed or a launch that left an orphan.
THEOREM HandlersImplementJob == EngineSafety => ImplementsJob
<1>1. EngineInit => JobInit
  BY DEF EngineInit
<1>2. EngineInv /\ [EngineNext]_vars =>
        [JobNext \/ LosesStartTask]_jobVars
  BY EngineStep DEF Refines
<1> QED
  BY <1>1, <1>2, EngineInvariance, PTL DEF EngineSafety, ImplementsJob

\* No error has happened so far that may cost a job its start task.
NothingDropped == faults \cap {"save", "orphan", "fatal"} = {}

\* What Job promises holds of the engine for as long as its handlers implement
\* it: the tick and the start task a job waits for are in their queues, and
\* intervals and overruns are accounted for, through crashes, failing first
\* transactions and failing status checks.
THEOREM EngineKeepsJobPromises ==
    EngineSafety => [](NothingDropped =>
        /\ TickNotLost /\ TickFollowsSchedule /\ QueuedHasStartTask
        /\ IntervalKept /\ OverrunsOnRecord)
<1> DEFINE P == NothingDropped => JobInv /\ OverrunsOnRecord
<1>1. EngineInit => P
  <2>1. JobInit => OverrunsOnRecord
    BY DEF JobInit, NewJob, CleanState, OverrunsOnRecord, js
  <2> QED
    BY <2>1, JobInvInit DEF EngineInit
<1>2. EngineInv /\ P /\ [EngineNext]_vars => P'
  <2> SUFFICES ASSUME EngineInv, P, [EngineNext]_vars, NothingDropped'
               PROVE  (JobInv /\ OverrunsOnRecord)'
    OBVIOUS
  <2>1. NothingDropped /\ [JobNext]_jobVars
    BY EngineStep DEF Onward, Refines, LosesStartTask, NothingDropped
  <2>2. JobInv /\ OverrunsOnRecord
    BY <2>1
  <2>3. JobInv' /\ RecordsKept
    BY <2>1, <2>2, JobStep DEF StepOK
  <2> QED
    BY <2>2, <2>3, RecordStep
<1>3. P => (NothingDropped => /\ TickNotLost /\ TickFollowsSchedule /\ QueuedHasStartTask
                             /\ IntervalKept /\ OverrunsOnRecord)
  BY JobInvImplies
<1> QED
  BY <1>1, <1>2, <1>3, EngineInvariance, PTL DEF EngineSafety
=============================================================================
