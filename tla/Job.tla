-------------------------------- MODULE Job --------------------------------
(***************************************************************************)
(* What the scheduler engine promises about one Job entity and the task    *)
(* queues that drive it (scheduler/appengine/engine/engine.go).            *)
(*                                                                         *)
(* One action per transaction on the Job entity: the state machine rolls   *)
(* forward and the tasks it emits join the queues atomically (rollSM in a  *)
(* datastore transaction).  How the engine launches invocations and tracks *)
(* them is abstract here: a start task is attempted, retried and finally   *)
(* acknowledged, and the current invocation starts and finishes at some    *)
(* point.  Module Engine has the request handlers that do it.              *)
(***************************************************************************)
EXTENDS StateMachine

CONSTANTS
    MaxNonce,               \* bound: no new work once so many nonces are used
    InvocationRetryLimit,   \* attempts to launch before giving up (5)
    TaskRetryLimit          \* executions the queue grants a start task (10)

ASSUME LimitsAssumption ==
    /\ MaxNonce \in Nat /\ InvocationRetryLimit \in Nat /\ TaskRetryLimit \in Nat
    /\ MaxTime > 0

VARIABLES
    now,        \* the clock of the handlers
    job,        \* the Job entity
    nonce,      \* last nonce drawn
    lastInv,    \* last invocation ID handed out
    tickQ,      \* timers queue: ticks of the job
    startQ,     \* invocations queue: start tasks
    overrunQ,   \* invocations queue: overruns to record
    overrunInvs,    \* the overruns that have an Invocation in OVERRUN status
    overrunsLost    \* history: the overruns whose task the queue dropped

jobVars == <<now, job, nonce, lastInv, tickQ, startQ, overrunQ, overrunInvs,
             overrunsLost>>

\* The fields of the Job entity that decide its fate.  exists is FALSE before
\* the entity is first put.
Jobs == [exists : BOOLEAN, Enabled : BOOLEAN, Paused : BOOLEAN,
         Schedule : Schedules \cup {Triggered}, State : JobStates]

\* Paused jobs always use the "triggered" schedule.
effectiveSchedule(j) == IF j.Paused THEN Triggered ELSE j.Schedule

\* The StateMachine that rollSM sets up for job j.
MachineFor(j) ==
    [Now |-> now, Schedule |-> effectiveSchedule(j), Nonce |-> nonce,
     State |-> j.State, ticks |-> tickQ, starts |-> startQ,
     overruns |-> overrunQ]

\* Commit job j with the outcome m of its state machine.
rollSM(j, m) ==
    /\ job' = [j EXCEPT !.State = m.State]
    /\ nonce' = m.Nonce
    /\ tickQ' = m.ticks
    /\ startQ' = m.starts
    /\ overrunQ' = m.overruns

NewJob(sched) ==
    [exists |-> FALSE, Enabled |-> FALSE, Paused |-> FALSE, Schedule |-> sched,
     State |-> CleanState("DISABLED")]

JobInit ==
    /\ now = 1
    /\ job = NewJob(Triggered)
    /\ nonce = 0 /\ lastInv = 0
    /\ tickQ = {} /\ startQ = {} /\ overrunQ = {}
    /\ overrunInvs = {} /\ overrunsLost = {}

NoncesLeft == nonce < MaxNonce

-----------------------------------------------------------------------------
(* Configuration and user requests.                                        *)

\* A definition seen in the config: add, update or re-enable the job.
updateJob(sched) ==
    LET old == IF job.exists THEN job ELSE NewJob(sched)
        new == [old EXCEPT !.exists = TRUE, !.Enabled = TRUE, !.Schedule = sched]
        enabled == IF old.Enabled THEN MachineFor(new)
                   ELSE OnJobEnabled(MachineFor(new))
        rolled == IF effectiveSchedule(new) # effectiveSchedule(old)
                  THEN OnScheduleChange(enabled) ELSE enabled
    IN  /\ NoncesLeft
        /\ ~(job.exists /\ job.Enabled /\ job.Schedule = sched)
        /\ rollSM(new, rolled)
        /\ UNCHANGED <<now, lastInv, overrunInvs, overrunsLost>>

disableJob ==
    /\ job.exists /\ job.Enabled
    /\ LET new == [job EXCEPT !.Enabled = FALSE]
       IN  rollSM(new, OnJobDisabled(MachineFor(new)))
    /\ UNCHANGED <<now, lastInv, overrunInvs, overrunsLost>>

setPausedFlag(paused) ==
    /\ NoncesLeft
    /\ job.exists /\ job.Enabled /\ job.Paused # paused
    /\ LET new == [job EXCEPT !.Paused = paused]
       IN  rollSM(new, OnScheduleChange(MachineFor(new)))
    /\ UNCHANGED <<now, lastInv, overrunInvs, overrunsLost>>

resetJobOnDevServer ==
    /\ NoncesLeft
    /\ job.exists /\ job.Enabled
    /\ rollSM(job, OnJobEnabled(OnJobDisabled(MachineFor(job))))
    /\ UNCHANGED <<now, lastInv, overrunInvs, overrunsLost>>

TriggerInvocation ==
    /\ NoncesLeft
    /\ job.exists /\ job.Enabled /\ job.State.State \in Waiting
    /\ rollSM(job, OnManualInvocation(MachineFor(job)))
    /\ UNCHANGED <<now, lastInv, overrunInvs, overrunsLost>>

\* The job half of AbortJob; the invocation half is AbortInvocation.
AbortJobTxn ==
    /\ job.exists
    /\ rollSM(job, OnManualAbort(MachineFor(job)))
    /\ UNCHANGED <<now, lastInv, overrunInvs, overrunsLost>>

-----------------------------------------------------------------------------
(* Task queue handlers.  A task is delivered at least once: the response   *)
(* that acknowledges it may be lost, and then it stays in the queue.       *)

\* Mutant of jobTimerTick: a tick that comes too soon is acknowledged.
TimerTickAlwaysAcked(t, acked) ==
    LET m == OnTimerTick(MachineFor(job), t.nonce)
    IN  /\ NoncesLeft
        /\ rollSM(job, [m EXCEPT !.ticks = IF acked THEN @ \ {t} ELSE @])
        /\ UNCHANGED <<now, lastInv, overrunInvs, overrunsLost>>

\* The queue may deliver a tick before the handler's clock has reached its
\* ETA: the handler's error then keeps it in the queue.
jobTimerTick(t, acked) ==
    LET m == OnTimerTick(MachineFor(job), t.nonce)
    IN  /\ NoncesLeft
        /\ ~TickTooSoon(MachineFor(job), t.nonce)
        /\ rollSM(job, [m EXCEPT !.ticks = IF acked THEN @ \ {t} ELSE @])
        /\ UNCHANGED <<now, lastInv, overrunInvs, overrunsLost>>

\* Mutant of StartAttempt: one attempt too many.
StartAttemptOnceMore(t) ==
    /\ IsExpectingInvocation(job.State, t.nonce)
    /\ t.retry <= InvocationRetryLimit
    /\ job.State.InvocationID # 0 => job.State.InvocationRetryCount < t.retry
    /\ lastInv' = lastInv + 1
    /\ rollSM(job, OnInvocationStarting(MachineFor(job), t.nonce, lastInv', t.retry))
    /\ UNCHANGED <<now, overrunInvs, overrunsLost>>

\* The transaction at the head of startInvocation: a new attempt begins.  The
\* queue counts the executions of a task, so that each attempt comes with a
\* higher count than the one before.
StartAttempt(t) ==
    /\ IsExpectingInvocation(job.State, t.nonce)
    /\ t.retry < InvocationRetryLimit
    /\ job.State.InvocationID # 0 => job.State.InvocationRetryCount < t.retry
    /\ lastInv' = lastInv + 1
    /\ rollSM(job, OnInvocationStarting(MachineFor(job), t.nonce, lastInv', t.retry))
    /\ UNCHANGED <<now, overrunInvs, overrunsLost>>

\* Mutant of StartGiveUp: OnInvocationDone without OnInvocationStarted.
GiveUpWithoutStarted(t, acked) ==
    LET inv == lastInv + 1
        m == OnInvocationDone(
               OnInvocationStarting(MachineFor(job), t.nonce, inv, t.retry), inv)
    IN  /\ IsExpectingInvocation(job.State, t.nonce)
        /\ t.retry >= InvocationRetryLimit
        /\ lastInv' = inv
        /\ rollSM(job, [m EXCEPT !.starts = IF acked THEN @ \ {t} ELSE @])
        /\ UNCHANGED <<now, overrunInvs, overrunsLost>>

\* The same transaction after too many attempts: the request is written off.
StartGiveUp(t, acked) ==
    LET inv == lastInv + 1
        m == OnInvocationDone(
               OnInvocationStarted(
                 OnInvocationStarting(MachineFor(job), t.nonce, inv, t.retry),
                 inv),
               inv)
    IN  /\ IsExpectingInvocation(job.State, t.nonce)
        /\ t.retry >= InvocationRetryLimit
        /\ lastInv' = inv
        /\ rollSM(job, [m EXCEPT !.starts = IF acked THEN @ \ {t} ELSE @])
        /\ UNCHANGED <<now, overrunInvs, overrunsLost>>

\* Mutant of StartAck: the task is acknowledged while the job still expects it.
StartAckAnyway(t) ==
    /\ startQ' = startQ \ {t}
    /\ UNCHANGED <<now, job, nonce, lastInv, tickQ, overrunQ, overrunInvs, overrunsLost>>

\* A start task is acknowledged once the job no longer expects it.
StartAck(t) ==
    /\ ~IsExpectingInvocation(job.State, t.nonce)
    /\ startQ' = startQ \ {t}
    /\ UNCHANGED <<now, job, nonce, lastInv, tickQ, overrunQ, overrunInvs, overrunsLost>>

\* An attempt failed or crashed: the task queue will execute the task again.
StartRetry(t) ==
    /\ t.retry < TaskRetryLimit
    /\ startQ' = (startQ \ {t}) \cup {[t EXCEPT !.retry = @ + 1]}
    /\ UNCHANGED <<now, job, nonce, lastInv, tickQ, overrunQ, overrunInvs, overrunsLost>>

\* The overrun gets an Invocation entity of its own (or several, if the task
\* is executed again).  The Job entity is not touched.  The error of
\* generateInvocationID is not tagged as transient: the queue then takes the
\* task for done.
recordOverrun(t, acked) ==
    /\ \/ overrunInvs' = overrunInvs \cup {t} /\ UNCHANGED overrunsLost
       \/ acked /\ overrunsLost' = overrunsLost \cup {t} /\ UNCHANGED overrunInvs
    /\ overrunQ' = IF acked THEN overrunQ \ {t} ELSE overrunQ
    /\ UNCHANGED <<now, job, nonce, lastInv, tickQ, startQ>>

-----------------------------------------------------------------------------
(* The current invocation's progress, saved by a task controller.          *)

InvocationStarted ==
    /\ job.exists /\ job.State.State \in Queued /\ job.State.InvocationID # 0
    /\ rollSM(job, OnInvocationStarted(MachineFor(job), job.State.InvocationID))
    /\ UNCHANGED <<now, lastInv, overrunInvs, overrunsLost>>

InvocationDone ==
    /\ job.exists /\ job.State.State \in Running
    /\ rollSM(job, OnInvocationDone(MachineFor(job), job.State.InvocationID))
    /\ UNCHANGED <<now, lastInv, overrunInvs, overrunsLost>>

\* LaunchTask did everything in one go, or failed for good.
InvocationStartedAndDone ==
    LET id == job.State.InvocationID
        m == OnInvocationDone(OnInvocationStarted(MachineFor(job), id), id)
    IN  /\ job.exists /\ job.State.State \in Queued /\ id # 0
        /\ rollSM(job, m)
        /\ UNCHANGED <<now, lastInv, overrunInvs, overrunsLost>>

AdvanceClock ==
    /\ now < MaxTime
    /\ now' = now + 1
    /\ UNCHANGED <<job, nonce, lastInv, tickQ, startQ, overrunQ, overrunInvs, overrunsLost>>

UserNext ==
    \/ \E sched \in Schedules : updateJob(sched)
    \/ disableJob
    \/ \E paused \in BOOLEAN : setPausedFlag(paused)
    \/ resetJobOnDevServer
    \/ TriggerInvocation
    \/ AbortJobTxn

QueueNext ==
    \/ \E t \in tickQ, acked \in BOOLEAN : jobTimerTick(t, acked)
    \/ \E t \in startQ : StartAttempt(t)
    \/ \E t \in startQ, acked \in BOOLEAN : StartGiveUp(t, acked)
    \/ \E t \in startQ : StartAck(t)
    \/ \E t \in startQ : StartRetry(t)
    \/ \E t \in overrunQ, acked \in BOOLEAN : recordOverrun(t, acked)

InvocationNext ==
    InvocationStarted \/ InvocationDone \/ InvocationStartedAndDone

JobNext == UserNext \/ QueueNext \/ InvocationNext \/ AdvanceClock

JobSafety == JobInit /\ [][JobNext]_jobVars

\* The clock advances and the timers queue keeps delivering a due tick until it
\* is acknowledged.
JobFairness ==
    /\ WF_jobVars(AdvanceClock)
    /\ WF_jobVars(\E t \in tickQ : jobTimerTick(t, TRUE))

JobSpec == JobSafety /\ JobFairness

-----------------------------------------------------------------------------
(* Properties.                                                             *)

\* Type invariant.
JobTypeOK ==
    /\ now \in 1..MaxTime
    /\ job \in Jobs
    /\ nonce \in Nat /\ lastInv \in Nat
    /\ tickQ \subseteq TickTasks
    /\ startQ \subseteq StartTasks
    /\ overrunQ \subseteq OverrunTasks
    /\ overrunInvs \subseteq OverrunTasks /\ overrunsLost \subseteq OverrunTasks

js == job.State

\* The panics in OnTimerTick and OnInvocationStarted are never reached
\* (impossible() "is never actually called").
NeverImpossible == js.State # "IMPOSSIBLE"

\* The engine's Enabled flag and the state machine agree, and a disabled job
\* keeps nothing of its past: no tick, no invocation, no finish time.
DisabledIsClean ==
    /\ js.State = "DISABLED" => js = CleanState("DISABLED")
    /\ job.Enabled <=> js.State # "DISABLED"
    /\ job.Enabled => job.exists

\* A job that waits for a tick has the task that will deliver it: whatever
\* reschedulings, cancellations and redeliveries happened, the timers queue
\* holds the tick with the nonce and the time the job expects.
TickNotLost ==
    js.TickTime \notin {ZeroTime, DistantFuture} =>
        [nonce |-> js.TickNonce, eta |-> js.TickTime] \in tickQ

\* The tick of an enabled job follows from its effective schedule and state: a
\* triggered (or paused) job has its tick in the distant future, a job on a
\* cron schedule always ticks, and a job on a relative schedule ticks between
\* invocations only.  SCHEDULED and SUSPENDED tell these apart.
TickFollowsSchedule ==
    LET sched == effectiveSchedule(job)
    IN  job.Enabled =>
            /\ js.TickTime = DistantFuture <=> sched = Triggered
            /\ js.TickTime = ZeroTime <=> ~IsAbsolute(sched) /\ js.State \in Active
            /\ js.State = "SCHEDULED" => sched # Triggered
            /\ js.State = "SUSPENDED" => sched = Triggered

\* The invocation part of the state: an active job and nobody else has an
\* invocation nonce, a running one knows the invocation it runs, and overruns
\* are counted in exactly the states that say so.
InvocationFollowsState ==
    /\ js.InvocationNonce # 0 <=> js.State \in Active
    /\ js.InvocationID # 0 => js.State \in Active
    /\ js.State \in Running => js.InvocationID # 0
    /\ js.Overruns # 0 <=> js.State \in {"OVERRUN", "SLOW_QUEUE"}

\* "The engine will keep trying to launch the queued invocation as long as the
\* job is in QUEUED state": there is a start task for it.
QueuedHasStartTask ==
    js.State \in Queued => \E t \in startQ : t.nonce = js.InvocationNonce

OverrunTasksSeen == overrunQ \cup overrunInvs \cup overrunsLost

\* Every overrun of the current invocation that the state machine counted is
\* on record or still on its way to be recorded, save for the tasks that were
\* dropped because no invocation ID could be generated (engine.go:1282): no
\* count is skipped, whatever is redelivered or rescheduled.
OverrunsOnRecord ==
    \A k \in 1..js.Overruns :
        \E t \in OverrunTasksSeen :
            t.inv = js.InvocationNonce /\ t.overruns = k

\* A relative schedule leaves its interval between the end of an invocation
\* and the next tick, however the schedule, the pause flag and manual runs
\* changed in between.
IntervalKept ==
    LET sched == effectiveSchedule(job)
    IN  sched.kind = "with" /\ js.State = "SCHEDULED" /\ js.PrevTime # ZeroTime
            => js.TickTime >= js.PrevTime + sched.interval

\* This step puts a new invocation in the queue.
Queues == js'.InvocationNonce # 0 /\ js'.InvocationNonce # js.InvocationNonce

\* An invocation is queued only when no other is queued or running, and then
\* either by a user or by a tick whose time has come (never early, never by a
\* cancelled tick, never on a paused job).
StartsOnTime ==
    [][Queues => /\ js.State \in Waiting
                 /\ \/ TriggerInvocation
                    \/ ~job.Paused /\ js.State = "SCHEDULED" /\ js.TickTime <= now]_jobVars

\* "Overruns are not possible" on a relative schedule: a tick is counted as
\* an overrun on absolute schedules only, and once per tick.
OverrunsOnAbsoluteOnly ==
    [][js'.Overruns > js.Overruns =>
        /\ IsAbsolute(effectiveSchedule(job)) /\ js.State \in Active
        /\ js'.TickNonce # js.TickNonce]_jobVars

\* A tick that is due is not forgotten: the job leaves SCHEDULED or gets
\* another tick (unless the bound on nonces stops the model).
DueTickFires ==
    \A n \in 1..(MaxNonce + 1) :
        (js.State = "SCHEDULED" /\ js.TickNonce = n /\ js.TickTime <= MaxTime)
            ~> (js.State # "SCHEDULED" \/ js.TickNonce # n \/ ~NoncesLeft)
=============================================================================
