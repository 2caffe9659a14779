---------------------------- MODULE StateMachine ----------------------------
(***************************************************************************)
(* The job state machine of the scheduler service                          *)
(* (scheduler/appengine/engine/statemachine.go).                           *)
(*                                                                         *)
(* Every On* handler of the code is a pure function from (state, world) to *)
(* (state, actions); here it maps a machine record to a machine record:    *)
(*   Now, Schedule   the world: the clock and the job's effective schedule *)
(*   Nonce           the last nonce handed out (the code draws them at     *)
(*                   random from 63 bits; what counts is that they differ) *)
(*   State           the JobState                                          *)
(*   ticks, starts, overruns                                               *)
(*                   the task queues the emitted TickLaterAction,          *)
(*                   StartInvocationAction and RecordOverrunAction join    *)
(* The state "IMPOSSIBLE" stands for the panic in impossible().            *)
(***************************************************************************)
EXTENDS Schedule

Waiting == {"SCHEDULED", "SUSPENDED"}
Queued == {"QUEUED", "SLOW_QUEUE"}
Running == {"RUNNING", "OVERRUN"}
Active == Queued \cup Running
StateKinds == {"DISABLED"} \cup Waiting \cup Active \cup {"IMPOSSIBLE"}

\* InvocationTime is left out: nothing but the UI reads it.
JobStates ==
    [State : StateKinds, Overruns : Nat, TickNonce : Nat, TickTime : Nat,
     PrevTime : Nat, InvocationNonce : Nat, InvocationRetryCount : Nat,
     InvocationID : Nat]

\* JobState{State: kind}: every other field has its zero value.
CleanState(kind) ==
    [State |-> kind, Overruns |-> 0, TickNonce |-> 0, TickTime |-> ZeroTime,
     PrevTime |-> ZeroTime, InvocationNonce |-> 0, InvocationRetryCount |-> 0,
     InvocationID |-> 0]

\* Task queue entries.  retry is the execution count the task queue keeps for
\* a task.  inv tells overrun tasks of different invocation requests apart.
TickTasks == [nonce : Nat, eta : Nat]
StartTasks == [nonce : Nat, retry : Nat]
OverrunTasks == [inv : Nat, overruns : Nat, runningID : Nat]

Machines ==
    [Now : 1..MaxTime, Schedule : Schedules \cup {Triggered}, Nonce : Nat,
     State : JobStates, ticks : SUBSET TickTasks, starts : SUBSET StartTasks,
     overruns : SUBSET OverrunTasks]

\* Mutant of IsExpectingInvocation: the nonce alone decides.
ExpectsNonce(s, invocationNonce) == s.InvocationNonce = invocationNonce

IsExpectingInvocation(s, invocationNonce) ==
    s.State \in Queued /\ s.InvocationNonce = invocationNonce

-----------------------------------------------------------------------------
(* Helpers of the handlers.                                                *)

\* Emit a TickLaterAction according to the schedule.  Does nothing if that
\* very tick is already scheduled.
scheduleTick(m) ==
    LET next == NextTick(m.Schedule, m.Now, m.State.PrevTime)
        fresh == m.Nonce + 1
    IN  IF next = m.State.TickTime THEN m
        ELSE [m EXCEPT
                !.Nonce = fresh,
                !.State = [@ EXCEPT !.TickTime = next, !.TickNonce = fresh],
                !.ticks = IF next = DistantFuture THEN @
                          ELSE @ \cup {[nonce |-> fresh, eta |-> next]}]

resetTick(m) ==
    [m EXCEPT !.State = [@ EXCEPT !.TickTime = ZeroTime, !.TickNonce = 0]]

\* SCHEDULED <-> SUSPENDED, depending on whether the tick is in DistantFuture.
maybeSuspendOrResume(m) ==
    LET distant == m.State.TickTime = DistantFuture
        kind == m.State.State
    IN  [m EXCEPT !.State = [@ EXCEPT !.State =
            IF kind = "SCHEDULED" /\ distant THEN "SUSPENDED"
            ELSE IF kind = "SUSPENDED" /\ ~distant THEN "SCHEDULED"
            ELSE kind]]

\* Become QUEUED under a new invocation nonce and ask the engine to start it.
queueInvocation(m) ==
    LET fresh == m.Nonce + 1
    IN  [m EXCEPT
            !.Nonce = fresh,
            !.State = [@ EXCEPT
                !.State = "QUEUED", !.InvocationNonce = fresh,
                !.InvocationRetryCount = 0, !.InvocationID = 0, !.Overruns = 0],
            !.starts = @ \cup {[nonce |-> fresh, retry |-> 0]}]

\* Forget the finished invocation and wait for the next one.
invocationFinished(m) ==
    maybeSuspendOrResume(scheduleTick(
        [m EXCEPT !.State = [@ EXCEPT
            !.State = "SCHEDULED", !.PrevTime = m.Now,
            !.InvocationNonce = 0, !.InvocationRetryCount = 0,
            !.InvocationID = 0, !.Overruns = 0]]))

-----------------------------------------------------------------------------
(* Events.                                                                 *)

OnJobEnabled(m) ==
    IF m.State.State = "DISABLED"
    THEN maybeSuspendOrResume(scheduleTick(
            [m EXCEPT !.State = CleanState("SCHEDULED")]))
    ELSE m

\* Mutants of OnJobDisabled: JobState{} with no State set, and a state that
\* keeps its other fields.
DisabledAsZeroValue(m) == [m EXCEPT !.State = CleanState("")]
OnJobDisabled(m) == [m EXCEPT !.State = CleanState("DISABLED")]

\* Late, cancelled and repeated ticks are skipped.
IsExpectingTick(s, tickNonce) ==
    s.State \notin {"DISABLED", "SUSPENDED"} /\ s.TickNonce = tickNonce

\* Mutant of TickTooSoon: early ticks are taken for timely ones.
NeverTooSoon(m, tickNonce) == FALSE

\* The handler returns an error, to be retried, when the tick comes too soon.
TickTooSoon(m, tickNonce) ==
    IsExpectingTick(m.State, tickNonce) /\ m.Now < m.State.TickTime

\* Mutant of skipTick: the overrun is reported with the count before it.
SkipTickOldCount(m) ==
    LET s == [m.State EXCEPT
                !.State = IF @ \in Running THEN "OVERRUN" ELSE "SLOW_QUEUE",
                !.Overruns = @ + 1]
    IN  [m EXCEPT
            !.State = s,
            !.overruns = @ \cup {[inv |-> s.InvocationNonce,
                                  overruns |-> m.State.Overruns,
                                  runningID |-> s.InvocationID]}]

\* The tick comes while an invocation is queued or running: skip it.
skipTick(m) ==
    LET s == [m.State EXCEPT
                !.State = IF @ \in Running THEN "OVERRUN"
                          ELSE IF @ \in Queued THEN "SLOW_QUEUE"
                          ELSE "IMPOSSIBLE",
                !.Overruns = @ + 1]
    IN  [m EXCEPT
            !.State = s,
            !.overruns = @ \cup {[inv |-> s.InvocationNonce,
                                  overruns |-> s.Overruns,
                                  runningID |-> s.InvocationID]}]

OnTimerTick(m, tickNonce) ==
    IF ~IsExpectingTick(m.State, tickNonce) \/ TickTooSoon(m, tickNonce) THEN m
    ELSE LET next == IF IsAbsolute(m.Schedule) THEN scheduleTick(m)
                     ELSE resetTick(m)
         IN  IF next.State.State = "SCHEDULED" THEN queueInvocation(next)
             ELSE skipTick(next)

OnInvocationStarting(m, invocationNonce, invocationID, retryCount) ==
    IF IsExpectingInvocation(m.State, invocationNonce)
    THEN [m EXCEPT !.State = [@ EXCEPT !.InvocationID = invocationID,
                                       !.InvocationRetryCount = retryCount]]
    ELSE m

OnInvocationStarted(m, invocationID) ==
    LET kind == IF m.State.State = "QUEUED" THEN "RUNNING"
                ELSE IF m.State.State = "SLOW_QUEUE" THEN "OVERRUN"
                ELSE "IMPOSSIBLE"
    IN  IF m.State.InvocationID = invocationID
        THEN [m EXCEPT !.State = [@ EXCEPT !.State = kind]]
        ELSE m

OnInvocationDone(m, invocationID) ==
    IF m.State.State \in Running /\ m.State.InvocationID = invocationID
    THEN invocationFinished(m)
    ELSE m

\* Mutant of OnScheduleChange: the tick of a running job is not cancelled when
\* its schedule becomes relative.
ScheduleChangeKeepsTick(m) ==
    IF m.State.State = "DISABLED" THEN m
    ELSE IF m.State.TickTime = ZeroTime
    THEN IF IsAbsolute(m.Schedule) THEN scheduleTick(m) ELSE m
    ELSE maybeSuspendOrResume(scheduleTick(m))

\* The schedule in m is the new one already.
OnScheduleChange(m) ==
    IF m.State.State = "DISABLED" THEN m
    ELSE IF m.State.TickTime = ZeroTime
    THEN IF IsAbsolute(m.Schedule) THEN scheduleTick(m) ELSE m
    ELSE IF ~IsAbsolute(m.Schedule) /\ m.State.State \notin Waiting
    THEN resetTick(m)
    ELSE maybeSuspendOrResume(scheduleTick(m))

\* Allowed in the waiting states only: the handler returns an error otherwise.
OnManualInvocation(m) ==
    LET queued == queueInvocation(m)
    IN  IF IsAbsolute(m.Schedule) THEN queued ELSE resetTick(queued)

OnManualAbort(m) ==
    IF m.State.InvocationNonce # 0 THEN invocationFinished(m) ELSE m
=============================================================================
