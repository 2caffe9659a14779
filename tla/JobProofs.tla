----------------------------- MODULE JobProofs -----------------------------
(***************************************************************************)
(* Proofs about module Job: its type invariant and the invariants that tie *)
(* the Job entity, its schedule and its task queues together, for every    *)
(* set of schedules, every cron table and every value of the bounds.       *)
(*                                                                         *)
(* The argument is about machine records first: every event of module      *)
(* StateMachine preserves MachineInv.  A transaction then commits such a   *)
(* machine (Commit), and the Job invariants are what MachineInv says of    *)
(* the committed job.                                                      *)
(***************************************************************************)
EXTENDS Job, TLAPS

\* The parts of the invariant of a machine.
KindOK(m) == m.State.State # "IMPOSSIBLE"
CleanOK(m) == m.State.State = "DISABLED" => m.State = CleanState("DISABLED")
TickOK(m) ==
    /\ m.State.TickTime \notin {ZeroTime, DistantFuture} =>
          [nonce |-> m.State.TickNonce, eta |-> m.State.TickTime] \in m.ticks
    /\ m.State.TickTime = ZeroTime => m.State.TickNonce = 0
    /\ \A t \in m.ticks : t.nonce # 0
BoundsOK(m) ==
    /\ m.State.TickNonce <= m.Nonce
    /\ m.State.PrevTime <= MaxTime
    /\ m.State.TickTime <= DistantFuture
InvocationOK(m) ==
    /\ m.State.InvocationNonce # 0 <=> m.State.State \in Active
    /\ m.State.InvocationID # 0 => m.State.State \in Active
    /\ m.State.State \in Running => m.State.InvocationID # 0
    /\ m.State.Overruns # 0 <=> m.State.State \in {"OVERRUN", "SLOW_QUEUE"}
StartOK(m) ==
    m.State.State \in Queued => \E t \in m.starts : t.nonce = m.State.InvocationNonce

\* What holds whatever the schedule is.
BaseInv(m) ==
    /\ m \in Machines
    /\ KindOK(m) /\ CleanOK(m) /\ TickOK(m) /\ BoundsOK(m)
    /\ InvocationOK(m) /\ StartOK(m)

\* The waiting states tell where the tick is.
WaitingOK(m) ==
    /\ m.State.State = "SCHEDULED" => m.State.TickTime \notin {ZeroTime, DistantFuture}
    /\ m.State.State = "SUSPENDED" => m.State.TickTime = DistantFuture

\* The tick agrees with the schedule of the machine.
ScheduleOK(m) ==
    m.State.State # "DISABLED" =>
        /\ m.State.TickTime = DistantFuture <=> m.Schedule = Triggered
        /\ m.State.TickTime = ZeroTime
              <=> ~IsAbsolute(m.Schedule) /\ m.State.State \in Active
IntervalOK(m) ==
    m.Schedule.kind = "with" /\ m.State.State = "SCHEDULED" /\ m.State.PrevTime # ZeroTime
        => m.State.TickTime >= m.State.PrevTime + m.Schedule.interval

MachineInv(m) == BaseInv(m) /\ WaitingOK(m) /\ ScheduleOK(m) /\ IntervalOK(m)

USE DEF ZeroTime

-----------------------------------------------------------------------------
(* Schedules.                                                              *)

\* Schedule.Next returns a moment after the zero time; it is DistantFuture for
\* the triggered schedule alone, later than now for a cron table, and at least
\* an interval after the previous invocation for a relative schedule.
LEMMA NextTickFacts ==
    ASSUME NEW sched \in Schedules \cup {Triggered}, NEW t \in 1..MaxTime,
           NEW prev \in 0..MaxTime
    PROVE  LET next == NextTick(sched, t, prev)
           IN  /\ next \in Nat /\ next > 0 /\ next <= DistantFuture
               /\ next = DistantFuture <=> sched = Triggered
               /\ sched.kind = "cron" => next > t
               /\ sched.kind = "with" /\ prev # 0 => next >= prev + sched.interval
<1> USE SchedulesAssumption, TimeAssumption
<1>1. CASE sched.kind = "triggered"
  <2>1. sched = Triggered
    BY <1>1
  <2> QED
    BY <1>1, <2>1 DEF NextTick, Triggered
<1>2. CASE sched.kind = "cron"
  <2>1. sched \in Schedules /\ sched # Triggered
    BY <1>2 DEF Triggered
  <2>2. CronNext(sched, t) \in Nat /\ t < CronNext(sched, t) /\ CronNext(sched, t) < DistantFuture
    BY <1>2, <2>1, CronAssumption
  <2> QED
    BY <1>2, <2>1, <2>2 DEF NextTick
<1>3. CASE sched.kind = "with"
  <2>1. sched \in Schedules /\ sched # Triggered
    BY <1>3 DEF Triggered
  <2>2. /\ sched.interval \in Nat /\ sched.offset \in Nat
        /\ sched.offset <= sched.interval /\ MaxTime + sched.interval < DistantFuture
    BY <2>1 DEF ScheduleRecords
  <2> QED
    BY <1>3, <2>1, <2>2 DEF NextTick
<1> QED
  BY <1>1, <1>2, <1>3 DEF ScheduleRecords, Triggered

\* A schedule is one of three kinds, and Triggered is the triggered one.
LEMMA ScheduleKinds ==
    ASSUME NEW sched \in Schedules \cup {Triggered}
    PROVE  /\ sched = Triggered <=> sched.kind = "triggered"
           /\ IsAbsolute(sched) <=> sched.kind # "with"
           /\ sched.kind \in {"cron", "with", "triggered"}
           /\ sched.interval \in Nat
BY SchedulesAssumption DEF IsAbsolute, Triggered, ScheduleRecords

-----------------------------------------------------------------------------
(* Helpers of the state machine.                                           *)

\* r is m with another tick: the one its schedule asks for, in the queue unless
\* it is in the distant future.
TickSet(m, r) ==
    /\ r \in Machines
    /\ r.Now = m.Now /\ r.Schedule = m.Schedule
    /\ r.starts = m.starts /\ r.overruns = m.overruns
    /\ r.State.State = m.State.State
    /\ r.State.PrevTime = m.State.PrevTime
    /\ r.State.Overruns = m.State.Overruns
    /\ r.State.InvocationNonce = m.State.InvocationNonce
    /\ r.State.InvocationID = m.State.InvocationID
    /\ r.State.TickTime = NextTick(m.Schedule, m.Now, m.State.PrevTime)
    /\ TickOK(r)
    /\ r.State.TickNonce <= r.Nonce
    /\ r.State.TickTime = m.State.TickTime \/ r.State.TickNonce > m.Nonce

\* scheduleTick sets the tick to what the schedule says, puts the task for it
\* in the queue and touches nothing else.
LEMMA ScheduleTickFacts ==
    ASSUME NEW m \in Machines, m.State.PrevTime <= MaxTime,
           m.State.TickNonce <= m.Nonce, TickOK(m)
    PROVE  TickSet(m, scheduleTick(m))
<1> DEFINE next == NextTick(m.Schedule, m.Now, m.State.PrevTime)
<1>1. next \in Nat /\ next # 0
  <2>1. /\ m.Schedule \in Schedules \cup {Triggered} /\ m.Now \in 1..MaxTime
        /\ m.State.PrevTime \in 0..MaxTime
    BY TimeAssumption DEF Machines, JobStates
  <2> QED
    BY <2>1, NextTickFacts
<1> HIDE DEF next
<1>2. CASE next = m.State.TickTime
  <2>1. scheduleTick(m) = m
    BY <1>2 DEF scheduleTick, next
  <2> QED
    BY <1>2, <2>1 DEF TickSet, next
<1>3. CASE next # m.State.TickTime
  <2> DEFINE fresh == m.Nonce + 1
             s == [m.State EXCEPT !.TickTime = next, !.TickNonce = fresh]
             q == IF next = DistantFuture THEN m.ticks
                  ELSE m.ticks \cup {[nonce |-> fresh, eta |-> next]}
             r == [m EXCEPT !.Nonce = fresh, !.State = s, !.ticks = q]
  <2>1. scheduleTick(m) = r
    BY <1>3 DEF scheduleTick, next
  <2>2. fresh \in Nat /\ m.Nonce < fresh
    BY DEF Machines
  <2>3. /\ s \in JobStates /\ s.TickTime = next /\ s.TickNonce = fresh
        /\ s.State = m.State.State /\ s.PrevTime = m.State.PrevTime
        /\ s.Overruns = m.State.Overruns
        /\ s.InvocationNonce = m.State.InvocationNonce
        /\ s.InvocationID = m.State.InvocationID
    BY <1>1, <2>2 DEF Machines, JobStates
  <2>4. q \in SUBSET TickTasks
    BY <1>1, <2>2 DEF Machines, TickTasks
  <2>5. /\ r \in Machines /\ r.State = s /\ r.Nonce = fresh /\ r.ticks = q
        /\ r.Now = m.Now /\ r.Schedule = m.Schedule
        /\ r.starts = m.starts /\ r.overruns = m.overruns
    BY <2>2, <2>3, <2>4 DEF Machines
  <2> HIDE DEF r, s
  <2>6. TickOK(r)
    <3>1. \A t \in q : t.nonce # 0
      BY <2>2 DEF TickOK, Machines
    <3> QED
      BY <1>1, <2>3, <2>5, <3>1 DEF TickOK
  <2>7. r.State.TickNonce <= r.Nonce
    BY <2>2, <2>3, <2>5
  <2> HIDE DEF q, fresh
  <2> QED
    BY <2>1, <2>2, <2>3, <2>5, <2>6, <2>7 DEF TickSet, next
<1> QED
  BY <1>2, <1>3

\* A machine that is to tick (it waits, or its schedule is absolute) satisfies
\* the whole invariant once its tick is set anew.
LEMMA Reschedule ==
    ASSUME NEW m, BaseInv(m), m.State.State # "DISABLED",
           m.State.State \in Active => IsAbsolute(m.Schedule)
    PROVE  /\ MachineInv(maybeSuspendOrResume(scheduleTick(m)))
           /\ maybeSuspendOrResume(scheduleTick(m)).Schedule = m.Schedule
           /\ maybeSuspendOrResume(scheduleTick(m)).Now = m.Now
           /\ maybeSuspendOrResume(scheduleTick(m)).overruns = m.overruns
           /\ maybeSuspendOrResume(scheduleTick(m)).State.State # "DISABLED"
           /\ m.State.State \in Waiting
                => maybeSuspendOrResume(scheduleTick(m)).State.State \in Waiting
           /\ maybeSuspendOrResume(scheduleTick(m)).State.InvocationNonce
                = m.State.InvocationNonce
           /\ maybeSuspendOrResume(scheduleTick(m)).State.Overruns = m.State.Overruns
<1> DEFINE t == scheduleTick(m)
           r == maybeSuspendOrResume(t)
           next == NextTick(m.Schedule, m.Now, m.State.PrevTime)
<1>1. m \in Machines /\ m.State \in JobStates /\ m.State.PrevTime \in 0..MaxTime
      /\ m.Schedule \in Schedules \cup {Triggered} /\ m.Now \in 1..MaxTime
  BY TimeAssumption DEF BaseInv, BoundsOK, Machines, JobStates
<1>2. TickSet(m, t)
  BY <1>1, ScheduleTickFacts DEF BaseInv, BoundsOK
<1>3. /\ next \in Nat /\ next > 0 /\ next <= DistantFuture
      /\ next = DistantFuture <=> m.Schedule = Triggered
      /\ m.Schedule.kind = "with" /\ m.State.PrevTime # 0
            => next >= m.State.PrevTime + m.Schedule.interval
  BY <1>1, NextTickFacts
<1> HIDE DEF t, next
<1>4. t \in Machines /\ t.State \in JobStates /\ t.State.TickTime = next
      /\ t.State.State = m.State.State /\ t.Schedule = m.Schedule /\ t.Now = m.Now
  BY <1>2 DEF TickSet, Machines, next
<1> DEFINE kind == IF m.State.State = "SCHEDULED" /\ next = DistantFuture THEN "SUSPENDED"
                   ELSE IF m.State.State = "SUSPENDED" /\ next # DistantFuture THEN "SCHEDULED"
                   ELSE m.State.State
<1>5. r = [t EXCEPT !.State = [t.State EXCEPT !.State = kind]]
  BY <1>4 DEF maybeSuspendOrResume
<1>6. kind \in StateKinds /\ kind \notin {"DISABLED", "IMPOSSIBLE"}
      /\ (kind \in Active <=> m.State.State \in Active)
      /\ (kind \in Active => kind = m.State.State)
      /\ (m.State.State \in Waiting => kind \in Waiting)
      /\ (kind = "SCHEDULED" => next # DistantFuture)
      /\ (kind = "SUSPENDED" => next = DistantFuture)
  BY <1>1 DEF BaseInv, KindOK, JobStates, StateKinds, Active, Queued, Running, Waiting
<1> HIDE DEF kind
<1>7. /\ r \in Machines /\ r.State.State = kind /\ r.State.TickTime = next
      /\ r.State.TickNonce = t.State.TickNonce /\ r.State.PrevTime = m.State.PrevTime
      /\ r.State.Overruns = m.State.Overruns
      /\ r.State.InvocationNonce = m.State.InvocationNonce
      /\ r.State.InvocationID = m.State.InvocationID
      /\ r.ticks = t.ticks /\ r.starts = m.starts /\ r.Nonce = t.Nonce
      /\ r.Schedule = m.Schedule /\ r.Now = m.Now /\ r.overruns = m.overruns
  BY <1>2, <1>4, <1>5, <1>6 DEF TickSet, Machines, JobStates
<1> HIDE DEF r
<1>8. KindOK(r) /\ CleanOK(r) /\ WaitingOK(r)
  BY <1>3, <1>6, <1>7 DEF KindOK, CleanOK, WaitingOK
<1>9. TickOK(r) /\ BoundsOK(r)
  BY <1>1, <1>2, <1>3, <1>4, <1>7 DEF TickSet, TickOK, BoundsOK
<1>10. InvocationOK(r) /\ StartOK(r)
  BY <1>6, <1>7 DEF BaseInv, InvocationOK, StartOK, Active, Queued, Running
<1>11. ScheduleOK(r)
  <2>1. IsAbsolute(m.Schedule) \/ kind \notin Active
    BY <1>6
  <2> QED
    BY <1>3, <1>6, <1>7, <2>1 DEF ScheduleOK
<1>12. IntervalOK(r)
  BY <1>3, <1>7 DEF IntervalOK
<1> QED
  BY <1>6, <1>7, <1>8, <1>9, <1>10, <1>11, <1>12 DEF MachineInv, BaseInv, r, t
-----------------------------------------------------------------------------
(* Events of the state machine.  SameWorld: an event changes neither the   *)
(* clock nor the schedule of its machine, and takes no overrun back.       *)

SameWorld(m, r) ==
    r.Now = m.Now /\ r.Schedule = m.Schedule /\ m.overruns \subseteq r.overruns

\* The event queues no new invocation and counts no overrun.
NothingNew(m, r) ==
    /\ r.State.InvocationNonce \in {0, m.State.InvocationNonce}
    /\ r.State.Overruns \in {0, m.State.Overruns}

\* Enabling a disabled job starts it afresh: SCHEDULED or SUSPENDED, with the
\* tick its schedule asks for.
LEMMA EnabledFacts ==
    ASSUME NEW m, BaseInv(m), m.State.State = "DISABLED"
    PROVE  /\ MachineInv(OnJobEnabled(m)) /\ SameWorld(m, OnJobEnabled(m))
           /\ OnJobEnabled(m).State.State # "DISABLED"
           /\ NothingNew(m, OnJobEnabled(m))
<1> DEFINE c == [m EXCEPT !.State = CleanState("SCHEDULED")]
<1>1. OnJobEnabled(m) = maybeSuspendOrResume(scheduleTick(c))
  BY DEF OnJobEnabled
<1>2. CleanState("SCHEDULED") \in JobStates
  BY DEF CleanState, JobStates, StateKinds, Waiting, Active
<1>3. /\ c \in Machines /\ c.State = CleanState("SCHEDULED")
      /\ c.Nonce \in Nat /\ SameWorld(m, c) /\ c.ticks = m.ticks
  BY <1>2 DEF BaseInv, Machines, SameWorld
<1> HIDE DEF c
<1>4. c.State.State \notin Active /\ c.State.State # "DISABLED"
  BY <1>3 DEF CleanState, Active, Queued, Running
<1>5. BaseInv(c)
  BY <1>3, TimeAssumption
     DEF CleanState, BaseInv, KindOK, CleanOK, TickOK, BoundsOK, InvocationOK,
         StartOK, Active, Queued, Running
<1>6. c.State.InvocationNonce = 0 /\ c.State.Overruns = 0
  BY <1>3 DEF CleanState
<1> QED
  BY <1>1, <1>3, <1>4, <1>5, <1>6, Reschedule DEF SameWorld, NothingNew

\* Disabling a job wipes its state, whatever it was.
LEMMA DisabledFacts ==
    ASSUME NEW m \in Machines, \A t \in m.ticks : t.nonce # 0
    PROVE  /\ MachineInv(OnJobDisabled(m)) /\ SameWorld(m, OnJobDisabled(m))
           /\ OnJobDisabled(m).State.State = "DISABLED"
           /\ NothingNew(m, OnJobDisabled(m))
<1> DEFINE c == OnJobDisabled(m)
<1>1. CleanState("DISABLED") \in JobStates
  BY DEF CleanState, JobStates, StateKinds
<1>2. /\ c \in Machines /\ c.State = CleanState("DISABLED")
      /\ c.Nonce \in Nat /\ SameWorld(m, c) /\ c.ticks = m.ticks
  BY <1>1 DEF OnJobDisabled, Machines, SameWorld
<1> HIDE DEF c
<1>3. c.State.State = "DISABLED"
  BY <1>2 DEF CleanState
<1>4. BaseInv(c)
  BY <1>2, TimeAssumption
     DEF CleanState, BaseInv, KindOK, CleanOK, TickOK, BoundsOK, InvocationOK,
         StartOK, Active, Queued, Running
<1>5. c.State.InvocationNonce = 0 /\ c.State.Overruns = 0
  BY <1>2 DEF CleanState
<1> QED
  BY <1>2, <1>3, <1>4, <1>5 DEF MachineInv, WaitingOK, ScheduleOK, IntervalOK, NothingNew, c

\* The end of an invocation (finished or aborted) leaves the machine waiting for
\* the tick that its schedule computes from this moment.
LEMMA FinishedFacts ==
    ASSUME NEW m, BaseInv(m)
    PROVE  /\ MachineInv(invocationFinished(m)) /\ SameWorld(m, invocationFinished(m))
           /\ invocationFinished(m).State.State \in Waiting
           /\ NothingNew(m, invocationFinished(m))
<1> DEFINE s == [m.State EXCEPT
                   !.State = "SCHEDULED", !.PrevTime = m.Now,
                   !.InvocationNonce = 0, !.InvocationRetryCount = 0,
                   !.InvocationID = 0, !.Overruns = 0]
           c == [m EXCEPT !.State = s]
<1>1. invocationFinished(m) = maybeSuspendOrResume(scheduleTick(c))
  BY DEF invocationFinished
<1>2. m \in Machines /\ m.State \in JobStates /\ m.Now \in 1..MaxTime
  BY DEF BaseInv, Machines
<1>3. /\ s \in JobStates /\ s.State = "SCHEDULED" /\ s.PrevTime = m.Now
      /\ s.InvocationNonce = 0 /\ s.InvocationID = 0 /\ s.Overruns = 0
      /\ s.TickTime = m.State.TickTime /\ s.TickNonce = m.State.TickNonce
  <2>1. m.Now \in Nat /\ "SCHEDULED" \in StateKinds
    BY <1>2, TimeAssumption DEF StateKinds, Waiting
  <2>2. s = [State |-> "SCHEDULED", Overruns |-> 0, TickNonce |-> m.State.TickNonce,
             TickTime |-> m.State.TickTime, PrevTime |-> m.Now, InvocationNonce |-> 0,
             InvocationRetryCount |-> 0, InvocationID |-> 0]
    <3> DEFINE a == [m.State EXCEPT !.State = "SCHEDULED", !.PrevTime = m.Now,
                                    !.InvocationNonce = 0]
    <3>1. a = [m.State EXCEPT !.State = "SCHEDULED", !.PrevTime = m.Now,
                              !.InvocationNonce = 0]
      OBVIOUS
    <3>2. s = [a EXCEPT !.InvocationRetryCount = 0, !.InvocationID = 0, !.Overruns = 0]
      OBVIOUS
    <3> HIDE DEF a, s
    <3>3. a = [State |-> "SCHEDULED", Overruns |-> m.State.Overruns,
               TickNonce |-> m.State.TickNonce,
               TickTime |-> m.State.TickTime, PrevTime |-> m.Now, InvocationNonce |-> 0,
               InvocationRetryCount |-> m.State.InvocationRetryCount,
               InvocationID |-> m.State.InvocationID]
      BY <1>2, <3>1 DEF JobStates
    <3> QED
      BY <3>2, <3>3
  <2> HIDE DEF s
  <2>3. m.State.TickNonce \in Nat /\ m.State.TickTime \in Nat
    BY <1>2 DEF JobStates
  <2> QED
    BY <2>1, <2>2, <2>3 DEF JobStates
<1>4. /\ c \in Machines /\ c.State = s /\ SameWorld(m, c) /\ c.Nonce = m.Nonce
      /\ c.ticks = m.ticks
  BY <1>2, <1>3 DEF Machines, SameWorld
<1> HIDE DEF c, s
<1>5. BaseInv(c)
  BY <1>2, <1>3, <1>4, TimeAssumption
     DEF BaseInv, KindOK, CleanOK, TickOK, BoundsOK, InvocationOK,
         StartOK, Active, Queued, Running
<1>6. c.State.State \notin Active /\ c.State.State # "DISABLED" /\ c.State.State \in Waiting
  BY <1>3, <1>4 DEF Active, Queued, Running, Waiting
<1>7. c.State.InvocationNonce = 0 /\ c.State.Overruns = 0
  BY <1>3, <1>4
<1> QED
  BY <1>1, <1>4, <1>5, <1>6, <1>7, Reschedule DEF SameWorld, NothingNew

\* The tick of an active machine follows from the schedule alone.
TickAgrees(m) ==
    /\ m.State.TickTime = DistantFuture <=> m.Schedule = Triggered
    /\ m.State.TickTime = ZeroTime <=> ~IsAbsolute(m.Schedule)

\* An active machine satisfies the whole invariant when its tick agrees with the
\* schedule.
LEMMA ActiveInv ==
    ASSUME NEW m, BaseInv(m), m.State.State \in Active, TickAgrees(m)
    PROVE  MachineInv(m)
BY DEF MachineInv, WaitingOK, ScheduleOK, IntervalOK, TickAgrees, Active, Queued, Running

\* resetTick forgets the tick and touches nothing else.
LEMMA ResetFacts ==
    ASSUME NEW m, BaseInv(m), m.State.State # "DISABLED"
    PROVE  /\ BaseInv(resetTick(m)) /\ SameWorld(m, resetTick(m))
           /\ resetTick(m).State.State = m.State.State
           /\ resetTick(m).State.TickTime = 0
           /\ resetTick(m).State.InvocationNonce = m.State.InvocationNonce
           /\ resetTick(m).State.Overruns = m.State.Overruns
           /\ resetTick(m).ticks = m.ticks
<1> DEFINE r == resetTick(m)
<1>1. m \in Machines /\ m.State \in JobStates /\ m.Nonce \in Nat
  BY DEF BaseInv, Machines
<1>2. /\ r \in Machines /\ SameWorld(m, r) /\ r.starts = m.starts /\ r.Nonce = m.Nonce
      /\ r.ticks = m.ticks
      /\ r.State.State = m.State.State /\ r.State.TickTime = 0 /\ r.State.TickNonce = 0
      /\ r.State.PrevTime = m.State.PrevTime
      /\ r.State.Overruns = m.State.Overruns
      /\ r.State.InvocationNonce = m.State.InvocationNonce
      /\ r.State.InvocationID = m.State.InvocationID
  BY <1>1 DEF resetTick, Machines, JobStates, SameWorld
<1> HIDE DEF r
<1>3. BaseInv(r)
  BY <1>1, <1>2, TimeAssumption
     DEF BaseInv, KindOK, CleanOK, TickOK, BoundsOK, InvocationOK, StartOK
<1> QED
  BY <1>2, <1>3 DEF r

\* OnScheduleChange restores the invariant from what is independent of the
\* schedule: it repairs the tick in every state.
LEMMA ScheduleChangeFacts ==
    ASSUME NEW m, BaseInv(m), WaitingOK(m)
    PROVE  /\ MachineInv(OnScheduleChange(m)) /\ SameWorld(m, OnScheduleChange(m))
           /\ OnScheduleChange(m).State.State = "DISABLED" <=> m.State.State = "DISABLED"
           /\ NothingNew(m, OnScheduleChange(m))
<1>1. /\ m \in Machines /\ m.State \in JobStates
      /\ m.Schedule \in Schedules \cup {Triggered}
  BY DEF BaseInv, Machines
<1>2. CASE m.State.State = "DISABLED"
  <2>1. OnScheduleChange(m) = m
    BY <1>2 DEF OnScheduleChange
  <2> QED
    BY <1>1, <1>2, <2>1 DEF MachineInv, ScheduleOK, IntervalOK, SameWorld, NothingNew
<1>3. CASE m.State.State # "DISABLED" /\ (IsAbsolute(m.Schedule) \/ m.State.State \in Waiting)
  <2> DEFINE t == scheduleTick(m)
             r == maybeSuspendOrResume(t)
  <2>1. m.State.State \in Active => IsAbsolute(m.Schedule)
    BY <1>3 DEF Active, Queued, Running, Waiting
  <2>2. /\ MachineInv(r) /\ SameWorld(m, r) /\ r.State.State # "DISABLED"
        /\ NothingNew(m, r)
    BY <1>3, <2>1, Reschedule DEF SameWorld, NothingNew
  <2>3. CASE m.State.TickTime = 0
    <3>1. m.State.State \notin Waiting
      BY <2>3, TimeAssumption DEF WaitingOK, Waiting
    <3>2. OnScheduleChange(m) = t
      BY <1>3, <2>3, <3>1 DEF OnScheduleChange
    <3>3. TickSet(m, t)
      BY <1>1, ScheduleTickFacts DEF BaseInv, BoundsOK
    <3>4. t \in Machines /\ t.State \in JobStates /\ t.State.State \notin Waiting
      BY <3>1, <3>3 DEF TickSet, Machines
    <3>5. r = [t EXCEPT !.State = [t.State EXCEPT !.State = t.State.State]]
      BY <3>4 DEF maybeSuspendOrResume, Waiting
    <3>6. r = t
      BY <3>4, <3>5 DEF Machines, JobStates
    <3> QED
      BY <1>3, <2>2, <3>2, <3>6
  <2>4. CASE m.State.TickTime # 0
    <3>1. OnScheduleChange(m) = r
      BY <1>3, <2>4 DEF OnScheduleChange
    <3> QED
      BY <1>3, <2>2, <3>1
  <2> QED
    BY <2>3, <2>4
<1>4. CASE m.State.State \notin Waiting /\ m.State.State # "DISABLED" /\ ~IsAbsolute(m.Schedule)
  <2>1. m.State.State \in Active /\ m.State.State # "SCHEDULED" /\ m.State.State # "SUSPENDED"
    BY <1>1, <1>4 DEF BaseInv, KindOK, JobStates, StateKinds, Waiting
  <2>2. m.Schedule # Triggered
    BY <1>1, <1>4, ScheduleKinds
  <2>3. CASE m.State.TickTime = 0
    <3>1. OnScheduleChange(m) = m
      BY <1>4, <2>3 DEF OnScheduleChange
    <3> QED
      BY <1>4, <2>1, <2>2, <2>3, <3>1, ActiveInv, TimeAssumption
         DEF TickAgrees, SameWorld, NothingNew
  <2>4. CASE m.State.TickTime # 0
    <3>1. OnScheduleChange(m) = resetTick(m)
      BY <1>4, <2>4 DEF OnScheduleChange
    <3> DEFINE r == resetTick(m)
    <3>2. BaseInv(r) /\ SameWorld(m, r) /\ r.State.State = m.State.State
          /\ r.State.TickTime = 0 /\ NothingNew(m, r)
      BY <1>4, ResetFacts DEF NothingNew
    <3> HIDE DEF r
    <3>3. TickAgrees(r)
      BY <1>4, <2>2, <3>2, TimeAssumption DEF TickAgrees, SameWorld
    <3>4. MachineInv(r)
      BY <2>1, <3>2, <3>3, ActiveInv
    <3> QED
      BY <1>4, <3>1, <3>2, <3>4 DEF r
  <2> QED
    BY <2>3, <2>4
<1> QED
  BY <1>2, <1>3, <1>4

\* queueInvocation emits the start task of the nonce it stores, and leaves the
\* tick alone.
LEMMA QueueFacts ==
    ASSUME NEW m, BaseInv(m)
    PROVE  /\ BaseInv(queueInvocation(m)) /\ SameWorld(m, queueInvocation(m))
           /\ queueInvocation(m).State.State = "QUEUED"
           /\ queueInvocation(m).State.TickTime = m.State.TickTime
           /\ queueInvocation(m).State.TickNonce = m.State.TickNonce
           /\ queueInvocation(m).ticks = m.ticks
           /\ queueInvocation(m).State.Overruns = 0
<1> DEFINE fresh == m.Nonce + 1
           a == [m.State EXCEPT !.State = "QUEUED", !.InvocationNonce = fresh]
           s == [a EXCEPT !.InvocationRetryCount = 0, !.InvocationID = 0, !.Overruns = 0]
           q == m.starts \cup {[nonce |-> fresh, retry |-> 0]}
           r == [m EXCEPT !.Nonce = fresh, !.State = s, !.starts = q]
<1>1. m \in Machines /\ m.State \in JobStates /\ m.Nonce \in Nat /\ fresh \in Nat
  BY DEF BaseInv, Machines
<1>2. queueInvocation(m) = r
  BY DEF queueInvocation
<1>3. fresh # 0 /\ m.Nonce < fresh
  BY <1>1
<1> HIDE DEF fresh
<1>4. a \in JobStates /\ a.State = "QUEUED" /\ a.InvocationNonce = fresh
      /\ a.TickTime = m.State.TickTime /\ a.TickNonce = m.State.TickNonce
      /\ a.PrevTime = m.State.PrevTime
  BY <1>1 DEF JobStates, StateKinds, Active, Queued
<1> HIDE DEF a
<1>5. s \in JobStates /\ s.State = "QUEUED" /\ s.InvocationNonce = fresh
      /\ s.TickTime = m.State.TickTime /\ s.TickNonce = m.State.TickNonce
      /\ s.PrevTime = m.State.PrevTime /\ s.InvocationID = 0 /\ s.Overruns = 0
  BY <1>4 DEF JobStates
<1> HIDE DEF s
<1>6. q \in SUBSET StartTasks
  BY <1>1 DEF Machines, StartTasks
<1>7. \E t \in q : t.nonce = fresh
  <2>1. [nonce |-> fresh, retry |-> 0] \in q
    OBVIOUS
  <2> HIDE DEF q
  <2>2. [nonce |-> fresh, retry |-> 0].nonce = fresh
    OBVIOUS
  <2> QED
    BY <2>1, <2>2
<1> HIDE DEF q
<1>8. /\ r \in Machines /\ SameWorld(m, r) /\ r.starts = q /\ r.Nonce = fresh
      /\ r.ticks = m.ticks /\ r.State = s
  BY <1>1, <1>5, <1>6 DEF Machines, SameWorld
<1> HIDE DEF r
<1>9. KindOK(r) /\ CleanOK(r) /\ InvocationOK(r) /\ StartOK(r)
  BY <1>3, <1>5, <1>7, <1>8
     DEF KindOK, CleanOK, InvocationOK, StartOK, Active, Queued, Running
<1>10. TickOK(r)
  BY <1>5, <1>8 DEF BaseInv, TickOK
<1>11. BoundsOK(r)
  BY <1>1, <1>3, <1>5, <1>8 DEF BaseInv, BoundsOK, JobStates
<1> QED
  BY <1>2, <1>5, <1>8, <1>9, <1>10, <1>11 DEF BaseInv

\* The event counts one more overrun of the invocation and asks for the record
\* that carries the new count.
Counted(m, r) ==
    /\ r.State.Overruns = m.State.Overruns + 1
    /\ r.State.InvocationNonce = m.State.InvocationNonce
    /\ \E t \in r.overruns :
          t.inv = r.State.InvocationNonce /\ t.overruns = r.State.Overruns

\* A skipped tick counts an overrun in the state that says so.
LEMMA SkipFacts ==
    ASSUME NEW m, BaseInv(m), m.State.State \in Active, TickAgrees(m)
    PROVE  /\ MachineInv(skipTick(m)) /\ SameWorld(m, skipTick(m))
           /\ skipTick(m).State.State \in Active
           /\ skipTick(m).State.TickTime = m.State.TickTime
           /\ skipTick(m).State.TickNonce = m.State.TickNonce
           /\ skipTick(m).ticks = m.ticks
           /\ skipTick(m).State.InvocationNonce = m.State.InvocationNonce
           /\ Counted(m, skipTick(m))
<1> DEFINE kind == IF m.State.State \in Running THEN "OVERRUN"
                   ELSE IF m.State.State \in Queued THEN "SLOW_QUEUE"
                   ELSE "IMPOSSIBLE"
           s == [m.State EXCEPT !.State = kind, !.Overruns = m.State.Overruns + 1]
           q == m.overruns \cup {[inv |-> s.InvocationNonce, overruns |-> s.Overruns,
                                  runningID |-> s.InvocationID]}
           r == [m EXCEPT !.State = s, !.overruns = q]
<1>1. m \in Machines /\ m.State \in JobStates
  BY DEF BaseInv, Machines
<1>2. skipTick(m) = r
  BY <1>1 DEF skipTick, Machines, JobStates
<1>3. /\ m.State.State \in Running => kind = "OVERRUN"
      /\ m.State.State \notin Running => m.State.State \in Queued /\ kind = "SLOW_QUEUE"
      /\ kind \in {"OVERRUN", "SLOW_QUEUE"}
  BY DEF Active
<1> HIDE DEF kind
<1>4. s \in JobStates /\ s.State = kind /\ s.Overruns # 0
      /\ s.Overruns = m.State.Overruns + 1
      /\ s.TickTime = m.State.TickTime /\ s.TickNonce = m.State.TickNonce
      /\ s.PrevTime = m.State.PrevTime
      /\ s.InvocationNonce = m.State.InvocationNonce
      /\ s.InvocationID = m.State.InvocationID
  <2>1. m.State.Overruns \in Nat /\ m.State.Overruns + 1 \in Nat \ {0}
    BY <1>1 DEF JobStates
  <2>2. kind \in StateKinds
    BY <1>3 DEF StateKinds, Active, Queued, Running
  <2> DEFINE n == m.State.Overruns + 1
  <2>3. n \in Nat \ {0} /\ s = [m.State EXCEPT !.State = kind, !.Overruns = n]
        /\ n = m.State.Overruns + 1
    BY <2>1
  <2> HIDE DEF n, s
  <2> QED
    BY <1>1, <2>2, <2>3 DEF JobStates
<1> HIDE DEF s
<1>5. q \in SUBSET OverrunTasks /\ m.overruns \subseteq q
  BY <1>1, <1>4 DEF Machines, OverrunTasks, JobStates
<1>a. \E t \in q : t.inv = s.InvocationNonce /\ t.overruns = s.Overruns
  <2> DEFINE e == [inv |-> s.InvocationNonce, overruns |-> s.Overruns,
                   runningID |-> s.InvocationID]
  <2>1. e \in q /\ e.inv = s.InvocationNonce /\ e.overruns = s.Overruns
    OBVIOUS
  <2> HIDE DEF e, q
  <2> QED
    BY <2>1
<1> HIDE DEF q
<1>6. /\ r \in Machines /\ SameWorld(m, r) /\ r.starts = m.starts /\ r.Nonce = m.Nonce
      /\ r.ticks = m.ticks /\ r.State = s /\ r.overruns = q
  BY <1>1, <1>4, <1>5 DEF Machines, SameWorld
<1> HIDE DEF r
<1>7. KindOK(r) /\ CleanOK(r) /\ InvocationOK(r)
  BY <1>3, <1>4, <1>6 DEF BaseInv, KindOK, CleanOK, InvocationOK, Active, Queued, Running
<1>8. StartOK(r)
  BY <1>3, <1>4, <1>6 DEF BaseInv, StartOK, Queued
<1>9. TickOK(r) /\ BoundsOK(r)
  BY <1>4, <1>6 DEF BaseInv, TickOK, BoundsOK
<1>10. BaseInv(r) /\ TickAgrees(r) /\ r.State.State \in Active
  BY <1>3, <1>4, <1>6, <1>7, <1>8, <1>9
     DEF BaseInv, TickAgrees, SameWorld, Active, Queued, Running
<1>11. Counted(m, r)
  BY <1>4, <1>6, <1>a DEF Counted
<1> QED
  BY <1>2, <1>4, <1>6, <1>10, <1>11, ActiveInv

\* An invocation is queued by a due tick of a SCHEDULED machine only, and an
\* overrun counted by a tick of an absolute schedule, which gets its next tick.
NewOnDueTick(m, r) ==
    /\ \/ r.State.InvocationNonce = m.State.InvocationNonce
       \/ m.State.State = "SCHEDULED" /\ m.State.TickTime <= m.Now
    /\ \/ r.State.Overruns = 0 \/ r.State = m.State
       \/ /\ IsAbsolute(m.Schedule) /\ m.State.State \in Active
          /\ r.State.TickNonce # m.State.TickNonce /\ Counted(m, r)

\* A tick that is expected and due: the machine gets its next tick (or none, on
\* a relative schedule), and the task t that delivered the tick can be dropped.
LEMMA TimerTickFacts ==
    ASSUME NEW m, MachineInv(m), NEW t \in TickTasks, t.nonce # 0,
           ~TickTooSoon(m, t.nonce)
    PROVE  LET r == OnTimerTick(m, t.nonce)
               acked == [r EXCEPT !.ticks = @ \ {t}]
           IN  /\ MachineInv(r) /\ SameWorld(m, r)
               /\ MachineInv(acked) /\ SameWorld(m, acked)
               /\ r.State.State = "DISABLED" <=> m.State.State = "DISABLED"
               /\ NewOnDueTick(m, r)
<1> DEFINE r == OnTimerTick(m, t.nonce)
           acked == [r EXCEPT !.ticks = @ \ {t}]
<1>1. /\ m \in Machines /\ m.State \in JobStates /\ BaseInv(m) /\ m.Nonce \in Nat
      /\ m.Schedule \in Schedules \cup {Triggered} /\ m.Now \in 1..MaxTime
      /\ t.nonce \in Nat
  BY DEF MachineInv, BaseInv, Machines, TickTasks
<1>2. /\ MachineInv(r) /\ SameWorld(m, r)
      /\ r.State.State = "DISABLED" <=> m.State.State = "DISABLED"
      /\ r.State.TickTime \notin {0, DistantFuture} => r.State.TickNonce # t.nonce
      /\ NewOnDueTick(m, r)
  <2>1. CASE ~IsExpectingTick(m.State, t.nonce)
    <3>1. r = m
      BY <2>1 DEF OnTimerTick
    <3>2. m.State.TickTime \notin {0, DistantFuture} => m.State.TickNonce # t.nonce
      BY <2>1 DEF IsExpectingTick, MachineInv, BaseInv, CleanOK, CleanState, WaitingOK
    <3> QED
      BY <3>1, <3>2 DEF SameWorld, NewOnDueTick
  <2>2. CASE IsExpectingTick(m.State, t.nonce)
    <3> DEFINE n == IF IsAbsolute(m.Schedule) THEN scheduleTick(m) ELSE resetTick(m)
    <3>1. r = IF n.State.State = "SCHEDULED" THEN queueInvocation(n) ELSE skipTick(n)
      BY <2>2 DEF OnTimerTick
    <3>2. /\ m.State.State = "SCHEDULED" \/ m.State.State \in Active
          /\ m.State.TickNonce = t.nonce /\ ~(m.Now < m.State.TickTime)
          /\ m.State.State # "DISABLED" /\ m.State.TickTime <= m.Now
      BY <1>1, <2>2, TimeAssumption DEF IsExpectingTick, TickTooSoon, BaseInv, KindOK, JobStates,
                        StateKinds, Waiting
    <3>3. /\ BaseInv(n) /\ SameWorld(m, n) /\ TickAgrees(n)
          /\ n.State.State = m.State.State
          /\ n.State.InvocationNonce = m.State.InvocationNonce
          /\ n.State.Overruns = m.State.Overruns
          /\ n.State.TickTime \notin {0, DistantFuture} => n.State.TickNonce # t.nonce
      <4>1. CASE IsAbsolute(m.Schedule)
        <5> DEFINE next == NextTick(m.Schedule, m.Now, m.State.PrevTime)
        <5>1. n = scheduleTick(m)
          BY <4>1
        <5>2. TickSet(m, n)
          BY <1>1, <5>1, ScheduleTickFacts DEF BaseInv, BoundsOK
        <5>3. /\ next \in Nat /\ next > 0 /\ next <= DistantFuture
              /\ next = DistantFuture <=> m.Schedule = Triggered
              /\ m.Schedule.kind = "cron" => next > m.Now
          <6>1. m.State.PrevTime \in 0..MaxTime
            BY <1>1, TimeAssumption DEF BaseInv, BoundsOK, JobStates
          <6> QED
            BY <1>1, <6>1, NextTickFacts
        <5>4. m.Schedule.kind = "cron" \/ m.Schedule = Triggered
          BY <1>1, <4>1, ScheduleKinds
        <5> HIDE DEF n, next
        <5>5. n.State.TickTime = next
          BY <5>2 DEF TickSet, next
        <5>6. n.State.TickTime \notin {0, DistantFuture} => n.State.TickNonce # t.nonce
          <6> SUFFICES ASSUME n.State.TickTime # DistantFuture
                       PROVE  n.State.TickNonce # t.nonce
            OBVIOUS
          <6>1. next > m.Now
            BY <5>3, <5>4, <5>5
          <6>2. m.State.TickTime # next
            BY <1>1, <3>2, <5>3, <6>1 DEF JobStates
          <6>3. n.State.TickNonce > m.Nonce
            BY <5>2, <5>5, <6>2 DEF TickSet
          <6>4. m.State.TickNonce <= m.Nonce
            BY DEF MachineInv, BaseInv, BoundsOK
          <6>5. n.State.TickNonce \in Nat
            BY <5>2 DEF TickSet, Machines, JobStates
          <6> QED
            BY <1>1, <3>2, <6>3, <6>4, <6>5
        <5>7. BaseInv(n)
          BY <1>1, <3>2, <5>2, <5>3, <5>5
             DEF BaseInv, TickSet, KindOK, CleanOK, BoundsOK, InvocationOK, StartOK
        <5>8. TickAgrees(n)
          BY <4>1, <5>2, <5>3, <5>5 DEF TickSet, TickAgrees
        <5> QED
          BY <5>2, <5>6, <5>7, <5>8 DEF TickSet, SameWorld
      <4>2. CASE ~IsAbsolute(m.Schedule)
        <5>1. n = resetTick(m)
          BY <4>2
        <5>2. m.Schedule # Triggered
          BY <1>1, <4>2, ScheduleKinds
        <5> HIDE DEF n
        <5>3. BaseInv(n) /\ SameWorld(m, n) /\ n.State.State = m.State.State
              /\ n.State.TickTime = 0
              /\ n.State.InvocationNonce = m.State.InvocationNonce
              /\ n.State.Overruns = m.State.Overruns
          BY <1>1, <3>2, <5>1, ResetFacts
        <5> QED
          BY <4>2, <5>2, <5>3, TimeAssumption DEF TickAgrees, SameWorld
      <4> QED
        BY <4>1, <4>2
    <3> HIDE DEF n, r
    <3>4. CASE m.State.State = "SCHEDULED"
      <4>1. r = queueInvocation(n)
        BY <3>1, <3>3, <3>4
      <4>2. /\ BaseInv(r) /\ SameWorld(n, r) /\ r.State.State = "QUEUED"
            /\ r.State.TickTime = n.State.TickTime /\ r.State.TickNonce = n.State.TickNonce
            /\ r.State.Overruns = 0
        BY <3>3, <4>1, QueueFacts
      <4>3. TickAgrees(r) /\ r.State.State \in Active /\ r.State.State # "DISABLED"
        BY <3>3, <4>2 DEF TickAgrees, SameWorld, Active, Queued
      <4>4. MachineInv(r)
        BY <4>2, <4>3, ActiveInv
      <4> QED
        BY <3>2, <3>3, <3>4, <4>2, <4>3, <4>4 DEF SameWorld, NewOnDueTick
    <3>5. CASE m.State.State \in Active
      <4>1. n.State.State # "SCHEDULED" /\ n.State.State \in Active
        BY <3>3, <3>5 DEF Active, Queued, Running
      <4>2. r = skipTick(n)
        BY <3>1, <4>1
      <4>3. /\ MachineInv(r) /\ SameWorld(n, r) /\ r.State.State \in Active
            /\ r.State.TickTime = n.State.TickTime /\ r.State.TickNonce = n.State.TickNonce
            /\ r.State.InvocationNonce = m.State.InvocationNonce /\ Counted(m, r)
        BY <3>3, <4>1, <4>2, SkipFacts DEF Counted
      <4>4. r.State.State # "DISABLED"
        BY <4>3 DEF Active, Queued, Running
      <4>5. m.State.TickTime \notin {0, DistantFuture}
        BY <1>1, <3>2, TimeAssumption DEF BaseInv, TickOK
      <4>6. IsAbsolute(m.Schedule) /\ m.Schedule # Triggered
        BY <3>2, <3>5, <4>5 DEF MachineInv, ScheduleOK
      <4>7. r.State.TickNonce # m.State.TickNonce
        BY <3>2, <3>3, <4>3, <4>6 DEF TickAgrees, SameWorld
      <4> QED
        BY <3>2, <3>3, <3>5, <4>3, <4>4, <4>6, <4>7 DEF SameWorld, NewOnDueTick
    <3> QED
      BY <3>2, <3>4, <3>5
  <2> QED
    BY <2>1, <2>2
<1> HIDE DEF r
<1>3. /\ acked \in Machines /\ acked.State = r.State /\ SameWorld(r, acked)
      /\ acked.Nonce = r.Nonce /\ acked.starts = r.starts /\ acked.ticks = r.ticks \ {t}
  BY <1>2 DEF MachineInv, BaseInv, Machines, SameWorld
<1> HIDE DEF acked
<1>4. TickOK(acked)
  BY <1>2, <1>3 DEF MachineInv, BaseInv, TickOK
<1>5. MachineInv(acked)
  BY <1>2, <1>3, <1>4
     DEF MachineInv, BaseInv, KindOK, CleanOK, BoundsOK, InvocationOK, StartOK,
         WaitingOK, ScheduleOK, IntervalOK, SameWorld
<1> QED
  BY <1>2, <1>3, <1>5 DEF SameWorld, acked, r

\* A manual invocation leaves the tick of an absolute schedule in place and
\* cancels that of a relative one.
LEMMA ManualInvocationFacts ==
    ASSUME NEW m, MachineInv(m), m.State.State \in Waiting
    PROVE  /\ MachineInv(OnManualInvocation(m)) /\ SameWorld(m, OnManualInvocation(m))
           /\ OnManualInvocation(m).State.State = "QUEUED"
           /\ OnManualInvocation(m).State.Overruns = 0
<1> DEFINE q == queueInvocation(m)
           r == OnManualInvocation(m)
<1>1. r = IF IsAbsolute(m.Schedule) THEN q ELSE resetTick(q)
  BY DEF OnManualInvocation
<1>2. /\ BaseInv(q) /\ SameWorld(m, q) /\ q.State.State = "QUEUED"
      /\ q.State.TickTime = m.State.TickTime /\ q.State.Overruns = 0
  BY QueueFacts DEF MachineInv
<1> HIDE DEF q, r
<1>3. CASE IsAbsolute(m.Schedule)
  <2>1. q.State.State \in Active
    BY <1>2 DEF Active, Queued
  <2>2. TickAgrees(q)
    BY <1>2, <1>3 DEF TickAgrees, SameWorld, MachineInv, ScheduleOK, Waiting
  <2> QED
    BY <1>1, <1>2, <1>3, <2>1, <2>2, ActiveInv DEF r
<1>4. CASE ~IsAbsolute(m.Schedule)
  <2>1. /\ BaseInv(r) /\ SameWorld(q, r) /\ r.State.State = "QUEUED"
        /\ r.State.TickTime = 0 /\ r.State.Overruns = 0
    BY <1>1, <1>2, <1>4, ResetFacts
  <2>2. r.State.State \in Active
    BY <2>1 DEF Active, Queued
  <2>3. m.Schedule # Triggered
    BY <1>4, ScheduleKinds DEF MachineInv, BaseInv, Machines
  <2>4. TickAgrees(r)
    BY <1>2, <1>4, <2>1, <2>3, TimeAssumption DEF TickAgrees, SameWorld
  <2> QED
    BY <1>2, <2>1, <2>2, <2>4, ActiveInv DEF SameWorld, r
<1> QED
  BY <1>3, <1>4

\* The transaction that begins an attempt only notes the invocation's ID and
\* the retry count: the job keeps its state, its tick and its queues.
LEMMA StartingFacts ==
    ASSUME NEW m, MachineInv(m), NEW n, IsExpectingInvocation(m.State, n),
           NEW id \in Nat \ {0}, NEW retry \in Nat
    PROVE  LET r == OnInvocationStarting(m, n, id, retry)
           IN  /\ MachineInv(r) /\ SameWorld(m, r)
               /\ r.State.State = m.State.State
               /\ r.State.InvocationID = id
               /\ NothingNew(m, r)
<1> DEFINE r == OnInvocationStarting(m, n, id, retry)
<1>1. m \in Machines /\ m.State \in JobStates
  BY DEF MachineInv, BaseInv, Machines
<1>2. m.State.State \in Queued /\ m.State.State \in Active
  BY DEF IsExpectingInvocation, Active
<1> DEFINE s == [m.State EXCEPT !.InvocationID = id, !.InvocationRetryCount = retry]
<1>3. r = [m EXCEPT !.State = s]
  BY DEF OnInvocationStarting
<1>a. /\ s \in JobStates /\ s.State = m.State.State /\ s.InvocationID = id
      /\ s.InvocationNonce = m.State.InvocationNonce
      /\ s.TickTime = m.State.TickTime /\ s.TickNonce = m.State.TickNonce
      /\ s.PrevTime = m.State.PrevTime /\ s.Overruns = m.State.Overruns
  BY <1>1 DEF JobStates
<1> HIDE DEF r, s
<1>4. /\ r \in Machines /\ SameWorld(m, r) /\ r.starts = m.starts /\ r.ticks = m.ticks
      /\ r.Nonce = m.Nonce /\ r.State.State = m.State.State
      /\ r.State.InvocationID = id
      /\ r.State.InvocationNonce = m.State.InvocationNonce
      /\ r.State.TickTime = m.State.TickTime /\ r.State.TickNonce = m.State.TickNonce
      /\ r.State.PrevTime = m.State.PrevTime /\ r.State.Overruns = m.State.Overruns
  BY <1>1, <1>3, <1>a DEF Machines, SameWorld
<1>5. BaseInv(r)
  BY <1>2, <1>4
     DEF MachineInv, BaseInv, KindOK, CleanOK, TickOK, BoundsOK, InvocationOK, StartOK,
         Active, Queued, Running
<1>6. WaitingOK(r) /\ ScheduleOK(r) /\ IntervalOK(r)
  BY <1>4 DEF MachineInv, WaitingOK, ScheduleOK, IntervalOK, SameWorld
<1> QED
  BY <1>4, <1>5, <1>6 DEF MachineInv, NothingNew, r

\* The invocation a queued machine waits for starts: no panic.
LEMMA StartedFacts ==
    ASSUME NEW m, MachineInv(m), m.State.State \in Queued, m.State.InvocationID # 0
    PROVE  LET r == OnInvocationStarted(m, m.State.InvocationID)
           IN  /\ MachineInv(r) /\ SameWorld(m, r) /\ r.State.State \in Running
               /\ r.State.InvocationID = m.State.InvocationID
               /\ NothingNew(m, r)
<1> DEFINE r == OnInvocationStarted(m, m.State.InvocationID)
           kind == IF m.State.State = "QUEUED" THEN "RUNNING"
                   ELSE IF m.State.State = "SLOW_QUEUE" THEN "OVERRUN"
                   ELSE "IMPOSSIBLE"
<1>1. m \in Machines /\ m.State \in JobStates
  BY DEF MachineInv, BaseInv, Machines
<1>2. r = [m EXCEPT !.State = [m.State EXCEPT !.State = kind]]
  BY DEF OnInvocationStarted
<1>3. /\ kind \in StateKinds /\ kind \in Running
      /\ kind = "OVERRUN" <=> m.State.State = "SLOW_QUEUE"
      /\ kind = "RUNNING" <=> m.State.State = "QUEUED"
  BY DEF StateKinds, Active, Queued, Running
<1> HIDE DEF kind
<1>4. /\ r \in Machines /\ SameWorld(m, r) /\ r.starts = m.starts /\ r.ticks = m.ticks
      /\ r.Nonce = m.Nonce /\ r.State.State = kind
      /\ r.State.InvocationID = m.State.InvocationID
      /\ r.State.InvocationNonce = m.State.InvocationNonce
      /\ r.State.TickTime = m.State.TickTime /\ r.State.TickNonce = m.State.TickNonce
      /\ r.State.PrevTime = m.State.PrevTime /\ r.State.Overruns = m.State.Overruns
  BY <1>1, <1>2, <1>3 DEF Machines, JobStates, SameWorld
<1> HIDE DEF r
<1>5. BaseInv(r)
  BY <1>3, <1>4
     DEF MachineInv, BaseInv, KindOK, CleanOK, TickOK, BoundsOK, InvocationOK, StartOK,
         Active, Queued, Running
<1>6. TickAgrees(r)
  BY <1>4 DEF MachineInv, ScheduleOK, TickAgrees, SameWorld, Active, Queued
<1>7. MachineInv(r)
  BY <1>3, <1>4, <1>5, <1>6, ActiveInv DEF Active
<1> QED
  BY <1>3, <1>4, <1>7 DEF NothingNew, r

\* The invocation of a running machine ends.
LEMMA DoneFacts ==
    ASSUME NEW m, MachineInv(m), m.State.State \in Running
    PROVE  LET r == OnInvocationDone(m, m.State.InvocationID)
           IN  /\ MachineInv(r) /\ SameWorld(m, r) /\ r.State.State \in Waiting
               /\ NothingNew(m, r)
<1> DEFINE r == OnInvocationDone(m, m.State.InvocationID)
<1>1. r = invocationFinished(m)
  BY DEF OnInvocationDone
<1>2. MachineInv(r) /\ SameWorld(m, r) /\ r.State.State \in Waiting /\ NothingNew(m, r)
  BY <1>1, FinishedFacts DEF MachineInv
<1> QED
  BY <1>2

\* A manual abort ends the invocation there is, if any.
LEMMA AbortFacts ==
    ASSUME NEW m, MachineInv(m)
    PROVE  LET r == OnManualAbort(m)
           IN  /\ MachineInv(r) /\ SameWorld(m, r)
               /\ r.State.State = "DISABLED" <=> m.State.State = "DISABLED"
               /\ NothingNew(m, r)
<1>1. CASE m.State.InvocationNonce # 0
  <2>1. m.State.State # "DISABLED"
    BY <1>1 DEF MachineInv, BaseInv, InvocationOK, Active, Queued, Running
  <2>2. invocationFinished(m).State.State # "DISABLED"
    BY FinishedFacts DEF MachineInv, Waiting
  <2> QED
    BY <1>1, <2>1, <2>2, FinishedFacts DEF OnManualAbort, MachineInv
<1>2. CASE m.State.InvocationNonce = 0
  BY <1>2 DEF OnManualAbort, SameWorld, NothingNew
<1> QED
  BY <1>1, <1>2

\* The start tasks matter to a queued machine only.
LEMMA StartsChange ==
    ASSUME NEW m, MachineInv(m), NEW q \in SUBSET StartTasks,
           m.State.State \in Queued => \E t \in q : t.nonce = m.State.InvocationNonce
    PROVE  LET r == [m EXCEPT !.starts = q]
           IN  MachineInv(r) /\ SameWorld(m, r) /\ r.State = m.State
<1> DEFINE r == [m EXCEPT !.starts = q]
<1>1. /\ r \in Machines /\ r.State = m.State /\ SameWorld(m, r)
      /\ r.Nonce = m.Nonce /\ r.starts = q /\ r.ticks = m.ticks
  BY DEF MachineInv, BaseInv, Machines, SameWorld
<1> HIDE DEF r
<1>2. MachineInv(r)
  BY <1>1
     DEF MachineInv, BaseInv, KindOK, CleanOK, TickOK, BoundsOK, InvocationOK, StartOK,
         WaitingOK, ScheduleOK, IntervalOK, SameWorld
<1> QED
  BY <1>1, <1>2 DEF r
-----------------------------------------------------------------------------
(* The Job entity and its queues.                                          *)

\* The inductive invariant: the machine that the next transaction would set up
\* satisfies MachineInv, and the Enabled flag agrees with its state.
JobInv ==
    /\ JobTypeOK
    /\ MachineInv(MachineFor(job))
    /\ job.Enabled <=> job.State.State # "DISABLED"
    /\ job.Enabled => job.exists

\* No overrun disappears, and one that the step counts is put on its way.
RecordsKept ==
    /\ OverrunTasksSeen \subseteq OverrunTasksSeen'
    /\ \/ js'.Overruns = 0
       \/ /\ js'.InvocationNonce = js.InvocationNonce
          /\ \/ js'.Overruns = js.Overruns
             \/ /\ js'.Overruns = js.Overruns + 1
                /\ \E t \in overrunQ' :
                      t.inv = js'.InvocationNonce /\ t.overruns = js'.Overruns

\* What the two action properties of Job say of one step, and what keeps the
\* record of the overruns complete.
StepOK ==
    /\ Queues =>
          /\ js.State \in Waiting
          /\ \/ TriggerInvocation
             \/ ~job.Paused /\ js.State = "SCHEDULED" /\ js.TickTime <= now
    /\ js'.Overruns > js.Overruns =>
          /\ IsAbsolute(effectiveSchedule(job)) /\ js.State \in Active
          /\ js'.TickNonce # js.TickNonce
    /\ RecordsKept

\* A step that queues no invocation and counts no overrun.
LEMMA QuietStep ==
    ASSUME JobTypeOK,
           job'.State.InvocationNonce \in {0, job.State.InvocationNonce},
           job'.State.Overruns \in {0, job.State.Overruns},
           JobInv',
           OverrunTasksSeen \subseteq OverrunTasksSeen'
    PROVE  StepOK
<1>1. ~Queues
  BY DEF Queues, js
<1>2. job.State.Overruns \in Nat
  BY DEF JobTypeOK, Jobs, JobStates
<1>3. ~(js'.Overruns > js.Overruns)
  BY <1>2 DEF js
<1>4. MachineFor(job)'.State = job'.State
  BY DEF MachineFor
<1>5. js'.Overruns # 0 => js'.InvocationNonce = js.InvocationNonce
  BY <1>4 DEF JobInv, MachineInv, BaseInv, InvocationOK, Active, Queued, Running, js
<1>6. RecordsKept
  BY <1>5 DEF RecordsKept, js
<1> QED
  BY <1>1, <1>3, <1>6 DEF StepOK

\* What the inductive invariant says of the machine for the stored job, or for
\* the same job under another schedule.
LEMMA MachineForFacts ==
    ASSUME JobTypeOK, NEW j \in Jobs
    PROVE  /\ MachineFor(j) \in Machines
           /\ MachineFor(j).State = j.State /\ MachineFor(j).Now = now
           /\ MachineFor(j).Schedule = effectiveSchedule(j)
           /\ MachineFor(j).Nonce = nonce /\ MachineFor(j).ticks = tickQ
           /\ MachineFor(j).starts = startQ /\ MachineFor(j).overruns = overrunQ
BY DEF JobTypeOK, MachineFor, Machines, Jobs, effectiveSchedule

\* A transaction that commits a machine satisfying MachineInv restores JobInv.
LEMMA Commit ==
    ASSUME JobTypeOK, NEW j \in Jobs, NEW m, MachineInv(m),
           m.Schedule = effectiveSchedule(j), m.Now = now,
           j.Enabled <=> m.State.State # "DISABLED", j.Enabled => j.exists,
           rollSM(j, m), now' = now, lastInv' \in Nat, UNCHANGED <<overrunInvs, overrunsLost>>
    PROVE  JobInv' /\ job'.State = m.State /\ overrunQ' = m.overruns
<1>1. m \in Machines /\ m.State \in JobStates /\ m.Nonce \in Nat
      /\ m.ticks \in SUBSET TickTasks /\ m.starts \in SUBSET StartTasks
      /\ m.overruns \in SUBSET OverrunTasks
  BY DEF MachineInv, BaseInv, Machines
<1>2. /\ job' \in Jobs /\ job'.State = m.State /\ job'.Enabled = j.Enabled
      /\ job'.exists = j.exists
      /\ job'.Paused = j.Paused /\ job'.Schedule = j.Schedule
  BY <1>1 DEF rollSM, Jobs
<1>3. JobTypeOK'
  BY <1>1, <1>2 DEF JobTypeOK, rollSM
<1>4. MachineFor(job)' = m
  <2>1. effectiveSchedule(job)' = m.Schedule
    BY <1>2 DEF effectiveSchedule
  <2> QED
    BY <1>1, <1>2, <2>1 DEF MachineFor, rollSM, Machines
<1>5. MachineInv(MachineFor(job))'
  BY <1>4
<1> QED
  BY <1>2, <1>3, <1>5 DEF JobInv, rollSM

\* The inductive invariant implies every invariant that the runs check.
LEMMA JobInvImplies ==
    ASSUME JobInv
    PROVE  /\ JobTypeOK /\ NeverImpossible /\ DisabledIsClean /\ TickNotLost
           /\ TickFollowsSchedule /\ InvocationFollowsState /\ QueuedHasStartTask
           /\ IntervalKept
<1> DEFINE m == MachineFor(job)
<1>1. /\ m \in Machines /\ m.State = job.State /\ m.Now = now
      /\ m.Schedule = effectiveSchedule(job) /\ m.ticks = tickQ /\ m.starts = startQ
  BY MachineForFacts DEF JobInv, JobTypeOK
<1>2. MachineInv(m) /\ JobTypeOK
  BY DEF JobInv
<1> HIDE DEF m
<1>3. NeverImpossible /\ DisabledIsClean
  BY <1>1, <1>2 DEF JobInv, MachineInv, BaseInv, KindOK, CleanOK,
                    NeverImpossible, DisabledIsClean, js
<1>4. TickNotLost /\ InvocationFollowsState /\ QueuedHasStartTask
  BY <1>1, <1>2 DEF MachineInv, BaseInv, TickOK, InvocationOK, StartOK,
                    TickNotLost, InvocationFollowsState, QueuedHasStartTask, js
<1>5. TickFollowsSchedule
  BY <1>1, <1>2 DEF JobInv, MachineInv, WaitingOK, ScheduleOK, TickFollowsSchedule, js
<1>6. IntervalKept
  BY <1>1, <1>2 DEF MachineInv, IntervalOK, IntervalKept, js
<1> QED
  BY <1>2, <1>3, <1>4, <1>5, <1>6

\* The inductive invariant holds before the job is first put.
LEMMA JobInvInit ==
    ASSUME JobInit
    PROVE  JobInv
<1> DEFINE m == MachineFor(job)
<1>1. CleanState("DISABLED") \in JobStates
  BY DEF CleanState, JobStates, StateKinds
<1>2. job \in Jobs /\ job.State = CleanState("DISABLED") /\ ~job.Enabled
  BY <1>1 DEF JobInit, NewJob, Jobs
<1>3. JobTypeOK
  BY <1>2, LimitsAssumption, TimeAssumption DEF JobInit, JobTypeOK
<1>4. m \in Machines /\ m.State = CleanState("DISABLED")
  BY <1>2, <1>3, MachineForFacts
<1>5. m = OnJobDisabled(m)
  BY <1>4 DEF OnJobDisabled, Machines
<1>6. m.ticks = {}
  BY DEF MachineFor, JobInit
<1>7. MachineInv(m)
  BY <1>4, <1>5, <1>6, DisabledFacts
<1> QED
  BY <1>2, <1>3, <1>7 DEF JobInv, CleanState

\* Whatever the schedule becomes, what does not depend on it still holds: the
\* state that OnScheduleChange and OnJobEnabled start from.
LEMMA OtherSchedule ==
    ASSUME JobInv, NEW j \in Jobs, j.State = job.State
    PROVE  BaseInv(MachineFor(j)) /\ WaitingOK(MachineFor(j))
<1> DEFINE m == MachineFor(job)
           r == MachineFor(j)
<1>1. JobTypeOK /\ job \in Jobs /\ MachineInv(m)
  BY DEF JobInv, JobTypeOK
<1>2. /\ r \in Machines /\ r.State = m.State /\ r.Nonce = m.Nonce
      /\ r.ticks = m.ticks /\ r.starts = m.starts
  BY <1>1, MachineForFacts
<1> HIDE DEF m, r
<1>3. BaseInv(r) /\ WaitingOK(r)
  BY <1>1, <1>2 DEF MachineInv, BaseInv, WaitingOK, KindOK, CleanOK, TickOK, BoundsOK,
                    InvocationOK, StartOK
<1> QED
  BY <1>3 DEF r

\* updateJob: a definition is added, changed or enabled again.
LEMMA UpdateStep ==
    ASSUME JobInv, NEW sched \in Schedules, updateJob(sched)
    PROVE  JobInv' /\ StepOK
<1> DEFINE old == IF job.exists THEN job ELSE NewJob(sched)
           new == [old EXCEPT !.exists = TRUE, !.Enabled = TRUE, !.Schedule = sched]
           enabled == IF old.Enabled THEN MachineFor(new)
                      ELSE OnJobEnabled(MachineFor(new))
           rolled == IF effectiveSchedule(new) # effectiveSchedule(old)
                     THEN OnScheduleChange(enabled) ELSE enabled
<1>1. JobTypeOK /\ job \in Jobs /\ MachineInv(MachineFor(job))
  BY DEF JobInv, JobTypeOK
<1>2. /\ rollSM(new, rolled) /\ now' = now /\ lastInv' \in Nat
      /\ UNCHANGED <<overrunInvs, overrunsLost>>
  BY <1>1 DEF updateJob, JobTypeOK
<1>3. job.State.State = "DISABLED" => job.State = CleanState("DISABLED")
  BY JobInvImplies DEF DisabledIsClean, js
<1>4. /\ old \in Jobs /\ old.State = job.State
      /\ old.Enabled <=> job.State.State # "DISABLED"
      /\ old.Enabled => old = job
  <2>1. CASE job.exists
    BY <1>1, <2>1 DEF JobInv
  <2>2. CASE ~job.exists
    <3>1. job.State = CleanState("DISABLED")
      BY <1>3, <2>2 DEF JobInv
    <3>2. NewJob(sched) \in Jobs
      BY <1>1, <3>1 DEF NewJob, Jobs
    <3> QED
      BY <2>2, <3>1, <3>2 DEF NewJob, CleanState
  <2> QED
    BY <2>1, <2>2
<1> HIDE DEF old
<1>5. /\ new \in Jobs /\ new.State = job.State /\ new.Enabled /\ new.exists
  BY <1>4 DEF Jobs
<1> HIDE DEF new
<1> DEFINE m == MachineFor(new)
<1>6. BaseInv(m) /\ WaitingOK(m)
  BY <1>5, OtherSchedule
<1>7. /\ m.State = job.State /\ m.Schedule = effectiveSchedule(new) /\ m.Now = now
      /\ m.overruns = overrunQ
  BY <1>1, <1>5, MachineForFacts
<1>8. /\ BaseInv(enabled) /\ WaitingOK(enabled) /\ SameWorld(m, enabled)
      /\ enabled.State.State # "DISABLED" /\ NothingNew(m, enabled)
      /\ ~old.Enabled => MachineInv(enabled)
  <2>1. CASE old.Enabled
    BY <1>4, <1>6, <1>7, <2>1 DEF SameWorld, NothingNew
  <2>2. CASE ~old.Enabled
    <3>1. m.State.State = "DISABLED"
      BY <1>4, <1>7, <2>2
    <3>2. MachineInv(enabled) /\ SameWorld(m, enabled) /\ enabled.State.State # "DISABLED"
          /\ NothingNew(m, enabled)
      BY <1>6, <2>2, <3>1, EnabledFacts
    <3> QED
      BY <3>2 DEF MachineInv
  <2> QED
    BY <2>1, <2>2
<1>9. /\ MachineInv(rolled) /\ SameWorld(m, rolled) /\ rolled.State.State # "DISABLED"
      /\ NothingNew(m, rolled)
  <2>1. CASE effectiveSchedule(new) # effectiveSchedule(old)
    <3> HIDE DEF enabled
    <3>1. rolled = OnScheduleChange(enabled)
      BY <2>1
    <3> QED
      BY <1>8, <3>1, ScheduleChangeFacts DEF SameWorld, NothingNew
  <2>2. CASE effectiveSchedule(new) = effectiveSchedule(old) /\ old.Enabled
    <3>1. MachineFor(new) = MachineFor(job)
      BY <1>4, <1>5, <2>2 DEF MachineFor
    <3> QED
      BY <1>1, <1>8, <2>2, <3>1
  <2>3. CASE effectiveSchedule(new) = effectiveSchedule(old) /\ ~old.Enabled
    BY <1>8, <2>3
  <2> QED
    BY <2>1, <2>2, <2>3
<1> HIDE DEF rolled, m
<1>10. rolled.Schedule = effectiveSchedule(new) /\ rolled.Now = now
  BY <1>7, <1>9 DEF SameWorld
<1>11. JobInv' /\ job'.State = rolled.State /\ overrunQ' = rolled.overruns
  BY <1>1, <1>2, <1>5, <1>9, <1>10, Commit
<1>12. StepOK
  BY <1>1, <1>2, <1>7, <1>9, <1>11, QuietStep DEF NothingNew, SameWorld, OverrunTasksSeen
<1> QED
  BY <1>11, <1>12

\* disableJob: a definition is gone from the config.
LEMMA DisableStep ==
    ASSUME JobInv, disableJob
    PROVE  JobInv' /\ StepOK
<1> DEFINE new == [job EXCEPT !.Enabled = FALSE]
           m == OnJobDisabled(MachineFor(new))
<1>1. JobTypeOK /\ job \in Jobs
  BY DEF JobInv, JobTypeOK
<1>2. new \in Jobs /\ ~new.Enabled /\ new.State = job.State
  BY <1>1 DEF Jobs
<1>3. /\ rollSM(new, m) /\ now' = now /\ lastInv' \in Nat
      /\ UNCHANGED <<overrunInvs, overrunsLost>>
  BY <1>1 DEF disableJob, JobTypeOK
<1> HIDE DEF new
<1>4. /\ MachineInv(m) /\ m.Now = now /\ m.Schedule = effectiveSchedule(new)
      /\ m.State.State = "DISABLED" /\ NothingNew(MachineFor(new), m)
      /\ overrunQ \subseteq m.overruns
  BY <1>1, <1>2, MachineForFacts, OtherSchedule, DisabledFacts DEF SameWorld, BaseInv, TickOK
<1> HIDE DEF m
<1>5. JobInv' /\ job'.State = m.State /\ overrunQ' = m.overruns
  BY <1>1, <1>2, <1>3, <1>4, Commit
<1>6. StepOK
  BY <1>3, <1>1, <1>2, <1>4, <1>5, MachineForFacts, QuietStep DEF NothingNew, OverrunTasksSeen
<1> QED
  BY <1>5, <1>6

\* setPausedFlag: the effective schedule becomes triggered, or the job's own again.
LEMMA PauseStep ==
    ASSUME JobInv, NEW paused \in BOOLEAN, setPausedFlag(paused)
    PROVE  JobInv' /\ StepOK
<1> DEFINE new == [job EXCEPT !.Paused = paused]
           m == OnScheduleChange(MachineFor(new))
<1>1. JobTypeOK /\ job \in Jobs /\ job.exists /\ job.Enabled
  BY DEF JobInv, JobTypeOK, setPausedFlag
<1>2. new \in Jobs /\ new.Enabled /\ new.exists /\ new.State = job.State
  BY <1>1 DEF Jobs
<1>3. /\ rollSM(new, m) /\ now' = now /\ lastInv' \in Nat
      /\ UNCHANGED <<overrunInvs, overrunsLost>>
  BY <1>1 DEF setPausedFlag, JobTypeOK
<1> HIDE DEF new
<1>4. BaseInv(MachineFor(new)) /\ WaitingOK(MachineFor(new))
  BY <1>2, OtherSchedule
<1>5. MachineFor(new).State.State # "DISABLED"
  BY <1>1, <1>2, MachineForFacts DEF JobInv
<1>6. /\ MachineInv(m) /\ m.Now = now /\ m.Schedule = effectiveSchedule(new)
      /\ m.State.State # "DISABLED" /\ NothingNew(MachineFor(new), m)
      /\ overrunQ \subseteq m.overruns
  BY <1>1, <1>2, <1>4, <1>5, MachineForFacts, ScheduleChangeFacts DEF SameWorld
<1> HIDE DEF m
<1>7. JobInv' /\ job'.State = m.State /\ overrunQ' = m.overruns
  BY <1>1, <1>2, <1>3, <1>6, Commit
<1>8. StepOK
  BY <1>3, <1>1, <1>2, <1>6, <1>7, MachineForFacts, QuietStep DEF NothingNew, OverrunTasksSeen
<1> QED
  BY <1>7, <1>8

\* The transactions that store the job as it is and roll its machine forward.
LEMMA RollStep ==
    ASSUME JobInv, NEW m, MachineInv(m), SameWorld(MachineFor(job), m),
           m.State.State = "DISABLED" <=> job.State.State = "DISABLED",
           rollSM(job, m), now' = now, lastInv' \in Nat, UNCHANGED <<overrunInvs, overrunsLost>>
    PROVE  /\ JobInv' /\ job'.State = m.State
           /\ overrunQ \subseteq overrunQ' /\ overrunQ' = m.overruns
           /\ NothingNew(MachineFor(job), m) => StepOK
<1>1. JobTypeOK /\ job \in Jobs
  BY DEF JobInv, JobTypeOK
<1>2. /\ m.Now = now /\ m.Schedule = effectiveSchedule(job)
      /\ MachineFor(job).State = job.State /\ overrunQ \subseteq m.overruns
  BY <1>1, MachineForFacts DEF SameWorld
<1>3. JobInv' /\ job'.State = m.State /\ overrunQ' = m.overruns
  BY <1>1, <1>2, Commit DEF JobInv
<1>4. NothingNew(MachineFor(job), m) => StepOK
  BY <1>1, <1>2, <1>3, QuietStep DEF NothingNew, OverrunTasksSeen
<1> QED
  BY <1>2, <1>3, <1>4

\* Every transaction that a configuration change or a user request causes
\* preserves the invariant and is an allowed step.
LEMMA UserStep ==
    ASSUME JobInv, UserNext
    PROVE  JobInv' /\ StepOK
<1> DEFINE m == MachineFor(job)
<1>1. /\ JobTypeOK /\ job \in Jobs /\ lastInv \in Nat /\ MachineInv(m)
      /\ m \in Machines /\ m.State = job.State
  BY MachineForFacts DEF JobInv, JobTypeOK
<1>2. ASSUME NEW sched \in Schedules, updateJob(sched) PROVE JobInv' /\ StepOK
  BY <1>2, UpdateStep
<1>3. CASE disableJob
  BY <1>3, DisableStep
<1>4. ASSUME NEW paused \in BOOLEAN, setPausedFlag(paused) PROVE JobInv' /\ StepOK
  BY <1>4, PauseStep
<1>5. CASE resetJobOnDevServer
  <2> DEFINE d == OnJobDisabled(m)
             r == OnJobEnabled(d)
  <2>1. /\ rollSM(job, r) /\ now' = now /\ lastInv' \in Nat
        /\ UNCHANGED <<overrunInvs, overrunsLost>> /\ job.Enabled
    BY <1>1, <1>5 DEF resetJobOnDevServer
  <2> HIDE DEF m
  <2>2. BaseInv(d) /\ SameWorld(m, d) /\ d.State.State = "DISABLED" /\ NothingNew(m, d)
    BY <1>1, DisabledFacts DEF MachineInv, BaseInv, TickOK
  <2> HIDE DEF d
  <2>3. MachineInv(r) /\ SameWorld(m, r) /\ r.State.State # "DISABLED" /\ NothingNew(m, r)
    BY <2>2, EnabledFacts DEF SameWorld, NothingNew
  <2> HIDE DEF r
  <2> QED
    BY <2>1, <2>3, RollStep DEF JobInv, m
<1>6. CASE TriggerInvocation
  <2> DEFINE r == OnManualInvocation(m)
  <2>1. /\ rollSM(job, r) /\ now' = now /\ lastInv' \in Nat
        /\ UNCHANGED <<overrunInvs, overrunsLost>> /\ job.State.State \in Waiting
    BY <1>1, <1>6 DEF TriggerInvocation
  <2> HIDE DEF m
  <2>2. MachineInv(r) /\ SameWorld(m, r) /\ r.State.State = "QUEUED" /\ r.State.Overruns = 0
    BY <1>1, <2>1, ManualInvocationFacts
  <2>3. job.State.State # "DISABLED"
    BY <2>1 DEF Waiting
  <2> HIDE DEF r
  <2>4. JobInv' /\ job'.State = r.State /\ overrunQ \subseteq overrunQ'
    BY <2>1, <2>2, <2>3, RollStep DEF m
  <2>5. job.State.Overruns \in Nat
    BY <1>1 DEF Jobs, JobStates
  <2>6. StepOK
    BY <1>6, <2>1, <2>2, <2>4, <2>5 DEF StepOK, RecordsKept, js, OverrunTasksSeen
  <2> QED
    BY <2>4, <2>6
<1>7. CASE AbortJobTxn
  <2> DEFINE r == OnManualAbort(m)
  <2>1. /\ rollSM(job, r) /\ now' = now /\ lastInv' \in Nat
        /\ UNCHANGED <<overrunInvs, overrunsLost>>
    BY <1>1, <1>7 DEF AbortJobTxn
  <2> HIDE DEF m
  <2>2. /\ MachineInv(r) /\ SameWorld(m, r) /\ NothingNew(m, r)
        /\ r.State.State = "DISABLED" <=> job.State.State = "DISABLED"
    BY <1>1, AbortFacts
  <2> HIDE DEF r
  <2> QED
    BY <2>1, <2>2, RollStep DEF m
<1> QED
  BY <1>2, <1>3, <1>4, <1>5, <1>6, <1>7 DEF UserNext

\* The progress of the current invocation preserves the invariant.
LEMMA InvocationStep ==
    ASSUME JobInv, InvocationNext
    PROVE  JobInv' /\ StepOK
<1> DEFINE m == MachineFor(job)
           started == OnInvocationStarted(m, job.State.InvocationID)
<1>1. /\ JobTypeOK /\ job \in Jobs /\ lastInv \in Nat /\ MachineInv(m)
      /\ m \in Machines /\ m.State = job.State
  BY MachineForFacts DEF JobInv, JobTypeOK
<1>2. ASSUME job.State.State \in Queued, job.State.InvocationID # 0
      PROVE  /\ MachineInv(started) /\ SameWorld(m, started)
             /\ started.State.State \in Running /\ NothingNew(m, started)
             /\ started.State.InvocationID = job.State.InvocationID
             /\ job.State.State # "DISABLED"
  <2> HIDE DEF m
  <2> QED
    BY <1>1, <1>2, StartedFacts DEF Queued
<1>3. CASE InvocationStarted
  <2>1. /\ rollSM(job, started) /\ now' = now /\ lastInv' \in Nat
        /\ UNCHANGED <<overrunInvs, overrunsLost>>
        /\ job.State.State \in Queued /\ job.State.InvocationID # 0
    BY <1>1, <1>3 DEF InvocationStarted
  <2> HIDE DEF started, m
  <2>2. started.State.State # "DISABLED"
    BY <1>2, <2>1 DEF Running
  <2> QED
    BY <1>2, <2>1, <2>2, RollStep DEF m
<1>4. CASE InvocationDone
  <2> DEFINE r == OnInvocationDone(m, job.State.InvocationID)
  <2>1. /\ rollSM(job, r) /\ now' = now /\ lastInv' \in Nat
        /\ UNCHANGED <<overrunInvs, overrunsLost>> /\ job.State.State \in Running
    BY <1>1, <1>4 DEF InvocationDone
  <2> HIDE DEF m
  <2>2. MachineInv(r) /\ SameWorld(m, r) /\ r.State.State \in Waiting /\ NothingNew(m, r)
    BY <1>1, <2>1, DoneFacts
  <2>3. job.State.State # "DISABLED" /\ r.State.State # "DISABLED"
    BY <2>1, <2>2 DEF Running, Waiting
  <2> HIDE DEF r
  <2> QED
    BY <2>1, <2>2, <2>3, RollStep DEF m
<1>5. CASE InvocationStartedAndDone
  <2> DEFINE r == OnInvocationDone(started, job.State.InvocationID)
  <2>1. /\ rollSM(job, r) /\ now' = now /\ lastInv' \in Nat
        /\ UNCHANGED <<overrunInvs, overrunsLost>>
        /\ job.State.State \in Queued /\ job.State.InvocationID # 0
    BY <1>1, <1>5 DEF InvocationStartedAndDone
  <2> HIDE DEF started, m
  <2>2. MachineInv(r) /\ SameWorld(m, r) /\ r.State.State \in Waiting /\ NothingNew(m, r)
    BY <1>2, <2>1, DoneFacts DEF SameWorld, NothingNew
  <2>3. r.State.State # "DISABLED"
    BY <2>2 DEF Waiting
  <2> HIDE DEF r
  <2> QED
    BY <1>2, <2>1, <2>2, <2>3, RollStep DEF m
<1> QED
  BY <1>3, <1>4, <1>5 DEF InvocationNext

\* jobTimerTick: a tick is delivered, acknowledged or not.
LEMMA TickStep ==
    ASSUME JobInv, NEW t \in tickQ, NEW acked \in BOOLEAN, jobTimerTick(t, acked)
    PROVE  JobInv' /\ StepOK
<1> DEFINE m == MachineFor(job)
           r == OnTimerTick(m, t.nonce)
           a == [r EXCEPT !.ticks = @ \ {t}]
           c == [r EXCEPT !.ticks = IF acked THEN @ \ {t} ELSE @]
<1>1. /\ JobTypeOK /\ job \in Jobs /\ lastInv \in Nat /\ MachineInv(m)
      /\ m \in Machines /\ m.State = job.State /\ t \in TickTasks /\ t.nonce # 0
  BY MachineForFacts DEF JobInv, JobTypeOK, MachineInv, BaseInv, TickOK
<1>2. /\ rollSM(job, c) /\ now' = now /\ lastInv' \in Nat
      /\ UNCHANGED <<overrunInvs, overrunsLost>> /\ ~TickTooSoon(m, t.nonce)
  BY <1>1 DEF jobTimerTick
<1> HIDE DEF m
<1>3. /\ MachineInv(r) /\ SameWorld(m, r) /\ MachineInv(a) /\ SameWorld(m, a)
      /\ r.State.State = "DISABLED" <=> job.State.State = "DISABLED"
      /\ NewOnDueTick(m, r)
  BY <1>1, <1>2, TimerTickFacts
<1> HIDE DEF r
<1>4. r \in Machines /\ a.State = r.State /\ a.overruns = r.overruns
  BY <1>3 DEF MachineInv, BaseInv, Machines
<1>5. c = IF acked THEN a ELSE r
  BY <1>4 DEF Machines
<1> HIDE DEF a, c
<1>6. /\ MachineInv(c) /\ SameWorld(m, c) /\ c.State = r.State /\ c.overruns = r.overruns
      /\ c.State.State = "DISABLED" <=> job.State.State = "DISABLED"
  BY <1>3, <1>4, <1>5
<1>7. /\ JobInv' /\ job'.State = r.State /\ overrunQ' = r.overruns
      /\ overrunQ \subseteq overrunQ'
  BY <1>2, <1>6, RollStep DEF m
<1>8. m.Now = now /\ m.Schedule = effectiveSchedule(job)
  BY <1>1, MachineForFacts DEF m
<1>9. job.State.State = "SCHEDULED" => ~job.Paused
  BY JobInvImplies DEF TickFollowsSchedule, DisabledIsClean, effectiveSchedule, js
<1>10. job.State.Overruns \in Nat
  BY <1>1 DEF Jobs, JobStates
<1>11. Queues => /\ js.State \in Waiting
                 /\ ~job.Paused /\ js.State = "SCHEDULED" /\ js.TickTime <= now
  BY <1>1, <1>3, <1>7, <1>8, <1>9 DEF NewOnDueTick, Queues, js, Waiting
<1>12. js'.Overruns > js.Overruns =>
         /\ IsAbsolute(effectiveSchedule(job)) /\ js.State \in Active
         /\ js'.TickNonce # js.TickNonce
  BY <1>1, <1>3, <1>7, <1>8, <1>10 DEF NewOnDueTick, js
<1>13. RecordsKept
  BY <1>1, <1>2, <1>3, <1>7 DEF NewOnDueTick, Counted, RecordsKept, js, OverrunTasksSeen
<1> QED
  BY <1>7, <1>11, <1>12, <1>13 DEF StepOK

\* startInvocation's transaction begins an attempt.
LEMMA AttemptStep ==
    ASSUME JobInv, NEW t \in startQ, StartAttempt(t)
    PROVE  JobInv' /\ StepOK
<1> DEFINE m == MachineFor(job)
           id == lastInv + 1
           r == OnInvocationStarting(m, t.nonce, id, t.retry)
<1>1. /\ JobTypeOK /\ job \in Jobs /\ lastInv \in Nat /\ MachineInv(m)
      /\ m \in Machines /\ m.State = job.State /\ t.retry \in Nat
  BY MachineForFacts DEF JobInv, JobTypeOK, StartTasks
<1>2. id \in Nat \ {0}
  BY <1>1
<1>3. /\ rollSM(job, r) /\ now' = now /\ lastInv' \in Nat
      /\ UNCHANGED <<overrunInvs, overrunsLost>> /\ IsExpectingInvocation(job.State, t.nonce)
  BY <1>2 DEF StartAttempt
<1> HIDE DEF m, id
<1>4. MachineInv(r) /\ SameWorld(m, r) /\ r.State.State = job.State.State /\ NothingNew(m, r)
  BY <1>1, <1>2, <1>3, StartingFacts
<1> HIDE DEF r
<1> QED
  BY <1>3, <1>4, RollStep DEF m

\* startInvocation's transaction writes the request off.
LEMMA GiveUpStep ==
    ASSUME JobInv, NEW t \in startQ, NEW acked \in BOOLEAN, StartGiveUp(t, acked)
    PROVE  JobInv' /\ StepOK
<1> DEFINE m == MachineFor(job)
           id == lastInv + 1
           r == OnInvocationStarting(m, t.nonce, id, t.retry)
           s == OnInvocationStarted(r, id)
           d == OnInvocationDone(s, id)
           q == IF acked THEN d.starts \ {t} ELSE d.starts
           c == [d EXCEPT !.starts = q]
<1>1. /\ JobTypeOK /\ job \in Jobs /\ lastInv \in Nat /\ MachineInv(m)
      /\ m \in Machines /\ m.State = job.State /\ t.retry \in Nat
  BY MachineForFacts DEF JobInv, JobTypeOK, StartTasks
<1>2. id \in Nat \ {0}
  BY <1>1
<1>3. /\ rollSM(job, c) /\ now' = now /\ lastInv' \in Nat
      /\ UNCHANGED <<overrunInvs, overrunsLost>> /\ IsExpectingInvocation(job.State, t.nonce)
  BY <1>2 DEF StartGiveUp
<1> HIDE DEF m, id
<1>4. /\ MachineInv(r) /\ SameWorld(m, r) /\ r.State.State = job.State.State
      /\ r.State.InvocationID = id /\ NothingNew(m, r)
  BY <1>1, <1>2, <1>3, StartingFacts
<1> HIDE DEF r
<1>5. job.State.State \in Queued /\ job.State.State # "DISABLED"
  BY <1>3 DEF IsExpectingInvocation, Queued
<1>6. /\ MachineInv(s) /\ SameWorld(r, s) /\ s.State.State \in Running
      /\ s.State.InvocationID = id /\ NothingNew(r, s)
  BY <1>2, <1>4, <1>5, StartedFacts
<1> HIDE DEF s
<1>7. MachineInv(d) /\ SameWorld(s, d) /\ d.State.State \in Waiting /\ NothingNew(s, d)
  BY <1>6, DoneFacts
<1>8. d.starts \in SUBSET StartTasks
  BY <1>7 DEF MachineInv, BaseInv, Machines
<1> HIDE DEF d
<1>9. q \in SUBSET StartTasks
  BY <1>8
<1>10. d.State.State \notin Queued /\ d.State.State # "DISABLED"
  BY <1>7 DEF Waiting, Queued
<1> HIDE DEF q
<1>11. MachineInv(c) /\ SameWorld(d, c) /\ c.State = d.State
  BY <1>7, <1>9, <1>10, StartsChange
<1> HIDE DEF c
<1>12. SameWorld(m, c) /\ NothingNew(m, c)
  BY <1>4, <1>6, <1>7, <1>11 DEF SameWorld, NothingNew
<1> QED
  BY <1>3, <1>5, <1>10, <1>11, <1>12, RollStep DEF m

\* A step of the queue that changes the start tasks alone.
LEMMA StartQStep ==
    ASSUME JobInv, startQ' \in SUBSET StartTasks,
           job.State.State \in Queued => \E t \in startQ' : t.nonce = job.State.InvocationNonce,
           UNCHANGED <<now, job, nonce, lastInv, tickQ, overrunQ, overrunInvs, overrunsLost>>
    PROVE  JobInv' /\ StepOK
<1> DEFINE m == MachineFor(job)
           r == [m EXCEPT !.starts = startQ']
<1>1. JobTypeOK /\ job \in Jobs /\ MachineInv(m) /\ m.State = job.State
  BY MachineForFacts DEF JobInv, JobTypeOK
<1>2. MachineFor(job)' = r
  BY DEF MachineFor, effectiveSchedule
<1> HIDE DEF m
<1>3. MachineInv(r)
  BY <1>1, StartsChange
<1>4. MachineInv(MachineFor(job))'
  BY <1>2, <1>3
<1>5. JobTypeOK'
  BY <1>1 DEF JobTypeOK
<1>6. JobInv'
  BY <1>4, <1>5 DEF JobInv
<1>7. StepOK
  BY <1>1, <1>6, QuietStep DEF OverrunTasksSeen
<1> QED
  BY <1>6, <1>7

\* Task deliveries preserve the invariant.
LEMMA QueueStep ==
    ASSUME JobInv, QueueNext
    PROVE  JobInv' /\ StepOK
<1>1. /\ JobTypeOK /\ startQ \in SUBSET StartTasks
      /\ job.State.State \in Queued => \E t \in startQ : t.nonce = job.State.InvocationNonce
  BY JobInvImplies DEF JobInv, JobTypeOK, QueuedHasStartTask, js
<1>2. ASSUME NEW t \in tickQ, NEW acked \in BOOLEAN, jobTimerTick(t, acked) PROVE JobInv' /\ StepOK
  BY <1>2, TickStep
<1>3. ASSUME NEW t \in startQ, StartAttempt(t) PROVE JobInv' /\ StepOK
  BY <1>3, AttemptStep
<1>4. ASSUME NEW t \in startQ, NEW acked \in BOOLEAN, StartGiveUp(t, acked) PROVE JobInv' /\ StepOK
  BY <1>4, GiveUpStep
<1>5. ASSUME NEW t \in startQ, StartAck(t) PROVE JobInv' /\ StepOK
  <2>1. /\ startQ' = startQ \ {t} /\ ~IsExpectingInvocation(job.State, t.nonce)
        /\ UNCHANGED <<now, job, nonce, lastInv, tickQ, overrunQ, overrunInvs, overrunsLost>>
    BY <1>5 DEF StartAck
  <2>2. job.State.State \in Queued => \E u \in startQ' : u.nonce = job.State.InvocationNonce
    BY <1>1, <2>1 DEF IsExpectingInvocation
  <2> QED
    BY <1>1, <2>1, <2>2, StartQStep
<1>6. ASSUME NEW t \in startQ, StartRetry(t) PROVE JobInv' /\ StepOK
  <2> DEFINE u == [t EXCEPT !.retry = @ + 1]
  <2>1. /\ startQ' = (startQ \ {t}) \cup {u}
        /\ UNCHANGED <<now, job, nonce, lastInv, tickQ, overrunQ, overrunInvs, overrunsLost>>
    BY <1>6 DEF StartRetry
  <2>2. u \in StartTasks /\ u.nonce = t.nonce
    BY <1>1 DEF StartTasks
  <2> HIDE DEF u
  <2>3. job.State.State \in Queued => \E v \in startQ' : v.nonce = job.State.InvocationNonce
    BY <1>1, <2>1, <2>2
  <2> QED
    BY <1>1, <2>1, <2>2, <2>3, StartQStep
<1>7. ASSUME NEW t \in overrunQ, NEW acked \in BOOLEAN, recordOverrun(t, acked) PROVE JobInv' /\ StepOK
  <2>1. /\ UNCHANGED <<now, job, nonce, lastInv, tickQ, startQ>>
        /\ overrunQ' \in SUBSET OverrunTasks /\ overrunInvs' \in SUBSET OverrunTasks
        /\ overrunsLost' \in SUBSET OverrunTasks
        /\ OverrunTasksSeen \subseteq OverrunTasksSeen'
    BY <1>1, <1>7 DEF recordOverrun, JobTypeOK, OverrunTasksSeen
  <2>2. JobTypeOK'
    BY <1>1, <2>1 DEF JobTypeOK
  <2> DEFINE m == MachineFor(job)
             r == [m EXCEPT !.overruns = overrunQ']
  <2>3. MachineFor(job)' = r
    BY <2>1 DEF MachineFor, effectiveSchedule
  <2>4. MachineInv(m)
    BY DEF JobInv
  <2> HIDE DEF m
  <2>5. /\ r \in Machines /\ r.State = m.State /\ r.Nonce = m.Nonce /\ r.ticks = m.ticks
        /\ r.starts = m.starts /\ r.Schedule = m.Schedule
    BY <2>1, <2>4 DEF MachineInv, BaseInv, Machines
  <2> HIDE DEF r
  <2>6. MachineInv(r)
    BY <2>4, <2>5
       DEF MachineInv, BaseInv, KindOK, CleanOK, TickOK, BoundsOK, InvocationOK, StartOK,
           WaitingOK, ScheduleOK, IntervalOK
  <2>7. MachineInv(MachineFor(job))'
    BY <2>3, <2>6
  <2>8. JobInv'
    BY <2>1, <2>2, <2>7 DEF JobInv
  <2>9. StepOK
    BY <1>1, <2>1, <2>8, QuietStep
  <2> QED
    BY <2>8, <2>9
<1> QED
  BY <1>2, <1>3, <1>4, <1>5, <1>6, <1>7 DEF QueueNext

\* The passage of time preserves the invariant.
LEMMA ClockStep ==
    ASSUME JobInv, AdvanceClock
    PROVE  JobInv' /\ StepOK
<1>1. /\ now' \in 1..MaxTime
      /\ UNCHANGED <<job, nonce, lastInv, tickQ, startQ, overrunQ, overrunInvs, overrunsLost>>
  BY TimeAssumption DEF JobInv, JobTypeOK, AdvanceClock
<1>2. JobTypeOK'
  BY <1>1 DEF JobInv, JobTypeOK
<1> DEFINE m == MachineFor(job)
           r == [m EXCEPT !.Now = now']
<1>3. MachineFor(job)' = r
  BY <1>1 DEF MachineFor, effectiveSchedule
<1>4. MachineInv(m)
  BY DEF JobInv
<1> HIDE DEF m
<1>5. /\ r \in Machines /\ r.State = m.State /\ r.Nonce = m.Nonce /\ r.ticks = m.ticks
      /\ r.starts = m.starts /\ r.Schedule = m.Schedule
  BY <1>1, <1>4 DEF MachineInv, BaseInv, Machines
<1> HIDE DEF r
<1>6. MachineInv(r)
  BY <1>4, <1>5
     DEF MachineInv, BaseInv, KindOK, CleanOK, TickOK, BoundsOK, InvocationOK, StartOK,
         WaitingOK, ScheduleOK, IntervalOK
<1>7. MachineInv(MachineFor(job))'
  BY <1>3, <1>6
<1>8. JobInv'
  BY <1>1, <1>2, <1>7 DEF JobInv
<1>9. StepOK
  BY <1>1, <1>8, QuietStep DEF JobInv, OverrunTasksSeen
<1> QED
  BY <1>8, <1>9

\* Steps of the rest of the system preserve the invariant.
LEMMA StutterStep ==
    ASSUME JobInv, UNCHANGED jobVars
    PROVE  JobInv' /\ StepOK
<1>1. MachineFor(job)' = MachineFor(job)
  BY DEF jobVars, MachineFor, effectiveSchedule
<1>2. MachineInv(MachineFor(job))'
  BY <1>1 DEF JobInv
<1>3. JobTypeOK'
  BY DEF JobInv, JobTypeOK, jobVars
<1>4. JobInv'
  BY <1>2, <1>3 DEF JobInv, jobVars
<1>5. StepOK
  BY <1>4, QuietStep DEF JobInv, jobVars, OverrunTasksSeen
<1> QED
  BY <1>4, <1>5

\* Every step of the specification preserves the invariant and is allowed.
LEMMA JobStep ==
    ASSUME JobInv, [JobNext]_jobVars
    PROVE  JobInv' /\ StepOK
BY UserStep, QueueStep, InvocationStep, ClockStep, StutterStep DEF JobNext

\* A step that keeps the records keeps the account of the overruns complete.
LEMMA RecordStep ==
    ASSUME JobInv, RecordsKept, OverrunsOnRecord
    PROVE  OverrunsOnRecord'
<1>1. js.Overruns \in Nat
  BY DEF JobInv, JobTypeOK, Jobs, JobStates, js
<1>2. CASE js'.Overruns = 0
  BY <1>2 DEF OverrunsOnRecord
<1>3. CASE /\ js'.InvocationNonce = js.InvocationNonce
           /\ js'.Overruns = js.Overruns
  BY <1>3 DEF RecordsKept, OverrunsOnRecord
<1>4. CASE /\ js'.InvocationNonce = js.InvocationNonce
           /\ js'.Overruns = js.Overruns + 1
           /\ \E t \in overrunQ' :
                 t.inv = js'.InvocationNonce /\ t.overruns = js'.Overruns
  <2>1. \A k \in 1..js'.Overruns : k \in 1..js.Overruns \/ k = js'.Overruns
    BY <1>1, <1>4
  <2> QED
    BY <1>4, <2>1 DEF RecordsKept, OverrunsOnRecord, OverrunTasksSeen
<1> QED
  BY <1>2, <1>3, <1>4 DEF RecordsKept

-----------------------------------------------------------------------------
(* Theorems.                                                               *)

\* Every reachable state of the Job entity and its queues satisfies the
\* inductive invariant.
THEOREM JobInvariance == JobSafety => []JobInv
<1>1. JobInit => JobInv
  BY JobInvInit
<1>2. JobInv /\ [JobNext]_jobVars => JobInv'
  BY JobStep
<1> QED
  BY <1>1, <1>2, PTL DEF JobSafety

\* The Job entity and the queues keep their types.
THEOREM TypeCorrect == JobSafety => []JobTypeOK
<1>1. JobInv => JobTypeOK
  BY DEF JobInv
<1> QED
  BY <1>1, JobInvariance, PTL

\* No sequence of configuration changes, pauses, manual runs, aborts,
\* redelivered ticks and late invocations drives the state machine into the
\* panics of impossible().
THEOREM NoPanic == JobSafety => []NeverImpossible
<1>1. JobInv => NeverImpossible
  BY JobInvImplies
<1> QED
  BY <1>1, JobInvariance, PTL

\* A tick that the job waits for is always in the timers queue.
THEOREM TicksAreKept == JobSafety => []TickNotLost
<1>1. JobInv => TickNotLost
  BY JobInvImplies
<1> QED
  BY <1>1, JobInvariance, PTL

\* The tick of an enabled job is always the one its effective schedule asks for.
THEOREM TicksFollowSchedules == JobSafety => []TickFollowsSchedule
<1>1. JobInv => TickFollowsSchedule
  BY JobInvImplies
<1> QED
  BY <1>1, JobInvariance, PTL

\* The launch of a queued invocation is always carried by a start task.
THEOREM QueuedIsCarried == JobSafety => []QueuedHasStartTask
<1>1. JobInv => QueuedHasStartTask
  BY JobInvImplies
<1> QED
  BY <1>1, JobInvariance, PTL

\* A disabled job keeps nothing of its past.
THEOREM DisabledJobsAreClean == JobSafety => []DisabledIsClean
<1>1. JobInv => DisabledIsClean
  BY JobInvImplies
<1> QED
  BY <1>1, JobInvariance, PTL

\* Nonce, ID and overrun count of the invocation agree with the state's kind.
THEOREM InvocationCoherent == JobSafety => []InvocationFollowsState
<1>1. JobInv => InvocationFollowsState
  BY JobInvImplies
<1> QED
  BY <1>1, JobInvariance, PTL

\* The next tick of a relative schedule is an interval after the last invocation.
THEOREM IntervalsAreKept == JobSafety => []IntervalKept
<1>1. JobInv => IntervalKept
  BY JobInvImplies
<1> QED
  BY <1>1, JobInvariance, PTL

\* Invocations are queued by users and by due ticks only, one at a time.
THEOREM InvocationsStartOnTime == JobSafety => StartsOnTime
<1>1. JobInv /\ [JobNext]_jobVars => JobInv' /\ StepOK
  BY JobStep
<1>2. JobInv /\ [JobNext]_jobVars =>
        [Queues => /\ js.State \in Waiting
                   /\ \/ TriggerInvocation
                      \/ ~job.Paused /\ js.State = "SCHEDULED" /\ js.TickTime <= now]_jobVars
  BY <1>1 DEF StepOK
<1> QED
  BY <1>2, JobInvariance, PTL DEF JobSafety, StartsOnTime

\* Overruns are counted on absolute schedules only, once per tick.
THEOREM OverrunsAreAbsolute == JobSafety => OverrunsOnAbsoluteOnly
<1>1. JobInv /\ [JobNext]_jobVars => JobInv' /\ StepOK
  BY JobStep
<1>2. JobInv /\ [JobNext]_jobVars =>
        [js'.Overruns > js.Overruns =>
           /\ IsAbsolute(effectiveSchedule(job)) /\ js.State \in Active
           /\ js'.TickNonce # js.TickNonce]_jobVars
  BY <1>1 DEF StepOK
<1> QED
  BY <1>2, JobInvariance, PTL DEF JobSafety, OverrunsOnAbsoluteOnly

\* Every overrun the state machine counts for the current invocation is recorded,
\* on its way to be, or was dropped by a fatal error of recordOverrun: nothing
\* else loses one, and a new invocation starts a count of its own.
THEOREM OverrunsKept == JobSafety => []OverrunsOnRecord
<1>1. JobInit => OverrunsOnRecord
  BY DEF JobInit, NewJob, CleanState, OverrunsOnRecord, js
<1>2. JobInv /\ [JobNext]_jobVars => RecordsKept
  BY JobStep DEF StepOK
<1>3. JobInv /\ RecordsKept /\ OverrunsOnRecord => OverrunsOnRecord'
  BY RecordStep
<1> QED
  BY <1>1, <1>2, <1>3, JobInvariance, PTL DEF JobSafety
=============================================================================
