------------------------------ MODULE Schedule ------------------------------
(***************************************************************************)
(* Job schedules of the scheduler service                                  *)
(* (scheduler/appengine/schedule/schedule.go).                             *)
(*                                                                         *)
(* Time is a natural number; 0 is Go's zero time.Time.  A schedule is the  *)
(* parsed form of its configuration string: a cron expression, "with N     *)
(* interval" ("continuously" is "with 0s interval") or "triggered".        *)
(***************************************************************************)
EXTENDS Naturals

CONSTANTS
    MaxTime,         \* bound of the clock: no action happens later
    DistantFuture,   \* "the next tick should not happen"
    Schedules,       \* the schedules a job definition may carry
    CronNext(_, _)   \* cronexpr's Next: external, a parameter of the model

ZeroTime == 0

Triggered == [kind |-> "triggered", interval |-> 0, offset |-> 0]

ScheduleRecords ==
    [kind : {"cron", "with", "triggered"}, interval : Nat, offset : Nat]

\* A schedule as it may appear in a job: offset is what the job's random seed
\* makes of the interval (interval * rnd, with rnd in [0, 1)).
ASSUME SchedulesAssumption ==
    /\ Schedules \subseteq ScheduleRecords
    /\ \A s \in Schedules : s.kind = "triggered" => s = Triggered
    /\ \A s \in Schedules : s.offset <= s.interval

\* Times the model can reach are well before DistantFuture (the year 2116).
ASSUME TimeAssumption ==
    /\ MaxTime \in Nat /\ DistantFuture \in Nat /\ MaxTime < DistantFuture
    /\ \A s \in Schedules : MaxTime + s.interval < DistantFuture

\* cronexpr.Next returns the first matching moment strictly after its argument.
ASSUME CronAssumption ==
    \A s \in Schedules, t \in 1..MaxTime :
        s.kind = "cron" =>
            /\ CronNext(s, t) \in Nat
            /\ t < CronNext(s, t)
            /\ CronNext(s, t) < DistantFuture

-----------------------------------------------------------------------------

IsAbsolute(sched) == sched.kind \in {"cron", "triggered"}

\* Mutant of NextTick: a relative schedule forgets its interval.
NextTickAtOnce(sched, now, prev) ==
    IF sched.kind = "triggered" THEN DistantFuture
    ELSE IF sched.kind = "cron" THEN CronNext(sched, now)
    ELSE IF prev = ZeroTime THEN now + sched.offset
    ELSE now

\* When to run the job the next time; prev is when its previous invocation has
\* finished (or the zero time before the first one).
NextTick(sched, now, prev) ==
    IF sched.kind = "triggered" THEN DistantFuture
    ELSE IF sched.kind = "cron" THEN CronNext(sched, now)
    ELSE IF prev = ZeroTime THEN now + sched.offset
    ELSE IF prev + sched.interval < now THEN now
    ELSE prev + sched.interval
=============================================================================
