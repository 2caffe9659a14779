------------------------------ MODULE MCEngine ------------------------------
(***************************************************************************)
(* A small instance of Engine.                                             *)
(***************************************************************************)
EXTENDS Engine, TLC

\* A cron job, due at every time.
CronOnly == {[kind |-> "cron", interval |-> 1, offset |-> 0]}

\* A job that only users start.
TriggeredOnly == {Triggered}

MCCronNext(sched, t) == ((t \div sched.interval) + 1) * sched.interval

WorkerSymmetry == Permutations(Workers)
=============================================================================
