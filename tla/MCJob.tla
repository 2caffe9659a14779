------------------------------- MODULE MCJob -------------------------------
(***************************************************************************)
(* A small instance of Job: two cron tables, two relative schedules (one   *)
(* of them "continuously") and the triggered one.                          *)
(***************************************************************************)
EXTENDS Job

MCSchedules ==
    {[kind |-> "cron", interval |-> 1, offset |-> 0],
     [kind |-> "cron", interval |-> 2, offset |-> 0],
     [kind |-> "with", interval |-> 0, offset |-> 0],
     [kind |-> "with", interval |-> 2, offset |-> 1],
     Triggered}

\* A table with an entry at every multiple of the interval.
MCCronNext(sched, t) == ((t \div sched.interval) + 1) * sched.interval
=============================================================================
