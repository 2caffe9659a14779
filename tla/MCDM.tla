-------------------------------- MODULE MCDM --------------------------------
(***************************************************************************)
(* Small instances of DM.                                                  *)
(***************************************************************************)
EXTENDS DM, TLC

MCQuestOf == [a \in Attempts |-> IF a = 1 THEN 1 ELSE 2]
OneRetry == [r \in Retriable |-> 1]

NoWants == [a \in Attempts |-> {}]

\* Attempt 1 may depend on 2, whose quest is described anew.
Pair ==
    [roots |-> {1}, wants |-> [NoWants EXCEPT ![1] = {{2}}], rebuilt |-> {2},
     timeouts |-> {}, faults |-> {"again", "CRASHED"}, maxFaults |-> 1,
     execs |-> 2, runs |-> 1]

\* Attempts 1 and 2 may both depend on 3.
FanIn ==
    [Pair EXCEPT !.roots = {1, 2}, !.wants = [NoWants EXCEPT ![1] = {{3}}, ![2] = {{3}}],
                 !.rebuilt = {}, !.faults = {}, !.execs = 1]

\* An attempt on its own, with all timeouts and all that may happen to its tasks.
Alone ==
    [Pair EXCEPT !.wants = NoWants, !.rebuilt = {},
                 !.timeouts = {"SCHEDULING", "RUNNING", "STOPPING"},
                 !.faults = {"note", "note again", "txn", "reply", "reject", "stale"},
                 !.maxFaults = 2, !.runs = 2]

SafetyLoads == {Pair, FanIn, Alone}

\* Smaller ones for liveness.
LivenessLoads ==
    {[Pair EXCEPT !.rebuilt = {}, !.faults = {"again"}],
     [Alone EXCEPT !.faults = {"again", "stale", "note", "txn", "reply"}, !.maxFaults = 1]}

\* Two attempts that users ask for, without faults.
Plain == [Pair EXCEPT !.roots = {1, 2}, !.rebuilt = {}, !.faults = {}]
PlainLoads == {Plain}
=============================================================================
