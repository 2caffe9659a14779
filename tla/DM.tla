--------------------------------- MODULE DM ---------------------------------
(***************************************************************************)
(* Dungeon Master (dm/appengine): a graph of attempts that wait for one    *)
(* another.  Its state machine is a set of tumble mutations, each of which *)
(* transacts on one entity group; tumble promises that a journalled        *)
(* mutation is rolled forward at least once, in any order (TumblePromise). *)
(*                                                                         *)
(* An attempt is executed by a distributor: a task there activates its     *)
(* execution, may declare dependencies or finish the attempt, and ends;    *)
(* the distributor notifies DM of the end.                                 *)
(***************************************************************************)
EXTENDS Integers, FiniteSets, Sequences

CONSTANTS
    Attempts,           \* attempts, numbered in the order of their IDs
    Quests, QuestOf,    \* the quest of each attempt
    Loads,              \* what users, tasks and faults may do in a behaviour
    Retry,              \* Desc.Meta.Retry, per retriable status
    CompletionLimit,    \* completionLimit
    MaxEnsureAttempts,
    MaxTimeoutAttempts, \* maxTimeoutAttempts
    MaxExec,            \* bound: executions of an attempt
    MaxRuns,            \* bound: distributor tasks for the same execution
    Calls,              \* bound: EnsureGraphData calls in flight
    None

Retriable == {"FAILED", "CRASHED", "EXPIRED", "TIMED_OUT"}

FaultKinds ==
    {"again",       \* tumble rolls a mutation forward twice
     "stale",       \* it loads a timeout that is replaced before it rolls it forward
     "txn",         \* a transaction fails after the distributor was called
     "reject",      \* the distributor rejects an execution
     "reply",       \* the answer to ActivateExecution is lost
     "note",        \* a notification of the distributor is lost
     "note again"}  \* one is delivered twice
      \cup Retriable   \* a task ends so

ASSUME DMAssumption ==
    /\ Attempts \subseteq Nat /\ IsFiniteSet(Attempts) /\ None \notin Nat
    /\ QuestOf \in [Attempts -> Quests]
    /\ Retry \in [Retriable -> Nat]
    /\ CompletionLimit \in Nat \ {0} /\ MaxExec \in Nat /\ MaxRuns \in Nat \ {0}
    /\ \A l \in Loads :
         /\ l.roots \subseteq Attempts         \* the attempts that users ask for
         /\ l.wants \in [Attempts -> SUBSET ((SUBSET Attempts) \ {{}})]
                                               \* the dependencies tasks may declare
         /\ l.rebuilt \subseteq Quests         \* quests described with other templates
         /\ l.timeouts \subseteq {"SCHEDULING", "RUNNING", "STOPPING"}
                                               \* execution states with a timeout
         /\ l.faults \subseteq FaultKinds       \* what may go wrong, each once
         /\ l.maxFaults \in Nat /\ l.execs \in 0..MaxExec /\ l.runs \in 1..MaxRuns    \* bounds

VARIABLES
    load,       \* one of Loads
    quests,     \* the Quest entities
    attempt,    \* the Attempt entities
    exec,       \* the Execution entities
    fwd, back,  \* the FwdDep and BackDep entities
    done,       \* the BackDepGroups that are AttemptFinished
    timer,      \* the mutation named "timeout" of each execution, if it has one,
                \* or that there is none since a stale one was processed
    loaded,     \* timeouts that tumble has loaded and not rolled forward yet
    journal,    \* the other mutations in tumble's journal
    task,       \* the distributor's tasks
    notes,      \* notifications of the distributor, under way
    call,       \* EnsureGraphData calls for an execution
    slips       \* history: what went wrong

graph == <<attempt, exec, fwd, back, done>>
work == <<timer, loaded, journal>>
world == <<task, notes, call, load>>
dmVars == <<quests, graph, work, world, slips>>

Executions == 1..MaxExec
Runs == 1..MaxRuns
Results == {"data", "REJECTED"} \cup Retriable

AttemptStates == {"DNE", "SCHEDULING", "EXECUTING", "WAITING", "FINISHED", "ABNORMAL_FINISHED"}
ExecutionStates == {"DNE", "SCHEDULING", "RUNNING", "STOPPING", "FINISHED", "ABNORMAL_FINISHED"}

\* Execution_State.Terminal
Terminal(s) == s \in {"FINISHED", "ABNORMAL_FINISHED"}

\* An Attempt: its state, CurExecution, DepMap, RetryState, the two halves of
\* Result, and IsAbnormal.
NewAttempt ==
    [st |-> "DNE", cur |-> 0, deps |-> <<>>, retry |-> [r \in Retriable |-> 0],
     data |-> FALSE, abnormal |-> FALSE, isAbnormal |-> FALSE]

\* An Execution: its state, Token and DistributorToken.
NewExecution == [st |-> "DNE", tok |-> None, run |-> None]

NoCall == [st |-> "none"]

DMInit ==
    /\ load \in Loads
    /\ quests = {}
    /\ attempt = [a \in Attempts |-> NewAttempt]
    /\ exec = [a \in Attempts |-> [n \in Executions |-> NewExecution]]
    /\ fwd = {} /\ back = {} /\ done = {}
    /\ timer = [a \in Attempts |-> [n \in Executions |-> None]]
    /\ loaded = {} /\ journal = {}
    /\ task = [a \in Attempts |-> [n \in Executions |-> [k \in Runs |-> "none"]]]
    /\ notes = {}
    /\ call = [c \in Calls |-> NoCall]
    /\ slips = {}

Happens(fault) ==
    /\ fault \in load.faults \ slips
    /\ Cardinality(slips) < load.maxFaults
    /\ slips' = slips \cup {fault}

-----------------------------------------------------------------------------
(* Mutations.                                                              *)

ScheduleExecutionMut(a) == [type |-> "ScheduleExecution", for |-> a]
EnsureAttemptMut(a) == [type |-> "EnsureAttempt", for |-> a]
RecordCompletionMut(a) == [type |-> "RecordCompletion", for |-> a]
AddBackDepMut(a, d, ack) == [type |-> "AddBackDep", from |-> a, to |-> d, ack |-> ack]
AckFwdDepMut(a, d) == [type |-> "AckFwdDep", from |-> a, to |-> d]
FinishExecutionMut(a, n, r) == [type |-> "FinishExecution", for |-> a, ex |-> n, result |-> r]
TimeoutMut(a, n, s, i) ==
    [type |-> "TimeoutExecution", for |-> a, ex |-> n, state |-> s, tries |-> i]
EnsureQuestMut(q, S, merge) ==
    [type |-> "EnsureQuestAttempts", quest |-> q, to |-> S, merge |-> merge]
MergeQuestMut(q, S) == [type |-> "MergeQuest", quest |-> q, then |-> S]

\* Mutation m has been rolled forward and returned the mutations new.  Now and
\* then tumble rolls it forward again.
Rolled(m, new) ==
    \/ journal' = (journal \ {m}) \cup new /\ UNCHANGED slips
    \/ Happens("again") /\ journal' = journal \cup new

\* ResetExecutionTimeout, for an execution that enters state s.
ResetExecutionTimeout(a, n, s) ==
    timer' = [timer EXCEPT ![a][n] = IF s \in load.timeouts THEN s ELSE None]

-----------------------------------------------------------------------------
(* Quests and attempts come into being.                                    *)

\* A user's EnsureGraphData journals the quests and attempts that do not exist.
journalQuestAttempts(q, S) ==
    /\ S # {} /\ \A a \in S : attempt[a].st = "DNE"
    /\ journal' = journal \cup {EnsureQuestMut(q, S, q \notin quests \/ q \in load.rebuilt)}
    /\ UNCHANGED <<quests, graph, timer, loaded, world, slips>>

\* Some attempts are ensured, the rest is left to a tail call.
EnsureQuestAttempts(m) ==
    LET first == {a \in m.to : Cardinality({b \in m.to : b < a}) <= MaxEnsureAttempts}
        rest == m.to \ first
    IN  /\ quests' = IF m.merge THEN quests \cup {m.quest} ELSE quests
        /\ Rolled(m, {EnsureAttemptMut(a) : a \in first} \cup
                     IF rest = {} THEN {} ELSE {EnsureQuestMut(m.quest, rest, FALSE)})
        /\ UNCHANGED <<graph, timer, loaded, world>>

MergeQuest(m) ==
    /\ quests' = quests \cup {m.quest}
    /\ Rolled(m, m.then)
    /\ UNCHANGED <<graph, timer, loaded, world>>

EnsureAttempt(m) ==
    LET new == attempt[m.for].st = "DNE"
    IN  /\ attempt' = IF new THEN [attempt EXCEPT ![m.for].st = "SCHEDULING"] ELSE attempt
        /\ Rolled(m, IF new THEN {ScheduleExecutionMut(m.for)} ELSE {})
        /\ UNCHANGED <<quests, exec, fwd, back, done, timer, loaded, world>>

-----------------------------------------------------------------------------
(* Executions begin and end.                                               *)

\* FinishExecution and shouldRetry: what becomes of an attempt and of its
\* current execution that ended with a result, and what follows.
Finishes(at, ex, result, a) ==
    LET r == IF result = "data" /\ ex.st # "STOPPING" THEN "FAILED" ELSE result
        again == r \in Retriable /\ at.retry[r] < Retry[r]
        all == \A i \in DOMAIN at.deps : at.deps[i]
    IN  IF r # "data"
        THEN [at |-> [at EXCEPT
                        !.st = IF again THEN "SCHEDULING" ELSE "ABNORMAL_FINISHED",
                        !.deps = IF again THEN <<>> ELSE @,
                        !.retry = IF r \in Retriable
                                  THEN [at.retry EXCEPT ![r] = at.retry[r] + 1] ELSE @,
                        !.abnormal = @ \/ ~again,
                        !.isAbnormal = TRUE],
              ex |-> [ex EXCEPT !.st = "ABNORMAL_FINISHED"],
              muts |-> IF again THEN {ScheduleExecutionMut(a)} ELSE {}]
        ELSE [at |-> [at EXCEPT
                        !.st = IF at.deps = <<>> THEN "FINISHED"
                               ELSE IF all THEN "SCHEDULING" ELSE "WAITING",
                        !.deps = IF all THEN <<>> ELSE @,
                        !.retry = NewAttempt.retry],
              ex |-> [ex EXCEPT !.st = "FINISHED"],
              muts |-> IF at.deps = <<>> THEN {RecordCompletionMut(a)}
                       ELSE IF all THEN {ScheduleExecutionMut(a)} ELSE {}]

\* The first run of the execution whose task does not exist yet.
NextRun(a, n) ==
    LET free == {k \in 1..load.runs : task[a][n][k] = "none"}
    IN  {k \in free : \A j \in free : k <= j}

\* The distributor is called inside the transaction: it runs a task, or it
\* rejects the execution, or it runs a task and the transaction fails.
ScheduleExecution(m) ==
    LET a == m.for
        n == attempt[a].cur + 1
        at == [attempt[a] EXCEPT !.st = "EXECUTING", !.cur = n]
        started(k) == [st |-> "SCHEDULING", tok |-> k, run |-> k]
    IN  \/ /\ attempt[a].st # "SCHEDULING"
           /\ Rolled(m, {})
           /\ UNCHANGED <<quests, graph, timer, loaded, world>>
        \/ /\ attempt[a].st = "SCHEDULING" /\ n <= load.execs /\ QuestOf[a] \in quests
           /\ \E k \in NextRun(a, n) :
                \/ /\ attempt' = [attempt EXCEPT ![a] = at]
                   /\ exec' = [exec EXCEPT ![a][n] = started(k)]
                   /\ task' = [task EXCEPT ![a][n][k] = "pending"]
                   /\ ResetExecutionTimeout(a, n, "SCHEDULING")
                   /\ Rolled(m, {})
                \/ LET f == Finishes(at, [started(k) EXCEPT !.run = None], "REJECTED", a)
                   IN  /\ Happens("reject")
                       /\ attempt' = [attempt EXCEPT ![a] = f.at]
                       /\ exec' = [exec EXCEPT ![a][n] = f.ex]
                       /\ journal' = (journal \ {m}) \cup f.muts
                       /\ UNCHANGED <<task, timer>>
                \/ /\ Happens("txn")
                   /\ task' = [task EXCEPT ![a][n][k] = "pending"]
                   /\ UNCHANGED <<attempt, exec, timer, journal>>
           /\ UNCHANGED <<quests, fwd, back, done, loaded, notes, call, load>>

\* Mutant: an execution that will be retried is not ended.
FinishExecutionKeepsState(m) ==
    LET a == m.for
        n == m.ex
        f == Finishes(attempt[a], exec[a][n], m.result, a)
    IN  /\ exec[a][n].st # "DNE"
        /\ IF attempt[a].st # "EXECUTING" \/ attempt[a].cur # n \/ Terminal(exec[a][n].st)
           THEN Rolled(m, {}) /\ UNCHANGED <<attempt, exec, timer>>
           ELSE /\ attempt' = [attempt EXCEPT ![a] = f.at]
                /\ exec' = IF f.at.st = "SCHEDULING" THEN exec
                           ELSE [exec EXCEPT ![a][n] = f.ex]
                /\ ResetExecutionTimeout(a, n, f.ex.st)
                /\ Rolled(m, f.muts)
        /\ UNCHANGED <<quests, fwd, back, done, loaded, world>>

\* A result that comes late, or for an execution that is no longer the current
\* one, is dropped.  For an execution that does not exist, this fails.
FinishExecution(m) ==
    LET a == m.for
        n == m.ex
        f == Finishes(attempt[a], exec[a][n], m.result, a)
    IN  /\ exec[a][n].st # "DNE"
        /\ IF attempt[a].st # "EXECUTING" \/ attempt[a].cur # n \/ Terminal(exec[a][n].st)
           THEN Rolled(m, {}) /\ UNCHANGED <<attempt, exec, timer>>
           ELSE /\ attempt' = [attempt EXCEPT ![a] = f.at]
                /\ exec' = [exec EXCEPT ![a][n] = f.ex]
                /\ ResetExecutionTimeout(a, n, f.ex.st)
                /\ Rolled(m, f.muts)
        /\ UNCHANGED <<quests, fwd, back, done, loaded, world>>

\* TimeoutExecution: what an expired timeout for state s turns into.  GetStatus
\* may fail (~known), or find that the task goes on.
TimedOut(a, n, s, tries, known) ==
    LET status == task[a][n][exec[a][n].run]
        ask == IF tries < MaxTimeoutAttempts THEN TimeoutMut(a, n, s, tries + 1)
               ELSE FinishExecutionMut(a, n, "TIMED_OUT")
    IN  IF exec[a][n].st # s THEN {}
        ELSE IF s # "STOPPING" THEN {FinishExecutionMut(a, n, "TIMED_OUT")}
        ELSE IF known /\ status \in Results THEN {FinishExecutionMut(a, n, status)}
        ELSE {ask}

\* The timeout of an execution is due.
TimerFires(a, n) ==
    /\ timer[a][n] \in load.timeouts
    /\ timer' = [timer EXCEPT ![a][n] = None]
    /\ \E known \in BOOLEAN : journal' = journal \cup TimedOut(a, n, timer[a][n], 0, known)
    /\ UNCHANGED <<quests, graph, loaded, world, slips>>

\* Tumble loads a timeout ahead of the transaction that rolls it forward and
\* deletes what is then under its key, the timeout of a later state too.
LoadTimer(a, n) ==
    /\ timer[a][n] \in load.timeouts
    /\ Happens("stale")
    /\ loaded' = loaded \cup {<<a, n, timer[a][n]>>}
    /\ UNCHANGED <<quests, graph, timer, journal, world>>

LoadedTimer(a, n, s) ==
    /\ <<a, n, s>> \in loaded
    /\ loaded' = loaded \ {<<a, n, s>>}
    /\ timer' = [timer EXCEPT ![a][n] = IF @ \in (load.timeouts \cup {"gone"}) \ {s}
                                              THEN "gone" ELSE None]
    /\ \E known \in BOOLEAN : journal' = journal \cup TimedOut(a, n, s, 0, known)
    /\ UNCHANGED <<quests, graph, world, slips>>

\* A timeout that was put off once more; it has no name.
TimeoutExecution(m) ==
    /\ \E known \in BOOLEAN : Rolled(m, TimedOut(m.for, m.ex, m.state, m.tries, known))
    /\ UNCHANGED <<quests, graph, timer, loaded, world>>

-----------------------------------------------------------------------------
(* Dependencies.                                                           *)

\* Mutant: a back dependency always waits for RecordCompletion.
AddBackDepLater(m) ==
    /\ back' = {b \in back : <<b.from, b.to>> # <<m.from, m.to>>} \cup
               {[from |-> m.from, to |-> m.to, propagated |-> FALSE]}
    /\ Rolled(m, {})
    /\ UNCHANGED <<quests, attempt, exec, fwd, done, timer, loaded, world>>

\* A back dependency on a finished attempt is acknowledged at once, if it needs it.
AddBackDep(m) ==
    /\ back' = {b \in back : <<b.from, b.to>> # <<m.from, m.to>>} \cup
               {[from |-> m.from, to |-> m.to, propagated |-> m.to \in done]}
    /\ Rolled(m, IF m.ack /\ m.to \in done THEN {AckFwdDepMut(m.from, m.to)} ELSE {})
    /\ UNCHANGED <<quests, attempt, exec, fwd, done, timer, loaded, world>>

\* Mutant: the back dependency is put under a new key.
RecordCompletionCopies(m) ==
    LET blocked == {b \in back : b.to = m.for /\ ~b.propagated}
    IN  /\ back' = back \cup {[b EXCEPT !.propagated = TRUE] : b \in blocked}
        /\ done' = done \cup {m.for}
        /\ Rolled(m, {AckFwdDepMut(b.from, b.to) : b \in blocked})
        /\ UNCHANGED <<quests, attempt, exec, fwd, timer, loaded, world>>

\* Acknowledges a limited number of dependencies, and calls itself as long as
\* there may be more.
RecordCompletion(m) ==
    LET blocked == {b \in back : b.to = m.for /\ ~b.propagated}
        batch == {b \in blocked :
                    Cardinality({c \in blocked : c.from < b.from}) < CompletionLimit}
    IN  /\ back' = (back \ batch) \cup {[b EXCEPT !.propagated = TRUE] : b \in batch}
        /\ done' = done \cup {m.for}
        /\ Rolled(m, {AckFwdDepMut(b.from, b.to) : b \in batch} \cup
                     IF Cardinality(batch) = CompletionLimit THEN {m} ELSE {})
        /\ UNCHANGED <<quests, attempt, exec, fwd, timer, loaded, world>>

\* Whether AckFwdDep is about the current execution, and so sets its bit.
Applies(f) == attempt[f.from].st \in {"EXECUTING", "WAITING"} /\ attempt[f.from].cur = f.ex

\* Mutant: an attempt that is unblocked is not scheduled.
AckFwdDepOnly(m) ==
    \E f \in fwd :
      LET at == attempt[m.from]
          deps == [at.deps EXCEPT ![f.bit] = TRUE]
          wake == at.st = "WAITING" /\ ~at.deps[f.bit] /\ \A i \in DOMAIN deps : deps[i]
      IN  /\ <<f.from, f.to>> = <<m.from, m.to>>
          /\ IF ~Applies(f) THEN UNCHANGED attempt
             ELSE /\ f.bit \in DOMAIN at.deps
                  /\ attempt' = [attempt EXCEPT
                       ![m.from].st = IF wake THEN "SCHEDULING" ELSE @,
                       ![m.from].deps = IF wake THEN <<>> ELSE deps]
          /\ Rolled(m, {})
          /\ UNCHANGED <<quests, exec, fwd, back, done, timer, loaded, world>>

\* A bit beyond the DepMap makes BitField.Set panic: nothing is committed.
AckFwdDep(m) ==
    \E f \in fwd :
      LET at == attempt[m.from]
          deps == [at.deps EXCEPT ![f.bit] = TRUE]
          wake == at.st = "WAITING" /\ ~at.deps[f.bit] /\ \A i \in DOMAIN deps : deps[i]
      IN  /\ <<f.from, f.to>> = <<m.from, m.to>>
          /\ IF ~Applies(f)
             THEN Rolled(m, {}) /\ UNCHANGED attempt
             ELSE /\ f.bit \in DOMAIN at.deps
                  /\ attempt' = [attempt EXCEPT
                       ![m.from].st = IF wake THEN "SCHEDULING" ELSE @,
                       ![m.from].deps = IF wake THEN <<>> ELSE deps]
                  /\ Rolled(m, IF wake THEN {ScheduleExecutionMut(m.from)} ELSE {})
          /\ UNCHANGED <<quests, exec, fwd, back, done, timer, loaded, world>>

-----------------------------------------------------------------------------
(* What the task of an execution calls.                                    *)

\* Mutant: any task of the execution may activate it.
VerifiesActivationAlways(a, n, k) ==
    /\ attempt[a].st = "EXECUTING" /\ attempt[a].cur = n
    /\ exec[a][n].st \in {"SCHEDULING", "RUNNING"}

\* verifyExecutionAndActivate: the first activation, or a retry of it.
VerifiesActivation(a, n, k) ==
    /\ attempt[a].st = "EXECUTING" /\ attempt[a].cur = n
    /\ exec[a][n].st \in {"SCHEDULING", "RUNNING"} /\ exec[a][n].tok = k

\* Mutant: the timeout is left as it is.
ActivateKeepsTimer(a, n, k) ==
    /\ task[a][n][k] = "pending"
    /\ VerifiesActivation(a, n, k)
    /\ exec' = [exec EXCEPT ![a][n].st = "RUNNING", ![a][n].tok = k]
    /\ task' = [task EXCEPT ![a][n][k] = "active"]
    /\ UNCHANGED <<quests, attempt, fwd, back, done, loaded, journal, timer, notes, call, load, slips>>

\* The task may not hear that it succeeded, and try again.
ActivateExecution(a, n, k) ==
    /\ task[a][n][k] = "pending"
    /\ VerifiesActivation(a, n, k)
    /\ exec' = [exec EXCEPT ![a][n].st = "RUNNING", ![a][n].tok = k]
    /\ ResetExecutionTimeout(a, n, "RUNNING")
    /\ \/ task' = [task EXCEPT ![a][n][k] = "active"] /\ UNCHANGED slips
       \/ Happens("reply") /\ UNCHANGED task
    /\ UNCHANGED <<quests, attempt, fwd, back, done, loaded, journal, notes, call, load>>

\* verifyExecutionAndCheckExTok
Authentic(a, n, k) ==
    /\ attempt[a].st = "EXECUTING" /\ attempt[a].cur = n
    /\ exec[a][n].st = "RUNNING" /\ exec[a][n].tok = k

\* InvalidateExecution and the timeout of the next state.
Stops(a, n) ==
    /\ exec' = [exec EXCEPT ![a][n].st = "STOPPING", ![a][n].tok = None]
    /\ ResetExecutionTimeout(a, n, "STOPPING")

FinishAttempt(a, n, k) ==
    /\ task[a][n][k] = "active" /\ Authentic(a, n, k)
    /\ Stops(a, n)
    /\ attempt' = [attempt EXCEPT ![a].data = TRUE]
    /\ UNCHANGED <<quests, fwd, back, done, loaded, journal, world, slips>>

\* EnsureGraphData for an authentic execution walks the graph and looks for
\* existing dependencies, in any order, before it transacts.
EnsureGraphData(c, a, n, k, want) ==
    /\ task[a][n][k] = "active" /\ call[c] = NoCall
    /\ Authentic(a, n, k)
    /\ call' = [call EXCEPT ![c] = [st |-> "read", from |-> a, ex |-> n, run |-> k,
                  want |-> want, walk |-> None, missing |-> None]]
    /\ UNCHANGED <<quests, graph, work, task, notes, load, slips>>

\* What runEnsureGraphDepsWalk finds of the attempts and quests it wants.
doGraphWalk(c) ==
    LET want == call[c].want
        no == {q \in {QuestOf[d] : d \in want} : q \notin quests}
    IN  /\ call[c].st = "read" /\ call[c].walk = None
        /\ call' = [call EXCEPT ![c].walk =
             [allFinished |-> \A d \in want : attempt[d].st = "FINISHED",
              dne |-> {d \in want : attempt[d].st = "DNE"},
              newQuests |-> no \cup (load.rebuilt \cap {QuestOf[d] : d \in want})]]
        /\ UNCHANGED <<quests, graph, work, task, notes, load, slips>>

HasDep(a, d) == \E f \in fwd : f.from = a /\ f.to = d

depsFromMissing(c) ==
    /\ call[c].st = "read" /\ call[c].missing = None
    /\ call' = [call EXCEPT ![c].missing =
                  {d \in call[c].want : ~HasDep(call[c].from, d)}]
    /\ UNCHANGED <<quests, graph, work, task, notes, load, slips>>

\* FwdDepsFromList: the dependencies of a on D, numbered in order.
FwdDeps(a, D) ==
    {[from |-> a, to |-> d, bit |-> Cardinality({e \in D : e < d}) + 1,
      ex |-> attempt[a].cur] : d \in D}

\* The dependencies that do not exist yet.
filterExisting(a, D) == {d \in D : ~HasDep(a, d)}

\* The mutations AddDeps returns: a quest to merge goes before the attempts and
\* back dependencies in it.
AddDepsMuts(a, new, walk) ==
    LET of(d) == {AddBackDepMut(a, d, TRUE)} \cup
                 IF d \in walk.dne THEN {EnsureAttemptMut(d)} ELSE {}
        in(q) == {d \in new : QuestOf[d] = q}
    IN  {MergeQuestMut(q, UNION {of(d) : d \in in(q)}) : q \in walk.newQuests}
          \cup UNION {of(d) : d \in {e \in new : QuestOf[e] \notin walk.newQuests}}

\* The dependencies that are new are numbered and waited for; if there are
\* none, the execution is stopped all the same.
AddDeps(x) ==
    LET new == filterExisting(x.from, x.missing)
    IN  /\ Stops(x.from, x.ex)
        /\ fwd' = fwd \cup FwdDeps(x.from, new)
        /\ attempt' = IF new = {} THEN attempt
             ELSE [attempt EXCEPT ![x.from].deps = [i \in 1..Cardinality(new) |-> FALSE]]
        /\ journal' = IF new = {} THEN journal
                      ELSE journal \cup AddDepsMuts(x.from, new, x.walk)

\* The dependencies keep the numbers they have in the request.
AddFinishedDeps(x) ==
    LET new == filterExisting(x.from, x.missing)
    IN  /\ fwd' = fwd \cup {f \in FwdDeps(x.from, x.missing) : f.to \in new}
        /\ journal' = IF new = {} THEN journal
             ELSE journal \cup {AddBackDepMut(x.from, d, FALSE) : d \in new}
                          \cup {MergeQuestMut(q, {}) : q \in x.walk.newQuests}
        /\ UNCHANGED <<attempt, exec, timer>>

\* What ensureGraphData decides from what it read.
Satisfied(x) == x.missing = {} \/ x.walk.allFinished
NothingToDo(x) == x.missing = {} /\ x.walk.newQuests = {}

\* The call ends: it is accepted at once, or a transaction is run, which fails
\* unless the execution is still authentic.
DecideCall(c) ==
    LET x == call[c]
        authentic == Authentic(x.from, x.ex, x.run)
    IN  /\ x.st = "read" /\ x.walk # None /\ x.missing # None
        /\ call' = [call EXCEPT ![c] = NoCall]
        /\ \/ /\ Satisfied(x) /\ NothingToDo(x)
              /\ UNCHANGED <<attempt, exec, fwd, timer, journal>>
           \/ /\ Satisfied(x) /\ ~NothingToDo(x) /\ authentic
              /\ AddFinishedDeps(x)
           \/ /\ ~Satisfied(x) /\ authentic
              /\ AddDeps(x)
           \/ /\ ~(Satisfied(x) /\ NothingToDo(x)) /\ ~authentic
              /\ UNCHANGED <<attempt, exec, fwd, timer, journal>>
        /\ UNCHANGED <<quests, back, done, loaded, task, notes, load, slips>>

-----------------------------------------------------------------------------
(* The distributor.                                                        *)

\* A task ends, with a result of its own or because it crashed; the
\* notification may get lost.
TaskEnds(a, n, k, result) ==
    /\ task[a][n][k] \in {"pending", "active"}
    /\ task' = [task EXCEPT ![a][n][k] = result]
    /\ \/ notes' = notes \cup {<<a, n, k>>} /\ (IF result = "data" THEN UNCHANGED slips
                                                ELSE Happens(result))
       \/ result = "data" /\ Happens("note") /\ UNCHANGED notes
    /\ UNCHANGED <<quests, graph, work, call, load>>

\* The notification is received, perhaps not for the last time.
NotifyExecution(a, n, k) ==
    /\ <<a, n, k>> \in notes
    /\ journal' = journal \cup {FinishExecutionMut(a, n, task[a][n][k])}
    /\ \/ notes' = notes \ {<<a, n, k>>} /\ UNCHANGED slips
       \/ Happens("note again") /\ UNCHANGED notes
    /\ UNCHANGED <<quests, graph, timer, loaded, task, call, load>>

-----------------------------------------------------------------------------
RollForward(m) ==
    \/ m.type = "EnsureQuestAttempts" /\ EnsureQuestAttempts(m)
    \/ m.type = "MergeQuest" /\ MergeQuest(m)
    \/ m.type = "EnsureAttempt" /\ EnsureAttempt(m)
    \/ m.type = "ScheduleExecution" /\ ScheduleExecution(m)
    \/ m.type = "FinishExecution" /\ FinishExecution(m)
    \/ m.type = "TimeoutExecution" /\ TimeoutExecution(m)
    \/ m.type = "AddBackDep" /\ AddBackDep(m)
    \/ m.type = "RecordCompletion" /\ RecordCompletion(m)
    \/ m.type = "AckFwdDep" /\ AckFwdDep(m)

Handle(c) == doGraphWalk(c) \/ depsFromMissing(c) \/ DecideCall(c)

Client(a, n, k) ==
    \/ ActivateExecution(a, n, k) \/ FinishAttempt(a, n, k)
    \/ \E c \in Calls, want \in load.wants[a] : EnsureGraphData(c, a, n, k, want)
    \/ \E result \in Results : TaskEnds(a, n, k, result)

DMNext ==
    \/ \E q \in Quests : \E S \in SUBSET {a \in load.roots : QuestOf[a] = q} :
         journalQuestAttempts(q, S)
    \/ \E m \in journal : RollForward(m)
    \/ \E c \in Calls : Handle(c)
    \/ \E t \in loaded : LoadedTimer(t[1], t[2], t[3])
    \/ \E a \in Attempts : \E n \in 1..attempt[a].cur :
         TimerFires(a, n) \/ LoadTimer(a, n)
    \/ \E a \in Attempts : \E n \in 1..load.execs, k \in 1..load.runs :
         Client(a, n, k) \/ NotifyExecution(a, n, k)

DMSpec == DMInit /\ [][DMNext]_dmVars

MutationTypes ==
    {"EnsureQuestAttempts", "MergeQuest", "EnsureAttempt", "ScheduleExecution",
     "FinishExecution", "TimeoutExecution", "AddBackDep", "RecordCompletion", "AckFwdDep"}

\* Tumble rolls mutations forward, of every type, and timeouts expire.  Nothing
\* is assumed of the tasks, of the distributor, or of its notifications.
FairDMSpec ==
    /\ DMSpec
    /\ \A t \in MutationTypes : WF_dmVars(\E m \in journal : m.type = t /\ RollForward(m))
    /\ \A a \in Attempts, n \in Executions : WF_dmVars(TimerFires(a, n))

-----------------------------------------------------------------------------
(* Properties.                                                             *)

AllMutations == journal \cup UNION {m.then : m \in {x \in journal : x.type = "MergeQuest"}}

\* The ranges of the state; one FwdDep and one BackDep per edge.
DMTypeOK ==
    /\ \A a \in Attempts :
         /\ attempt[a].st \in AttemptStates /\ attempt[a].cur \in 0..MaxExec
         /\ attempt[a].deps \in Seq(BOOLEAN)
         /\ \A n \in Executions :
              /\ exec[a][n].st \in ExecutionStates /\ exec[a][n].tok \in Runs \cup {None}
              /\ exec[a][n].st = "DNE" <=> n > attempt[a].cur
              /\ timer[a][n] \in {None, "gone"} \cup load.timeouts
    /\ \A f, g \in fwd : f.from = g.from /\ f.to = g.to => f = g
    /\ \A b, c \in back : b.from = c.from /\ b.to = c.to => b = c

\* An attempt has one execution at a time: those before the current one are
\* over, and so is the current one unless the attempt is executing.
OneExecutionAtATime ==
    \A a \in Attempts : \A n \in 1..attempt[a].cur :
      Terminal(exec[a][n].st) <=> ~(n = attempt[a].cur /\ attempt[a].st = "EXECUTING")

\* "Only one of the scheduled tasks will be able to invoke ActivateExecution".
OneTaskActivates ==
    \A a \in Attempts, n \in Executions :
      Cardinality({k \in Runs : task[a][n][k] = "active"}) <= 1

\* What will yet set the bit of a dependency.
Coming(f) ==
    /\ attempt[f.to].st = "DNE" => EnsureAttemptMut(f.to) \in AllMutations
    /\ \/ AddBackDepMut(f.from, f.to, TRUE) \in AllMutations
       \/ AckFwdDepMut(f.from, f.to) \in journal
       \/ /\ \E b \in back : b.from = f.from /\ b.to = f.to /\ ~b.propagated
          /\ attempt[f.to].st = "FINISHED" => RecordCompletionMut(f.to) \in journal

\* No wake-up is lost: whatever the order in which AddBackDep, RecordCompletion
\* and AckFwdDep are rolled forward, and however often, every dependency that a
\* waiting attempt still misses is about to be acknowledged, or will be when
\* the attempt it depends on finishes.
WakeupNotLost ==
    \A a \in Attempts : attempt[a].st = "WAITING" =>
      /\ \E i \in DOMAIN attempt[a].deps : ~attempt[a].deps[i]
      /\ \A i \in DOMAIN attempt[a].deps : attempt[a].deps[i] \/
           \E f \in fwd : f.from = a /\ f.ex = attempt[a].cur /\ f.bit = i /\ Coming(f)

\* "If the given timeout hits before the next event in the timeline, DM will
\* mark the Execution as TIMED_OUT": while an execution is in a state that has
\* a timeout, that timeout is under way, or it is gone because a worker of tumble
\* that had loaded the timeout of a former state deleted it by its key.
TimeoutArmed ==
    \A a \in Attempts : \A n \in 1..attempt[a].cur :
      exec[a][n].st \in load.timeouts =>
        \/ timer[a][n] \in {exec[a][n].st, "gone"}
        \/ \E m \in journal : m.type \in {"TimeoutExecution", "FinishExecution"}
                              /\ m.for = a /\ m.ex = n

\* An attempt is never left in SCHEDULING, whichever of EnsureAttempt, AckFwdDep
\* and FinishExecution brought it there: the mutation that executes it waits.
ScheduledWillRun ==
    \A a \in Attempts :
      attempt[a].st = "SCHEDULING" => ScheduleExecutionMut(a) \in journal

\* An attempt whose executions have all the timeouts is not executing for ever,
\* whatever its tasks do and whenever timeouts are loaded; unless, as above, the
\* timeout of its execution is gone.
ExecutionEnds ==
    \A a \in Attempts :
      []<>~(/\ attempt[a].st = "EXECUTING"
            /\ load.timeouts = {"SCHEDULING", "RUNNING", "STOPPING"}
            /\ timer[a][attempt[a].cur] # "gone")

\* An attempt is unblocked once all it waits for is finished.
WaitingEnds ==
    \A a \in Attempts :
      []<>~(/\ attempt[a].st = "WAITING"
            /\ \A f \in fwd : f.from = a => attempt[f.to].st = "FINISHED")

\* NeedsAck: "make AckFwdDep iff true".  A dependency that needs no
\* acknowledgement has no bit, and BitField.Set panics beyond its size.
AckHasItsBit ==
    \A m \in journal : m.type = "AckFwdDep" =>
      \A f \in fwd : f.from = m.from /\ f.to = m.to /\ Applies(f) =>
        f.bit \in DOMAIN attempt[f.from].deps
=============================================================================
