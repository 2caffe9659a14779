------------------------------ MODULE DMProofs ------------------------------
(***************************************************************************)
(* Safety of Dungeon Master's mutations, for any finite set of attempts,   *)
(* any dependencies between them and any faults.                           *)
(***************************************************************************)
EXTENDS DM, FiniteLemmas

-----------------------------------------------------------------------------
(* Types.                                                                  *)

AttemptRecords ==
    [st : AttemptStates, cur : 0..MaxExec, deps : Seq(BOOLEAN), retry : [Retriable -> Nat],
     data : BOOLEAN, abnormal : BOOLEAN, isAbnormal : BOOLEAN]
ExecutionRecords ==
    [st : ExecutionStates, tok : Runs \cup {None}, run : Runs \cup {None}]

TaskStates == {"none", "pending", "active"} \cup Results

\* The mutations, by what they are about.
AttemptMuts ==
    [type : {"ScheduleExecution", "EnsureAttempt", "RecordCompletion"}, for : Attempts]
DepMuts ==
    [type : {"EnsureAttempt"}, for : Attempts]
      \cup [type : {"AddBackDep"}, from : Attempts, to : Attempts, ack : BOOLEAN]
AckMuts == [type : {"AckFwdDep"}, from : Attempts, to : Attempts]
FinishMuts == [type : {"FinishExecution"}, for : Attempts, ex : Executions, result : Results]
TimeoutMuts ==
    [type : {"TimeoutExecution"}, for : Attempts, ex : Executions, state : {"STOPPING"},
     tries : Nat]
QuestMuts ==
    [type : {"EnsureQuestAttempts"}, quest : Quests, to : SUBSET Attempts, merge : BOOLEAN]
      \cup [type : {"MergeQuest"}, quest : Quests, then : SUBSET DepMuts]

Mutations ==
    AttemptMuts \cup DepMuts \cup AckMuts \cup FinishMuts \cup TimeoutMuts \cup QuestMuts

Walks == [allFinished : BOOLEAN, dne : SUBSET Attempts, newQuests : SUBSET Quests]
CallRecords ==
    [st : {"read"}, from : Attempts, ex : Executions, run : Runs, want : SUBSET Attempts,
     walk : Walks \cup {None}, missing : (SUBSET Attempts) \cup {None}]

TypesOK ==
    /\ load \in Loads
    /\ attempt \in [Attempts -> AttemptRecords]
    /\ exec \in [Attempts -> [Executions -> ExecutionRecords]]
    /\ timer \in [Attempts -> [Executions -> load.timeouts \cup {None, "gone"}]]
    /\ fwd \subseteq [from : Attempts, to : Attempts, bit : Nat, ex : 0..MaxExec]
    /\ back \subseteq [from : Attempts, to : Attempts, propagated : BOOLEAN]
    /\ task \in [Attempts -> [Executions -> [Runs -> TaskStates]]]
    /\ notes \subseteq Attempts \X Executions \X Runs
    /\ loaded \subseteq Attempts \X Executions \X {"SCHEDULING", "RUNNING", "STOPPING"}
    /\ call \in [Calls -> CallRecords \cup {NoCall}]
    /\ journal \subseteq Mutations

-----------------------------------------------------------------------------
(* The inductive invariant.                                                *)

\* Executions come into being one after the other, and end one after the other.
ExecutionsAt(a) ==
    \A n \in Executions :
      /\ exec[a][n].st = "DNE" <=> n > attempt[a].cur
      /\ n <= attempt[a].cur =>
           (Terminal(exec[a][n].st) <=> ~(n = attempt[a].cur /\ attempt[a].st = "EXECUTING"))
ExecutionsOK == \A a \in Attempts : ExecutionsAt(a)

\* One FwdDep and one BackDep per edge.
EdgesOK ==
    /\ \A f, g \in fwd : f.from = g.from /\ f.to = g.to => f = g
    /\ \A b, c \in back : b.from = c.from /\ b.to = c.to => b = c

\* A task that is active has its execution's token, until that is taken away;
\* tasks that are notified of have ended.
TasksOK ==
    /\ \A a \in Attempts, n \in Executions, k \in Runs : task[a][n][k] = "active" =>
         exec[a][n].st # "DNE" /\ exec[a][n].tok \in {k, None}
    /\ \A t \in notes : task[t[1]][t[2]][t[3]] \in Results

\* One task of an execution alone is active.  That follows from the tokens until
\* the execution stops and its token is taken away.
OneActive ==
    \A a \in Attempts, n \in Executions : \A j, k \in Runs :
      task[a][n][j] = "active" /\ task[a][n][k] = "active" => j = k

\* A timeout that was put off is for an execution that is stopping, or over.
Ending(a, n) ==
    \E m \in journal :
      m.type \in {"TimeoutExecution", "FinishExecution"} /\ m.for = a /\ m.ex = n
Armed(a, n) ==
    exec[a][n].st \in load.timeouts =>
      timer[a][n] \in {exec[a][n].st, "gone"} \/ Ending(a, n)
TimeoutsOK ==
    /\ \A a \in Attempts, n \in Executions : Armed(a, n)
    /\ \A m \in journal : m.type = "TimeoutExecution" =>
         exec[m.for][m.ex].st \in {"STOPPING", "FINISHED", "ABNORMAL_FINISHED"}

\* The bit of f will be set: neither is what will do so lost, nor does f need no
\* acknowledgement.
WillCome(f) == Coming(f) /\ AddBackDepMut(f.from, f.to, FALSE) \notin AllMutations

\* Only an attempt that is executing or waiting waits for dependencies; one that
\* waits misses some.
DepMapsOK ==
    \A a \in Attempts :
      /\ attempt[a].st \in {"DNE", "SCHEDULING", "FINISHED"} => attempt[a].deps = <<>>
      /\ attempt[a].st = "WAITING" => \E i \in DOMAIN attempt[a].deps : ~attempt[a].deps[i]

\* Wake-ups are under way as soon as dependencies are declared, while the
\* execution still runs.
IsWaitedFor(a, i) ==
    \E f \in fwd : f.from = a /\ f.ex = attempt[a].cur /\ f.bit = i /\ WillCome(f)
WaitsOK ==
    \A a \in Attempts : attempt[a].st \in {"EXECUTING", "WAITING"} =>
      \A i \in DOMAIN attempt[a].deps : attempt[a].deps[i] \/ IsWaitedFor(a, i)

\* A finished attempt is recorded as such, or will be.
CompletionsOK ==
    \A a \in Attempts : attempt[a].st = "FINISHED" /\ a \notin done =>
      RecordCompletionMut(a) \in journal

\* What a call has read may be stale, but attempts do not cease to exist, and it
\* is about nothing but what the call wants.
CallsOK ==
    \A c \in Calls : call[c].st = "read" =>
      /\ call[c].walk # None =>
           \A d \in call[c].want : attempt[d].st = "DNE" => d \in call[c].walk.dne
      /\ call[c].missing # None => call[c].missing \subseteq call[c].want

\* A back dependency that needs no acknowledgement has its FwdDep.
UnackedOK == \A m \in AllMutations : m.type = "AddBackDep" /\ ~m.ack => HasDep(m.from, m.to)

WakeupsOK == DepMapsOK /\ WaitsOK /\ CompletionsOK /\ CallsOK /\ UnackedOK

DMInv ==
    /\ TypesOK /\ ExecutionsOK /\ EdgesOK /\ TasksOK /\ OneActive /\ ScheduledWillRun
    /\ TimeoutsOK /\ WakeupsOK

-----------------------------------------------------------------------------
(* The mutations and the journal.                                          *)

\* The constructors build mutations.
LEMMA MutationsTyped ==
  ASSUME NEW a \in Attempts, NEW d \in Attempts, NEW n \in Executions
  PROVE  /\ ScheduleExecutionMut(a) \in Mutations
         /\ EnsureAttemptMut(a) \in Mutations /\ EnsureAttemptMut(a) \in DepMuts
         /\ RecordCompletionMut(a) \in Mutations /\ AckFwdDepMut(a, d) \in Mutations
         /\ \A b \in BOOLEAN :
              AddBackDepMut(a, d, b) \in Mutations /\ AddBackDepMut(a, d, b) \in DepMuts
         /\ \A r \in Results : FinishExecutionMut(a, n, r) \in Mutations
         /\ \A i \in Nat : TimeoutMut(a, n, "STOPPING", i) \in Mutations
<1>1. /\ ScheduleExecutionMut(a) \in AttemptMuts /\ RecordCompletionMut(a) \in AttemptMuts
      /\ EnsureAttemptMut(a) \in DepMuts
  BY DEF ScheduleExecutionMut, RecordCompletionMut, EnsureAttemptMut, AttemptMuts, DepMuts
<1>2. \A b \in BOOLEAN : AddBackDepMut(a, d, b) \in DepMuts
  BY DEF AddBackDepMut, DepMuts
<1>3. AckFwdDepMut(a, d) \in AckMuts
  BY DEF AckFwdDepMut, AckMuts
<1>4. \A r \in Results : FinishExecutionMut(a, n, r) \in FinishMuts
  BY DEF FinishExecutionMut, FinishMuts
<1>5. \A i \in Nat : TimeoutMut(a, n, "STOPPING", i) \in TimeoutMuts
  BY DEF TimeoutMut, TimeoutMuts
<1> QED
  BY <1>1, <1>2, <1>3, <1>4, <1>5, Zenon DEF Mutations

\* The mutations about quests.
LEMMA QuestMutationsTyped ==
  ASSUME NEW q \in Quests
  PROVE  /\ \A S \in SUBSET Attempts, b \in BOOLEAN : EnsureQuestMut(q, S, b) \in Mutations
         /\ \A S \in SUBSET DepMuts : MergeQuestMut(q, S) \in Mutations
<1>1. \A S \in SUBSET Attempts, b \in BOOLEAN : EnsureQuestMut(q, S, b) \in QuestMuts
  BY DEF EnsureQuestMut, QuestMuts
<1>2. \A S \in SUBSET DepMuts : MergeQuestMut(q, S) \in QuestMuts
  BY DEF MergeQuestMut, QuestMuts
<1> QED
  BY <1>1, <1>2, Zenon DEF Mutations

\* What a mutation is, by its type.
LEMMA MutationShapes ==
  ASSUME NEW m \in Mutations
  PROVE  /\ m.type \in {"ScheduleExecution", "EnsureAttempt", "RecordCompletion"} =>
              m.for \in Attempts
         /\ m.type = "ScheduleExecution" => m = ScheduleExecutionMut(m.for)
         /\ m.type = "EnsureAttempt" => m = EnsureAttemptMut(m.for)
         /\ m.type = "RecordCompletion" => m = RecordCompletionMut(m.for)
         /\ m.type = "AddBackDep" =>
              /\ m.from \in Attempts /\ m.to \in Attempts /\ m.ack \in BOOLEAN
              /\ m = AddBackDepMut(m.from, m.to, m.ack)
         /\ m.type = "AckFwdDep" =>
              m.from \in Attempts /\ m.to \in Attempts /\ m = AckFwdDepMut(m.from, m.to)
         /\ m.type = "FinishExecution" =>
              m.for \in Attempts /\ m.ex \in Executions /\ m.result \in Results
         /\ m.type = "TimeoutExecution" =>
              m.for \in Attempts /\ m.ex \in Executions /\ m.state = "STOPPING" /\ m.tries \in Nat
         /\ m.type = "EnsureQuestAttempts" =>
              m.quest \in Quests /\ m.to \in SUBSET Attempts /\ m.merge \in BOOLEAN
         /\ m.type = "MergeQuest" => m.quest \in Quests /\ m.then \in SUBSET DepMuts
<1> USE DEF ScheduleExecutionMut, EnsureAttemptMut, RecordCompletionMut, AddBackDepMut,
            AckFwdDepMut
<1>1. CASE m \in AttemptMuts
  BY <1>1 DEF AttemptMuts
<1>2. CASE m \in DepMuts
  BY <1>2 DEF DepMuts
<1>3. CASE m \in AckMuts
  BY <1>3 DEF AckMuts
<1>4. CASE m \in FinishMuts
  BY <1>4 DEF FinishMuts
<1>5. CASE m \in TimeoutMuts
  BY <1>5 DEF TimeoutMuts
<1>6. CASE m \in QuestMuts
  BY <1>6 DEF QuestMuts
<1> QED
  BY <1>1, <1>2, <1>3, <1>4, <1>5, <1>6, Zenon DEF Mutations

\* The mutations that go with a quest are mutations themselves.
LEMMA DepMutsAreMutations == DepMuts \subseteq Mutations
  BY Zenon DEF Mutations

\* Rolling a mutation forward takes away nothing else and adds nothing else.
LEMMA RolledFacts ==
  ASSUME NEW m, NEW new, Rolled(m, new)
  PROVE  /\ journal' \subseteq journal \cup new
         /\ (journal \ {m}) \cup new \subseteq journal'
         /\ slips \subseteq slips'
  BY DEF Rolled, Happens

-----------------------------------------------------------------------------
(* What becomes of an attempt whose execution ends.                        *)

\* What Finishes returns.  An attempt that is to be executed again, and one that
\* is finished, waits for nothing; one that waits misses a dependency.
LEMMA FinishesFacts ==
  ASSUME NEW at \in AttemptRecords, NEW ex \in ExecutionRecords, NEW result \in Results,
         NEW a \in Attempts
  PROVE  /\ Finishes(at, ex, result, a).at \in AttemptRecords
         /\ Finishes(at, ex, result, a).ex \in ExecutionRecords
         /\ Finishes(at, ex, result, a).muts
              \subseteq {ScheduleExecutionMut(a), RecordCompletionMut(a)}
         /\ Finishes(at, ex, result, a).at.cur = at.cur
         /\ Finishes(at, ex, result, a).at.st
              \in {"SCHEDULING", "WAITING", "FINISHED", "ABNORMAL_FINISHED"}
         /\ Terminal(Finishes(at, ex, result, a).ex.st)
         /\ Finishes(at, ex, result, a).ex.tok = ex.tok
         /\ Finishes(at, ex, result, a).at.st = "SCHEDULING" =>
              /\ Finishes(at, ex, result, a).at.deps = <<>>
              /\ ScheduleExecutionMut(a) \in Finishes(at, ex, result, a).muts
         /\ Finishes(at, ex, result, a).at.st = "FINISHED" =>
              /\ Finishes(at, ex, result, a).at.deps = <<>>
              /\ RecordCompletionMut(a) \in Finishes(at, ex, result, a).muts
         /\ Finishes(at, ex, result, a).at.st = "WAITING" =>
              /\ Finishes(at, ex, result, a).at.deps = at.deps
              /\ \E i \in DOMAIN at.deps : ~at.deps[i]
         /\ result = "REJECTED" =>
              /\ Finishes(at, ex, result, a).at.st = "ABNORMAL_FINISHED"
              /\ Finishes(at, ex, result, a).muts = {}
<1> DEFINE r == IF result = "data" /\ ex.st # "STOPPING" THEN "FAILED" ELSE result
           again == r \in Retriable /\ at.retry[r] < Retry[r]
           all == \A i \in DOMAIN at.deps : at.deps[i]
           f == Finishes(at, ex, result, a)
<1> DEFINE sts == AttemptStates
           seqs == Seq(BOOLEAN)
           tries == [Retriable -> Nat]
           bits == 0..MaxExec
<1>1. /\ AttemptRecords = [st : sts, cur : bits, deps : seqs, retry : tries, data : BOOLEAN,
                           abnormal : BOOLEAN, isAbnormal : BOOLEAN]
      /\ at \in AttemptRecords
  BY DEF AttemptRecords
<1>2. /\ <<>> \in seqs /\ NewAttempt.retry \in tries
      /\ "SCHEDULING" \in sts /\ "WAITING" \in sts /\ "FINISHED" \in sts
      /\ "ABNORMAL_FINISHED" \in sts
  BY DEF AttemptStates, NewAttempt
<1>3. \A s \in Retriable : [at.retry EXCEPT ![s] = at.retry[s] + 1] \in tries
  BY <1>1
<1>4. r = "REJECTED" => ~(r \in Retriable)
  BY DEF Retriable
<1> HIDE DEF sts, seqs, tries, bits
<1>5. CASE r # "data"
  <2>1. /\ f.at = [at EXCEPT
                        !.st = IF again THEN "SCHEDULING" ELSE "ABNORMAL_FINISHED",
                        !.deps = IF again THEN <<>> ELSE @,
                        !.retry = IF r \in Retriable
                                  THEN [at.retry EXCEPT ![r] = at.retry[r] + 1] ELSE @,
                        !.abnormal = @ \/ ~again,
                        !.isAbnormal = TRUE]
        /\ f.ex = [ex EXCEPT !.st = "ABNORMAL_FINISHED"]
        /\ f.muts = IF again THEN {ScheduleExecutionMut(a)} ELSE {}
    BY <1>5 DEF Finishes
  <2> HIDE DEF f
  <2>2. f.ex \in ExecutionRecords /\ Terminal(f.ex.st) /\ f.ex.tok = ex.tok
    BY <2>1 DEF ExecutionRecords, ExecutionStates, Terminal
  <2>3. result = "REJECTED" => ~again
    BY <1>4
  <2>4. /\ r \in Retriable => [at.retry EXCEPT ![r] = at.retry[r] + 1] \in tries
        /\ again \in BOOLEAN
    BY <1>3
  <2> HIDE DEF r, again
  <2> DEFINE st == IF again THEN "SCHEDULING" ELSE "ABNORMAL_FINISHED"
             deps == IF again THEN <<>> ELSE at.deps
             retry == IF r \in Retriable THEN [at.retry EXCEPT ![r] = at.retry[r] + 1]
                      ELSE at.retry
             abnormal == at.abnormal \/ ~again
  <2>5. st \in sts /\ deps \in seqs /\ retry \in tries /\ abnormal \in BOOLEAN
    <3>1. at.deps \in seqs /\ at.retry \in tries
      BY <1>1
    <3> QED
      BY <3>1, <1>2, <2>4
  <2>6. f.at = [at EXCEPT !.st = st, !.deps = deps, !.retry = retry, !.abnormal = abnormal,
                          !.isAbnormal = TRUE]
    BY <2>1
  <2>7. f.at \in AttemptRecords
    <3> HIDE DEF st, deps, retry, abnormal
    <3> QED
      BY <2>5, <2>6, <1>1
  <2>8. /\ f.at.cur = at.cur /\ f.at.st \in {"SCHEDULING", "ABNORMAL_FINISHED"}
        /\ (f.at.st = "SCHEDULING" => again /\ f.at.deps = <<>>)
        /\ (f.at.st = "SCHEDULING" <=> again)
    BY <2>1, <1>1
  <2> QED
    BY <2>1, <2>2, <2>3, <2>7, <2>8 DEF f
<1>6. CASE r = "data"
  <2>1. /\ f.at = [at EXCEPT
                        !.st = IF at.deps = <<>> THEN "FINISHED"
                               ELSE IF all THEN "SCHEDULING" ELSE "WAITING",
                        !.deps = IF all THEN <<>> ELSE @,
                        !.retry = NewAttempt.retry]
        /\ f.ex = [ex EXCEPT !.st = "FINISHED"]
        /\ f.muts = IF at.deps = <<>> THEN {RecordCompletionMut(a)}
                       ELSE IF all THEN {ScheduleExecutionMut(a)} ELSE {}
    BY <1>6 DEF Finishes
  <2>2. result # "REJECTED"
    BY <1>6
  <2> HIDE DEF f, r, again
  <2>3. f.ex \in ExecutionRecords /\ Terminal(f.ex.st) /\ f.ex.tok = ex.tok
    BY <2>1 DEF ExecutionRecords, ExecutionStates, Terminal
  <2>4. at.deps = <<>> => all
    OBVIOUS
  <2>5. ~all => \E i \in DOMAIN at.deps : ~at.deps[i]
    OBVIOUS
  <2>6. all \in BOOLEAN
    OBVIOUS
  <2> HIDE DEF all
  <2>7. f.at \in AttemptRecords
    BY <2>1, <2>6, <1>1, <1>2
  <2>8. /\ f.at.cur = at.cur /\ f.at.st \in {"SCHEDULING", "WAITING", "FINISHED"}
        /\ (f.at.st = "SCHEDULING" <=> at.deps # <<>> /\ all)
        /\ (f.at.st = "FINISHED" <=> at.deps = <<>>)
        /\ (f.at.st = "WAITING" <=> at.deps # <<>> /\ ~all)
        /\ f.at.deps = IF all THEN <<>> ELSE at.deps
    BY <2>1, <2>4, <2>6, <1>1
  <2> QED
    BY <2>1, <2>2, <2>3, <2>4, <2>5, <2>7, <2>8 DEF f
<1> QED
  BY <1>5, <1>6

\* Fields of an attempt that are set keep it an attempt.
LEMMA AttemptFields ==
  ASSUME NEW x \in AttemptRecords, NEW s \in AttemptStates, NEW n \in 0..MaxExec,
         NEW deps \in Seq(BOOLEAN)
  PROVE  /\ [x EXCEPT !.st = s] \in AttemptRecords
         /\ [x EXCEPT !.st = s, !.cur = n] \in AttemptRecords
         /\ [x EXCEPT !.deps = deps] \in AttemptRecords
         /\ [x EXCEPT !.data = TRUE] \in AttemptRecords
<1> DEFINE sts == AttemptStates
           seqs == Seq(BOOLEAN)
           tries == [Retriable -> Nat]
           bits == 0..MaxExec
<1>1. /\ AttemptRecords = [st : sts, cur : bits, deps : seqs, retry : tries, data : BOOLEAN,
                           abnormal : BOOLEAN, isAbnormal : BOOLEAN]
      /\ s \in sts /\ n \in bits /\ deps \in seqs
  BY DEF AttemptRecords
<1> HIDE DEF sts, seqs, tries, bits
<1> QED
  BY <1>1

\* An attempt of which an execution begins.
LEMMA BegunAttempt ==
  ASSUME NEW x \in AttemptRecords, NEW n \in 0..MaxExec
  PROVE  /\ [x EXCEPT !.st = "EXECUTING", !.cur = n] \in AttemptRecords
         /\ [x EXCEPT !.st = "EXECUTING", !.cur = n].st = "EXECUTING"
         /\ [x EXCEPT !.st = "EXECUTING", !.cur = n].cur = n
         /\ [x EXCEPT !.st = "EXECUTING", !.cur = n].deps = x.deps
<1> DEFINE sts == AttemptStates
           seqs == Seq(BOOLEAN)
           tries == [Retriable -> Nat]
           bits == 0..MaxExec
<1>1. /\ AttemptRecords = [st : sts, cur : bits, deps : seqs, retry : tries, data : BOOLEAN,
                           abnormal : BOOLEAN, isAbnormal : BOOLEAN]
      /\ "EXECUTING" \in sts /\ n \in bits
  BY DEF AttemptRecords, AttemptStates
<1> HIDE DEF sts, seqs, tries, bits
<1> QED
  BY <1>1

\* An attempt that the code updates, and one that it leaves alone.
LEMMA AttemptUpdate ==
  ASSUME attempt \in [Attempts -> AttemptRecords], NEW a \in Attempts, NEW x \in AttemptRecords,
         attempt' = [attempt EXCEPT ![a] = x]
  PROVE  /\ attempt' \in [Attempts -> AttemptRecords]
         /\ attempt'[a] = x /\ \A b \in Attempts \ {a} : attempt'[b] = attempt[b]
  OBVIOUS

\* The same for an execution.
LEMMA ExecutionUpdate ==
  ASSUME exec \in [Attempts -> [Executions -> ExecutionRecords]],
         NEW a \in Attempts, NEW n \in Executions, NEW x \in ExecutionRecords,
         exec' = [exec EXCEPT ![a][n] = x]
  PROVE  /\ exec' \in [Attempts -> [Executions -> ExecutionRecords]]
         /\ exec'[a][n] = x
         /\ \A b \in Attempts, i \in Executions : b # a \/ i # n => exec'[b][i] = exec[b][i]
  OBVIOUS

\* The same for a task of the distributor.
LEMMA TaskUpdate ==
  ASSUME task \in [Attempts -> [Executions -> [Runs -> TaskStates]]],
         NEW a \in Attempts, NEW n \in Executions, NEW k \in Runs, NEW x \in TaskStates,
         task' = [task EXCEPT ![a][n][k] = x]
  PROVE  /\ task' \in [Attempts -> [Executions -> [Runs -> TaskStates]]]
         /\ task'[a][n][k] = x
         /\ \A b \in Attempts, i \in Executions, j \in Runs :
              b # a \/ i # n \/ j # k => task'[b][i][j] = task[b][i][j]
  OBVIOUS

\* The same for the timeout of an execution.
LEMMA TimerUpdate ==
  ASSUME load' = load, timer \in [Attempts -> [Executions -> load.timeouts \cup {None, "gone"}]],
         NEW a \in Attempts, NEW n \in Executions, NEW x \in load.timeouts \cup {None, "gone"},
         timer' = [timer EXCEPT ![a][n] = x]
  PROVE  /\ timer' \in [Attempts -> [Executions -> load'.timeouts \cup {None, "gone"}]]
         /\ timer'[a][n] = x
         /\ \A b \in Attempts, i \in Executions : b # a \/ i # n => timer'[b][i] = timer[b][i]
  OBVIOUS

\* What resetting a timeout does.
LEMMA TimerReset ==
  ASSUME load' = load, timer \in [Attempts -> [Executions -> load.timeouts \cup {None, "gone"}]],
         NEW a \in Attempts, NEW n \in Executions, NEW s, ResetExecutionTimeout(a, n, s)
  PROVE  /\ timer' \in [Attempts -> [Executions -> load'.timeouts \cup {None, "gone"}]]
         /\ s \in load.timeouts => timer'[a][n] = s
         /\ \A b \in Attempts, i \in Executions : b # a \/ i # n => timer'[b][i] = timer[b][i]
<1> DEFINE x == IF s \in load.timeouts THEN s ELSE None
<1>1. x \in load.timeouts \cup {None, "gone"} /\ timer' = [timer EXCEPT ![a][n] = x]
  BY DEF ResetExecutionTimeout
<1> HIDE DEF x
<1>2. /\ timer' \in [Attempts -> [Executions -> load'.timeouts \cup {None, "gone"}]]
      /\ timer'[a][n] = x
      /\ \A b \in Attempts, i \in Executions : b # a \/ i # n => timer'[b][i] = timer[b][i]
  BY <1>1, TimerUpdate
<1> QED
  BY <1>2 DEF x

-----------------------------------------------------------------------------
(* The steps.                                                              *)

\* A task of the distributor that a client or a notification is about.
IsTask(a, n, k) == a \in Attempts /\ n \in Executions /\ k \in Runs

\* The loads stay within the bounds.
LEMMA LoadFacts ==
  ASSUME load \in Loads
  PROVE  /\ 1..load.execs \subseteq Executions /\ 1..load.runs \subseteq Runs
         /\ load.roots \subseteq Attempts
         /\ \A a \in Attempts : load.wants[a] \subseteq SUBSET Attempts
         /\ load.timeouts \subseteq {"SCHEDULING", "RUNNING", "STOPPING"}
<1>1. /\ MaxExec \in Nat /\ MaxRuns \in Nat
      /\ load.execs \in 0..MaxExec /\ load.runs \in 1..MaxRuns
  BY DMAssumption
<1>2. 1..load.execs \subseteq Executions /\ 1..load.runs \subseteq Runs
  BY <1>1 DEF Executions, Runs
<1>3. load.wants \in [Attempts -> SUBSET ((SUBSET Attempts) \ {{}})]
  BY DMAssumption
<1>4. load.roots \subseteq Attempts /\ load.timeouts \subseteq {"SCHEDULING", "RUNNING", "STOPPING"}
  BY DMAssumption
<1> QED
  BY <1>2, <1>3, <1>4

\* A step is one of these, with parameters of their types.
LEMMA Steps ==
  ASSUME TypesOK, DMNext
  PROVE  \/ \E q \in Quests, S \in SUBSET Attempts : journalQuestAttempts(q, S)
         \/ \E m \in journal : RollForward(m)
         \/ \E c \in Calls : doGraphWalk(c) \/ depsFromMissing(c) \/ DecideCall(c)
         \/ \E a \in Attempts, n \in Executions, s \in {"SCHEDULING", "RUNNING", "STOPPING"} :
              LoadedTimer(a, n, s)
         \/ \E a \in Attempts, n \in Executions : TimerFires(a, n) \/ LoadTimer(a, n)
         \/ \E a, n, k : IsTask(a, n, k) /\
              \/ ActivateExecution(a, n, k) \/ FinishAttempt(a, n, k)
              \/ \E c \in Calls, want \in SUBSET Attempts : EnsureGraphData(c, a, n, k, want)
              \/ \E result \in Results : TaskEnds(a, n, k, result)
              \/ NotifyExecution(a, n, k)
<1>1. load \in Loads
  BY DEF TypesOK
<1>2. CASE \E q \in Quests : \E S \in SUBSET {a \in load.roots : QuestOf[a] = q} :
             journalQuestAttempts(q, S)
  BY <1>1, <1>2, LoadFacts
<1>3. CASE \E t \in loaded : LoadedTimer(t[1], t[2], t[3])
  <2>1. PICK t \in loaded : LoadedTimer(t[1], t[2], t[3])
    BY <1>3
  <2>2. t \in Attempts \X Executions \X {"SCHEDULING", "RUNNING", "STOPPING"}
    BY <2>1 DEF TypesOK
  <2> QED
    BY <2>1, <2>2
<1>4. CASE \E a \in Attempts : \E n \in 1..attempt[a].cur : TimerFires(a, n) \/ LoadTimer(a, n)
  <2>1. PICK a \in Attempts : \E n \in 1..attempt[a].cur : TimerFires(a, n) \/ LoadTimer(a, n)
    BY <1>4
  <2>2. attempt[a].cur \in 0..MaxExec /\ MaxExec \in Nat
    BY DMAssumption DEF TypesOK, AttemptRecords
  <2>3. 1..attempt[a].cur \subseteq Executions
    BY <2>2 DEF Executions
  <2> QED
    BY <2>1, <2>3
<1>5. CASE \E a \in Attempts : \E n \in 1..load.execs, k \in 1..load.runs :
             Client(a, n, k) \/ NotifyExecution(a, n, k)
  <2>1. PICK a \in Attempts, n \in 1..load.execs, k \in 1..load.runs :
               Client(a, n, k) \/ NotifyExecution(a, n, k)
    BY <1>5
  <2>2. IsTask(a, n, k)
    BY <1>1, <2>1, LoadFacts DEF IsTask
  <2>3. \A want \in load.wants[a] : want \in SUBSET Attempts
    BY <1>1, LoadFacts
  <2>4. CASE \E c \in Calls, want \in load.wants[a] : EnsureGraphData(c, a, n, k, want)
    BY <2>2, <2>3, <2>4
  <2> QED
    BY <2>1, <2>2, <2>4, Zenon DEF Client
<1> QED
  BY <1>2, <1>3, <1>4, <1>5, Zenon DEF DMNext, Handle

\* What an expired timeout turns into: the end of the execution or a further
\* timeout, unless the execution is in another state by then.
LEMMA TimedOutFacts ==
  ASSUME NEW a \in Attempts, NEW n \in Executions, NEW s, NEW tries \in Nat,
         NEW known \in BOOLEAN
  PROVE  /\ TimedOut(a, n, s, tries, known) \subseteq Mutations
         /\ \A m \in TimedOut(a, n, s, tries, known) :
              /\ m.type \in {"TimeoutExecution", "FinishExecution"} /\ m.for = a /\ m.ex = n
              /\ m.type = "TimeoutExecution" => exec[a][n].st = "STOPPING"
         /\ exec[a][n].st = s => TimedOut(a, n, s, tries, known) # {}
<1> DEFINE status == task[a][n][exec[a][n].run]
           fin(r) == FinishExecutionMut(a, n, r)
           again == TimeoutMut(a, n, "STOPPING", tries + 1)
           T == TimedOut(a, n, s, tries, known)
<1>1. \/ T = {} /\ exec[a][n].st # s
      \/ \E r \in Results : T = {fin(r)}
      \/ T = {again} /\ exec[a][n].st = "STOPPING"
  BY DEF TimedOut, Results, Retriable
<1>2. again \in Mutations /\ \A r \in Results : fin(r) \in Mutations
  BY MutationsTyped
<1>3. again.type = "TimeoutExecution" /\ again.for = a /\ again.ex = n
  BY DEF TimeoutMut
<1>4. \A r : fin(r).type = "FinishExecution" /\ fin(r).for = a /\ fin(r).ex = n
  BY DEF FinishExecutionMut
<1> HIDE DEF T, fin, again
<1> QED
  BY <1>1, <1>2, <1>3, <1>4 DEF T

\* What AckFwdDep makes of an attempt.
AckedAttempt(at, bit, wake) ==
    [at EXCEPT !.st = IF wake THEN "SCHEDULING" ELSE @,
               !.deps = IF wake THEN <<>> ELSE [at.deps EXCEPT ![bit] = TRUE]]

\* A bit is set in an attempt's DepMap, or the attempt is unblocked.
LEMMA AckedFacts ==
  ASSUME NEW at \in AttemptRecords, NEW bit \in DOMAIN at.deps, NEW wake \in BOOLEAN
  PROVE  /\ AckedAttempt(at, bit, wake) \in AttemptRecords
         /\ AckedAttempt(at, bit, wake).cur = at.cur
         /\ AckedAttempt(at, bit, wake).st = IF wake THEN "SCHEDULING" ELSE at.st
         /\ AckedAttempt(at, bit, wake).deps =
              IF wake THEN <<>> ELSE [at.deps EXCEPT ![bit] = TRUE]
<1> DEFINE deps == IF wake THEN <<>> ELSE [at.deps EXCEPT ![bit] = TRUE]
           st == IF wake THEN "SCHEDULING" ELSE at.st
           sts == AttemptStates
           seqs == Seq(BOOLEAN)
           tries == [Retriable -> Nat]
           bits == 0..MaxExec
<1>1. /\ AttemptRecords = [st : sts, cur : bits, deps : seqs, retry : tries, data : BOOLEAN,
                           abnormal : BOOLEAN, isAbnormal : BOOLEAN]
      /\ at \in AttemptRecords
  BY DEF AttemptRecords
<1>2. at.deps \in seqs /\ at.st \in sts
  BY <1>1
<1>3. [at.deps EXCEPT ![bit] = TRUE] \in seqs
  BY <1>2
<1>4. deps \in seqs /\ st \in sts
  <2>1. <<>> \in seqs /\ "SCHEDULING" \in sts
    BY DEF AttemptStates
  <2> HIDE DEF seqs, sts
  <2> QED
    BY <1>2, <1>3, <2>1
<1>5. AckedAttempt(at, bit, wake) = [at EXCEPT !.st = st, !.deps = deps]
  BY DEF AckedAttempt
<1> HIDE DEF deps, st, sts, seqs, tries, bits
<1>6. /\ [at EXCEPT !.st = st, !.deps = deps] \in AttemptRecords
      /\ [at EXCEPT !.st = st, !.deps = deps].cur = at.cur
      /\ [at EXCEPT !.st = st, !.deps = deps].st = st
      /\ [at EXCEPT !.st = st, !.deps = deps].deps = deps
  BY <1>1, <1>4
<1> QED
  BY <1>5, <1>6 DEF st, deps

\* AckFwdDep, in these terms.
LEMMA AckStep ==
  ASSUME TypesOK, NEW m \in journal, m.type = "AckFwdDep", AckFwdDep(m)
  PROVE  \E f \in fwd :
           /\ f.from = m.from /\ f.to = m.to
           /\ \/ ~Applies(f) /\ Rolled(m, {}) /\ UNCHANGED attempt
              \/ \E wake \in BOOLEAN :
                   /\ Applies(f) /\ f.bit \in DOMAIN attempt[m.from].deps
                   /\ wake <=> /\ attempt[m.from].st = "WAITING"
                               /\ ~attempt[m.from].deps[f.bit]
                               /\ \A i \in DOMAIN attempt[m.from].deps :
                                    i # f.bit => attempt[m.from].deps[i]
                   /\ attempt' = [attempt EXCEPT
                                    ![m.from] = AckedAttempt(attempt[m.from], f.bit, wake)]
                   /\ Rolled(m, IF wake THEN {ScheduleExecutionMut(m.from)} ELSE {})
<1> DEFINE at == attempt[m.from]
           deps(f) == [at.deps EXCEPT ![f.bit] = TRUE]
           wake(f) == at.st = "WAITING" /\ ~at.deps[f.bit] /\ \A i \in DOMAIN deps(f) : deps(f)[i]
<1>1. PICK f \in fwd :
        /\ <<f.from, f.to>> = <<m.from, m.to>>
        /\ IF ~Applies(f)
           THEN Rolled(m, {}) /\ UNCHANGED attempt
           ELSE /\ f.bit \in DOMAIN at.deps
                /\ attempt' = [attempt EXCEPT
                     ![m.from].st = IF wake(f) THEN "SCHEDULING" ELSE @,
                     ![m.from].deps = IF wake(f) THEN <<>> ELSE deps(f)]
                /\ Rolled(m, IF wake(f) THEN {ScheduleExecutionMut(m.from)} ELSE {})
  BY DEF AckFwdDep
<1>2. f.from = m.from /\ f.to = m.to
  BY <1>1
<1>3. CASE ~Applies(f)
  BY <1>1, <1>2, <1>3
<1>4. CASE Applies(f)
  <2>1. m.from \in Attempts /\ attempt \in [Attempts -> AttemptRecords]
    BY MutationShapes DEF TypesOK
  <2>2. f.bit \in DOMAIN at.deps /\ at \in AttemptRecords
    BY <1>1, <1>4, <2>1
  <2>3. at.deps \in Seq(BOOLEAN)
    BY <2>2 DEF AttemptRecords
  <2>4. (\A i \in DOMAIN deps(f) : deps(f)[i])
          <=> \A i \in DOMAIN at.deps : i # f.bit => at.deps[i]
    BY <2>2, <2>3
  <2>5. wake(f) \in BOOLEAN
    OBVIOUS
  <2>6. attempt' = [attempt EXCEPT ![m.from] = AckedAttempt(at, f.bit, wake(f))]
    <3> DEFINE w == wake(f)
               a == m.from
               st == IF w THEN "SCHEDULING" ELSE at.st
               new == IF w THEN <<>> ELSE deps(f)
    <3>1. attempt' = [attempt EXCEPT ![a].st = st, ![a].deps = new]
      BY <1>1, <1>4
    <3>2. AckedAttempt(at, f.bit, w) = [attempt[a] EXCEPT !.st = st, !.deps = new]
      BY DEF AckedAttempt
    <3>3. a \in Attempts
      BY <2>1
    <3> HIDE DEF w, st, new, a
    <3>4. [attempt EXCEPT ![a].st = st, ![a].deps = new]
            = [attempt EXCEPT ![a] = [attempt[a] EXCEPT !.st = st, !.deps = new]]
      BY <2>1, <3>3
    <3> QED
      BY <3>1, <3>2, <3>4 DEF a, w
  <2>7. Rolled(m, IF wake(f) THEN {ScheduleExecutionMut(m.from)} ELSE {})
    BY <1>1, <1>4
  <2> HIDE DEF deps
  <2> WITNESS f \in fwd
  <2> QED
    BY <1>2, <1>4, <2>2, <2>4, <2>5, <2>6, <2>7
<1> QED
  BY <1>3, <1>4

-----------------------------------------------------------------------------
(* Type correctness.                                                       *)

\* RecordCompletion leaves a finite set of back dependencies of their type.
BackDeps == [from : Attempts, to : Attempts, propagated : BOOLEAN]

\* Rolling a mutation forward keeps the types.
LEMMA TypesRoll ==
  ASSUME TypesOK, NEW m \in journal, RollForward(m)
  PROVE  TypesOK'
<1>1. /\ m \in Mutations /\ load \in Loads
      /\ attempt \in [Attempts -> AttemptRecords]
      /\ exec \in [Attempts -> [Executions -> ExecutionRecords]]
      /\ timer \in [Attempts -> [Executions -> load.timeouts \cup {None, "gone"}]]
      /\ task \in [Attempts -> [Executions -> [Runs -> TaskStates]]]
      /\ journal \subseteq Mutations /\ back \subseteq BackDeps
  BY DEF TypesOK, BackDeps
<1>2. \A new \in SUBSET Mutations : Rolled(m, new) => journal' \subseteq Mutations
  BY <1>1, RolledFacts
<1>3. CASE m.type = "EnsureQuestAttempts" /\ EnsureQuestAttempts(m)
  <2> DEFINE first == {a \in m.to : Cardinality({b \in m.to : b < a}) <= MaxEnsureAttempts}
             rest == m.to \ first
             new == {EnsureAttemptMut(a) : a \in first} \cup
                      IF rest = {} THEN {} ELSE {EnsureQuestMut(m.quest, rest, FALSE)}
  <2>1. Rolled(m, new) /\ UNCHANGED <<graph, timer, loaded, world>>
    BY <1>3 DEF EnsureQuestAttempts
  <2>2. m.quest \in Quests /\ m.to \in SUBSET Attempts
    BY <1>1, <1>3, MutationShapes
  <2>3. first \subseteq Attempts /\ rest \in SUBSET Attempts
    BY <2>2
  <2> HIDE DEF first, rest
  <2>4. \A a \in first : EnsureAttemptMut(a) \in Mutations
    <3> TAKE a \in first
    <3>1. EnsureAttemptMut(a) \in DepMuts
      BY <2>3 DEF EnsureAttemptMut, DepMuts
    <3> QED
      BY <3>1, DepMutsAreMutations
  <2>5. EnsureQuestMut(m.quest, rest, FALSE) \in Mutations
    BY <2>2, <2>3, QuestMutationsTyped
  <2>6. new \in SUBSET Mutations
    BY <2>4, <2>5
  <2> HIDE DEF new
  <2> QED
    BY <1>2, <2>1, <2>6 DEF TypesOK, graph, world
<1>4. CASE m.type = "MergeQuest" /\ MergeQuest(m)
  <2>1. m.then \in SUBSET Mutations
    BY <1>1, <1>4, MutationShapes, DepMutsAreMutations
  <2> QED
    BY <1>2, <1>4, <2>1 DEF MergeQuest, TypesOK, graph, world
<1>5. CASE m.type = "EnsureAttempt" /\ EnsureAttempt(m)
  <2> DEFINE a == m.for
             x == [attempt[a] EXCEPT !.st = "SCHEDULING"]
             new == IF attempt[a].st = "DNE" THEN {ScheduleExecutionMut(a)} ELSE {}
  <2>1. a \in Attempts
    BY <1>1, <1>5, MutationShapes
  <2>2. x \in AttemptRecords
    <3>1. attempt[a] \in AttemptRecords /\ "SCHEDULING" \in AttemptStates
      BY <1>1, <2>1 DEF AttemptStates
    <3>2. attempt[a].cur \in 0..MaxExec /\ attempt[a].deps \in Seq(BOOLEAN)
      BY <3>1 DEF AttemptRecords
    <3> QED
      BY <3>1, <3>2, AttemptFields
  <2>3. new \in SUBSET Mutations
    <3>1. ScheduleExecutionMut(a) \in AttemptMuts
      BY <2>1 DEF ScheduleExecutionMut, AttemptMuts
    <3> QED
      BY <3>1 DEF Mutations
  <2>4. attempt' = attempt \/ attempt' = [attempt EXCEPT ![a] = x]
    BY <1>5 DEF EnsureAttempt
  <2>5. /\ Rolled(m, new)
        /\ UNCHANGED <<quests, exec, fwd, back, done, timer, loaded, world>>
    BY <1>5 DEF EnsureAttempt
  <2> HIDE DEF x, new
  <2>6. attempt' \in [Attempts -> AttemptRecords]
    BY <1>1, <2>1, <2>2, <2>4
  <2> QED
    BY <1>2, <2>3, <2>5, <2>6 DEF TypesOK, world
<1>6. CASE m.type = "ScheduleExecution" /\ ScheduleExecution(m)
  <2> DEFINE a == m.for
             n == attempt[a].cur + 1
             at == [attempt[a] EXCEPT !.st = "EXECUTING", !.cur = n]
             started(k) == [st |-> "SCHEDULING", tok |-> k, run |-> k]
             f(k) == Finishes(at, [started(k) EXCEPT !.run = None], "REJECTED", a)
  <2>1. a \in Attempts
    BY <1>1, <1>6, MutationShapes
  <2>2. attempt[a] \in AttemptRecords
    BY <1>1, <2>1
  <2>3. CASE Rolled(m, {}) /\ UNCHANGED <<quests, graph, timer, loaded, world>>
    BY <1>2, <2>3 DEF TypesOK, graph, world
  <2>4. ASSUME n <= load.execs, NEW k \in NextRun(a, n),
               UNCHANGED <<quests, fwd, back, done, loaded, notes, call, load>>,
               \/ /\ attempt' = [attempt EXCEPT ![a] = at]
                  /\ exec' = [exec EXCEPT ![a][n] = started(k)]
                  /\ task' = [task EXCEPT ![a][n][k] = "pending"]
                  /\ ResetExecutionTimeout(a, n, "SCHEDULING")
                  /\ Rolled(m, {})
               \/ /\ attempt' = [attempt EXCEPT ![a] = f(k).at]
                  /\ exec' = [exec EXCEPT ![a][n] = f(k).ex]
                  /\ journal' = (journal \ {m}) \cup f(k).muts
                  /\ UNCHANGED <<task, timer>>
               \/ /\ task' = [task EXCEPT ![a][n][k] = "pending"]
                  /\ UNCHANGED <<attempt, exec, timer, journal>>
        PROVE  TypesOK'
    <3>1. n \in Executions /\ n \in 0..MaxExec
      <4>1. attempt[a].cur \in 0..MaxExec
        BY <2>2 DEF AttemptRecords
      <4>2. load.execs \in 0..MaxExec /\ MaxExec \in Nat
        BY <1>1, DMAssumption
      <4> QED
        BY <2>4, <4>1, <4>2 DEF Executions
    <3>2. k \in Runs
      BY <1>1, <2>4, LoadFacts DEF NextRun
    <3>3. at \in AttemptRecords
      <4>1. "EXECUTING" \in AttemptStates /\ attempt[a].deps \in Seq(BOOLEAN)
        BY <2>2 DEF AttemptRecords, AttemptStates
      <4> QED
        BY <2>2, <3>1, <4>1, AttemptFields
    <3>4. started(k) \in ExecutionRecords /\ [started(k) EXCEPT !.run = None] \in ExecutionRecords
      BY <3>2 DEF ExecutionRecords, ExecutionStates
    <3>5. "REJECTED" \in Results /\ "pending" \in TaskStates
      BY DEF Results, TaskStates
    <3> HIDE DEF n, at, started
    <3>6. f(k).at \in AttemptRecords /\ f(k).ex \in ExecutionRecords /\ f(k).muts = {}
      BY <2>1, <3>3, <3>4, <3>5, FinishesFacts
    <3> HIDE DEF f
    <3>7. task' \in [Attempts -> [Executions -> [Runs -> TaskStates]]]
      BY <1>1, <2>1, <2>4, <3>1, <3>2, <3>5, TaskUpdate
    <3>8. attempt' \in [Attempts -> AttemptRecords]
      BY <1>1, <2>1, <2>4, <3>3, <3>6, AttemptUpdate
    <3>9. exec' \in [Attempts -> [Executions -> ExecutionRecords]]
      <4>1. exec' = exec \/ \E x \in ExecutionRecords : exec' = [exec EXCEPT ![a][n] = x]
        BY <2>4, <3>4, <3>6
      <4> QED
        BY <1>1, <2>1, <3>1, <4>1, ExecutionUpdate
    <3>10. timer' \in [Attempts -> [Executions -> load'.timeouts \cup {None, "gone"}]]
      BY <1>1, <2>1, <2>4, <3>1, TimerReset
    <3>11. journal' \subseteq Mutations
      BY <1>1, <1>2, <2>4, <3>6
    <3> QED
      BY <2>4, <3>7, <3>8, <3>9, <3>10, <3>11 DEF TypesOK
  <2> QED
    BY <1>6, <2>3, <2>4 DEF ScheduleExecution
<1>7. CASE m.type = "FinishExecution" /\ FinishExecution(m)
  <2> DEFINE a == m.for
             n == m.ex
             f == Finishes(attempt[a], exec[a][n], m.result, a)
  <2>1. /\ UNCHANGED <<quests, fwd, back, done, loaded, world>>
        /\ \/ Rolled(m, {}) /\ UNCHANGED <<attempt, exec, timer>>
           \/ /\ attempt' = [attempt EXCEPT ![a] = f.at]
              /\ exec' = [exec EXCEPT ![a][n] = f.ex]
              /\ ResetExecutionTimeout(a, n, f.ex.st)
              /\ Rolled(m, f.muts)
    BY <1>7 DEF FinishExecution
  <2>2. a \in Attempts /\ n \in Executions /\ m.result \in Results
    BY <1>1, <1>7, MutationShapes
  <2>3. attempt[a] \in AttemptRecords /\ exec[a][n] \in ExecutionRecords
    BY <1>1, <2>2
  <2> HIDE DEF a, n
  <2>4. /\ f.at \in AttemptRecords /\ f.ex \in ExecutionRecords
        /\ f.muts \subseteq {ScheduleExecutionMut(a), RecordCompletionMut(a)}
    BY <2>2, <2>3, FinishesFacts
  <2>5. f.muts \in SUBSET Mutations
    BY <2>2, <2>4, MutationsTyped
  <2> HIDE DEF f
  <2>6. load' = load
    BY <2>1 DEF world
  <2>7. attempt' \in [Attempts -> AttemptRecords]
    BY <1>1, <2>1, <2>2, <2>4, AttemptUpdate
  <2>8. exec' \in [Attempts -> [Executions -> ExecutionRecords]]
    BY <1>1, <2>1, <2>2, <2>4, ExecutionUpdate
  <2>9. timer' \in [Attempts -> [Executions -> load'.timeouts \cup {None, "gone"}]]
    BY <1>1, <2>1, <2>2, <2>6, TimerReset
  <2>10. journal' \subseteq Mutations
    BY <1>2, <2>1, <2>5
  <2> QED
    BY <2>1, <2>7, <2>8, <2>9, <2>10 DEF TypesOK, world
<1>8. CASE m.type = "TimeoutExecution" /\ TimeoutExecution(m)
  <2>1. PICK known \in BOOLEAN : Rolled(m, TimedOut(m.for, m.ex, m.state, m.tries, known))
    BY <1>8 DEF TimeoutExecution
  <2>2. m.for \in Attempts /\ m.ex \in Executions /\ m.tries \in Nat
    BY <1>1, <1>8, MutationShapes
  <2>3. TimedOut(m.for, m.ex, m.state, m.tries, known) \in SUBSET Mutations
    BY <2>2, TimedOutFacts
  <2>4. journal' \subseteq Mutations
    BY <1>2, <2>1, <2>3
  <2> QED
    BY <1>8, <2>4 DEF TimeoutExecution, TypesOK, graph, world
<1>9. CASE m.type = "AddBackDep" /\ AddBackDep(m)
  <2> DEFINE new == IF m.ack /\ m.to \in done THEN {AckFwdDepMut(m.from, m.to)} ELSE {}
             x == [from |-> m.from, to |-> m.to, propagated |-> m.to \in done]
  <2>1. m.from \in Attempts /\ m.to \in Attempts
    BY <1>1, <1>9, MutationShapes
  <2>2. new \in SUBSET Mutations
    <3>1. AckFwdDepMut(m.from, m.to) \in AckMuts
      BY <2>1 DEF AckFwdDepMut, AckMuts
    <3> QED
      BY <3>1 DEF Mutations
  <2>3. x \in BackDeps
    BY <2>1 DEF BackDeps
  <2>4. Rolled(m, new) /\ UNCHANGED <<quests, attempt, exec, fwd, done, timer, loaded, world>>
    BY <1>9 DEF AddBackDep
  <2>5. back' \subseteq back \cup {x}
    BY <1>9 DEF AddBackDep
  <2> HIDE DEF new, x
  <2>6. journal' \subseteq Mutations /\ back' \subseteq BackDeps
    BY <1>1, <1>2, <2>2, <2>3, <2>4, <2>5
  <2> QED
    BY <2>4, <2>6 DEF TypesOK, world, BackDeps
<1>10. CASE m.type = "RecordCompletion" /\ RecordCompletion(m)
  <2> DEFINE blocked == {b \in back : b.to = m.for /\ ~b.propagated}
             batch == {b \in blocked :
                         Cardinality({c \in blocked : c.from < b.from}) < CompletionLimit}
             new == {AckFwdDepMut(b.from, b.to) : b \in batch} \cup
                      IF Cardinality(batch) = CompletionLimit THEN {m} ELSE {}
  <2>1. /\ back' = (back \ batch) \cup {[b EXCEPT !.propagated = TRUE] : b \in batch}
        /\ Rolled(m, new)
        /\ UNCHANGED <<quests, attempt, exec, fwd, timer, loaded, world>>
    BY <1>10 DEF RecordCompletion
  <2>2. batch \subseteq BackDeps
    BY <1>1
  <2> HIDE DEF batch
  <2>3. \A b \in BackDeps : [b EXCEPT !.propagated = TRUE] \in BackDeps
    BY DEF BackDeps
  <2>4. \A b \in BackDeps : AckFwdDepMut(b.from, b.to) \in Mutations
    <3> TAKE b \in BackDeps
    <3>1. AckFwdDepMut(b.from, b.to) \in AckMuts
      BY DEF AckFwdDepMut, AckMuts, BackDeps
    <3> QED
      BY <3>1 DEF Mutations
  <2>5. new \in SUBSET Mutations
    BY <1>1, <2>2, <2>4
  <2> HIDE DEF new
  <2>6. back' \subseteq BackDeps
    BY <1>1, <2>1, <2>2, <2>3
  <2>7. journal' \subseteq Mutations
    BY <1>2, <2>1, <2>5
  <2> QED
    BY <2>1, <2>6, <2>7 DEF TypesOK, world, BackDeps
<1>11. CASE m.type = "AckFwdDep" /\ AckFwdDep(m)
  <2>1. UNCHANGED <<quests, exec, fwd, back, done, timer, loaded, world>>
    BY <1>11 DEF AckFwdDep
  <2>2. m.from \in Attempts
    BY <1>1, <1>11, MutationShapes
  <2>3. attempt' \in [Attempts -> AttemptRecords] /\ journal' \subseteq Mutations
    <3>1. PICK f \in fwd :
           \/ Rolled(m, {}) /\ UNCHANGED attempt
           \/ \E wake \in BOOLEAN :
                /\ f.bit \in DOMAIN attempt[m.from].deps
                /\ attempt' = [attempt EXCEPT
                                 ![m.from] = AckedAttempt(attempt[m.from], f.bit, wake)]
                /\ Rolled(m, IF wake THEN {ScheduleExecutionMut(m.from)} ELSE {})
      BY <1>11, AckStep
    <3>2. CASE Rolled(m, {}) /\ UNCHANGED attempt
      BY <1>1, <1>2, <3>2
    <3>3. ASSUME NEW wake \in BOOLEAN, f.bit \in DOMAIN attempt[m.from].deps,
                 attempt' = [attempt EXCEPT
                               ![m.from] = AckedAttempt(attempt[m.from], f.bit, wake)],
                 Rolled(m, IF wake THEN {ScheduleExecutionMut(m.from)} ELSE {})
          PROVE  attempt' \in [Attempts -> AttemptRecords] /\ journal' \subseteq Mutations
      <4>1. AckedAttempt(attempt[m.from], f.bit, wake) \in AttemptRecords
        BY <1>1, <2>2, <3>3, AckedFacts
      <4>2. (IF wake THEN {ScheduleExecutionMut(m.from)} ELSE {}) \in SUBSET Mutations
        <5>1. ScheduleExecutionMut(m.from) \in AttemptMuts
          BY <2>2 DEF ScheduleExecutionMut, AttemptMuts
        <5> QED
          BY <5>1 DEF Mutations
      <4> QED
        BY <1>1, <1>2, <2>2, <3>3, <4>1, <4>2, AttemptUpdate
    <3> QED
      BY <3>1, <3>2, <3>3
  <2> QED
    BY <2>1, <2>3 DEF TypesOK, world
<1> QED
  BY <1>3, <1>4, <1>5, <1>6, <1>7, <1>8, <1>9, <1>10, <1>11 DEF RollForward

\* What is in a set of mutations, or goes with a quest in it.
InAll(x, J) == x \in J \/ \E y \in J : y.type = "MergeQuest" /\ x \in y.then

\* AddDeps adds the back dependencies that are needed and the attempts that do
\* not exist, and every back dependency is to be acknowledged.
LEMMA AddDepsMutsFacts ==
  ASSUME NEW a \in Attempts, NEW new \in SUBSET Attempts, NEW walk \in Walks
  PROVE  /\ AddDepsMuts(a, new, walk) \subseteq Mutations
         /\ \A d \in new : InAll(AddBackDepMut(a, d, TRUE), AddDepsMuts(a, new, walk))
         /\ \A d \in new : d \in walk.dne =>
              InAll(EnsureAttemptMut(d), AddDepsMuts(a, new, walk))
         /\ \A x : InAll(x, AddDepsMuts(a, new, walk)) =>
              x.type \in {"MergeQuest", "EnsureAttempt", "AddBackDep"}
         /\ \A b, d : ~InAll(AddBackDepMut(b, d, FALSE), AddDepsMuts(a, new, walk))
<1> DEFINE of(d) == {AddBackDepMut(a, d, TRUE)} \cup
                    IF d \in walk.dne THEN {EnsureAttemptMut(d)} ELSE {}
           in(q) == {d \in new : QuestOf[d] = q}
           then(q) == UNION {of(d) : d \in in(q)}
           out == {e \in new : QuestOf[e] \notin walk.newQuests}
           outs == UNION {of(d) : d \in out}
           M == AddDepsMuts(a, new, walk)
<1>1. M = {MergeQuestMut(q, then(q)) : q \in walk.newQuests} \cup outs
  BY DEF AddDepsMuts
<1>2. \A d \in new : of(d) \in SUBSET DepMuts
  <2> TAKE d \in new
  <2>1. AddBackDepMut(a, d, TRUE) \in DepMuts /\ EnsureAttemptMut(d) \in DepMuts
    BY DEF AddBackDepMut, EnsureAttemptMut, DepMuts
  <2> QED
    BY <2>1
<1>3. \A d \in new : \A x \in of(d) :
        \/ x.type = "EnsureAttempt"
        \/ x.type = "AddBackDep" /\ x.ack = TRUE
  BY DEF AddBackDepMut, EnsureAttemptMut
<1>4. \A d \in new : /\ AddBackDepMut(a, d, TRUE) \in of(d)
                     /\ d \in walk.dne => EnsureAttemptMut(d) \in of(d)
  OBVIOUS
<1> HIDE DEF of
<1>5. \A q : then(q) \in SUBSET DepMuts
  BY <1>2
<1>6. outs \in SUBSET DepMuts
  BY <1>2
<1>7. \A d \in new : QuestOf[d] \in walk.newQuests => of(d) \subseteq then(QuestOf[d])
  OBVIOUS
<1>8. \A d \in new : QuestOf[d] \notin walk.newQuests => of(d) \subseteq outs
  OBVIOUS
<1>9. \A q : \A x \in then(q) : \E d \in new : x \in of(d)
  OBVIOUS
<1>10. \A x \in outs : \E d \in new : x \in of(d)
  OBVIOUS
<1> HIDE DEF then, outs, M
<1>11. \A q, S : MergeQuestMut(q, S).type = "MergeQuest" /\ MergeQuestMut(q, S).then = S
  BY DEF MergeQuestMut
<1>12. walk.newQuests \subseteq Quests
  BY DEF Walks
<1>13. M \subseteq Mutations
  <2>1. \A q \in walk.newQuests : MergeQuestMut(q, then(q)) \in Mutations
    BY <1>5, <1>12, QuestMutationsTyped
  <2> QED
    BY <1>1, <1>6, <2>1, DepMutsAreMutations
<1>14. \A d \in new : \A x \in of(d) : InAll(x, M)
  <2> SUFFICES ASSUME NEW d \in new, NEW x \in of(d) PROVE InAll(x, M)
    OBVIOUS
  <2>1. CASE QuestOf[d] \in walk.newQuests
    <3>1. MergeQuestMut(QuestOf[d], then(QuestOf[d])) \in M
      BY <1>1, <2>1
    <3>2. x \in MergeQuestMut(QuestOf[d], then(QuestOf[d])).then
      BY <1>7, <1>11, <2>1
    <3> QED
      BY <1>11, <3>1, <3>2 DEF InAll
  <2>2. CASE QuestOf[d] \notin walk.newQuests
    BY <1>1, <1>8, <2>2 DEF InAll
  <2> QED
    BY <2>1, <2>2
<1>15. \A x : InAll(x, M) => x.type = "MergeQuest" \/ \E d \in new : x \in of(d)
  <2> SUFFICES ASSUME NEW x, InAll(x, M)
               PROVE  x.type = "MergeQuest" \/ \E d \in new : x \in of(d)
    OBVIOUS
  <2>1. CASE x \in M
    BY <1>1, <1>10, <1>11, <2>1
  <2>2. ASSUME NEW y \in M, y.type = "MergeQuest", x \in y.then
        PROVE  \E d \in new : x \in of(d)
    <3>1. y \notin outs
      <4> SUFFICES ASSUME y \in outs PROVE FALSE
        OBVIOUS
      <4>1. PICK d \in new : y \in of(d)
        BY <1>10
      <4>2. y.type = "EnsureAttempt" \/ y.type = "AddBackDep"
        BY <1>3, <4>1
      <4> QED
        BY <2>2, <4>2
    <3>2. PICK q \in walk.newQuests : y = MergeQuestMut(q, then(q))
      BY <1>1, <2>2, <3>1
    <3>3. x \in then(q)
      BY <1>11, <2>2, <3>2
    <3> QED
      BY <1>9, <3>3
  <2> QED
    BY <2>1, <2>2 DEF InAll
<1>16. \A b, d : /\ AddBackDepMut(b, d, FALSE).type = "AddBackDep"
                 /\ AddBackDepMut(b, d, FALSE).ack = FALSE
  BY DEF AddBackDepMut
<1>17. \A b, d : ~InAll(AddBackDepMut(b, d, FALSE), M)
  <2> SUFFICES ASSUME NEW b, NEW d, InAll(AddBackDepMut(b, d, FALSE), M) PROVE FALSE
    OBVIOUS
  <2> DEFINE y == AddBackDepMut(b, d, FALSE)
  <2>1. y.type = "AddBackDep" /\ y.ack = FALSE
    BY <1>16
  <2> HIDE DEF y
  <2>2. PICK e \in new : y \in of(e)
    BY <1>15, <2>1 DEF y
  <2> QED
    BY <1>3, <2>1, <2>2
<1> QED
  BY <1>3, <1>4, <1>13, <1>14, <1>15, <1>17 DEF M

\* The dependencies that are declared are numbered in order.
LEMMA FwdDepsFacts ==
  ASSUME attempt \in [Attempts -> AttemptRecords], NEW a \in Attempts, NEW D \in SUBSET Attempts
  PROVE  /\ FwdDeps(a, D) \subseteq [from : Attempts, to : Attempts, bit : Nat, ex : 0..MaxExec]
         /\ \A d \in D : \E f \in FwdDeps(a, D) : f.to = d
         /\ \A f \in FwdDeps(a, D) :
              f.from = a /\ f.to \in D /\ f.ex = attempt[a].cur
         /\ \A f, g \in FwdDeps(a, D) : f.to = g.to => f = g
         /\ \A i \in 1..Cardinality(D) : \E f \in FwdDeps(a, D) : f.bit = i
<1>1. IsFiniteSet(D) /\ D \in SUBSET Nat
  BY DMAssumption, FS_Subset
<1> DEFINE rank(d) == Cardinality({e \in D : e < d})
           F(d) == [from |-> a, to |-> d, bit |-> rank(d) + 1, ex |-> attempt[a].cur]
<1>2. \A d \in D : rank(d) \in Nat
  BY <1>1, RankFacts
<1>3. attempt[a].cur \in 0..MaxExec
  BY DEF AttemptRecords
<1>4. \A i \in 1..Cardinality(D) : \E d \in D : rank(d) = i - 1
  BY <1>1, RankOnto
<1>5. FwdDeps(a, D) = {F(d) : d \in D}
  BY DEF FwdDeps
<1> HIDE DEF rank
<1>6. \A i \in 1..Cardinality(D) : \E d \in D : rank(d) + 1 = i
  <2> TAKE i \in 1..Cardinality(D)
  <2>1. PICK d \in D : rank(d) = i - 1
    BY <1>4
  <2>2. i \in Int
    BY <1>1, FS_CardinalityType
  <2> QED
    BY <1>2, <2>1, <2>2
<1>7. \A d \in D : F(d) \in [from : Attempts, to : Attempts, bit : Nat, ex : 0..MaxExec]
  BY <1>2, <1>3
<1>8. \A d \in D : F(d).from = a /\ F(d).to = d /\ F(d).ex = attempt[a].cur
                    /\ F(d).bit = rank(d) + 1
  OBVIOUS
<1> HIDE DEF F
<1> QED
  BY <1>5, <1>6, <1>7, <1>8

\* A call that is under way, and what it has read.
LEMMA CallFacts ==
  ASSUME call \in [Calls -> CallRecords \cup {NoCall}], NEW c \in Calls, call[c].st = "read"
  PROVE  /\ call[c] \in CallRecords
         /\ call[c].from \in Attempts /\ call[c].ex \in Executions /\ call[c].run \in Runs
         /\ call[c].want \in SUBSET Attempts
         /\ call[c].walk # None => call[c].walk \in Walks
         /\ call[c].missing # None => call[c].missing \in SUBSET Attempts
<1>1. call[c] \in CallRecords \cup {NoCall}
  OBVIOUS
<1>2. NoCall.st # "read"
  BY DEF NoCall
<1>3. call[c] \in CallRecords
  BY <1>1, <1>2
<1> DEFINE walks == Walks \cup {None}
           sets == (SUBSET Attempts) \cup {None}
           wants == SUBSET Attempts
<1>4. CallRecords = [st : {"read"}, from : Attempts, ex : Executions, run : Runs, want : wants,
                     walk : walks, missing : sets]
  BY DEF CallRecords
<1>5. call[c].walk \in walks /\ call[c].missing \in sets /\ call[c].want \in wants
  <2> HIDE DEF walks, sets, wants
  <2> QED
    BY <1>3, <1>4
<1>6. call[c].from \in Attempts /\ call[c].ex \in Executions /\ call[c].run \in Runs
  <2> HIDE DEF walks, sets, wants
  <2> QED
    BY <1>3, <1>4
<1> QED
  BY <1>3, <1>5, <1>6

\* What a call reads keeps it a call.
LEMMA CallUpdate ==
  ASSUME call \in [Calls -> CallRecords \cup {NoCall}], NEW c \in Calls, call[c].st = "read"
  PROVE  /\ \A w \in Walks : call' = [call EXCEPT ![c].walk = w] =>
              /\ call' \in [Calls -> CallRecords \cup {NoCall}]
              /\ call'[c].walk = w /\ call'[c].missing = call[c].missing
              /\ call'[c].want = call[c].want
         /\ \A D \in SUBSET Attempts : call' = [call EXCEPT ![c].missing = D] =>
              /\ call' \in [Calls -> CallRecords \cup {NoCall}]
              /\ call'[c].missing = D /\ call'[c].walk = call[c].walk
              /\ call'[c].want = call[c].want
<1>1. call[c] \in CallRecords
  BY CallFacts
<1> DEFINE walks == Walks \cup {None}
           sets == (SUBSET Attempts) \cup {None}
           wants == SUBSET Attempts
<1>2. /\ CallRecords = [st : {"read"}, from : Attempts, ex : Executions, run : Runs,
                        want : wants, walk : walks, missing : sets]
      /\ \A w \in Walks : w \in walks
      /\ \A D \in SUBSET Attempts : D \in sets
  BY DEF CallRecords
<1> HIDE DEF walks, sets, wants
<1>3. \A w \in Walks :
        /\ [call[c] EXCEPT !.walk = w] \in CallRecords
        /\ [call[c] EXCEPT !.walk = w].walk = w
        /\ [call[c] EXCEPT !.walk = w].missing = call[c].missing
        /\ [call[c] EXCEPT !.walk = w].want = call[c].want
  BY <1>1, <1>2
<1>4. \A D \in SUBSET Attempts :
        /\ [call[c] EXCEPT !.missing = D] \in CallRecords
        /\ [call[c] EXCEPT !.missing = D].missing = D
        /\ [call[c] EXCEPT !.missing = D].walk = call[c].walk
        /\ [call[c] EXCEPT !.missing = D].want = call[c].want
  BY <1>1, <1>2
<1> HIDE DEF CallRecords
<1>5. ASSUME NEW y \in CallRecords, call' = [call EXCEPT ![c] = y]
      PROVE  call' \in [Calls -> CallRecords \cup {NoCall}] /\ call'[c] = y
  BY <1>5
<1>6. ASSUME NEW w \in Walks, call' = [call EXCEPT ![c].walk = w]
      PROVE  /\ call' \in [Calls -> CallRecords \cup {NoCall}]
             /\ call'[c].walk = w /\ call'[c].missing = call[c].missing
             /\ call'[c].want = call[c].want
  <2>1. call' = [call EXCEPT ![c] = [call[c] EXCEPT !.walk = w]]
    BY <1>6
  <2> QED
    BY <1>3, <1>5, <2>1
<1>7. ASSUME NEW D \in SUBSET Attempts, call' = [call EXCEPT ![c].missing = D]
      PROVE  /\ call' \in [Calls -> CallRecords \cup {NoCall}]
             /\ call'[c].missing = D /\ call'[c].walk = call[c].walk
             /\ call'[c].want = call[c].want
  <2>1. call' = [call EXCEPT ![c] = [call[c] EXCEPT !.missing = D]]
    BY <1>7
  <2> QED
    BY <1>4, <1>5, <2>1
<1> QED
  BY <1>6, <1>7

\* The transactions of EnsureGraphData keep the types.
LEMMA TypesDecide ==
  ASSUME TypesOK, NEW c \in Calls, DecideCall(c)
  PROVE  TypesOK'
<1> DEFINE x == call[c]
           new == filterExisting(x.from, x.missing)
           Fwds == [from : Attempts, to : Attempts, bit : Nat, ex : 0..MaxExec]
<1>1. /\ x.st = "read" /\ x.walk # None /\ x.missing # None
      /\ call' = [call EXCEPT ![c] = NoCall]
      /\ UNCHANGED <<quests, back, done, loaded, task, notes, load, slips>>
      /\ \/ UNCHANGED <<attempt, exec, fwd, timer, journal>>
         \/ AddFinishedDeps(x)
         \/ AddDeps(x)
  BY DEF DecideCall
<1>2. /\ call \in [Calls -> CallRecords \cup {NoCall}]
      /\ attempt \in [Attempts -> AttemptRecords]
      /\ exec \in [Attempts -> [Executions -> ExecutionRecords]]
      /\ timer \in [Attempts -> [Executions -> load.timeouts \cup {None, "gone"}]]
      /\ journal \subseteq Mutations /\ fwd \subseteq Fwds
  BY DEF TypesOK
<1>3. /\ x.from \in Attempts /\ x.ex \in Executions
      /\ x.walk \in Walks /\ x.missing \in SUBSET Attempts
  BY <1>1, <1>2, CallFacts
<1>4. call' \in [Calls -> CallRecords \cup {NoCall}]
  BY <1>1, <1>2
<1>5. new \in SUBSET Attempts /\ load' = load
  BY <1>1, <1>3 DEF filterExisting
<1> HIDE DEF x
<1>6. CASE UNCHANGED <<attempt, exec, fwd, timer, journal>>
  BY <1>1, <1>4, <1>6 DEF TypesOK
<1>7. CASE AddFinishedDeps(x)
  <2>1. /\ fwd' \subseteq fwd \cup FwdDeps(x.from, x.missing)
        /\ UNCHANGED <<attempt, exec, timer>>
        /\ \A m \in journal' : \/ m \in journal
                               \/ \E d \in new : m = AddBackDepMut(x.from, d, FALSE)
                               \/ \E q \in x.walk.newQuests : m = MergeQuestMut(q, {})
    BY <1>7 DEF AddFinishedDeps
  <2>2. FwdDeps(x.from, x.missing) \subseteq Fwds
    BY <1>2, <1>3, FwdDepsFacts
  <2>3. fwd' \subseteq Fwds
    BY <1>2, <2>1, <2>2
  <2>4. \A d \in new : AddBackDepMut(x.from, d, FALSE) \in Mutations
    <3> TAKE d \in new
    <3>1. AddBackDepMut(x.from, d, FALSE) \in DepMuts
      BY <1>3, <1>5 DEF AddBackDepMut, DepMuts
    <3> QED
      BY <3>1, DepMutsAreMutations
  <2>5. \A q \in x.walk.newQuests : MergeQuestMut(q, {}) \in Mutations
    <3>1. x.walk.newQuests \subseteq Quests
      BY <1>3 DEF Walks
    <3> QED
      BY <3>1, QuestMutationsTyped
  <2>6. journal' \subseteq Mutations
    BY <1>2, <2>1, <2>4, <2>5
  <2> QED
    BY <1>1, <1>4, <2>1, <2>3, <2>6 DEF TypesOK
<1>8. CASE AddDeps(x)
  <2> DEFINE a == x.from
             n == x.ex
             e == [exec[a][n] EXCEPT !.st = "STOPPING", !.tok = None]
             deps == [i \in 1..Cardinality(new) |-> FALSE]
             at == [attempt[a] EXCEPT !.deps = deps]
  <2>1. /\ exec' = [exec EXCEPT ![a][n].st = "STOPPING", ![a][n].tok = None]
        /\ ResetExecutionTimeout(a, n, "STOPPING")
        /\ fwd' = fwd \cup FwdDeps(a, new)
        /\ attempt' = attempt \/ attempt' = [attempt EXCEPT ![a] = at]
        /\ journal' \subseteq journal \cup AddDepsMuts(a, new, x.walk)
    BY <1>8 DEF AddDeps, Stops
  <2>2. exec' = [exec EXCEPT ![a][n] = e]
    BY <1>2, <1>3, <2>1
  <2>3. e \in ExecutionRecords
    <3>1. exec[a][n] \in ExecutionRecords
      BY <1>2, <1>3
    <3> QED
      BY <3>1 DEF ExecutionRecords, ExecutionStates
  <2>4. at \in AttemptRecords
    <3>1. IsFiniteSet(new) /\ Cardinality(new) \in Nat
      BY <1>5, DMAssumption, FS_Subset, FS_CardinalityType
    <3>2. deps \in Seq(BOOLEAN)
      <4>1. \A k \in Nat : [i \in 1..k |-> FALSE] \in Seq(BOOLEAN)
        OBVIOUS
      <4> QED
        BY <3>1, <4>1
    <3>3. attempt[a] \in AttemptRecords
      BY <1>2, <1>3
    <3>4. attempt[a].st \in AttemptStates /\ attempt[a].cur \in 0..MaxExec
      BY <3>3 DEF AttemptRecords
    <3> HIDE DEF deps
    <3> QED
      BY <3>2, <3>3, <3>4, AttemptFields
  <2> HIDE DEF e, at, new
  <2>5. exec' \in [Attempts -> [Executions -> ExecutionRecords]]
    BY <1>2, <1>3, <2>2, <2>3, ExecutionUpdate
  <2>6. attempt' \in [Attempts -> AttemptRecords]
    BY <1>2, <1>3, <2>1, <2>4, AttemptUpdate
  <2>7. timer' \in [Attempts -> [Executions -> load'.timeouts \cup {None, "gone"}]]
    BY <1>2, <1>3, <1>5, <2>1, TimerReset
  <2>8. fwd' \subseteq Fwds
    <3>1. FwdDeps(a, new) \subseteq Fwds
      BY <1>2, <1>3, <1>5, FwdDepsFacts
    <3> QED
      BY <1>2, <2>1, <3>1
  <2>9. journal' \subseteq Mutations
    <3>1. AddDepsMuts(a, new, x.walk) \subseteq Mutations
      BY <1>3, <1>5, AddDepsMutsFacts
    <3> QED
      BY <1>2, <2>1, <3>1
  <2> QED
    BY <1>1, <1>4, <2>5, <2>6, <2>7, <2>8, <2>9 DEF TypesOK
<1> QED
  BY <1>1, <1>6, <1>7, <1>8

\* The execution of FinishAttempt and AddDeps is stopped.
LEMMA StopsFacts ==
  ASSUME exec \in [Attempts -> [Executions -> ExecutionRecords]],
         timer \in [Attempts -> [Executions -> load.timeouts \cup {None, "gone"}]], load' = load,
         NEW a \in Attempts, NEW n \in Executions, Stops(a, n)
  PROVE  /\ exec' \in [Attempts -> [Executions -> ExecutionRecords]]
         /\ exec'[a][n].st = "STOPPING" /\ exec'[a][n].tok = None
         /\ \A b \in Attempts, i \in Executions : b # a \/ i # n => exec'[b][i] = exec[b][i]
         /\ timer' \in [Attempts -> [Executions -> load'.timeouts \cup {None, "gone"}]]
         /\ "STOPPING" \in load.timeouts => timer'[a][n] = "STOPPING"
         /\ \A b \in Attempts, i \in Executions : b # a \/ i # n => timer'[b][i] = timer[b][i]
<1> DEFINE e == [exec[a][n] EXCEPT !.st = "STOPPING", !.tok = None]
<1>1. exec[a][n] \in ExecutionRecords
  OBVIOUS
<1>2. e \in ExecutionRecords /\ e.st = "STOPPING" /\ e.tok = None
  BY <1>1 DEF ExecutionRecords, ExecutionStates
<1>3. exec' = [exec EXCEPT ![a][n] = e]
  BY DEF Stops
<1> HIDE DEF e
<1>4. /\ exec' \in [Attempts -> [Executions -> ExecutionRecords]]
      /\ exec'[a][n] = e
      /\ \A b \in Attempts, i \in Executions : b # a \/ i # n => exec'[b][i] = exec[b][i]
  BY <1>2, <1>3, ExecutionUpdate
<1>5. ResetExecutionTimeout(a, n, "STOPPING")
  BY DEF Stops
<1> QED
  BY <1>2, <1>4, <1>5, TimerReset

\* An execution is activated.
LEMMA ActivateFacts ==
  ASSUME exec \in [Attempts -> [Executions -> ExecutionRecords]],
         NEW a \in Attempts, NEW n \in Executions, NEW k \in Runs, ActivateExecution(a, n, k)
  PROVE  /\ exec' \in [Attempts -> [Executions -> ExecutionRecords]]
         /\ exec'[a][n].st = "RUNNING" /\ exec'[a][n].tok = k
         /\ \A b \in Attempts, i \in Executions : b # a \/ i # n => exec'[b][i] = exec[b][i]
<1> DEFINE e == [exec[a][n] EXCEPT !.st = "RUNNING", !.tok = k]
<1>1. exec[a][n] \in ExecutionRecords
  OBVIOUS
<1>2. e \in ExecutionRecords /\ e.st = "RUNNING" /\ e.tok = k
  BY <1>1 DEF ExecutionRecords, ExecutionStates
<1>3. exec' = [exec EXCEPT ![a][n] = e]
  BY DEF ActivateExecution
<1> HIDE DEF e
<1>4. /\ exec' \in [Attempts -> [Executions -> ExecutionRecords]]
      /\ exec'[a][n] = e
      /\ \A b \in Attempts, i \in Executions : b # a \/ i # n => exec'[b][i] = exec[b][i]
  BY <1>2, <1>3, ExecutionUpdate
<1> QED
  BY <1>2, <1>4

\* A timeout is taken from the journal and rolled forward: it leaves its key
\* empty, whatever was there, and what it turns into is journalled.
LEMMA TimerTaken ==
  ASSUME TypesOK, NEW a \in Attempts, NEW n \in Executions, NEW s, NEW known \in BOOLEAN,
         load' = load, NEW x \in {None, "gone"}, timer' = [timer EXCEPT ![a][n] = x],
         journal' = journal \cup TimedOut(a, n, s, 0, known)
  PROVE  /\ timer' \in [Attempts -> [Executions -> load'.timeouts \cup {None, "gone"}]]
         /\ \A b \in Attempts, i \in Executions : b # a \/ i # n => timer'[b][i] = timer[b][i]
         /\ journal' \subseteq Mutations
<1>1. TimedOut(a, n, s, 0, known) \subseteq Mutations
  BY TimedOutFacts
<1>2. /\ timer' \in [Attempts -> [Executions -> load'.timeouts \cup {None, "gone"}]]
      /\ \A b \in Attempts, i \in Executions : b # a \/ i # n => timer'[b][i] = timer[b][i]
  BY TimerUpdate DEF TypesOK
<1> QED
  BY <1>1, <1>2 DEF TypesOK

\* A worker that had loaded the timeout of state s leaves that key empty too; if
\* the timeout of another state was there, it is gone.
LEMMA LeftByLoaded ==
  ASSUME TypesOK, NEW a \in Attempts, NEW n \in Executions, NEW s, LoadedTimer(a, n, s)
  PROVE  \E x \in {None, "gone"} :
           /\ timer' = [timer EXCEPT ![a][n] = x]
           /\ timer[a][n] \in (load.timeouts \cup {"gone"}) \ {s} => x = "gone"
<1> DEFINE x == IF timer[a][n] \in (load.timeouts \cup {"gone"}) \ {s} THEN "gone" ELSE None
<1>1. timer' = [timer EXCEPT ![a][n] = x]
  BY DEF LoadedTimer
<1>2. /\ x \in {None, "gone"}
      /\ timer[a][n] \in (load.timeouts \cup {"gone"}) \ {s} => x = "gone"
  OBVIOUS
<1> HIDE DEF x
<1> QED
  BY <1>1, <1>2

\* Every step keeps the types; notifications are for tasks that have ended.
LEMMA TypesStep ==
  ASSUME TypesOK, TasksOK, DMNext
  PROVE  TypesOK'
<1>1. /\ load \in Loads /\ attempt \in [Attempts -> AttemptRecords]
      /\ exec \in [Attempts -> [Executions -> ExecutionRecords]]
      /\ timer \in [Attempts -> [Executions -> load.timeouts \cup {None, "gone"}]]
      /\ task \in [Attempts -> [Executions -> [Runs -> TaskStates]]]
      /\ call \in [Calls -> CallRecords \cup {NoCall}]
      /\ journal \subseteq Mutations
  BY DEF TypesOK
<1>2. ASSUME NEW q \in Quests, NEW S \in SUBSET Attempts, journalQuestAttempts(q, S)
      PROVE  TypesOK'
  <2>1. EnsureQuestMut(q, S, q \notin quests \/ q \in load.rebuilt) \in Mutations
    BY QuestMutationsTyped
  <2> QED
    BY <1>1, <1>2, <2>1 DEF journalQuestAttempts, TypesOK, graph, world
<1>3. ASSUME NEW c \in Calls, doGraphWalk(c) PROVE TypesOK'
  <2> DEFINE want == call[c].want
             no == {q \in {QuestOf[d] : d \in want} : q \notin quests}
             w == [allFinished |-> \A d \in want : attempt[d].st = "FINISHED",
                   dne |-> {d \in want : attempt[d].st = "DNE"},
                   newQuests |-> no \cup (load.rebuilt \cap {QuestOf[d] : d \in want})]
  <2>1. call[c].st = "read" /\ call' = [call EXCEPT ![c].walk = w]
        /\ UNCHANGED <<quests, graph, work, task, notes, load, slips>>
    BY <1>3 DEF doGraphWalk
  <2>2. want \in SUBSET Attempts
    BY <1>1, <2>1, CallFacts
  <2>3. {QuestOf[d] : d \in want} \subseteq Quests
    BY <2>2, DMAssumption
  <2>4. w \in Walks
    <3> HIDE DEF want
    <3>1. no \cup (load.rebuilt \cap {QuestOf[d] : d \in want}) \in SUBSET Quests
      BY <2>3
    <3> HIDE DEF no
    <3> QED
      BY <2>2, <3>1 DEF Walks
  <2> HIDE DEF w
  <2>5. call' \in [Calls -> CallRecords \cup {NoCall}]
    BY <1>1, <2>1, <2>4, CallUpdate
  <2> QED
    BY <2>1, <2>5 DEF TypesOK, graph, work
<1>4. ASSUME NEW c \in Calls, depsFromMissing(c) PROVE TypesOK'
  <2> DEFINE D == {d \in call[c].want : ~HasDep(call[c].from, d)}
  <2>1. call[c].st = "read" /\ call' = [call EXCEPT ![c].missing = D]
        /\ UNCHANGED <<quests, graph, work, task, notes, load, slips>>
    BY <1>4 DEF depsFromMissing
  <2>2. D \in SUBSET Attempts
    BY <1>1, <2>1, CallFacts
  <2> HIDE DEF D
  <2>3. call' \in [Calls -> CallRecords \cup {NoCall}]
    BY <1>1, <2>1, <2>2, CallUpdate
  <2> QED
    BY <2>1, <2>3 DEF TypesOK, graph, work
<1>5. ASSUME NEW a \in Attempts, NEW n \in Executions, NEW s, LoadedTimer(a, n, s)
      PROVE  TypesOK'
  <2>1. PICK known \in BOOLEAN : journal' = journal \cup TimedOut(a, n, s, 0, known)
    BY <1>5 DEF LoadedTimer
  <2>2. /\ loaded' \subseteq loaded
        /\ UNCHANGED <<quests, graph, world, slips>> /\ load' = load
    BY <1>5 DEF LoadedTimer, world
  <2>4. PICK x \in {None, "gone"} : timer' = [timer EXCEPT ![a][n] = x]
    BY <1>5, LeftByLoaded
  <2>3. /\ timer' \in [Attempts -> [Executions -> load'.timeouts \cup {None, "gone"}]]
        /\ journal' \subseteq Mutations
    BY <2>1, <2>2, <2>4, TimerTaken
  <2> QED
    BY <2>2, <2>3 DEF TypesOK, graph, world
<1>6. ASSUME NEW a \in Attempts, NEW n \in Executions, TimerFires(a, n)
      PROVE  TypesOK'
  <2>1. PICK known \in BOOLEAN : journal' = journal \cup TimedOut(a, n, timer[a][n], 0, known)
    BY <1>6 DEF TimerFires
  <2>2. /\ timer' = [timer EXCEPT ![a][n] = None]
        /\ UNCHANGED <<quests, graph, loaded, world, slips>> /\ load' = load
    BY <1>6 DEF TimerFires, world
  <2>3. /\ timer' \in [Attempts -> [Executions -> load'.timeouts \cup {None, "gone"}]]
        /\ journal' \subseteq Mutations
    BY <2>1, <2>2, TimerTaken
  <2> QED
    BY <2>2, <2>3 DEF TypesOK, graph, world
<1>7. ASSUME NEW a \in Attempts, NEW n \in Executions, LoadTimer(a, n)
      PROVE  TypesOK'
  <2>1. timer[a][n] \in {"SCHEDULING", "RUNNING", "STOPPING"}
    <3>1. timer[a][n] \in load.timeouts
      BY <1>7 DEF LoadTimer
    <3> QED
      BY <1>1, <3>1, LoadFacts
  <2>2. /\ loaded' = loaded \cup {<<a, n, timer[a][n]>>}
        /\ UNCHANGED <<quests, graph, timer, journal, world>>
    BY <1>7 DEF LoadTimer
  <2>3. loaded' \subseteq Attempts \X Executions \X {"SCHEDULING", "RUNNING", "STOPPING"}
    BY <2>1, <2>2 DEF TypesOK
  <2> QED
    BY <2>2, <2>3 DEF TypesOK, graph, world
<1>8. ASSUME NEW a, NEW n, NEW k, IsTask(a, n, k), ActivateExecution(a, n, k)
      PROVE  TypesOK'
  <2>1. a \in Attempts /\ n \in Executions /\ k \in Runs
    BY <1>8 DEF IsTask
  <2>2. /\ exec' = [exec EXCEPT ![a][n].st = "RUNNING", ![a][n].tok = k]
        /\ ResetExecutionTimeout(a, n, "RUNNING")
        /\ task' = task \/ task' = [task EXCEPT ![a][n][k] = "active"]
        /\ UNCHANGED <<quests, attempt, fwd, back, done, loaded, journal, notes, call, load>>
    BY <1>8 DEF ActivateExecution
  <2>3. exec' \in [Attempts -> [Executions -> ExecutionRecords]]
    BY <1>1, <1>8, <2>1, ActivateFacts
  <2>4. timer' \in [Attempts -> [Executions -> load'.timeouts \cup {None, "gone"}]]
    BY <1>1, <2>1, <2>2, TimerReset
  <2>5. "active" \in TaskStates
    BY DEF TaskStates
  <2>6. task' \in [Attempts -> [Executions -> [Runs -> TaskStates]]]
    <3>1. CASE task' = task
      BY <1>1, <3>1
    <3>2. CASE task' = [task EXCEPT ![a][n][k] = "active"]
      BY <1>1, <2>1, <2>5, <3>2, TaskUpdate, Zenon
    <3> QED
      BY <2>2, <3>1, <3>2
  <2> QED
    BY <2>2, <2>3, <2>4, <2>6 DEF TypesOK
<1>9. ASSUME NEW a, NEW n, NEW k, IsTask(a, n, k), FinishAttempt(a, n, k)
      PROVE  TypesOK'
  <2>1. a \in Attempts /\ n \in Executions /\ k \in Runs
    BY <1>9 DEF IsTask
  <2> DEFINE x == [attempt[a] EXCEPT !.data = TRUE]
  <2>2. /\ Stops(a, n) /\ attempt' = [attempt EXCEPT ![a] = x]
        /\ UNCHANGED <<quests, fwd, back, done, loaded, journal, world, slips>> /\ load' = load
    BY <1>9 DEF FinishAttempt, world
  <2>3. x \in AttemptRecords
    <3>1. attempt[a] \in AttemptRecords
      BY <1>1, <2>1
    <3>2. /\ attempt[a].st \in AttemptStates /\ attempt[a].cur \in 0..MaxExec
          /\ attempt[a].deps \in Seq(BOOLEAN)
      BY <3>1 DEF AttemptRecords
    <3> QED
      BY <3>1, <3>2, AttemptFields
  <2> HIDE DEF x
  <2>4. attempt' \in [Attempts -> AttemptRecords]
    BY <1>1, <2>1, <2>2, <2>3, AttemptUpdate
  <2>5. /\ exec' \in [Attempts -> [Executions -> ExecutionRecords]]
        /\ timer' \in [Attempts -> [Executions -> load'.timeouts \cup {None, "gone"}]]
    BY <1>1, <2>1, <2>2, StopsFacts
  <2> QED
    BY <2>2, <2>4, <2>5 DEF TypesOK, world
<1>10. ASSUME NEW a, NEW n, NEW k, IsTask(a, n, k), NEW c \in Calls,
              NEW want \in SUBSET Attempts, EnsureGraphData(c, a, n, k, want)
       PROVE  TypesOK'
  <2>1. a \in Attempts /\ n \in Executions /\ k \in Runs
    BY <1>10 DEF IsTask
  <2> DEFINE x == [st |-> "read", from |-> a, ex |-> n, run |-> k, want |-> want,
                   walk |-> None, missing |-> None]
  <2>2. x \in CallRecords
    <3> DEFINE walks == Walks \cup {None}
               sets == (SUBSET Attempts) \cup {None}
               wants == SUBSET Attempts
    <3>1. /\ CallRecords = [st : {"read"}, from : Attempts, ex : Executions, run : Runs,
                            want : wants, walk : walks, missing : sets]
          /\ None \in walks /\ None \in sets /\ want \in wants
      BY DEF CallRecords
    <3> HIDE DEF walks, sets, wants
    <3> QED
      BY <2>1, <3>1
  <2>3. call' = [call EXCEPT ![c] = x] /\ UNCHANGED <<quests, graph, work, task, notes, load, slips>>
    BY <1>10 DEF EnsureGraphData
  <2> HIDE DEF x
  <2>4. call' \in [Calls -> CallRecords \cup {NoCall}]
    BY <1>1, <2>2, <2>3
  <2> QED
    BY <2>3, <2>4 DEF TypesOK, graph, work
<1>11. ASSUME NEW a, NEW n, NEW k, IsTask(a, n, k), NEW result \in Results,
              TaskEnds(a, n, k, result)
       PROVE  TypesOK'
  <2>1. a \in Attempts /\ n \in Executions /\ k \in Runs
    BY <1>11 DEF IsTask
  <2>2. /\ task' = [task EXCEPT ![a][n][k] = result]
        /\ notes' \subseteq notes \cup {<<a, n, k>>}
        /\ UNCHANGED <<quests, graph, work, call, load>>
    BY <1>11 DEF TaskEnds
  <2>3. result \in TaskStates
    BY DEF TaskStates
  <2>4. task' \in [Attempts -> [Executions -> [Runs -> TaskStates]]]
    BY <1>1, <2>1, <2>2, <2>3, TaskUpdate
  <2>5. notes' \subseteq Attempts \X Executions \X Runs
    BY <2>1, <2>2 DEF TypesOK
  <2> QED
    BY <2>2, <2>4, <2>5 DEF TypesOK, graph, work
<1>12. ASSUME NEW a, NEW n, NEW k, IsTask(a, n, k), NotifyExecution(a, n, k)
       PROVE  TypesOK'
  <2>1. a \in Attempts /\ n \in Executions /\ k \in Runs
    BY <1>12 DEF IsTask
  <2>2. /\ <<a, n, k>> \in notes /\ notes' \subseteq notes
        /\ journal' = journal \cup {FinishExecutionMut(a, n, task[a][n][k])}
        /\ UNCHANGED <<quests, graph, timer, loaded, task, call, load>>
    BY <1>12 DEF NotifyExecution
  <2>3. task[a][n][k] \in Results
    BY <2>2 DEF TasksOK
  <2>4. journal' \subseteq Mutations
    BY <1>1, <2>1, <2>2, <2>3, MutationsTyped
  <2> QED
    BY <2>2, <2>4 DEF TypesOK, graph
<1> QED
  BY <1>2, <1>3, <1>4, <1>5, <1>6, <1>7, <1>8, <1>9, <1>10, <1>11, <1>12, Steps, TypesRoll,
     TypesDecide

-----------------------------------------------------------------------------
(* What the steps that move an execution do, point by point.               *)

\* Nothing but attempt a, execution n of it, or its timeout, changes.
OnlyAttempt(a) == \A b \in Attempts \ {a} : attempt'[b] = attempt[b]
OnlyExecution(a, n) ==
    \A b \in Attempts, i \in Executions : b # a \/ i # n => exec'[b][i] = exec[b][i]
OnlyTimer(a, n) ==
    \A b \in Attempts, i \in Executions : b # a \/ i # n => timer'[b][i] = timer[b][i]
OnlyTask(a, n, k) ==
    \A b \in Attempts, i \in Executions, j \in Runs :
      b # a \/ i # n \/ j # k => task'[b][i][j] = task[b][i][j]

\* Execution n of attempt a begins, with a task k of the distributor.
Begins(a, n, k) ==
    /\ attempt'[a].st = "EXECUTING" /\ attempt'[a].cur = n /\ attempt'[a].deps = attempt[a].deps
    /\ OnlyAttempt(a)
    /\ exec'[a][n].st = "SCHEDULING" /\ exec'[a][n].tok = k /\ OnlyExecution(a, n)
    /\ "SCHEDULING" \in load.timeouts => timer'[a][n] = "SCHEDULING"
    /\ OnlyTimer(a, n)
    /\ task' = [task EXCEPT ![a][n][k] = "pending"]

\* It is rejected.
IsRejected(a, n) ==
    /\ attempt'[a].st = "ABNORMAL_FINISHED" /\ attempt'[a].cur = n /\ OnlyAttempt(a)
    /\ Terminal(exec'[a][n].st) /\ OnlyExecution(a, n)
    /\ UNCHANGED <<task, timer>>

\* ScheduleExecution skips, begins an execution, is rejected, or fails.
LEMMA ScheduleStep ==
  ASSUME TypesOK, NEW m \in journal, m.type = "ScheduleExecution", ScheduleExecution(m)
  PROVE  /\ m.for \in Attempts
         /\ UNCHANGED <<quests, fwd, back, done, loaded, notes, call, load>> /\ slips \subseteq slips'
         /\ \/ /\ attempt[m.for].st # "SCHEDULING" /\ Rolled(m, {})
               /\ UNCHANGED <<attempt, exec, timer, task>>
            \/ \E n \in Executions, k \in Runs :
                 /\ attempt[m.for].st = "SCHEDULING" /\ n = attempt[m.for].cur + 1
                 /\ task[m.for][n][k] = "none"
                 /\ \/ Begins(m.for, n, k) /\ Rolled(m, {})
                    \/ IsRejected(m.for, n) /\ journal' = journal \ {m}
                    \/ /\ UNCHANGED <<attempt, exec, timer, journal>>
                       /\ task' = [task EXCEPT ![m.for][n][k] = "pending"]
<1> DEFINE a == m.for
           n == attempt[a].cur + 1
           at == [attempt[a] EXCEPT !.st = "EXECUTING", !.cur = n]
           started(k) == [st |-> "SCHEDULING", tok |-> k, run |-> k]
           f(k) == Finishes(at, [started(k) EXCEPT !.run = None], "REJECTED", a)
<1>1. /\ m \in Mutations /\ load \in Loads
      /\ attempt \in [Attempts -> AttemptRecords]
      /\ exec \in [Attempts -> [Executions -> ExecutionRecords]]
      /\ timer \in [Attempts -> [Executions -> load.timeouts \cup {None, "gone"}]]
  BY DEF TypesOK
<1>2. a \in Attempts /\ attempt[a] \in AttemptRecords
  BY <1>1, MutationShapes
<1>3. UNCHANGED <<quests, fwd, back, done, loaded, notes, call, load>> /\ slips \subseteq slips'
  BY DEF ScheduleExecution, Rolled, Happens, graph, world
<1>4. CASE /\ attempt[a].st # "SCHEDULING" /\ Rolled(m, {})
           /\ UNCHANGED <<quests, graph, timer, loaded, world>>
  BY <1>2, <1>3, <1>4 DEF graph, world
<1>5. ASSUME attempt[a].st = "SCHEDULING", n <= load.execs, NEW k \in NextRun(a, n),
             \/ /\ attempt' = [attempt EXCEPT ![a] = at]
                /\ exec' = [exec EXCEPT ![a][n] = started(k)]
                /\ task' = [task EXCEPT ![a][n][k] = "pending"]
                /\ ResetExecutionTimeout(a, n, "SCHEDULING")
                /\ Rolled(m, {})
             \/ /\ attempt' = [attempt EXCEPT ![a] = f(k).at]
                /\ exec' = [exec EXCEPT ![a][n] = f(k).ex]
                /\ journal' = (journal \ {m}) \cup f(k).muts
                /\ UNCHANGED <<task, timer>>
             \/ /\ task' = [task EXCEPT ![a][n][k] = "pending"]
                /\ UNCHANGED <<attempt, exec, timer, journal>>
      PROVE  /\ n \in Executions /\ k \in Runs /\ task[a][n][k] = "none"
             /\ \/ Begins(a, n, k) /\ Rolled(m, {})
                \/ IsRejected(a, n) /\ journal' = journal \ {m}
                \/ /\ UNCHANGED <<attempt, exec, timer, journal>>
                   /\ task' = [task EXCEPT ![a][n][k] = "pending"]
  <2>1. n \in Executions /\ n \in 0..MaxExec
    <3>1. attempt[a].cur \in 0..MaxExec
      BY <1>2 DEF AttemptRecords
    <3>2. load.execs \in 0..MaxExec /\ MaxExec \in Nat
      BY <1>1, DMAssumption
    <3> QED
      BY <1>5, <3>1, <3>2 DEF Executions
  <2>2. k \in Runs /\ task[a][n][k] = "none"
    BY <1>1, <1>5, LoadFacts DEF NextRun
  <2>4. /\ at \in AttemptRecords
        /\ at.st = "EXECUTING" /\ at.cur = n /\ at.deps = attempt[a].deps
    BY <1>2, <2>1, BegunAttempt, Zenon
  <2>5. /\ started(k) \in ExecutionRecords /\ [started(k) EXCEPT !.run = None] \in ExecutionRecords
        /\ started(k).st = "SCHEDULING" /\ started(k).tok = k
    BY <2>2 DEF ExecutionRecords, ExecutionStates
  <2>6. "REJECTED" \in Results
    BY DEF Results
  <2> HIDE DEF n, at, started
  <2>7. /\ f(k).at \in AttemptRecords /\ f(k).ex \in ExecutionRecords /\ f(k).muts = {}
        /\ f(k).at.st = "ABNORMAL_FINISHED" /\ f(k).at.cur = n /\ Terminal(f(k).ex.st)
    <3> DEFINE e == [started(k) EXCEPT !.run = None]
    <3>1. e \in ExecutionRecords /\ f(k) = Finishes(at, e, "REJECTED", a)
      BY <2>5
    <3> HIDE DEF e, f
    <3> QED
      BY <1>2, <2>4, <2>6, <3>1, FinishesFacts
  <2> HIDE DEF f
  <2>8. CASE /\ attempt' = [attempt EXCEPT ![a] = at]
             /\ exec' = [exec EXCEPT ![a][n] = started(k)]
             /\ task' = [task EXCEPT ![a][n][k] = "pending"]
             /\ ResetExecutionTimeout(a, n, "SCHEDULING")
             /\ Rolled(m, {})
    <3>1. attempt'[a] = at /\ OnlyAttempt(a)
      BY <1>1, <1>2, <2>4, <2>8, AttemptUpdate DEF OnlyAttempt
    <3>2. exec'[a][n] = started(k) /\ OnlyExecution(a, n)
      BY <1>1, <1>2, <2>1, <2>5, <2>8, ExecutionUpdate DEF OnlyExecution
    <3>3. ("SCHEDULING" \in load.timeouts => timer'[a][n] = "SCHEDULING") /\ OnlyTimer(a, n)
      BY <1>1, <1>2, <1>3, <2>1, <2>8, TimerReset DEF OnlyTimer
    <3> QED
      BY <2>1, <2>2, <2>4, <2>5, <2>8, <3>1, <3>2, <3>3 DEF Begins
  <2>9. CASE /\ attempt' = [attempt EXCEPT ![a] = f(k).at]
             /\ exec' = [exec EXCEPT ![a][n] = f(k).ex]
             /\ journal' = (journal \ {m}) \cup f(k).muts
             /\ UNCHANGED <<task, timer>>
    <3>1. attempt'[a] = f(k).at /\ OnlyAttempt(a)
      BY <1>1, <1>2, <2>7, <2>9, AttemptUpdate DEF OnlyAttempt
    <3>2. exec'[a][n] = f(k).ex /\ OnlyExecution(a, n)
      BY <1>1, <1>2, <2>1, <2>7, <2>9, ExecutionUpdate DEF OnlyExecution
    <3> QED
      BY <2>1, <2>2, <2>7, <2>9, <3>1, <3>2 DEF IsRejected
  <2> QED
    BY <1>5, <2>1, <2>2, <2>8, <2>9
<1>6. CASE /\ attempt[a].st = "SCHEDULING" /\ n <= load.execs
           /\ \E k \in NextRun(a, n) :
                \/ /\ attempt' = [attempt EXCEPT ![a] = at]
                   /\ exec' = [exec EXCEPT ![a][n] = started(k)]
                   /\ task' = [task EXCEPT ![a][n][k] = "pending"]
                   /\ ResetExecutionTimeout(a, n, "SCHEDULING")
                   /\ Rolled(m, {})
                \/ /\ attempt' = [attempt EXCEPT ![a] = f(k).at]
                   /\ exec' = [exec EXCEPT ![a][n] = f(k).ex]
                   /\ journal' = (journal \ {m}) \cup f(k).muts
                   /\ UNCHANGED <<task, timer>>
                \/ /\ task' = [task EXCEPT ![a][n][k] = "pending"]
                   /\ UNCHANGED <<attempt, exec, timer, journal>>
  <2>1. \E k : /\ n \in Executions /\ k \in Runs /\ task[a][n][k] = "none"
               /\ \/ Begins(a, n, k) /\ Rolled(m, {})
                  \/ IsRejected(a, n) /\ journal' = journal \ {m}
                  \/ /\ UNCHANGED <<attempt, exec, timer, journal>>
                     /\ task' = [task EXCEPT ![a][n][k] = "pending"]
    BY <1>5, <1>6
  <2> HIDE DEF at, started, f
  <2> QED
    BY <1>2, <1>3, <1>6, <2>1
<1> QED
  BY <1>4, <1>6 DEF ScheduleExecution

\* Execution n of attempt a ends, and the mutations new follow.
Ends(a, n, new) ==
    /\ attempt'[a].st \in {"SCHEDULING", "WAITING", "FINISHED", "ABNORMAL_FINISHED"}
    /\ attempt'[a].cur = n /\ OnlyAttempt(a)
    /\ Terminal(exec'[a][n].st) /\ exec'[a][n].tok = exec[a][n].tok /\ OnlyExecution(a, n)
    /\ OnlyTimer(a, n)
    /\ attempt'[a].st = "SCHEDULING" => attempt'[a].deps = <<>> /\ ScheduleExecutionMut(a) \in new
    /\ attempt'[a].st = "FINISHED" => attempt'[a].deps = <<>> /\ RecordCompletionMut(a) \in new
    /\ attempt'[a].st = "WAITING" => /\ attempt'[a].deps = attempt[a].deps
                                     /\ \E i \in DOMAIN attempt[a].deps : ~attempt[a].deps[i]
    /\ new \subseteq {ScheduleExecutionMut(a), RecordCompletionMut(a)}

\* FinishExecution drops the result, or ends the current execution.
LEMMA FinishStep ==
  ASSUME TypesOK, NEW m \in journal, m.type = "FinishExecution", FinishExecution(m)
  PROVE  /\ m.for \in Attempts /\ m.ex \in Executions /\ exec[m.for][m.ex].st # "DNE"
         /\ UNCHANGED <<quests, fwd, back, done, loaded, world>>
         /\ \/ /\ \/ attempt[m.for].st # "EXECUTING" \/ attempt[m.for].cur # m.ex
                  \/ Terminal(exec[m.for][m.ex].st)
               /\ Rolled(m, {}) /\ UNCHANGED <<attempt, exec, timer>>
            \/ /\ attempt[m.for].st = "EXECUTING" /\ attempt[m.for].cur = m.ex
               /\ \E new : Ends(m.for, m.ex, new) /\ Rolled(m, new)
<1> DEFINE a == m.for
           n == m.ex
           f == Finishes(attempt[a], exec[a][n], m.result, a)
<1>1. /\ m \in Mutations /\ load \in Loads
      /\ attempt \in [Attempts -> AttemptRecords]
      /\ exec \in [Attempts -> [Executions -> ExecutionRecords]]
      /\ timer \in [Attempts -> [Executions -> load.timeouts \cup {None, "gone"}]]
  BY DEF TypesOK
<1>2. /\ a \in Attempts /\ attempt[a] \in AttemptRecords /\ n \in Executions
      /\ exec[a][n] \in ExecutionRecords /\ m.result \in Results
  BY <1>1, MutationShapes
<1>3. /\ exec[a][n].st # "DNE" /\ UNCHANGED <<quests, fwd, back, done, loaded, world>>
      /\ load' = load
  BY DEF FinishExecution, world
<1>4. /\ f.at \in AttemptRecords /\ f.ex \in ExecutionRecords
      /\ f.at.st \in {"SCHEDULING", "WAITING", "FINISHED", "ABNORMAL_FINISHED"}
      /\ f.at.cur = attempt[a].cur /\ Terminal(f.ex.st) /\ f.ex.tok = exec[a][n].tok
      /\ f.muts \subseteq {ScheduleExecutionMut(a), RecordCompletionMut(a)}
      /\ f.at.st = "SCHEDULING" => f.at.deps = <<>> /\ ScheduleExecutionMut(a) \in f.muts
      /\ f.at.st = "FINISHED" => f.at.deps = <<>> /\ RecordCompletionMut(a) \in f.muts
      /\ f.at.st = "WAITING" => /\ f.at.deps = attempt[a].deps
                                /\ \E i \in DOMAIN attempt[a].deps : ~attempt[a].deps[i]
  BY <1>2, FinishesFacts
<1>5. CASE attempt[a].st # "EXECUTING" \/ attempt[a].cur # n \/ Terminal(exec[a][n].st)
  BY <1>2, <1>3, <1>5 DEF FinishExecution
<1>6. CASE ~(attempt[a].st # "EXECUTING" \/ attempt[a].cur # n \/ Terminal(exec[a][n].st))
  <2>1. /\ attempt' = [attempt EXCEPT ![a] = f.at]
        /\ exec' = [exec EXCEPT ![a][n] = f.ex]
        /\ ResetExecutionTimeout(a, n, f.ex.st)
        /\ Rolled(m, f.muts)
    BY <1>6 DEF FinishExecution
  <2> HIDE DEF f, a, n
  <2>2. attempt'[a] = f.at /\ OnlyAttempt(a)
    BY <1>1, <1>2, <1>4, <2>1, AttemptUpdate DEF OnlyAttempt
  <2>3. exec'[a][n] = f.ex /\ OnlyExecution(a, n)
    BY <1>1, <1>2, <1>4, <2>1, ExecutionUpdate DEF OnlyExecution
  <2>4. OnlyTimer(a, n)
    BY <1>1, <1>2, <1>3, <2>1, TimerReset DEF OnlyTimer
  <2>5. Ends(a, n, f.muts)
    BY <1>4, <1>6, <2>2, <2>3, <2>4 DEF Ends
  <2> QED
    BY <1>2, <1>3, <1>6, <2>1, <2>5 DEF a, n
<1> QED
  BY <1>5, <1>6

-----------------------------------------------------------------------------
(* Executions come and go one at a time.                                   *)

\* The states of an attempt and of its executions, as far as this is concerned,
\* are left alone.
SameExecutions(b) ==
    /\ attempt'[b].cur = attempt[b].cur
    /\ attempt'[b].st = "EXECUTING" <=> attempt[b].st = "EXECUTING"
    /\ \A n \in Executions :
         /\ exec'[b][n].st = "DNE" <=> exec[b][n].st = "DNE"
         /\ Terminal(exec'[b][n].st) <=> Terminal(exec[b][n].st)

\* Then the attempt's executions are as orderly as they were.
LEMMA ExecutionsKept ==
  ASSUME NEW b \in Attempts, ExecutionsAt(b), SameExecutions(b)
  PROVE  ExecutionsAt(b)'
  BY DEF ExecutionsAt, SameExecutions, Terminal

\* Nothing changes in attempts or executions.
LEMMA NothingMoves ==
  ASSUME ExecutionsOK, UNCHANGED <<attempt, exec>>
  PROVE  ExecutionsOK'
  BY DEF ExecutionsOK, ExecutionsAt, Terminal

\* Every step keeps the executions of every attempt in order.
LEMMA ExecutionsStep ==
  ASSUME TypesOK, TypesOK', ExecutionsOK, DMNext
  PROVE  ExecutionsOK'
<1>1. /\ attempt \in [Attempts -> AttemptRecords] /\ attempt' \in [Attempts -> AttemptRecords]
      /\ exec \in [Attempts -> [Executions -> ExecutionRecords]]
      /\ timer \in [Attempts -> [Executions -> load.timeouts \cup {None, "gone"}]]
      /\ journal \subseteq Mutations
      /\ call \in [Calls -> CallRecords \cup {NoCall}]
  BY DEF TypesOK
<1>2. \A b \in Attempts : attempt[b].cur \in Nat /\ attempt'[b].cur \in Nat
  <2> TAKE b \in Attempts
  <2>1. attempt[b].cur \in 0..MaxExec /\ attempt'[b].cur \in 0..MaxExec /\ MaxExec \in Nat
    BY <1>1, DMAssumption DEF AttemptRecords
  <2> QED
    BY <2>1
<1>3. Executions \subseteq Nat
  BY DMAssumption DEF Executions
<1>4. ASSUME \A b \in Attempts : SameExecutions(b) PROVE ExecutionsOK'
  BY <1>4, ExecutionsKept DEF ExecutionsOK
<1>5. ASSUME NEW a \in Attempts, OnlyAttempt(a), NEW n \in Executions, OnlyExecution(a, n),
             ExecutionsAt(a)'
      PROVE  ExecutionsOK'
  <2>1. \A b \in Attempts \ {a} : SameExecutions(b)
    BY <1>5 DEF OnlyAttempt, OnlyExecution, SameExecutions
  <2>2. \A b \in Attempts \ {a} : ExecutionsAt(b)'
    BY <2>1, ExecutionsKept DEF ExecutionsOK
  <2> QED
    BY <1>5, <2>2 DEF ExecutionsOK
<1>6. ASSUME NEW m \in journal, m.type = "EnsureAttempt", EnsureAttempt(m) PROVE ExecutionsOK'
  <2>1. m.for \in Attempts
    BY <1>1, <1>6, MutationShapes
  <2>2. /\ exec' = exec
        /\ \/ attempt' = attempt
           \/ /\ attempt[m.for].st = "DNE"
              /\ attempt' = [attempt EXCEPT ![m.for].st = "SCHEDULING"]
    BY <1>6 DEF EnsureAttempt
  <2>3. \A b \in Attempts : /\ attempt'[b].cur = attempt[b].cur
                            /\ attempt'[b].st = "EXECUTING" <=> attempt[b].st = "EXECUTING"
    <3>1. CASE attempt' = attempt
      BY <3>1
    <3>2. CASE attempt' # attempt
      <4> SUFFICES ASSUME NEW b \in Attempts
                   PROVE  /\ attempt'[b].cur = attempt[b].cur
                          /\ attempt'[b].st = "EXECUTING" <=> attempt[b].st = "EXECUTING"
        OBVIOUS
      <4>1. CASE b # m.for
        BY <1>1, <2>1, <2>2, <3>2, <4>1
      <4>2. CASE b = m.for
        <5>1. attempt'[b] = [attempt[b] EXCEPT !.st = "SCHEDULING"]
          BY <1>1, <2>2, <3>2, <4>2
        <5>2. attempt[b] \in AttemptRecords
          BY <1>1
        <5> QED
          BY <2>2, <3>2, <4>2, <5>1, <5>2 DEF AttemptRecords
      <4> QED
        BY <4>1, <4>2
    <3> QED
      BY <3>1, <3>2
  <2> QED
    BY <1>4, <2>2, <2>3 DEF SameExecutions
<1>7. ASSUME NEW m \in journal, m.type = "ScheduleExecution", ScheduleExecution(m)
      PROVE  ExecutionsOK'
  <2> DEFINE a == m.for
  <2>1. a \in Attempts
    BY <1>7, ScheduleStep
  <2>2. ASSUME NEW n \in Executions, NEW k, attempt[a].st = "SCHEDULING",
               n = attempt[a].cur + 1, Begins(a, n, k)
        PROVE  ExecutionsOK'
    <3>1. ExecutionsAt(a)
      BY <2>1 DEF ExecutionsOK
    <3>2. ExecutionsAt(a)'
      BY <1>2, <1>3, <2>1, <2>2, <3>1 DEF ExecutionsAt, Begins, OnlyExecution, Terminal
    <3> QED
      BY <1>5, <2>1, <2>2, <3>2 DEF Begins
  <2>3. ASSUME NEW n \in Executions, attempt[a].st = "SCHEDULING",
               n = attempt[a].cur + 1, IsRejected(a, n)
        PROVE  ExecutionsOK'
    <3>1. ExecutionsAt(a)
      BY <2>1 DEF ExecutionsOK
    <3>2. ExecutionsAt(a)'
      BY <1>2, <1>3, <2>1, <2>3, <3>1 DEF ExecutionsAt, IsRejected, OnlyExecution, Terminal
    <3> QED
      BY <1>5, <2>1, <2>3, <3>2 DEF IsRejected
  <2> QED
    BY <1>7, <2>2, <2>3, ScheduleStep, NothingMoves
<1>8. ASSUME NEW m \in journal, m.type = "FinishExecution", FinishExecution(m)
      PROVE  ExecutionsOK'
  <2> DEFINE a == m.for
             n == m.ex
  <2>1. a \in Attempts /\ n \in Executions
    BY <1>8, FinishStep
  <2>2. ASSUME attempt[a].cur = n, NEW new, Ends(a, n, new)
        PROVE  ExecutionsOK'
    <3>1. ExecutionsAt(a)
      BY <2>1 DEF ExecutionsOK
    <3>2. ExecutionsAt(a)'
      BY <1>2, <1>3, <2>1, <2>2, <3>1 DEF ExecutionsAt, Ends, OnlyExecution, Terminal
    <3> QED
      BY <1>5, <2>1, <2>2, <3>2 DEF Ends
  <2> QED
    BY <1>8, <2>2, FinishStep, NothingMoves
<1>9. ASSUME NEW m \in journal, m.type = "AckFwdDep", AckFwdDep(m) PROVE ExecutionsOK'
  <2>1. exec' = exec
    BY <1>9 DEF AckFwdDep
  <2>2. m.from \in Attempts
    BY <1>1, <1>9, MutationShapes
  <2>3. CASE UNCHANGED attempt
    BY <2>1, <2>3, NothingMoves
  <2>4. ASSUME NEW f \in fwd, NEW wake \in BOOLEAN, f.bit \in DOMAIN attempt[m.from].deps,
               wake => attempt[m.from].st = "WAITING",
               attempt' = [attempt EXCEPT
                             ![m.from] = AckedAttempt(attempt[m.from], f.bit, wake)]
        PROVE  ExecutionsOK'
    <3>1. attempt[m.from] \in AttemptRecords
      BY <1>1, <2>2
    <3>2. /\ AckedAttempt(attempt[m.from], f.bit, wake) \in AttemptRecords
          /\ AckedAttempt(attempt[m.from], f.bit, wake).cur = attempt[m.from].cur
          /\ AckedAttempt(attempt[m.from], f.bit, wake).st =
               IF wake THEN "SCHEDULING" ELSE attempt[m.from].st
      BY <2>4, <3>1, AckedFacts
    <3>3. \A b \in Attempts : SameExecutions(b)
      BY <1>1, <2>1, <2>2, <2>4, <3>2, AttemptUpdate DEF SameExecutions
    <3> QED
      BY <1>4, <3>3
  <2> QED
    BY <1>9, <2>3, <2>4, AckStep
<1>10. ASSUME NEW m \in journal, RollForward(m) PROVE ExecutionsOK'
  <2>1. CASE UNCHANGED <<attempt, exec>>
    BY <2>1, NothingMoves
  <2>2. \/ UNCHANGED <<attempt, exec>>
        \/ m.type = "EnsureAttempt" /\ EnsureAttempt(m)
        \/ m.type = "ScheduleExecution" /\ ScheduleExecution(m)
        \/ m.type = "FinishExecution" /\ FinishExecution(m)
        \/ m.type = "AckFwdDep" /\ AckFwdDep(m)
    BY <1>10 DEF RollForward, EnsureQuestAttempts, MergeQuest, TimeoutExecution, AddBackDep,
                RecordCompletion, graph
  <2> QED
    BY <1>6, <1>7, <1>8, <1>9, <2>1, <2>2
<1>11. ASSUME NEW a \in Attempts, NEW n \in Executions, NEW k, Authentic(a, n, k), Stops(a, n),
              \A b \in Attempts : attempt'[b].st = attempt[b].st /\ attempt'[b].cur = attempt[b].cur,
              load' = load
       PROVE  ExecutionsOK'
  <2>1. exec'[a][n].st = "STOPPING" /\ OnlyExecution(a, n)
    BY <1>1, <1>11, StopsFacts DEF OnlyExecution
  <2>2. exec[a][n].st = "RUNNING"
    BY <1>11 DEF Authentic
  <2>3. \A b \in Attempts : SameExecutions(b)
    BY <1>11, <2>1, <2>2 DEF SameExecutions, OnlyExecution, Terminal
  <2> QED
    BY <1>4, <2>3
<1>12. ASSUME NEW c \in Calls, DecideCall(c) PROVE ExecutionsOK'
  <2>1. CASE UNCHANGED <<attempt, exec>>
    BY <2>1, NothingMoves
  <2>2. CASE Authentic(call[c].from, call[c].ex, call[c].run) /\ AddDeps(call[c])
    <3> DEFINE a == call[c].from
    <3>1. a \in Attempts /\ call[c].ex \in Executions /\ load' = load
      BY <1>1, <1>12, CallFacts DEF DecideCall
    <3>2. \A b \in Attempts : attempt'[b].st = attempt[b].st /\ attempt'[b].cur = attempt[b].cur
      <4>1. \/ attempt' = attempt
            \/ \E deps : attempt' = [attempt EXCEPT ![a].deps = deps]
        BY <2>2 DEF AddDeps
      <4>2. ASSUME NEW deps, attempt' = [attempt EXCEPT ![a].deps = deps]
            PROVE  \A b \in Attempts : attempt'[b].st = attempt[b].st /\ attempt'[b].cur = attempt[b].cur
        <5> HIDE DEF a
        <5>1. attempt'[a] = [attempt[a] EXCEPT !.deps = deps]
          BY <1>1, <3>1, <4>2
        <5>2. attempt[a] \in AttemptRecords
          BY <1>1, <3>1
        <5>3. attempt'[a].st = attempt[a].st /\ attempt'[a].cur = attempt[a].cur
          BY <5>1, <5>2 DEF AttemptRecords
        <5>4. \A b \in Attempts \ {a} : attempt'[b] = attempt[b]
          BY <1>1, <3>1, <4>2
        <5> QED
          BY <5>3, <5>4
      <4> QED
        BY <4>1, <4>2
    <3>3. Stops(a, call[c].ex)
      BY <2>2 DEF AddDeps
    <3> QED
      BY <1>11, <2>2, <3>1, <3>2, <3>3
  <2> QED
    BY <1>12, <2>1, <2>2 DEF DecideCall, AddFinishedDeps
<1>13. ASSUME NEW a, NEW n, NEW k, IsTask(a, n, k), FinishAttempt(a, n, k) PROVE ExecutionsOK'
  <2>1. a \in Attempts /\ n \in Executions
    BY <1>13 DEF IsTask
  <2>2. /\ Authentic(a, n, k) /\ Stops(a, n) /\ load' = load
        /\ attempt' = [attempt EXCEPT ![a].data = TRUE]
    BY <1>13 DEF FinishAttempt, world
  <2>3. \A b \in Attempts : attempt'[b].st = attempt[b].st /\ attempt'[b].cur = attempt[b].cur
    <3>1. attempt'[a] = [attempt[a] EXCEPT !.data = TRUE] /\ attempt[a] \in AttemptRecords
      BY <1>1, <2>1, <2>2
    <3>2. attempt'[a].st = attempt[a].st /\ attempt'[a].cur = attempt[a].cur
      BY <3>1 DEF AttemptRecords
    <3>3. \A b \in Attempts \ {a} : attempt'[b] = attempt[b]
      BY <1>1, <2>1, <2>2
    <3> QED
      BY <3>2, <3>3
  <2> QED
    BY <1>11, <2>1, <2>2, <2>3
<1>14. ASSUME NEW a, NEW n, NEW k, IsTask(a, n, k), ActivateExecution(a, n, k)
       PROVE  ExecutionsOK'
  <2>1. a \in Attempts /\ n \in Executions /\ k \in Runs
    BY <1>14 DEF IsTask
  <2>2. exec'[a][n].st = "RUNNING" /\ OnlyExecution(a, n)
    BY <1>1, <1>14, <2>1, ActivateFacts DEF OnlyExecution
  <2>3. exec[a][n].st \in {"SCHEDULING", "RUNNING"} /\ attempt' = attempt
    BY <1>14 DEF ActivateExecution, VerifiesActivation
  <2>4. \A b \in Attempts : SameExecutions(b)
    BY <2>2, <2>3 DEF SameExecutions, OnlyExecution, Terminal
  <2> QED
    BY <1>4, <2>4
<1>15. CASE UNCHANGED <<attempt, exec>>
  BY <1>15, NothingMoves
<1>16. \/ UNCHANGED <<attempt, exec>>
       \/ \E m \in journal : RollForward(m)
       \/ \E c \in Calls : DecideCall(c)
       \/ \E a, n, k : IsTask(a, n, k) /\ (ActivateExecution(a, n, k) \/ FinishAttempt(a, n, k))
  <2>1. \A q, S : journalQuestAttempts(q, S) => UNCHANGED <<attempt, exec>>
    BY DEF journalQuestAttempts, graph
  <2>2. \A c : doGraphWalk(c) \/ depsFromMissing(c) => UNCHANGED <<attempt, exec>>
    BY DEF doGraphWalk, depsFromMissing, graph
  <2>3. \A a, n, s : LoadedTimer(a, n, s) => UNCHANGED <<attempt, exec>>
    BY DEF LoadedTimer, graph
  <2>4. \A a, n : TimerFires(a, n) \/ LoadTimer(a, n) => UNCHANGED <<attempt, exec>>
    BY DEF TimerFires, LoadTimer, graph
  <2>5. \A a, n, k, c, want : EnsureGraphData(c, a, n, k, want) => UNCHANGED <<attempt, exec>>
    BY DEF EnsureGraphData, graph
  <2>6. \A a, n, k, r : TaskEnds(a, n, k, r) \/ NotifyExecution(a, n, k)
                           => UNCHANGED <<attempt, exec>>
    BY DEF TaskEnds, NotifyExecution, graph
  <2> QED
    BY <2>1, <2>2, <2>3, <2>4, <2>5, <2>6, Steps, Zenon
<1> QED
  BY <1>10, <1>12, <1>13, <1>14, <1>15, <1>16

-----------------------------------------------------------------------------
(* Dependencies, tasks, and attempts that are to be executed.              *)

\* AddBackDep and RecordCompletion replace back dependencies under their keys.
LEMMA BackUnique ==
  ASSUME TypesOK, EdgesOK, NEW m, AddBackDep(m) \/ RecordCompletion(m)
  PROVE  \A b, c \in back' : b.from = c.from /\ b.to = c.to => b = c
<1>1. back \subseteq BackDeps
  BY DEF TypesOK, BackDeps
<1>2. CASE AddBackDep(m)
  <2> DEFINE x == [from |-> m.from, to |-> m.to, propagated |-> m.to \in done]
  <2>1. \A b \in back' : b = x \/ (b \in back /\ ~(b.from = m.from /\ b.to = m.to))
    BY <1>2 DEF AddBackDep
  <2>2. x.from = m.from /\ x.to = m.to
    OBVIOUS
  <2> HIDE DEF x
  <2> QED
    BY <2>1, <2>2 DEF EdgesOK
<1>3. CASE RecordCompletion(m)
  <2> DEFINE blocked == {b \in back : b.to = m.for /\ ~b.propagated}
             batch == {b \in blocked :
                         Cardinality({c \in blocked : c.from < b.from}) < CompletionLimit}
             up(b) == [b EXCEPT !.propagated = TRUE]
  <2>1. back' = (back \ batch) \cup {up(b) : b \in batch}
    BY <1>3 DEF RecordCompletion
  <2>2. batch \subseteq back
    OBVIOUS
  <2> HIDE DEF batch
  <2>3. \A b \in back : up(b).from = b.from /\ up(b).to = b.to
    BY <1>1 DEF BackDeps
  <2> HIDE DEF up
  <2>4. \A b \in back' : \E o \in back : /\ o.from = b.from /\ o.to = b.to
                                         /\ b = IF o \in batch THEN up(o) ELSE o
    BY <2>1, <2>2, <2>3
  <2> QED
    BY <2>4 DEF EdgesOK
<1> QED
  BY <1>2, <1>3

\* EnsureGraphData declares dependencies that do not exist.
LEMMA FwdUnique ==
  ASSUME TypesOK, EdgesOK, NEW c \in Calls, DecideCall(c)
  PROVE  /\ \A f, g \in fwd' : f.from = g.from /\ f.to = g.to => f = g
         /\ fwd \subseteq fwd'
<1> DEFINE x == call[c]
           new == filterExisting(x.from, x.missing)
<1>1. /\ x.st = "read" /\ x.missing # None
      /\ \/ UNCHANGED fwd
         \/ fwd' = fwd \cup {f \in FwdDeps(x.from, x.missing) : f.to \in new}
         \/ fwd' = fwd \cup FwdDeps(x.from, new)
  BY DEF DecideCall, AddDeps, AddFinishedDeps
<1>2. x.from \in Attempts /\ x.missing \in SUBSET Attempts
  BY <1>1, CallFacts DEF TypesOK
<1>3. new \in SUBSET Attempts /\ \A d \in new : ~HasDep(x.from, d)
  BY <1>2 DEF filterExisting
<1> HIDE DEF x, new
<1>4. attempt \in [Attempts -> AttemptRecords]
  BY DEF TypesOK
<1>5. ASSUME NEW D \in SUBSET Attempts
      PROVE  /\ \A f \in FwdDeps(x.from, D) : f.from = x.from /\ f.to \in D
             /\ \A f, g \in FwdDeps(x.from, D) : f.to = g.to => f = g
  BY <1>2, <1>4, FwdDepsFacts
<1>6. ASSUME NEW N, fwd' = fwd \cup N, \A f \in N : f.from = x.from /\ f.to \in new,
             \A f, g \in N : f.to = g.to => f = g
      PROVE  \A f, g \in fwd' : f.from = g.from /\ f.to = g.to => f = g
  BY <1>3, <1>6 DEF EdgesOK, HasDep
<1>7. CASE UNCHANGED fwd
  BY <1>7 DEF EdgesOK
<1>8. CASE fwd' = fwd \cup {f \in FwdDeps(x.from, x.missing) : f.to \in new}
  <2> DEFINE N == {f \in FwdDeps(x.from, x.missing) : f.to \in new}
  <2>1. /\ \A f \in N : f.from = x.from /\ f.to \in new
        /\ \A f, g \in N : f.to = g.to => f = g
    BY <1>2, <1>5
  <2> HIDE DEF N
  <2> QED
    BY <1>6, <1>8, <2>1 DEF N
<1>9. CASE fwd' = fwd \cup FwdDeps(x.from, new)
  BY <1>3, <1>5, <1>6, <1>9
<1> QED
  BY <1>1, <1>7, <1>8, <1>9

\* Every step keeps one FwdDep and one BackDep per edge, and no FwdDep is lost.
LEMMA EdgesStep ==
  ASSUME TypesOK, EdgesOK, DMNext
  PROVE  EdgesOK' /\ fwd \subseteq fwd'
<1>1. CASE UNCHANGED <<fwd, back>>
  BY <1>1 DEF EdgesOK
<1>2. ASSUME NEW c \in Calls, DecideCall(c) PROVE EdgesOK' /\ fwd \subseteq fwd'
  <2>1. back' = back
    BY <1>2 DEF DecideCall
  <2> QED
    BY <1>2, <2>1, FwdUnique DEF EdgesOK
<1>3. ASSUME NEW m, AddBackDep(m) \/ RecordCompletion(m) PROVE EdgesOK' /\ fwd \subseteq fwd'
  <2>1. fwd' = fwd
    BY <1>3 DEF AddBackDep, RecordCompletion
  <2> QED
    BY <1>3, <2>1, BackUnique DEF EdgesOK
<1>4. ASSUME NEW m \in journal, RollForward(m) PROVE EdgesOK' /\ fwd \subseteq fwd'
  <2>1. UNCHANGED <<fwd, back>> \/ AddBackDep(m) \/ RecordCompletion(m)
    BY <1>4 DEF RollForward, EnsureQuestAttempts, MergeQuest, EnsureAttempt, ScheduleExecution,
               FinishExecution, TimeoutExecution, AckFwdDep, graph
  <2> QED
    BY <1>1, <1>3, <2>1
<1>5. \/ UNCHANGED <<fwd, back>>
      \/ \E m \in journal : RollForward(m)
      \/ \E c \in Calls : DecideCall(c)
  <2>1. \A q, S : journalQuestAttempts(q, S) => UNCHANGED <<fwd, back>>
    BY DEF journalQuestAttempts, graph
  <2>2. \A c : doGraphWalk(c) \/ depsFromMissing(c) => UNCHANGED <<fwd, back>>
    BY DEF doGraphWalk, depsFromMissing, graph
  <2>3. \A a, n, s : LoadedTimer(a, n, s) => UNCHANGED <<fwd, back>>
    BY DEF LoadedTimer, graph
  <2>4. \A a, n : TimerFires(a, n) \/ LoadTimer(a, n) => UNCHANGED <<fwd, back>>
    BY DEF TimerFires, LoadTimer, graph
  <2>5. \A a, n, k, c, want : EnsureGraphData(c, a, n, k, want) => UNCHANGED <<fwd, back>>
    BY DEF EnsureGraphData, graph
  <2>6. \A a, n, k, r : TaskEnds(a, n, k, r) \/ NotifyExecution(a, n, k)
                           => UNCHANGED <<fwd, back>>
    BY DEF TaskEnds, NotifyExecution, graph
  <2>7. \A a, n, k : ActivateExecution(a, n, k) \/ FinishAttempt(a, n, k)
                       => UNCHANGED <<fwd, back>>
    BY DEF ActivateExecution, FinishAttempt
  <2> QED
    BY <2>1, <2>2, <2>3, <2>4, <2>5, <2>6, <2>7, Steps, Zenon
<1> QED
  BY <1>1, <1>2, <1>4, <1>5

\* Tasks keep within their execution's token.
LEMMA TasksStep ==
  ASSUME TypesOK, TypesOK', ExecutionsOK, TasksOK, DMNext
  PROVE  TasksOK'
<1>1. /\ exec \in [Attempts -> [Executions -> ExecutionRecords]]
      /\ timer \in [Attempts -> [Executions -> load.timeouts \cup {None, "gone"}]]
      /\ task \in [Attempts -> [Executions -> [Runs -> TaskStates]]]
      /\ notes \subseteq Attempts \X Executions \X Runs
      /\ call \in [Calls -> CallRecords \cup {NoCall}]
  BY DEF TypesOK
<1>2. CASE UNCHANGED <<exec, task, notes>>
  BY <1>2 DEF TasksOK
<1>3. ASSUME NEW a \in Attempts, NEW n \in Executions, OnlyExecution(a, n),
             UNCHANGED <<task, notes>>,
             \A k \in Runs : task[a][n][k] = "active" =>
               exec'[a][n].st # "DNE" /\ exec'[a][n].tok \in {k, None}
      PROVE  TasksOK'
  BY <1>3 DEF TasksOK, OnlyExecution
<1>4. \A a \in Attempts, n \in Executions, k \in Runs : exec[a][n].st = "DNE" =>
        task[a][n][k] # "active"
  BY DEF TasksOK
<1>5. \A s \in Results : s # "active" /\ s # "none" /\ s # "pending"
  BY DEF Results, Retriable
<1>6. \A k \in Runs : k # None
  BY DMAssumption DEF Runs
<1>7. ASSUME NEW a \in Attempts, NEW n \in Executions, NEW k \in Runs, NEW s \in TaskStates,
             task' = [task EXCEPT ![a][n][k] = s]
      PROVE  task'[a][n][k] = s /\ OnlyTask(a, n, k)
  BY <1>1, <1>7, TaskUpdate DEF OnlyTask
<1>8. ASSUME NEW m \in journal, m.type = "ScheduleExecution", ScheduleExecution(m)
      PROVE  TasksOK'
  <2> DEFINE a == m.for
  <2>1. a \in Attempts /\ notes' = notes
    BY <1>8, ScheduleStep
  <2>2. ASSUME NEW n \in Executions, n = attempt[a].cur + 1
        PROVE  exec[a][n].st = "DNE"
    <3>1. attempt[a].cur \in 0..MaxExec /\ MaxExec \in Nat
      BY <2>1, DMAssumption DEF TypesOK, AttemptRecords
    <3> QED
      BY <2>1, <2>2, <3>1 DEF ExecutionsOK, ExecutionsAt
  <2>3. ASSUME NEW n \in Executions, NEW k \in Runs, n = attempt[a].cur + 1,
               task[a][n][k] = "none", task' = [task EXCEPT ![a][n][k] = "pending"],
               OnlyExecution(a, n) \/ exec' = exec
        PROVE  TasksOK'
    <3> HIDE DEF a
    <3>1. task'[a][n][k] = "pending" /\ OnlyTask(a, n, k)
      <4>1. "pending" \in TaskStates /\ a \in Attempts
        BY <2>1 DEF TaskStates
      <4>2. task' = [task EXCEPT ![a][n][k] = "pending"]
        BY <2>3
      <4> QED
        BY <1>7, <4>1, <4>2
    <3>2. exec[a][n].st = "DNE"
      BY <2>2, <2>3
    <3>3. ASSUME NEW b \in Attempts, NEW i \in Executions, NEW j \in Runs,
                 task'[b][i][j] = "active"
          PROVE  exec'[b][i].st # "DNE" /\ exec'[b][i].tok \in {j, None}
      <4>1. task[b][i][j] = "active"
        BY <3>1, <3>3 DEF OnlyTask
      <4>2. b # a \/ i # n
        BY <1>4, <2>1, <3>2, <4>1
      <4> QED
        BY <2>3, <4>1, <4>2 DEF TasksOK, OnlyExecution
    <3>4. ASSUME NEW t \in notes PROVE task'[t[1]][t[2]][t[3]] \in Results
      <4>1. task[t[1]][t[2]][t[3]] \in Results
        BY DEF TasksOK
      <4>2. t[1] \in Attempts /\ t[2] \in Executions /\ t[3] \in Runs
        BY <1>1
      <4>3. t[1] # a \/ t[2] # n \/ t[3] # k
        BY <1>5, <2>3, <4>1
      <4> QED
        BY <3>1, <4>1, <4>2, <4>3 DEF OnlyTask
    <3> QED
      BY <2>1, <3>3, <3>4 DEF TasksOK
  <2>4. ASSUME NEW n \in Executions, n = attempt[a].cur + 1, IsRejected(a, n)
        PROVE  TasksOK'
    BY <1>3, <1>4, <2>1, <2>2, <2>4 DEF IsRejected
  <2>5. CASE UNCHANGED <<exec, task>>
    BY <1>2, <2>1, <2>5
  <2> QED
    BY <1>8, <2>3, <2>4, <2>5, ScheduleStep DEF Begins
<1>9. ASSUME NEW m \in journal, m.type = "FinishExecution", FinishExecution(m)
      PROVE  TasksOK'
  <2>1. m.for \in Attempts /\ m.ex \in Executions /\ UNCHANGED <<task, notes>>
    BY <1>9, FinishStep DEF world
  <2>2. ASSUME NEW new, Ends(m.for, m.ex, new) PROVE TasksOK'
    <3>1. /\ OnlyExecution(m.for, m.ex) /\ exec'[m.for][m.ex].st # "DNE"
          /\ exec'[m.for][m.ex].tok = exec[m.for][m.ex].tok
      BY <2>2 DEF Ends, Terminal
    <3> QED
      BY <1>3, <2>1, <3>1 DEF TasksOK
  <2> QED
    BY <1>2, <1>9, <2>1, <2>2, FinishStep
<1>10. ASSUME NEW m \in journal, RollForward(m) PROVE TasksOK'
  <2>1. \/ UNCHANGED <<exec, task, notes>>
        \/ m.type = "ScheduleExecution" /\ ScheduleExecution(m)
        \/ m.type = "FinishExecution" /\ FinishExecution(m)
    BY <1>10 DEF RollForward, EnsureQuestAttempts, MergeQuest, EnsureAttempt, TimeoutExecution,
                AddBackDep, RecordCompletion, AckFwdDep, graph, world
  <2> QED
    BY <1>2, <1>8, <1>9, <2>1
<1>11. ASSUME NEW a \in Attempts, NEW n \in Executions, Stops(a, n), load' = load,
              UNCHANGED <<task, notes>>
       PROVE  TasksOK'
  <2>1. exec'[a][n].st = "STOPPING" /\ exec'[a][n].tok = None /\ OnlyExecution(a, n)
    BY <1>1, <1>11, StopsFacts DEF OnlyExecution
  <2> QED
    BY <1>3, <1>11, <2>1
<1>12. ASSUME NEW c \in Calls, DecideCall(c) PROVE TasksOK'
  <2>1. UNCHANGED <<task, notes>> /\ load' = load
    BY <1>12 DEF DecideCall
  <2>2. exec' = exec \/ Stops(call[c].from, call[c].ex)
    BY <1>12 DEF DecideCall, AddDeps, AddFinishedDeps
  <2>3. call[c].from \in Attempts /\ call[c].ex \in Executions
    BY <1>1, <1>12, CallFacts DEF DecideCall
  <2> QED
    BY <1>2, <1>11, <2>1, <2>2, <2>3
<1>13. ASSUME NEW a, NEW n, NEW k, IsTask(a, n, k), FinishAttempt(a, n, k) PROVE TasksOK'
  BY <1>11, <1>13 DEF FinishAttempt, IsTask, world
<1>14. ASSUME NEW a, NEW n, NEW k, IsTask(a, n, k), ActivateExecution(a, n, k) PROVE TasksOK'
  <2>1. a \in Attempts /\ n \in Executions /\ k \in Runs
    BY <1>14 DEF IsTask
  <2>2. /\ exec'[a][n].st = "RUNNING" /\ exec'[a][n].tok = k /\ OnlyExecution(a, n)
    BY <1>1, <1>14, <2>1, ActivateFacts DEF OnlyExecution
  <2>3. /\ task[a][n][k] = "pending" /\ exec[a][n].tok = k /\ notes' = notes
        /\ task' = task \/ task' = [task EXCEPT ![a][n][k] = "active"]
    BY <1>14 DEF ActivateExecution, VerifiesActivation
  <2>4. \A j \in Runs : task[a][n][j] # "active"
    BY <1>6, <2>1, <2>3 DEF TasksOK
  <2>5. CASE task' = task
    BY <1>3, <2>1, <2>2, <2>3, <2>4, <2>5
  <2>6. CASE task' = [task EXCEPT ![a][n][k] = "active"]
    <3>1. task'[a][n][k] = "active" /\ OnlyTask(a, n, k)
      BY <1>7, <2>1, <2>6 DEF TaskStates
    <3>2. ASSUME NEW b \in Attempts, NEW i \in Executions, NEW j \in Runs,
                 task'[b][i][j] = "active"
          PROVE  exec'[b][i].st # "DNE" /\ exec'[b][i].tok \in {j, None}
      <4>1. CASE b = a /\ i = n
        BY <2>1, <2>2, <2>4, <3>1, <3>2, <4>1 DEF OnlyTask
      <4>2. CASE b # a \/ i # n
        BY <2>2, <3>1, <3>2, <4>2 DEF OnlyTask, OnlyExecution, TasksOK
      <4> QED
        BY <4>1, <4>2
    <3>3. ASSUME NEW t \in notes PROVE task'[t[1]][t[2]][t[3]] \in Results
      <4>1. task[t[1]][t[2]][t[3]] \in Results
        BY DEF TasksOK
      <4>2. t[1] \in Attempts /\ t[2] \in Executions /\ t[3] \in Runs
        BY <1>1
      <4>3. t[1] # a \/ t[2] # n \/ t[3] # k
        BY <1>5, <2>3, <4>1
      <4> QED
        BY <3>1, <4>1, <4>2, <4>3 DEF OnlyTask
    <3> QED
      BY <2>3, <3>2, <3>3 DEF TasksOK
  <2> QED
    BY <2>3, <2>5, <2>6
<1>15. ASSUME NEW a, NEW n, NEW k, IsTask(a, n, k), NEW r \in Results, TaskEnds(a, n, k, r)
       PROVE  TasksOK'
  <2>1. a \in Attempts /\ n \in Executions /\ k \in Runs
    BY <1>15 DEF IsTask
  <2>2. /\ task' = [task EXCEPT ![a][n][k] = r] /\ notes' \subseteq notes \cup {<<a, n, k>>}
        /\ exec' = exec
    BY <1>15 DEF TaskEnds, graph
  <2>3. task'[a][n][k] = r /\ OnlyTask(a, n, k)
    BY <1>7, <2>1, <2>2 DEF TaskStates
  <2>4. ASSUME NEW b \in Attempts, NEW i \in Executions, NEW j \in Runs,
               task'[b][i][j] = "active"
        PROVE  exec'[b][i].st # "DNE" /\ exec'[b][i].tok \in {j, None}
    BY <1>5, <2>2, <2>3, <2>4 DEF OnlyTask, TasksOK
  <2>5. ASSUME NEW t \in notes' PROVE task'[t[1]][t[2]][t[3]] \in Results
    <3>1. CASE t = <<a, n, k>>
      BY <2>3, <3>1
    <3>2. CASE t \in notes
      <4>1. task[t[1]][t[2]][t[3]] \in Results
        BY <3>2 DEF TasksOK
      <4>2. t[1] \in Attempts /\ t[2] \in Executions /\ t[3] \in Runs
        BY <1>1, <3>2
      <4> QED
        BY <2>3, <4>1, <4>2 DEF OnlyTask
    <3> QED
      BY <2>2, <3>1, <3>2
  <2> QED
    BY <2>4, <2>5 DEF TasksOK
<1>16. ASSUME NEW a, NEW n, NEW k, NotifyExecution(a, n, k) PROVE TasksOK'
  <2>1. notes' \subseteq notes /\ UNCHANGED <<exec, task>>
    BY <1>16 DEF NotifyExecution, graph
  <2> QED
    BY <2>1 DEF TasksOK
<1>17. \/ UNCHANGED <<exec, task, notes>>
       \/ \E m \in journal : RollForward(m)
       \/ \E c \in Calls : DecideCall(c)
       \/ \E a, n, k : IsTask(a, n, k) /\
            \/ ActivateExecution(a, n, k) \/ FinishAttempt(a, n, k)
            \/ \E r \in Results : TaskEnds(a, n, k, r)
            \/ NotifyExecution(a, n, k)
  <2>1. \A q, S : journalQuestAttempts(q, S) => UNCHANGED <<exec, task, notes>>
    BY DEF journalQuestAttempts, graph, world
  <2>2. \A c : doGraphWalk(c) \/ depsFromMissing(c) => UNCHANGED <<exec, task, notes>>
    BY DEF doGraphWalk, depsFromMissing, graph
  <2>3. \A a, n, s : LoadedTimer(a, n, s) => UNCHANGED <<exec, task, notes>>
    BY DEF LoadedTimer, graph, world
  <2>4. \A a, n : TimerFires(a, n) \/ LoadTimer(a, n) => UNCHANGED <<exec, task, notes>>
    BY DEF TimerFires, LoadTimer, graph, world
  <2>5. \A a, n, k, c, want : EnsureGraphData(c, a, n, k, want) => UNCHANGED <<exec, task, notes>>
    BY DEF EnsureGraphData, graph
  <2> QED
    BY <2>1, <2>2, <2>3, <2>4, <2>5, Steps, Zenon
<1> QED
  BY <1>2, <1>10, <1>12, <1>13, <1>14, <1>15, <1>16, <1>17

\* Only the task that has the token becomes active, when none is.
LEMMA OneActiveStep ==
  ASSUME TypesOK, TasksOK, OneActive, DMNext
  PROVE  OneActive'
<1>1. task \in [Attempts -> [Executions -> [Runs -> TaskStates]]]
  BY DEF TypesOK
<1>2. ASSUME \A a \in Attempts, n \in Executions, k \in Runs :
               task'[a][n][k] = "active" => task[a][n][k] = "active"
      PROVE  OneActive'
  BY <1>2 DEF OneActive
<1>3. ASSUME NEW a \in Attempts, NEW n \in Executions, NEW k \in Runs, NEW s \in TaskStates,
             task' = [task EXCEPT ![a][n][k] = s]
      PROVE  task'[a][n][k] = s /\ OnlyTask(a, n, k)
  BY <1>1, <1>3, TaskUpdate DEF OnlyTask
<1>4. ASSUME NEW a \in Attempts, NEW n \in Executions, NEW k \in Runs, NEW s \in TaskStates,
             task' = [task EXCEPT ![a][n][k] = s], s # "active"
      PROVE  OneActive'
  BY <1>2, <1>3, <1>4 DEF OnlyTask
<1>5. CASE UNCHANGED task
  BY <1>2, <1>5
<1>6. ASSUME NEW m \in journal, RollForward(m) PROVE OneActive'
  <2>1. \/ UNCHANGED task
        \/ m.type = "ScheduleExecution" /\ ScheduleExecution(m)
    BY <1>6 DEF RollForward, EnsureQuestAttempts, MergeQuest, EnsureAttempt, FinishExecution,
       TimeoutExecution, AddBackDep, RecordCompletion, AckFwdDep, world
  <2>2. ASSUME m.type = "ScheduleExecution", ScheduleExecution(m) PROVE OneActive'
    <3>1. m.for \in Attempts
      BY <2>2, ScheduleStep
    <3>2. \/ UNCHANGED task
          \/ \E n \in Executions, k \in Runs :
               task' = [task EXCEPT ![m.for][n][k] = "pending"]
      BY <2>2, ScheduleStep DEF Begins, IsRejected
    <3>3. "pending" \in TaskStates
      BY DEF TaskStates
    <3> QED
      BY <1>4, <1>5, <3>1, <3>2, <3>3
  <2> QED
    BY <1>5, <2>1, <2>2
<1>7. ASSUME NEW a, NEW n, NEW k, IsTask(a, n, k), ActivateExecution(a, n, k) PROVE OneActive'
  <2>1. a \in Attempts /\ n \in Executions /\ k \in Runs /\ k # None
    BY <1>7, DMAssumption DEF IsTask, Runs
  <2>2. /\ task[a][n][k] = "pending" /\ exec[a][n].tok = k
        /\ task' = task \/ task' = [task EXCEPT ![a][n][k] = "active"]
    BY <1>7 DEF ActivateExecution, VerifiesActivation
  <2>3. \A j \in Runs : task[a][n][j] # "active"
    BY <2>1, <2>2 DEF TasksOK
  <2>4. ASSUME task' = [task EXCEPT ![a][n][k] = "active"] PROVE OneActive'
    <3>1. task'[a][n][k] = "active" /\ OnlyTask(a, n, k)
      BY <1>3, <2>1, <2>4 DEF TaskStates
    <3> QED
      BY <2>1, <2>3, <3>1 DEF OneActive, OnlyTask
  <2> QED
    BY <1>5, <2>2, <2>4
<1>8. ASSUME NEW a, NEW n, NEW k, IsTask(a, n, k), NEW r \in Results, TaskEnds(a, n, k, r)
      PROVE  OneActive'
  <2>1. a \in Attempts /\ n \in Executions /\ k \in Runs
    BY <1>8 DEF IsTask
  <2>2. task' = [task EXCEPT ![a][n][k] = r]
    BY <1>8 DEF TaskEnds
  <2>3. r \in TaskStates /\ r # "active"
    BY DEF TaskStates, Results, Retriable
  <2> QED
    BY <1>4, <2>1, <2>2, <2>3
<1>9. \/ UNCHANGED task
      \/ \E m \in journal : RollForward(m)
      \/ \E a, n, k : IsTask(a, n, k) /\
           \/ ActivateExecution(a, n, k)
           \/ \E r \in Results : TaskEnds(a, n, k, r)
  <2>1. \A q, S : journalQuestAttempts(q, S) => UNCHANGED task
    BY DEF journalQuestAttempts, world
  <2>2. \A c : doGraphWalk(c) \/ depsFromMissing(c) \/ DecideCall(c) => UNCHANGED task
    BY DEF doGraphWalk, depsFromMissing, DecideCall
  <2>3. \A a, n, s : LoadedTimer(a, n, s) => UNCHANGED task
    BY DEF LoadedTimer, world
  <2>4. \A a, n : TimerFires(a, n) \/ LoadTimer(a, n) => UNCHANGED task
    BY DEF TimerFires, LoadTimer, world
  <2>5. \A a, n, k, c, want : EnsureGraphData(c, a, n, k, want) => UNCHANGED task
    BY DEF EnsureGraphData
  <2>6. \A a, n, k : FinishAttempt(a, n, k) \/ NotifyExecution(a, n, k) => UNCHANGED task
    BY DEF FinishAttempt, NotifyExecution, world
  <2> QED
    BY <2>1, <2>2, <2>3, <2>4, <2>5, <2>6, Steps, Zenon
<1> QED
  BY <1>5, <1>6, <1>7, <1>8, <1>9

\* Only rolling a mutation forward takes it out of the journal.
LEMMA RollKeeps ==
  ASSUME NEW m, RollForward(m)
  PROVE  journal \ {m} \subseteq journal' /\ slips \subseteq slips'
<1>1. CASE \E new : Rolled(m, new)
  BY <1>1, RolledFacts
<1>2. CASE ScheduleExecution(m)
  BY <1>2, RolledFacts DEF ScheduleExecution, Happens
<1> QED
  BY <1>1, <1>2 DEF RollForward, EnsureQuestAttempts, MergeQuest, EnsureAttempt, FinishExecution,
       TimeoutExecution, AddBackDep, RecordCompletion, AckFwdDep

\* Every other step leaves the journal's mutations in it.
LEMMA OthersKeep ==
  ASSUME TypesOK, DMNext, ~\E m \in journal : RollForward(m)
  PROVE  journal \subseteq journal' /\ slips \subseteq slips'
<1>1. \A q, S : journalQuestAttempts(q, S) => journal \subseteq journal' /\ slips \subseteq slips'
  BY DEF journalQuestAttempts
<1>2. \A c : doGraphWalk(c) \/ depsFromMissing(c) =>
        journal \subseteq journal' /\ slips \subseteq slips'
  BY DEF doGraphWalk, depsFromMissing, work
<1>3. \A c : DecideCall(c) => journal \subseteq journal' /\ slips \subseteq slips'
  BY DEF DecideCall, AddDeps, AddFinishedDeps
<1>4. \A a, n, s : LoadedTimer(a, n, s) => journal \subseteq journal' /\ slips \subseteq slips'
  BY DEF LoadedTimer
<1>5. \A a, n : TimerFires(a, n) \/ LoadTimer(a, n) =>
        journal \subseteq journal' /\ slips \subseteq slips'
  BY DEF TimerFires, LoadTimer, Happens
<1>6. \A a, n, k, c, want : EnsureGraphData(c, a, n, k, want) =>
        journal \subseteq journal' /\ slips \subseteq slips'
  BY DEF EnsureGraphData, work
<1>7. \A a, n, k, r : TaskEnds(a, n, k, r) => journal \subseteq journal' /\ slips \subseteq slips'
  BY DEF TaskEnds, work, Happens
<1>8. \A a, n, k : ActivateExecution(a, n, k) \/ FinishAttempt(a, n, k) \/ NotifyExecution(a, n, k)
        => journal \subseteq journal' /\ slips \subseteq slips'
  <2>1. \A a, n, k : ActivateExecution(a, n, k) =>
          journal \subseteq journal' /\ slips \subseteq slips'
    BY DEF ActivateExecution, Happens
  <2>2. \A a, n, k : FinishAttempt(a, n, k) =>
          journal \subseteq journal' /\ slips \subseteq slips'
    BY DEF FinishAttempt
  <2>3. \A a, n, k : NotifyExecution(a, n, k) =>
          journal \subseteq journal' /\ slips \subseteq slips'
    BY DEF NotifyExecution, Happens
  <2> QED
    BY <2>1, <2>2, <2>3
<1> QED
  BY <1>1, <1>2, <1>3, <1>4, <1>5, <1>6, <1>7, <1>8, Steps, Zenon

\* EnsureAttempt, point by point.
LEMMA EnsureStep ==
  ASSUME TypesOK, NEW m \in journal, m.type = "EnsureAttempt", EnsureAttempt(m)
  PROVE  /\ m.for \in Attempts
         /\ UNCHANGED <<quests, exec, fwd, back, done, timer, loaded, world>>
         /\ \/ attempt[m.for].st # "DNE" /\ attempt' = attempt /\ Rolled(m, {})
            \/ /\ attempt[m.for].st = "DNE" /\ attempt'[m.for].st = "SCHEDULING"
               /\ attempt'[m.for].cur = attempt[m.for].cur
               /\ attempt'[m.for].deps = attempt[m.for].deps
               /\ OnlyAttempt(m.for) /\ Rolled(m, {ScheduleExecutionMut(m.for)})
<1>1. /\ m \in Mutations /\ attempt \in [Attempts -> AttemptRecords]
  BY DEF TypesOK
<1>2. m.for \in Attempts /\ attempt[m.for] \in AttemptRecords
  BY <1>1, MutationShapes
<1>3. UNCHANGED <<quests, exec, fwd, back, done, timer, loaded, world>>
  BY DEF EnsureAttempt
<1>4. CASE attempt[m.for].st # "DNE"
  BY <1>2, <1>3, <1>4 DEF EnsureAttempt
<1>5. CASE attempt[m.for].st = "DNE"
  <2> DEFINE a == m.for
  <2>1. /\ attempt' = [attempt EXCEPT ![a].st = "SCHEDULING"]
        /\ Rolled(m, {ScheduleExecutionMut(a)})
    BY <1>5 DEF EnsureAttempt
  <2>2. a \in Attempts
    BY <1>2
  <2> HIDE DEF a
  <2>3. attempt'[a] = [attempt[a] EXCEPT !.st = "SCHEDULING"] /\ OnlyAttempt(a)
    BY <1>1, <2>1, <2>2 DEF OnlyAttempt
  <2>4. /\ attempt'[a].st = "SCHEDULING" /\ attempt'[a].cur = attempt[a].cur
        /\ attempt'[a].deps = attempt[a].deps
    BY <1>2, <2>3 DEF a, AttemptRecords
  <2> QED
    BY <1>2, <1>3, <1>5, <2>1, <2>3, <2>4 DEF a
<1> QED
  BY <1>4, <1>5

\* Steps outside tumble leave the states of the attempts alone.
LEMMA OthersMoveNothing ==
  ASSUME TypesOK, DMNext, ~\E m \in journal : RollForward(m)
  PROVE  /\ \A b \in Attempts : attempt'[b].st = attempt[b].st /\ attempt'[b].cur = attempt[b].cur
         /\ UNCHANGED <<back, done>>
         /\ \/ \A b \in Attempts : attempt'[b].deps = attempt[b].deps
            \/ \E c \in Calls : DecideCall(c)
<1>1. attempt \in [Attempts -> AttemptRecords] /\ call \in [Calls -> CallRecords \cup {NoCall}]
  BY DEF TypesOK
<1>2. CASE UNCHANGED <<attempt, back, done>>
  BY <1>2
<1>3. ASSUME NEW a \in Attempts, NEW deps, attempt' = [attempt EXCEPT ![a].deps = deps]
      PROVE  \A b \in Attempts : attempt'[b].st = attempt[b].st /\ attempt'[b].cur = attempt[b].cur
  <2>1. attempt'[a] = [attempt[a] EXCEPT !.deps = deps] /\ attempt[a] \in AttemptRecords
    BY <1>1, <1>3
  <2>2. attempt'[a].st = attempt[a].st /\ attempt'[a].cur = attempt[a].cur
    BY <2>1 DEF AttemptRecords
  <2>3. \A b \in Attempts \ {a} : attempt'[b] = attempt[b]
    BY <1>1, <1>3
  <2> QED
    BY <2>2, <2>3
<1>4. ASSUME NEW c \in Calls, DecideCall(c)
      PROVE  /\ \A b \in Attempts : attempt'[b].st = attempt[b].st /\ attempt'[b].cur = attempt[b].cur
             /\ UNCHANGED <<back, done>>
  <2>1. call[c].from \in Attempts
    BY <1>1, <1>4, CallFacts DEF DecideCall
  <2>2. \/ attempt' = attempt
        \/ \E deps : attempt' = [attempt EXCEPT ![call[c].from].deps = deps]
    BY <1>4 DEF DecideCall, AddDeps, AddFinishedDeps
  <2>3. UNCHANGED <<back, done>>
    BY <1>4 DEF DecideCall
  <2> QED
    BY <1>3, <2>1, <2>2, <2>3
<1>5. ASSUME NEW a, NEW n, NEW k, IsTask(a, n, k), FinishAttempt(a, n, k)
      PROVE  /\ \A b \in Attempts : attempt'[b].st = attempt[b].st /\ attempt'[b].cur = attempt[b].cur
             /\ UNCHANGED <<back, done>> /\ \A b \in Attempts : attempt'[b].deps = attempt[b].deps
  <2>1. /\ a \in Attempts /\ attempt' = [attempt EXCEPT ![a].data = TRUE]
        /\ UNCHANGED <<back, done>>
    BY <1>5 DEF IsTask, FinishAttempt
  <2>2. attempt'[a] = [attempt[a] EXCEPT !.data = TRUE] /\ attempt[a] \in AttemptRecords
    BY <1>1, <2>1
  <2>3. /\ attempt'[a].st = attempt[a].st /\ attempt'[a].cur = attempt[a].cur
        /\ attempt'[a].deps = attempt[a].deps
    BY <2>2 DEF AttemptRecords
  <2>4. \A b \in Attempts \ {a} : attempt'[b] = attempt[b]
    BY <1>1, <2>1
  <2> QED
    BY <2>1, <2>3, <2>4
<1>6. \A q, S : journalQuestAttempts(q, S) => UNCHANGED <<attempt, back, done>>
  BY DEF journalQuestAttempts, graph
<1>7. \A c : doGraphWalk(c) \/ depsFromMissing(c) => UNCHANGED <<attempt, back, done>>
  BY DEF doGraphWalk, depsFromMissing, graph
<1>8. \A a, n, s : LoadedTimer(a, n, s) => UNCHANGED <<attempt, back, done>>
  BY DEF LoadedTimer, graph
<1>9. \A a, n : TimerFires(a, n) \/ LoadTimer(a, n) => UNCHANGED <<attempt, back, done>>
  BY DEF TimerFires, LoadTimer, graph
<1>10. \A a, n, k, c, want : EnsureGraphData(c, a, n, k, want) => UNCHANGED <<attempt, back, done>>
  BY DEF EnsureGraphData, graph
<1>11. \A a, n, k, r : TaskEnds(a, n, k, r) => UNCHANGED <<attempt, back, done>>
  BY DEF TaskEnds, graph
<1>12. \A a, n, k : ActivateExecution(a, n, k) \/ NotifyExecution(a, n, k)
         => UNCHANGED <<attempt, back, done>>
  BY DEF ActivateExecution, NotifyExecution, graph
<1> QED
  BY <1>2, <1>4, <1>5, <1>6, <1>7, <1>8, <1>9, <1>10, <1>11, <1>12, Steps, Zenon

\* An attempt in SCHEDULING always has its mutation.
LEMMA ScheduledStep ==
  ASSUME TypesOK, ScheduledWillRun, DMNext
  PROVE  ScheduledWillRun'
<1>1. /\ attempt \in [Attempts -> AttemptRecords] /\ journal \subseteq Mutations
  BY DEF TypesOK
<1>2. \A b : ScheduleExecutionMut(b).type = "ScheduleExecution" /\ ScheduleExecutionMut(b).for = b
  BY DEF ScheduleExecutionMut
<1>3. CASE ~\E m \in journal : RollForward(m)
  BY <1>3, OthersKeep, OthersMoveNothing DEF ScheduledWillRun
<1>4. ASSUME NEW m \in journal, RollForward(m), m.type # "ScheduleExecution",
             NEW b \in Attempts, attempt[b].st = "SCHEDULING"
      PROVE  ScheduleExecutionMut(b) \in journal'
  <2>1. ScheduleExecutionMut(b) \in journal
    BY <1>4 DEF ScheduledWillRun
  <2>2. ScheduleExecutionMut(b) # m
    BY <1>2, <1>4
  <2> QED
    BY <1>4, <2>1, <2>2, RollKeeps
<1>5. ASSUME NEW m \in journal, RollForward(m), m.type # "ScheduleExecution",
             NEW a \in Attempts, OnlyAttempt(a),
             attempt'[a].st = "SCHEDULING" => ScheduleExecutionMut(a) \in journal'
      PROVE  ScheduledWillRun'
  BY <1>4, <1>5 DEF ScheduledWillRun, OnlyAttempt
<1>6. ASSUME NEW m \in journal, RollForward(m), m.type # "ScheduleExecution", attempt' = attempt
      PROVE  ScheduledWillRun'
  BY <1>4, <1>6 DEF ScheduledWillRun
<1>7. ASSUME NEW m \in journal, m.type = "EnsureAttempt", EnsureAttempt(m) PROVE ScheduledWillRun'
  <2>1. RollForward(m) /\ m.type # "ScheduleExecution"
    BY <1>7 DEF RollForward
  <2>2. CASE attempt' = attempt
    BY <1>6, <2>1, <2>2
  <2>3. CASE OnlyAttempt(m.for) /\ Rolled(m, {ScheduleExecutionMut(m.for)})
    BY <1>5, <1>7, <2>1, <2>3, EnsureStep, RolledFacts
  <2> QED
    BY <1>7, <2>2, <2>3, EnsureStep
<1>8. ASSUME NEW m \in journal, m.type = "FinishExecution", FinishExecution(m)
      PROVE  ScheduledWillRun'
  <2>1. RollForward(m) /\ m.type # "ScheduleExecution"
    BY <1>8 DEF RollForward
  <2>2. CASE attempt' = attempt
    BY <1>6, <2>1, <2>2
  <2>3. ASSUME NEW new, Ends(m.for, m.ex, new), Rolled(m, new) PROVE ScheduledWillRun'
    <3>1. new \subseteq journal'
      BY <2>3, RolledFacts
    <3>2. m.for \in Attempts
      BY <1>8, FinishStep
    <3> QED
      BY <1>5, <2>1, <2>3, <3>1, <3>2 DEF Ends
  <2> QED
    BY <1>8, <2>2, <2>3, FinishStep
<1>9. ASSUME NEW m \in journal, m.type = "AckFwdDep", AckFwdDep(m) PROVE ScheduledWillRun'
  <2>1. RollForward(m) /\ m.type # "ScheduleExecution"
    BY <1>9 DEF RollForward
  <2>2. CASE attempt' = attempt
    BY <1>6, <2>1, <2>2
  <2>3. ASSUME NEW f \in fwd, NEW wake \in BOOLEAN, Applies(f), f.from = m.from,
               f.bit \in DOMAIN attempt[m.from].deps,
               attempt' = [attempt EXCEPT
                             ![m.from] = AckedAttempt(attempt[m.from], f.bit, wake)],
               Rolled(m, IF wake THEN {ScheduleExecutionMut(m.from)} ELSE {})
        PROVE  ScheduledWillRun'
    <3> DEFINE x == AckedAttempt(attempt[m.from], f.bit, wake)
    <3>1. m.from \in Attempts /\ attempt[m.from] \in AttemptRecords
      BY <1>1, <1>9, MutationShapes
    <3>2. x \in AttemptRecords /\ x.st = IF wake THEN "SCHEDULING" ELSE attempt[m.from].st
      BY <2>3, <3>1, AckedFacts
    <3> HIDE DEF x
    <3>3. attempt'[m.from] = x /\ OnlyAttempt(m.from)
      BY <1>1, <2>3, <3>1, <3>2, AttemptUpdate DEF x, OnlyAttempt
    <3>4. attempt[m.from].st # "SCHEDULING"
      BY <2>3 DEF Applies
    <3>5. wake => ScheduleExecutionMut(m.from) \in journal'
      BY <2>3, RolledFacts
    <3> QED
      BY <1>5, <2>1, <3>1, <3>2, <3>3, <3>4, <3>5
  <2> QED
    BY <1>9, <2>2, <2>3, AckStep
<1>10. ASSUME NEW m \in journal, m.type = "ScheduleExecution", ScheduleExecution(m)
       PROVE  ScheduledWillRun'
  <2>1. m = ScheduleExecutionMut(m.for) /\ m.for \in Attempts
    BY <1>1, <1>10, MutationShapes
  <2>2. journal \ {m} \subseteq journal'
    BY <1>10, RollKeeps DEF RollForward
  <2>3. \A b \in Attempts \ {m.for} : attempt[b].st = "SCHEDULING" =>
          ScheduleExecutionMut(b) \in journal'
    BY <1>2, <2>1, <2>2 DEF ScheduledWillRun
  <2>4. CASE UNCHANGED <<attempt, journal>>
    BY <2>4 DEF ScheduledWillRun
  <2>5. CASE OnlyAttempt(m.for) /\ attempt'[m.for].st # "SCHEDULING"
    BY <2>3, <2>5 DEF ScheduledWillRun, OnlyAttempt
  <2>6. CASE attempt' = attempt /\ attempt[m.for].st # "SCHEDULING"
    BY <2>3, <2>6 DEF ScheduledWillRun
  <2> QED
    BY <1>10, <2>4, <2>5, <2>6, ScheduleStep DEF Begins, IsRejected
<1>11. ASSUME NEW m \in journal, RollForward(m) PROVE ScheduledWillRun'
  <2>1. \/ attempt' = attempt /\ m.type # "ScheduleExecution"
        \/ m.type = "EnsureAttempt" /\ EnsureAttempt(m)
        \/ m.type = "ScheduleExecution" /\ ScheduleExecution(m)
        \/ m.type = "FinishExecution" /\ FinishExecution(m)
        \/ m.type = "AckFwdDep" /\ AckFwdDep(m)
    BY <1>11 DEF RollForward, EnsureQuestAttempts, MergeQuest, TimeoutExecution, AddBackDep,
                RecordCompletion, graph
  <2> QED
    BY <1>6, <1>7, <1>8, <1>9, <1>10, <1>11, <2>1
<1> QED
  BY <1>3, <1>11

-----------------------------------------------------------------------------
(* Timeouts.                                                               *)

Stopped == {"STOPPING", "FINISHED", "ABNORMAL_FINISHED"}

\* The timeout of execution i of attempt b stays armed: the execution is over, or
\* in the same state with the same timeout, or in another one whose timeout was
\* set with it.
LEMMA ArmedKept ==
  ASSUME TypesOK, NEW b \in Attempts, NEW i \in Executions, Armed(b, i), load' = load,
         \/ Terminal(exec'[b][i].st)
         \/ exec'[b][i].st \in load.timeouts => timer'[b][i] = exec'[b][i].st
         \/ /\ exec'[b][i].st = exec[b][i].st
            /\ timer'[b][i] = timer[b][i]
            /\ Ending(b, i) => Ending(b, i)'
         \/ /\ exec'[b][i].st = exec[b][i].st
            /\ exec[b][i].st \in load.timeouts => Ending(b, i)'
  PROVE  Armed(b, i)'
<1>1. load.timeouts \subseteq {"SCHEDULING", "RUNNING", "STOPPING"}
  BY LoadFacts DEF TypesOK
<1>2. CASE Terminal(exec'[b][i].st)
  BY <1>1, <1>2 DEF Armed, Terminal
<1>3. CASE exec'[b][i].st \in load.timeouts => timer'[b][i] = exec'[b][i].st
  BY <1>3 DEF Armed
<1>4. CASE /\ exec'[b][i].st = exec[b][i].st
           /\ timer'[b][i] = timer[b][i]
           /\ Ending(b, i) => Ending(b, i)'
  <2> SUFFICES ASSUME exec'[b][i].st \in load'.timeouts
               PROVE  timer'[b][i] \in {exec'[b][i].st, "gone"} \/ Ending(b, i)'
    BY DEF Armed
  <2>1. timer[b][i] \in {exec[b][i].st, "gone"} \/ Ending(b, i)
    BY <1>4 DEF Armed
  <2> QED
    BY <1>4, <2>1
<1>5. CASE /\ exec'[b][i].st = exec[b][i].st
           /\ exec[b][i].st \in load.timeouts => Ending(b, i)'
  BY <1>5 DEF Armed
<1> QED
  BY <1>2, <1>3, <1>4, <1>5

\* The end of an execution that is under way stays so, unless it is rolled forward.
LEMMA EndingKept ==
  ASSUME NEW b, NEW i, Ending(b, i), NEW m, journal \ {m} \subseteq journal',
         ~(m.type \in {"TimeoutExecution", "FinishExecution"} /\ m.for = b /\ m.ex = i)
  PROVE  Ending(b, i)'
  BY DEF Ending

\* A step of tumble keeps the timeouts.
LEMMA TimeoutsRoll ==
  ASSUME TypesOK, ExecutionsOK, TimeoutsOK, NEW m \in journal, RollForward(m)
  PROVE  TimeoutsOK'
<1>1. /\ m \in Mutations /\ attempt \in [Attempts -> AttemptRecords]
  BY DEF TypesOK
<1>2. journal \ {m} \subseteq journal' /\ slips \subseteq slips'
  BY RollKeeps
<1>3. loaded' = loaded /\ load' = load
  BY DEF RollForward, EnsureQuestAttempts, MergeQuest, EnsureAttempt, ScheduleExecution,
         FinishExecution, TimeoutExecution, AddBackDep, RecordCompletion, AckFwdDep, world
<1>5. ASSUME NEW new, journal' \subseteq journal \cup new,
             \A x \in new : x.type = "TimeoutExecution" =>
               x.for \in Attempts /\ x.ex \in Executions /\ exec[x.for][x.ex].st \in Stopped,
             \A b \in Attempts, i \in Executions :
               exec[b][i].st \in Stopped => exec'[b][i].st \in Stopped
      PROVE  \A x \in journal' : x.type = "TimeoutExecution" => exec'[x.for][x.ex].st \in Stopped
  <2> SUFFICES ASSUME NEW x \in journal', x.type = "TimeoutExecution"
               PROVE  exec'[x.for][x.ex].st \in Stopped
    OBVIOUS
  <2>1. CASE x \in journal
    <3>1. x.for \in Attempts /\ x.ex \in Executions
      BY <2>1, MutationShapes DEF TypesOK
    <3>2. exec[x.for][x.ex].st \in Stopped
      BY <2>1 DEF TimeoutsOK, Stopped
    <3> QED
      BY <1>5, <3>1, <3>2
  <2>2. CASE x \in new
    BY <1>5, <2>2
  <2> QED
    BY <1>5, <2>1, <2>2
<1>18. ASSUME journal' \subseteq journal,
              \A b \in Attempts, i \in Executions :
                exec[b][i].st \in Stopped => exec'[b][i].st \in Stopped
       PROVE  \A x \in journal' : x.type = "TimeoutExecution" => exec'[x.for][x.ex].st \in Stopped
  <2> DEFINE new == {}
  <2>1. /\ journal' \subseteq journal \cup new
        /\ \A x \in new : x.type = "TimeoutExecution" =>
             x.for \in Attempts /\ x.ex \in Executions /\ exec[x.for][x.ex].st \in Stopped
    BY <1>18
  <2> HIDE DEF new
  <2> QED
    BY <1>5, <1>18, <2>1
<1>6. \A b \in Attempts, i \in Executions : Armed(b, i)
  BY DEF TimeoutsOK
<1>7. ASSUME m.type \notin {"TimeoutExecution", "FinishExecution"}, NEW b, NEW i, Ending(b, i)
      PROVE  Ending(b, i)'
  BY <1>2, <1>7, EndingKept
<1>8. ASSUME UNCHANGED <<exec, timer>>, m.type \notin {"TimeoutExecution", "FinishExecution"},
             NEW new, Rolled(m, new), \A x \in new : x.type # "TimeoutExecution"
      PROVE  TimeoutsOK'
  <2>1. \A b \in Attempts, i \in Executions : Armed(b, i)'
    BY <1>2, <1>3, <1>6, <1>7, <1>8, ArmedKept
  <2>2. journal' \subseteq journal \cup new
    BY <1>8, RolledFacts
  <2>3. \A x \in journal' : x.type = "TimeoutExecution" => exec'[x.for][x.ex].st \in Stopped
    BY <1>5, <1>8, <2>2
  <2> QED
    BY <2>1, <2>3 DEF TimeoutsOK, Stopped
<1>9. CASE m.type = "EnsureQuestAttempts" /\ EnsureQuestAttempts(m)
  <2> DEFINE first == {a \in m.to : Cardinality({b \in m.to : b < a}) <= MaxEnsureAttempts}
             rest == m.to \ first
             new == {EnsureAttemptMut(a) : a \in first} \cup
                      IF rest = {} THEN {} ELSE {EnsureQuestMut(m.quest, rest, FALSE)}
  <2>1. Rolled(m, new) /\ UNCHANGED <<exec, timer>>
    BY <1>9 DEF EnsureQuestAttempts, graph
  <2>2. \A x \in new : x.type # "TimeoutExecution"
    <3> HIDE DEF first
    <3> QED
      BY DEF EnsureAttemptMut, EnsureQuestMut
  <2> HIDE DEF new
  <2> QED
    BY <1>8, <1>9, <2>1, <2>2
<1>10. CASE m.type = "MergeQuest" /\ MergeQuest(m)
  <2>1. \A x \in m.then : x.type # "TimeoutExecution"
    BY <1>1, <1>10, MutationShapes DEF DepMuts
  <2> QED
    BY <1>8, <1>10, <2>1 DEF MergeQuest, graph
<1>11. CASE m.type = "EnsureAttempt" /\ EnsureAttempt(m)
  <2>1. \E new : Rolled(m, new) /\ \A x \in new : x.type # "TimeoutExecution"
    <3>1. ScheduleExecutionMut(m.for).type # "TimeoutExecution"
      BY DEF ScheduleExecutionMut
    <3> QED
      BY <1>11, <3>1 DEF EnsureAttempt
  <2> QED
    BY <1>8, <1>11, <2>1 DEF EnsureAttempt
<1>12. CASE m.type = "AddBackDep" /\ AddBackDep(m)
  <2>1. \E new : Rolled(m, new) /\ \A x \in new : x.type # "TimeoutExecution"
    <3>1. AckFwdDepMut(m.from, m.to).type # "TimeoutExecution"
      BY DEF AckFwdDepMut
    <3> QED
      BY <1>12, <3>1 DEF AddBackDep
  <2> QED
    BY <1>8, <1>12, <2>1 DEF AddBackDep
<1>13. CASE m.type = "RecordCompletion" /\ RecordCompletion(m)
  <2>1. \E new : Rolled(m, new) /\ \A x \in new : x.type # "TimeoutExecution"
    <3>1. \A a, d : AckFwdDepMut(a, d).type # "TimeoutExecution"
      BY DEF AckFwdDepMut
    <3>2. \E batch : Rolled(m, {AckFwdDepMut(b.from, b.to) : b \in batch} \cup
                                 IF Cardinality(batch) = CompletionLimit THEN {m} ELSE {})
      BY <1>13 DEF RecordCompletion
    <3> QED
      BY <1>13, <3>1, <3>2
  <2> QED
    BY <1>8, <1>13, <2>1 DEF RecordCompletion
<1>14. CASE m.type = "AckFwdDep" /\ AckFwdDep(m)
  <2>1. \E new : Rolled(m, new) /\ \A x \in new : x.type # "TimeoutExecution"
    <3>1. ScheduleExecutionMut(m.from).type # "TimeoutExecution"
      BY DEF ScheduleExecutionMut
    <3> QED
      BY <1>14, <3>1 DEF AckFwdDep
  <2> QED
    BY <1>8, <1>14, <2>1 DEF AckFwdDep
<1>15. CASE m.type = "ScheduleExecution" /\ ScheduleExecution(m)
  <2> DEFINE a == m.for
  <2>1. a \in Attempts /\ journal' \subseteq journal
    <3>1. \A x : Rolled(m, {}) => journal' \subseteq journal
      BY RolledFacts
    <3> QED
      BY <1>15, <3>1, ScheduleStep
  <2> HIDE DEF a
  <2>2. ASSUME NEW n \in Executions, n = attempt[a].cur + 1
        PROVE  exec[a][n].st \notin Stopped
    <3>1. attempt[a].cur \in 0..MaxExec /\ MaxExec \in Nat
      BY <1>1, <2>1, DMAssumption DEF AttemptRecords
    <3> QED
      BY <2>1, <2>2, <3>1 DEF ExecutionsOK, ExecutionsAt, Stopped
  <2>3. ASSUME NEW n \in Executions, n = attempt[a].cur + 1, OnlyExecution(a, n),
               \/ /\ exec'[a][n].st = "SCHEDULING" /\ OnlyTimer(a, n)
                  /\ "SCHEDULING" \in load.timeouts => timer'[a][n] = "SCHEDULING"
               \/ Terminal(exec'[a][n].st) /\ timer' = timer
        PROVE  TimeoutsOK'
    <3>1. \A b \in Attempts, i \in Executions : Armed(b, i)'
      <4> SUFFICES ASSUME NEW b \in Attempts, NEW i \in Executions PROVE Armed(b, i)'
        OBVIOUS
      <4>1. CASE b = a /\ i = n
        <5>1. \/ Terminal(exec'[b][i].st)
              \/ exec'[b][i].st \in load.timeouts => timer'[b][i] = exec'[b][i].st
          BY <2>3, <4>1
        <5> QED
          BY <1>2, <1>3, <1>6, <5>1, ArmedKept
      <4>2. CASE b # a \/ i # n
        <5>1. exec'[b][i] = exec[b][i] /\ timer'[b][i] = timer[b][i]
          BY <2>3, <4>2 DEF OnlyExecution, OnlyTimer
        <5> QED
          BY <1>2, <1>3, <1>6, <1>7, <1>15, <5>1, ArmedKept
      <4> QED
        BY <4>1, <4>2
    <3>2. \A b \in Attempts, i \in Executions :
            exec[b][i].st \in Stopped => exec'[b][i].st \in Stopped
      BY <2>2, <2>3 DEF OnlyExecution
    <3>3. \A x \in journal' : x.type = "TimeoutExecution" => exec'[x.for][x.ex].st \in Stopped
      BY <1>18, <2>1, <3>2
    <3> QED
      BY <3>1, <3>3 DEF TimeoutsOK, Stopped
  <2>4. CASE UNCHANGED <<exec, timer>>
    <3>1. \A b \in Attempts, i \in Executions : Armed(b, i)'
      BY <1>2, <1>3, <1>6, <1>7, <1>15, <2>4, ArmedKept
    <3>2. \A x \in journal' : x.type = "TimeoutExecution" => exec'[x.for][x.ex].st \in Stopped
      BY <1>18, <2>1, <2>4
    <3> QED
      BY <3>1, <3>2 DEF TimeoutsOK, Stopped
  <2> QED
    BY <1>15, <2>3, <2>4, ScheduleStep DEF Begins, IsRejected, a
<1>16. CASE m.type = "FinishExecution" /\ FinishExecution(m)
  <2> DEFINE a == m.for
             n == m.ex
  <2>1. a \in Attempts /\ n \in Executions /\ exec[a][n].st # "DNE"
    BY <1>16, FinishStep
  <2>2. ASSUME NEW b, NEW i, b # a \/ i # n, Ending(b, i) PROVE Ending(b, i)'
    BY <1>2, <2>2, EndingKept
  <2>3. ASSUME Terminal(exec'[a][n].st), OnlyExecution(a, n), OnlyTimer(a, n),
               NEW new, Rolled(m, new), \A x \in new : x.type # "TimeoutExecution"
        PROVE  TimeoutsOK'
    <3> HIDE DEF a, n
    <3>1. \A b \in Attempts, i \in Executions : Armed(b, i)'
      <4> SUFFICES ASSUME NEW b \in Attempts, NEW i \in Executions PROVE Armed(b, i)'
        OBVIOUS
      <4>1. CASE b = a /\ i = n
        BY <1>2, <1>3, <1>6, <2>3, <4>1, ArmedKept
      <4>2. CASE b # a \/ i # n
        <5>1. exec'[b][i] = exec[b][i] /\ timer'[b][i] = timer[b][i]
          BY <2>3, <4>2 DEF OnlyExecution, OnlyTimer
        <5> QED
          BY <1>2, <1>3, <1>6, <2>2, <4>2, <5>1, ArmedKept
      <4> QED
        BY <4>1, <4>2
    <3>2. \A b \in Attempts, i \in Executions :
            exec[b][i].st \in Stopped => exec'[b][i].st \in Stopped
      BY <2>3 DEF OnlyExecution, Terminal, Stopped
    <3>3. journal' \subseteq journal \cup new
      BY <2>3, RolledFacts
    <3>4. \A x \in journal' : x.type = "TimeoutExecution" => exec'[x.for][x.ex].st \in Stopped
      BY <1>5, <2>3, <3>2, <3>3
    <3> QED
      BY <3>1, <3>4 DEF TimeoutsOK, Stopped
  <2>4. CASE /\ attempt[a].st # "EXECUTING" \/ attempt[a].cur # n \/ Terminal(exec[a][n].st)
             /\ Rolled(m, {}) /\ UNCHANGED <<attempt, exec, timer>>
    <3>1. attempt[a].cur \in Nat /\ n \in Nat
      <4>1. attempt[a].cur \in 0..MaxExec /\ MaxExec \in Nat
        BY <1>1, <2>1, DMAssumption DEF AttemptRecords
      <4> QED
        BY <2>1, <4>1 DEF Executions
    <3>2. Terminal(exec[a][n].st)
      BY <2>1, <2>4, <3>1 DEF ExecutionsOK, ExecutionsAt
    <3>3. Terminal(exec'[a][n].st) /\ OnlyExecution(a, n) /\ OnlyTimer(a, n)
      BY <2>4, <3>2 DEF OnlyExecution, OnlyTimer
    <3> QED
      BY <2>3, <2>4, <3>3
  <2>5. ASSUME NEW new, Ends(a, n, new), Rolled(m, new) PROVE TimeoutsOK'
    <3>1. \A x \in new : x.type # "TimeoutExecution"
      BY <2>5 DEF Ends, ScheduleExecutionMut, RecordCompletionMut
    <3> QED
      BY <2>3, <2>5, <3>1 DEF Ends
  <2> QED
    BY <1>16, <2>4, <2>5, FinishStep
<1>17. CASE m.type = "TimeoutExecution" /\ TimeoutExecution(m)
  <2>1. PICK known \in BOOLEAN : Rolled(m, TimedOut(m.for, m.ex, m.state, m.tries, known))
    BY <1>17 DEF TimeoutExecution
  <2>2. m.for \in Attempts /\ m.ex \in Executions /\ m.tries \in Nat /\ m.state = "STOPPING"
    BY <1>1, <1>17, MutationShapes
  <2> DEFINE a == m.for
             n == m.ex
             T == TimedOut(a, n, m.state, m.tries, known)
  <2>3. /\ \A x \in T : /\ x.type \in {"TimeoutExecution", "FinishExecution"}
                        /\ x.for = a /\ x.ex = n
                        /\ x.type = "TimeoutExecution" => exec[a][n].st = "STOPPING"
        /\ exec[a][n].st = "STOPPING" => T # {}
    BY <2>2, TimedOutFacts
  <2>4. T \subseteq journal' /\ journal' \subseteq journal \cup T
    BY <2>1, RolledFacts
  <2>5. UNCHANGED <<exec, timer>>
    BY <1>17 DEF TimeoutExecution, graph
  <2>6. exec[a][n].st \in Stopped
    BY <1>17 DEF TimeoutsOK, Stopped
  <2> HIDE DEF T
  <2>7. \A b \in Attempts, i \in Executions : Armed(b, i)'
    <3> SUFFICES ASSUME NEW b \in Attempts, NEW i \in Executions PROVE Armed(b, i)'
      OBVIOUS
    <3>1. CASE b = a /\ i = n /\ exec[a][n].st = "STOPPING"
      <4>1. Ending(b, i)'
        BY <2>3, <2>4, <3>1 DEF Ending
      <4> QED
        BY <1>2, <1>3, <1>6, <2>5, <4>1, ArmedKept
    <3>2. CASE b = a /\ i = n /\ exec[a][n].st # "STOPPING"
      <4>1. Terminal(exec'[b][i].st)
        BY <2>5, <2>6, <3>2 DEF Stopped, Terminal
      <4> QED
        BY <1>2, <1>3, <1>6, <4>1, ArmedKept
    <3>3. CASE b # a \/ i # n
      <4>1. Ending(b, i) => Ending(b, i)'
        BY <1>2, <3>3, EndingKept
      <4> QED
        BY <1>2, <1>3, <1>6, <2>5, <4>1, ArmedKept
    <3> QED
      BY <3>1, <3>2, <3>3
  <2>8. \A x \in journal' : x.type = "TimeoutExecution" => exec'[x.for][x.ex].st \in Stopped
    BY <1>5, <2>2, <2>3, <2>4, <2>5 DEF Stopped
  <2> QED
    BY <2>7, <2>8 DEF TimeoutsOK, Stopped
<1> QED
  BY <1>9, <1>10, <1>11, <1>12, <1>13, <1>14, <1>15, <1>16, <1>17 DEF RollForward

\* So does every step outside tumble.
LEMMA TimeoutsOthers ==
  ASSUME TypesOK, TimeoutsOK, DMNext, ~\E m \in journal : RollForward(m)
  PROVE  TimeoutsOK'
<1>1. /\ attempt \in [Attempts -> AttemptRecords]
      /\ exec \in [Attempts -> [Executions -> ExecutionRecords]]
      /\ timer \in [Attempts -> [Executions -> load.timeouts \cup {None, "gone"}]]
      /\ call \in [Calls -> CallRecords \cup {NoCall}]
      /\ journal \subseteq Mutations
  BY DEF TypesOK
<1>2. journal \subseteq journal' /\ slips \subseteq slips'
  BY OthersKeep
<1>3. \A b \in Attempts, i \in Executions : Armed(b, i) /\ (Ending(b, i) => Ending(b, i)')
  BY <1>2 DEF TimeoutsOK, Ending
<1>4. ASSUME \A x \in journal' \ journal : x.type = "TimeoutExecution" =>
               x.for \in Attempts /\ x.ex \in Executions /\ exec[x.for][x.ex].st \in Stopped,
             \A b \in Attempts, i \in Executions :
               exec[b][i].st \in Stopped => exec'[b][i].st \in Stopped
      PROVE  \A x \in journal' : x.type = "TimeoutExecution" => exec'[x.for][x.ex].st \in Stopped
  <2> SUFFICES ASSUME NEW x \in journal', x.type = "TimeoutExecution"
               PROVE  exec'[x.for][x.ex].st \in Stopped
    OBVIOUS
  <2>1. CASE x \in journal
    <3>1. x.for \in Attempts /\ x.ex \in Executions
      BY <1>1, <2>1, MutationShapes
    <3>2. exec[x.for][x.ex].st \in Stopped
      BY <2>1 DEF TimeoutsOK, Stopped
    <3> QED
      BY <1>4, <3>1, <3>2
  <2> QED
    BY <1>4, <2>1
<1>5. ASSUME UNCHANGED <<exec, timer, loaded, load>>,
             \A x \in journal' \ journal : x.type # "TimeoutExecution"
      PROVE  TimeoutsOK'
  <2>1. \A b \in Attempts, i \in Executions : Armed(b, i)'
    BY <1>2, <1>3, <1>5, ArmedKept
  <2>2. \A x \in journal' : x.type = "TimeoutExecution" => exec'[x.for][x.ex].st \in Stopped
    BY <1>4, <1>5
  <2> QED
    BY <1>2, <1>5, <2>1, <2>2 DEF TimeoutsOK, Stopped
<1>6. ASSUME NEW a \in Attempts, NEW n \in Executions, OnlyExecution(a, n), OnlyTimer(a, n),
             exec[a][n].st \notin Stopped,
             exec'[a][n].st \in load.timeouts => timer'[a][n] = exec'[a][n].st,
             UNCHANGED <<loaded, load>>, \A x \in journal' \ journal : x.type # "TimeoutExecution"
      PROVE  TimeoutsOK'
  <2>1. \A b \in Attempts, i \in Executions : Armed(b, i)'
    <3> SUFFICES ASSUME NEW b \in Attempts, NEW i \in Executions PROVE Armed(b, i)'
      OBVIOUS
    <3>1. CASE b = a /\ i = n
      BY <1>2, <1>3, <1>6, <3>1, ArmedKept
    <3>2. CASE b # a \/ i # n
      <4>1. exec'[b][i] = exec[b][i] /\ timer'[b][i] = timer[b][i]
        BY <1>6, <3>2 DEF OnlyExecution, OnlyTimer
      <4> QED
        BY <1>2, <1>3, <1>6, <4>1, ArmedKept
    <3> QED
      BY <3>1, <3>2
  <2>2. \A b \in Attempts, i \in Executions :
          exec[b][i].st \in Stopped => exec'[b][i].st \in Stopped
    BY <1>6 DEF OnlyExecution
  <2>3. \A x \in journal' : x.type = "TimeoutExecution" => exec'[x.for][x.ex].st \in Stopped
    BY <1>4, <1>6, <2>2
  <2> QED
    BY <1>2, <1>6, <2>1, <2>3 DEF TimeoutsOK, Stopped
<1>7. ASSUME NEW a \in Attempts, NEW n \in Executions, NEW k, Authentic(a, n, k), Stops(a, n),
             UNCHANGED <<loaded, load>>, \A x \in journal' \ journal : x.type # "TimeoutExecution"
      PROVE  TimeoutsOK'
  <2>1. /\ exec'[a][n].st = "STOPPING" /\ OnlyExecution(a, n) /\ OnlyTimer(a, n)
        /\ "STOPPING" \in load.timeouts => timer'[a][n] = "STOPPING"
    BY <1>1, <1>7, StopsFacts DEF OnlyExecution, OnlyTimer
  <2>2. exec[a][n].st \notin Stopped
    BY <1>7 DEF Authentic, Stopped
  <2> QED
    BY <1>6, <1>7, <2>1, <2>2
<1>8. ASSUME NEW q, NEW S, journalQuestAttempts(q, S) PROVE TimeoutsOK'
  <2>1. \A x \in journal' \ journal : x.type # "TimeoutExecution"
    BY <1>8 DEF journalQuestAttempts, EnsureQuestMut
  <2> QED
    BY <1>5, <1>8, <2>1 DEF journalQuestAttempts, graph, world
<1>9. ASSUME NEW c, doGraphWalk(c) \/ depsFromMissing(c) PROVE TimeoutsOK'
  BY <1>5, <1>9 DEF doGraphWalk, depsFromMissing, graph, work
<1>10. ASSUME NEW c \in Calls, DecideCall(c) PROVE TimeoutsOK'
  <2> DEFINE x == call[c]
             new == filterExisting(x.from, x.missing)
  <2>1. /\ x.st = "read" /\ x.walk # None /\ x.missing # None
        /\ UNCHANGED <<loaded, load>>
        /\ \/ UNCHANGED <<exec, timer, journal>>
           \/ AddFinishedDeps(x)
           \/ Authentic(x.from, x.ex, x.run) /\ AddDeps(x)
    BY <1>10 DEF DecideCall
  <2>2. /\ x.from \in Attempts /\ x.ex \in Executions
        /\ x.walk \in Walks /\ x.missing \in SUBSET Attempts
    BY <1>1, <2>1, CallFacts
  <2>3. new \in SUBSET Attempts
    BY <2>2 DEF filterExisting
  <2> HIDE DEF x
  <2>4. CASE UNCHANGED <<exec, timer, journal>>
    BY <1>5, <2>1, <2>4
  <2>5. CASE AddFinishedDeps(x)
    <3>1. \A y \in journal' \ journal : y.type # "TimeoutExecution"
      BY <2>5 DEF AddFinishedDeps, AddBackDepMut, MergeQuestMut
    <3> QED
      BY <1>5, <2>1, <2>5, <3>1 DEF AddFinishedDeps
  <2>6. CASE Authentic(x.from, x.ex, x.run) /\ AddDeps(x)
    <3> HIDE DEF new
    <3>1. \A y : InAll(y, AddDepsMuts(x.from, new, x.walk)) =>
            y.type \in {"MergeQuest", "EnsureAttempt", "AddBackDep"}
      BY <2>2, <2>3, AddDepsMutsFacts, Zenon
    <3>2. \A y \in AddDepsMuts(x.from, new, x.walk) : y.type # "TimeoutExecution"
      BY <3>1 DEF InAll
    <3>3. \A y \in journal' \ journal : y.type # "TimeoutExecution"
      BY <2>6, <3>2 DEF AddDeps, new
    <3> QED
      BY <1>7, <2>1, <2>2, <2>6, <3>3 DEF AddDeps
  <2> QED
    BY <2>1, <2>4, <2>5, <2>6
<1>11. ASSUME NEW a \in Attempts, NEW n \in Executions, NEW s, NEW known \in BOOLEAN,
              exec' = exec, load' = load, OnlyTimer(a, n),
              journal' = journal \cup TimedOut(a, n, s, 0, known),
              timer[a][n] \in (load.timeouts \cup {"gone"}) \ {s} => timer'[a][n] = "gone",
              s # "gone"
       PROVE  TimeoutsOK'
  <2> DEFINE T == TimedOut(a, n, s, 0, known)
  <2>1. /\ \A x \in T : /\ x.type \in {"TimeoutExecution", "FinishExecution"}
                        /\ x.for = a /\ x.ex = n
                        /\ x.type = "TimeoutExecution" => exec[a][n].st = "STOPPING"
        /\ exec[a][n].st = s => T # {}
    BY <1>11, TimedOutFacts
  <2>2. journal' = journal \cup T
    BY <1>11
  <2> HIDE DEF T
  <2>3. \A b \in Attempts, i \in Executions : Armed(b, i)'
    <3> SUFFICES ASSUME NEW b \in Attempts, NEW i \in Executions PROVE Armed(b, i)'
      OBVIOUS
    <3>1. CASE b = a /\ i = n
      <4> SUFFICES ASSUME exec[b][i].st \in load.timeouts
                   PROVE  timer'[b][i] = "gone" \/ Ending(b, i)'
        BY <1>11 DEF Armed
      <4>1. timer[b][i] \in {exec[b][i].st, "gone"} \/ Ending(b, i)
        BY <1>3 DEF Armed
      <4>2. CASE exec[b][i].st = s
        <5>1. T # {}
          BY <2>1, <3>1, <4>2
        <5> QED
          BY <2>1, <2>2, <3>1, <5>1 DEF Ending
      <4>3. CASE exec[b][i].st # s /\ timer[b][i] \in {exec[b][i].st, "gone"}
        BY <1>11, <3>1, <4>3
      <4> QED
        BY <1>3, <4>1, <4>2, <4>3
    <3>2. CASE b # a \/ i # n
      <4>1. timer'[b][i] = timer[b][i]
        BY <1>11, <3>2 DEF OnlyTimer
      <4> QED
        BY <1>2, <1>3, <1>11, <4>1, ArmedKept
    <3> QED
      BY <3>1, <3>2
  <2>4. \A x \in journal' : x.type = "TimeoutExecution" => exec'[x.for][x.ex].st \in Stopped
    BY <1>4, <1>11, <2>1, <2>2 DEF Stopped
  <2> QED
    BY <1>11, <2>3, <2>4 DEF TimeoutsOK, Stopped
<1>12. ASSUME NEW a \in Attempts, NEW n \in Executions, NEW s, LoadedTimer(a, n, s)
       PROVE  TimeoutsOK'
  <2>1. PICK known \in BOOLEAN : journal' = journal \cup TimedOut(a, n, s, 0, known)
    BY <1>12 DEF LoadedTimer
  <2>2. /\ <<a, n, s>> \in loaded /\ exec' = exec /\ load' = load
    BY <1>12 DEF LoadedTimer, graph, world
  <2>3. PICK x \in {None, "gone"} :
          /\ timer' = [timer EXCEPT ![a][n] = x]
          /\ timer[a][n] \in (load.timeouts \cup {"gone"}) \ {s} => x = "gone"
    BY <1>12, LeftByLoaded
  <2>4. OnlyTimer(a, n) /\ timer'[a][n] = x
    BY <1>1, <2>1, <2>2, <2>3, TimerTaken DEF OnlyTimer
  <2>5. s # "gone"
    BY <2>2 DEF TypesOK
  <2> QED
    BY <1>11, <2>1, <2>2, <2>3, <2>4, <2>5
<1>13. ASSUME NEW a \in Attempts, NEW n \in Executions, TimerFires(a, n) PROVE TimeoutsOK'
  <2>1. PICK known \in BOOLEAN : journal' = journal \cup TimedOut(a, n, timer[a][n], 0, known)
    BY <1>13 DEF TimerFires
  <2>2. /\ timer' = [timer EXCEPT ![a][n] = None]
        /\ exec' = exec /\ load' = load /\ timer[a][n] \in load.timeouts
    BY <1>13 DEF TimerFires, graph, world
  <2>3. OnlyTimer(a, n)
    BY <2>1, <2>2, TimerTaken DEF OnlyTimer
  <2>4. timer[a][n] # "gone"
    BY <2>2, LoadFacts DEF TypesOK
  <2>5. \E s : s = timer[a][n]
    OBVIOUS
  <2> QED
    BY <1>11, <2>1, <2>2, <2>3, <2>4, <2>5
<1>14. ASSUME NEW a, NEW n, LoadTimer(a, n) PROVE TimeoutsOK'
  <2>1. UNCHANGED <<exec, timer, journal, load>>
    BY <1>14 DEF LoadTimer, graph, world
  <2>2. \A b \in Attempts, i \in Executions : Armed(b, i)'
    BY <1>2, <1>3, <2>1, ArmedKept
  <2> QED
    BY <2>1, <2>2 DEF TimeoutsOK
<1>15. ASSUME NEW a, NEW n, NEW k, IsTask(a, n, k), ActivateExecution(a, n, k) PROVE TimeoutsOK'
  <2>1. a \in Attempts /\ n \in Executions /\ k \in Runs
    BY <1>15 DEF IsTask
  <2>2. exec'[a][n].st = "RUNNING" /\ OnlyExecution(a, n)
    BY <1>1, <1>15, <2>1, ActivateFacts DEF OnlyExecution
  <2>3. /\ exec[a][n].st \in {"SCHEDULING", "RUNNING"} /\ UNCHANGED <<loaded, load, journal>>
        /\ ResetExecutionTimeout(a, n, "RUNNING")
    BY <1>15 DEF ActivateExecution, VerifiesActivation
  <2>4. OnlyTimer(a, n) /\ ("RUNNING" \in load.timeouts => timer'[a][n] = "RUNNING")
    BY <1>1, <2>1, <2>3, TimerReset DEF OnlyTimer
  <2> QED
    BY <1>6, <2>1, <2>2, <2>3, <2>4 DEF Stopped
<1>16. ASSUME NEW a, NEW n, NEW k, IsTask(a, n, k), FinishAttempt(a, n, k) PROVE TimeoutsOK'
  BY <1>7, <1>16 DEF FinishAttempt, IsTask, world
<1>17. ASSUME NEW a, NEW n, NEW k, NEW c, NEW want, EnsureGraphData(c, a, n, k, want)
       PROVE  TimeoutsOK'
  BY <1>5, <1>17 DEF EnsureGraphData, graph, work
<1>18. ASSUME NEW a, NEW n, NEW k, NEW r, TaskEnds(a, n, k, r) PROVE TimeoutsOK'
  BY <1>5, <1>18 DEF TaskEnds, graph, work
<1>19. ASSUME NEW a, NEW n, NEW k, NotifyExecution(a, n, k) PROVE TimeoutsOK'
  <2>1. \A x \in journal' \ journal : x.type # "TimeoutExecution"
    <3>1. FinishExecutionMut(a, n, task[a][n][k]).type # "TimeoutExecution"
      BY DEF FinishExecutionMut
    <3> QED
      BY <1>19, <3>1 DEF NotifyExecution
  <2> QED
    BY <1>5, <1>19, <2>1 DEF NotifyExecution, graph
<1> QED
  BY <1>8, <1>9, <1>10, <1>12, <1>13, <1>14, <1>15, <1>16, <1>17, <1>18, <1>19, Steps

-----------------------------------------------------------------------------
(* Wake-ups.                                                               *)

\* The journal's mutations and those that go with the quests in it.
LEMMA AllMutationsIn ==
  /\ \A x : x \in AllMutations <=> InAll(x, journal)
  /\ \A x : x \in AllMutations' <=> InAll(x, journal')
  BY DEF AllMutations, InAll

\* Rolling m forward takes nothing but m away from them.
LEMMA AllKept ==
  ASSUME NEW m, journal \ {m} \subseteq journal', m.type = "MergeQuest" => m.then \subseteq journal',
         NEW x \in AllMutations, x # m
  PROVE  x \in AllMutations'
  BY AllMutationsIn DEF InAll

\* What is new among them comes from what is new in the journal.
LEMMA AllNew ==
  ASSUME NEW new, journal' \subseteq journal \cup new, NEW x \in AllMutations'
  PROVE  x \in AllMutations \/ InAll(x, new)
  BY AllMutationsIn DEF InAll

\* The mutations of the journal, and those that go with quests, are mutations.
LEMMA AllTyped ==
  ASSUME TypesOK, NEW x \in AllMutations
  PROVE  x \in Mutations
<1>1. CASE x \in journal
  BY <1>1 DEF TypesOK
<1>2. ASSUME NEW y \in journal, y.type = "MergeQuest", x \in y.then PROVE x \in Mutations
  BY <1>2, MutationShapes, DepMutsAreMutations DEF TypesOK
<1> QED
  BY <1>1, <1>2, AllMutationsIn DEF InAll

\* What rolling m forward does to attempt b.
Moved(m, b) ==
    \/ attempt'[b] = attempt[b]
    \/ /\ attempt[b].st = "DNE" /\ attempt'[b].st = "SCHEDULING"
       /\ attempt'[b].deps = attempt[b].deps
    \/ /\ attempt[b].st = "SCHEDULING"
       /\ \/ attempt'[b].st = "EXECUTING" /\ attempt'[b].deps = attempt[b].deps
          \/ attempt'[b].st = "ABNORMAL_FINISHED"
    \/ /\ attempt[b].st = "EXECUTING" /\ attempt'[b].cur = attempt[b].cur
       /\ \/ attempt'[b].st = "SCHEDULING" /\ attempt'[b].deps = <<>>
          \/ /\ attempt'[b].st = "FINISHED" /\ attempt'[b].deps = <<>>
             /\ RecordCompletionMut(b) \in journal'
          \/ /\ attempt'[b].st = "WAITING" /\ attempt'[b].deps = attempt[b].deps
             /\ \E i \in DOMAIN attempt[b].deps : ~attempt[b].deps[i]
          \/ attempt'[b].st = "ABNORMAL_FINISHED"
    \/ /\ attempt[b].st = "WAITING" /\ attempt'[b].st = "SCHEDULING" /\ attempt'[b].deps = <<>>
    \/ \E f \in fwd :
         /\ m = AckFwdDepMut(f.from, f.to) /\ f.from = b /\ Applies(f)
         /\ attempt'[b].st = attempt[b].st /\ attempt'[b].cur = attempt[b].cur
         /\ f.bit \in DOMAIN attempt[b].deps
         /\ attempt'[b].deps = [attempt[b].deps EXCEPT ![f.bit] = TRUE]
         /\ attempt[b].st = "WAITING" => attempt[b].deps[f.bit] \/
              \E i \in DOMAIN attempt[b].deps : i # f.bit /\ ~attempt[b].deps[i]

\* Nothing else happens to any attempt.
LEMMA RollMoves ==
  ASSUME TypesOK, NEW m \in journal, RollForward(m)
  PROVE  \A b \in Attempts : Moved(m, b)
<1>1. m \in Mutations /\ attempt \in [Attempts -> AttemptRecords]
  BY DEF TypesOK
<1>2. CASE attempt' = attempt
  BY <1>2 DEF Moved
<1>3. CASE m.type = "EnsureAttempt" /\ EnsureAttempt(m)
  BY <1>3, EnsureStep DEF Moved, OnlyAttempt
<1>4. CASE m.type = "ScheduleExecution" /\ ScheduleExecution(m)
  BY <1>4, ScheduleStep DEF Moved, OnlyAttempt, Begins, IsRejected
<1>5. CASE m.type = "FinishExecution" /\ FinishExecution(m)
  <2>1. ASSUME NEW new, Ends(m.for, m.ex, new), Rolled(m, new), attempt[m.for].st = "EXECUTING",
               attempt[m.for].cur = m.ex
        PROVE  \A b \in Attempts : Moved(m, b)
    <3>1. new \subseteq journal'
      BY <2>1, RolledFacts
    <3>2. Moved(m, m.for)
      BY <2>1, <3>1 DEF Ends, Moved
    <3> QED
      BY <2>1, <3>2 DEF Ends, OnlyAttempt, Moved
  <2> QED
    BY <1>2, <1>5, <2>1, FinishStep
<1>6. CASE m.type = "AckFwdDep" /\ AckFwdDep(m)
  <2>1. m.from \in Attempts /\ m = AckFwdDepMut(m.from, m.to)
    BY <1>1, <1>6, MutationShapes
  <2>2. ASSUME NEW f \in fwd, f.from = m.from, f.to = m.to, NEW wake \in BOOLEAN, Applies(f),
               f.bit \in DOMAIN attempt[m.from].deps,
               wake <=> /\ attempt[m.from].st = "WAITING"
                        /\ ~attempt[m.from].deps[f.bit]
                        /\ \A i \in DOMAIN attempt[m.from].deps :
                             i # f.bit => attempt[m.from].deps[i],
               attempt' = [attempt EXCEPT
                             ![m.from] = AckedAttempt(attempt[m.from], f.bit, wake)]
        PROVE  \A b \in Attempts : Moved(m, b)
    <3> DEFINE a == m.from
               x == AckedAttempt(attempt[a], f.bit, wake)
    <3>1. /\ x \in AttemptRecords /\ x.cur = attempt[a].cur
          /\ x.st = IF wake THEN "SCHEDULING" ELSE attempt[a].st
          /\ x.deps = IF wake THEN <<>> ELSE [attempt[a].deps EXCEPT ![f.bit] = TRUE]
      BY <1>1, <2>1, <2>2, AckedFacts
    <3>2. attempt' = [attempt EXCEPT ![a] = x] /\ a \in Attempts
      BY <2>1, <2>2
    <3> HIDE DEF x
    <3>3. attempt'[a] = x /\ OnlyAttempt(a)
      BY <1>1, <3>1, <3>2, AttemptUpdate DEF OnlyAttempt
    <3>4. CASE wake
      BY <2>2, <3>1, <3>3, <3>4 DEF Moved, OnlyAttempt
    <3>5. CASE ~wake
      <4>1. Moved(m, a)
        BY <2>1, <2>2, <3>1, <3>3, <3>5 DEF Moved
      <4> QED
        BY <3>3, <4>1 DEF Moved, OnlyAttempt
    <3> QED
      BY <3>4, <3>5
  <2> QED
    BY <1>2, <1>6, <2>2, AckStep
<1> QED
  BY <1>2, <1>3, <1>4, <1>5, <1>6 DEF RollForward, EnsureQuestAttempts, MergeQuest,
     TimeoutExecution, AddBackDep, RecordCompletion, graph

\* Rolling a mutation forward makes no back dependency that was not under way.
LEMMA RollBackDeps ==
  ASSUME TypesOK, NEW m \in journal, RollForward(m), NEW x \in AllMutations',
         x.type = "AddBackDep"
  PROVE  x \in AllMutations
<1>1. m \in Mutations
  BY DEF TypesOK
<1>2. ASSUME NEW new, Rolled(m, new), \A y \in new : y.type \notin {"AddBackDep", "MergeQuest"}
      PROVE  x \in AllMutations
  <2>1. journal' \subseteq journal \cup new
    BY <1>2, RolledFacts
  <2>2. ~InAll(x, new)
    BY <1>2 DEF InAll
  <2> QED
    BY <2>1, <2>2, AllNew
<1> DEFINE none == {}
<1>3. Rolled(m, {}) => x \in AllMutations
  <2>1. \A y \in none : y.type \notin {"AddBackDep", "MergeQuest"}
    OBVIOUS
  <2> HIDE DEF none
  <2>2. Rolled(m, none) => x \in AllMutations
    BY <1>2, <2>1
  <2> QED
    BY <2>2 DEF none
<1>4. CASE journal' \subseteq journal
  BY <1>4, AllMutationsIn DEF InAll
<1>5. CASE m.type = "EnsureQuestAttempts" /\ EnsureQuestAttempts(m)
  <2>1. /\ \A a : EnsureAttemptMut(a).type = "EnsureAttempt"
        /\ \A q, S, b : EnsureQuestMut(q, S, b).type = "EnsureQuestAttempts"
    BY DEF EnsureAttemptMut, EnsureQuestMut
  <2>2. PICK first, rest : Rolled(m, {EnsureAttemptMut(a) : a \in first} \cup
                 (IF rest = {} THEN {} ELSE {EnsureQuestMut(m.quest, rest, FALSE)}))
    BY <1>5 DEF EnsureQuestAttempts
  <2> DEFINE new == {EnsureAttemptMut(a) : a \in first} \cup
                 (IF rest = {} THEN {} ELSE {EnsureQuestMut(m.quest, rest, FALSE)})
  <2>3. \A y \in new : y.type \in {"EnsureAttempt", "EnsureQuestAttempts"}
    BY <2>1
  <2>4. Rolled(m, new)
    BY <2>2
  <2> HIDE DEF new
  <2> QED
    BY <1>2, <2>3, <2>4
<1>6. CASE m.type = "MergeQuest" /\ MergeQuest(m)
  <2>1. m.then \in SUBSET DepMuts
    BY <1>1, <1>6, MutationShapes
  <2>2. \A y \in m.then : y.type # "MergeQuest"
    BY <2>1 DEF DepMuts
  <2>3. journal' \subseteq journal \cup m.then
    BY <1>6, RolledFacts DEF MergeQuest
  <2>4. x \in AllMutations \/ InAll(x, m.then)
    BY <2>3, AllNew
  <2> QED
    BY <1>6, <2>2, <2>4, AllMutationsIn DEF InAll
<1>7. CASE m.type = "EnsureAttempt" /\ EnsureAttempt(m)
  <2>1. ScheduleExecutionMut(m.for).type = "ScheduleExecution"
    BY DEF ScheduleExecutionMut
  <2> QED
    BY <1>2, <1>3, <1>7, <2>1, EnsureStep
<1>8. CASE m.type = "ScheduleExecution" /\ ScheduleExecution(m)
  BY <1>3, <1>4, <1>8, ScheduleStep
<1>9. CASE m.type = "FinishExecution" /\ FinishExecution(m)
  <2>1. \A new : Ends(m.for, m.ex, new) =>
          \A y \in new : y.type \notin {"AddBackDep", "MergeQuest"}
    BY DEF Ends, ScheduleExecutionMut, RecordCompletionMut
  <2> QED
    BY <1>2, <1>3, <1>9, <2>1, FinishStep
<1>10. CASE m.type = "TimeoutExecution" /\ TimeoutExecution(m)
  <2>1. m.for \in Attempts /\ m.ex \in Executions /\ m.tries \in Nat
    BY <1>1, <1>10, MutationShapes
  <2>2. \A known \in BOOLEAN : \A y \in TimedOut(m.for, m.ex, m.state, m.tries, known) :
          y.type \notin {"AddBackDep", "MergeQuest"}
    BY <2>1, TimedOutFacts
  <2> QED
    BY <1>2, <1>10, <2>2 DEF TimeoutExecution
<1>11. CASE m.type = "AddBackDep" /\ AddBackDep(m)
  <2>1. AckFwdDepMut(m.from, m.to).type = "AckFwdDep"
    BY DEF AckFwdDepMut
  <2>2. \E new : Rolled(m, new) /\ \A y \in new : y.type = "AckFwdDep"
    BY <1>11, <2>1 DEF AddBackDep
  <2> QED
    BY <1>2, <2>2
<1>12. CASE m.type = "RecordCompletion" /\ RecordCompletion(m)
  <2>1. \A a, d : AckFwdDepMut(a, d).type = "AckFwdDep"
    BY DEF AckFwdDepMut
  <2>2. \E batch : Rolled(m, {AckFwdDepMut(b.from, b.to) : b \in batch} \cup
                               IF Cardinality(batch) = CompletionLimit THEN {m} ELSE {})
    BY <1>12 DEF RecordCompletion
  <2>3. \E new : Rolled(m, new) /\ \A y \in new : y.type \notin {"AddBackDep", "MergeQuest"}
    BY <1>12, <2>1, <2>2
  <2> QED
    BY <1>2, <2>3
<1>13. CASE m.type = "AckFwdDep" /\ AckFwdDep(m)
  <2>1. ScheduleExecutionMut(m.from).type = "ScheduleExecution"
    BY DEF ScheduleExecutionMut
  <2>2. \E new : Rolled(m, new) /\ \A y \in new : y.type = "ScheduleExecution"
    BY <1>13, <2>1 DEF AckFwdDep
  <2> QED
    BY <1>2, <2>2
<1> QED
  BY <1>5, <1>6, <1>7, <1>8, <1>9, <1>10, <1>11, <1>12, <1>13 DEF RollForward

\* A set of back dependencies on one attempt has as many members as there are
\* attempts that depend on it.
LEMMA BackDepsByFrom ==
  ASSUME TypesOK, EdgesOK, NEW d, NEW T \in SUBSET back, \A b \in T : b.to = d
  PROVE  /\ IsFiniteSet({b.from : b \in T})
         /\ Cardinality({b.from : b \in T}) = Cardinality(T)
         /\ {b.from : b \in T} \in SUBSET Nat
<1> DEFINE S == {b.from : b \in T}
           g == [b \in T |-> b.from]
<1>1. S \in SUBSET Attempts /\ Attempts \in SUBSET Nat /\ IsFiniteSet(Attempts)
  BY DMAssumption DEF TypesOK
<1>2. IsFiniteSet(S)
  BY <1>1, FS_Subset
<1>3. \A b, c \in T : b.from = c.from => b = c
  BY DEF EdgesOK
<1>4. g \in Injection(T, S)
  BY <1>3 DEF Injection, IsInjective
<1>5. g \in Surjection(T, S)
  BY DEF Surjection
<1> QED
  BY <1>1, <1>2, <1>4, <1>5, FS_Injection

\* RecordCompletion acknowledges a dependency, or leaves it to its tail call.
LEMMA BatchFacts ==
  ASSUME TypesOK, EdgesOK, NEW m \in journal, RecordCompletion(m),
         NEW b \in back, b.to = m.for, ~b.propagated
  PROVE  AckFwdDepMut(b.from, b.to) \in journal' \/ (b \in back' /\ m \in journal')
<1> DEFINE blocked == {c \in back : c.to = m.for /\ ~c.propagated}
           before(x) == {c \in blocked : c.from < x}
           batch == {c \in blocked : Cardinality(before(c.from)) < CompletionLimit}
           new == {AckFwdDepMut(c.from, c.to) : c \in batch} \cup
                     IF Cardinality(batch) = CompletionLimit THEN {m} ELSE {}
           S == {c.from : c \in blocked}
<1>1. /\ back' = (back \ batch) \cup {[c EXCEPT !.propagated = TRUE] : c \in batch}
      /\ Rolled(m, new)
  BY DEF RecordCompletion
<1>2. new \subseteq journal' /\ b \in blocked
  <2>1. b \in blocked
    OBVIOUS
  <2> HIDE DEF new, blocked
  <2> QED
    BY <1>1, <2>1, RolledFacts
<1>3. CASE b \in batch
  BY <1>2, <1>3
<1>4. CASE b \notin batch
  <2>1. S \in SUBSET Nat /\ IsFiniteSet(S)
    BY BackDepsByFrom
  <2>2. ASSUME NEW x
        PROVE  {e \in S : e < x} = {c.from : c \in before(x)} /\
               Cardinality({e \in S : e < x}) = Cardinality(before(x))
    <3>1. {e \in S : e < x} = {c.from : c \in before(x)}
      OBVIOUS
    <3>2. before(x) \in SUBSET back /\ \A c \in before(x) : c.to = m.for
      OBVIOUS
    <3> HIDE DEF before
    <3>3. Cardinality({c.from : c \in before(x)}) = Cardinality(before(x))
      BY <3>2, BackDepsByFrom
    <3> QED
      BY <3>1, <3>3
  <2>3. {e \in S : Cardinality({f \in S : f < e}) < CompletionLimit} = {c.from : c \in batch}
    <3> HIDE DEF before
    <3>1. \A e \in S : Cardinality({f \in S : f < e}) = Cardinality(before(e))
      BY <2>2
    <3>2. {e \in S : Cardinality(before(e)) < CompletionLimit} = {c.from : c \in batch}
      OBVIOUS
    <3> QED
      BY <3>1, <3>2
  <2>4. b.from \in S /\ CompletionLimit \in Nat /\ Cardinality({e \in S : e < b.from}) >= CompletionLimit
    <3>1. b.from \in S /\ CompletionLimit \in Nat
      BY <1>2, DMAssumption
    <3>2. ~(Cardinality(before(b.from)) < CompletionLimit)
      BY <1>2, <1>4
    <3>3. Cardinality({e \in S : e < b.from}) = Cardinality(before(b.from))
      BY <2>2
    <3>4. Cardinality({e \in S : e < b.from}) \in Nat
      BY <2>1, <3>1, RankFacts
    <3> HIDE DEF before, S
    <3> QED
      BY <3>1, <3>2, <3>3, <3>4
  <2>5. Cardinality({e \in S : Cardinality({f \in S : f < e}) < CompletionLimit}) = CompletionLimit
    <3> HIDE DEF S
    <3> QED
      BY <2>1, <2>4, FirstFew
  <2>6. Cardinality({c.from : c \in batch}) = Cardinality(batch)
    <3>1. batch \in SUBSET back /\ \A c \in batch : c.to = m.for
      OBVIOUS
    <3> HIDE DEF batch
    <3> QED
      BY <3>1, BackDepsByFrom
  <2>7. Cardinality(batch) = CompletionLimit
    BY <2>3, <2>5, <2>6
  <2>8. m \in new
    <3> HIDE DEF batch
    <3> QED
      BY <2>7
  <2> QED
    BY <1>1, <1>2, <1>4, <2>8
<1> QED
  BY <1>3, <1>4

\* What will set the bit of a dependency is not lost when another mutation is
\* rolled forward: AddBackDep makes the back dependency or acknowledges it, and
\* RecordCompletion acknowledges it or calls itself.
LEMMA WillComeRoll ==
  ASSUME TypesOK, EdgesOK, CompletionsOK, NEW m \in journal, RollForward(m),
         NEW f \in fwd, WillCome(f), m # AckFwdDepMut(f.from, f.to)
  PROVE  WillCome(f)'
<1> DEFINE a == f.from
           d == f.to
<1>1. a \in Attempts /\ d \in Attempts /\ m \in Mutations /\ journal \subseteq Mutations
  BY DEF TypesOK
<1>2. journal \ {m} \subseteq journal'
  BY RollKeeps
<1>3. m.type = "MergeQuest" => m.then \subseteq journal'
  <2>1. m.type = "MergeQuest" => MergeQuest(m)
    BY DEF RollForward
  <2> QED
    BY <2>1, RolledFacts DEF MergeQuest
<1>4. \A x \in AllMutations : x # m => x \in AllMutations'
  BY <1>2, <1>3, AllKept
<1>5. AddBackDepMut(a, d, FALSE) \notin AllMutations'
  <2>1. AddBackDepMut(a, d, FALSE).type = "AddBackDep"
    BY DEF AddBackDepMut
  <2>2. AddBackDepMut(a, d, FALSE) \notin AllMutations
    BY DEF WillCome
  <2> QED
    BY <2>1, <2>2, RollBackDeps
<1>6. Moved(m, d)
  BY <1>1, RollMoves
<1>7. attempt'[d].st = "DNE" => EnsureAttemptMut(d) \in AllMutations'
  <2> SUFFICES ASSUME attempt'[d].st = "DNE" PROVE EnsureAttemptMut(d) \in AllMutations'
    OBVIOUS
  <2>1. attempt[d].st = "DNE"
    BY <1>6 DEF Moved
  <2>2. EnsureAttemptMut(d) \in AllMutations
    BY <2>1 DEF WillCome, Coming
  <2>3. m # EnsureAttemptMut(d)
    <3> SUFFICES ASSUME m = EnsureAttemptMut(d) PROVE FALSE
      OBVIOUS
    <3>1. m.type = "EnsureAttempt" /\ m.for = d
      BY DEF EnsureAttemptMut
    <3>2. EnsureAttempt(m)
      BY <3>1 DEF RollForward
    <3> QED
      BY <2>1, <3>1, <3>2, EnsureStep
  <2> QED
    BY <1>4, <2>2, <2>3
<1>8. attempt'[d].st = "FINISHED" => attempt[d].st = "FINISHED" \/ RecordCompletionMut(d) \in journal'
  BY <1>6 DEF Moved
<1> DEFINE Blocks(B) == \E b \in B : b.from = a /\ b.to = d /\ ~b.propagated
           Acked == AckFwdDepMut(a, d) \in journal'
<1>9. SUFFICES ASSUME ~Acked, AddBackDepMut(a, d, TRUE) \notin AllMutations'
      PROVE  Blocks(back') /\ (attempt'[d].st = "FINISHED" => RecordCompletionMut(d) \in journal')
  BY <1>5, <1>7 DEF WillCome, Coming
<1>10. AckFwdDepMut(a, d) \notin journal
  BY <1>2, <1>9
<1>11. CASE AddBackDepMut(a, d, TRUE) \in AllMutations
  <2>1. m = AddBackDepMut(a, d, TRUE)
    BY <1>4, <1>9, <1>11
  <2>2. m.type = "AddBackDep" /\ m.from = a /\ m.to = d /\ m.ack
    BY <2>1 DEF AddBackDepMut
  <2>3. AddBackDep(m)
    BY <2>2 DEF RollForward
  <2>4. d \notin done
    <3>1. d \in done => Rolled(m, {AckFwdDepMut(a, d)})
      BY <2>2, <2>3 DEF AddBackDep
    <3>2. d \in done => AckFwdDepMut(a, d) \in journal'
      BY <3>1, RolledFacts
    <3> QED
      BY <1>9, <3>2
  <2>5. Blocks(back')
    <3> DEFINE b == [from |-> m.from, to |-> m.to, propagated |-> m.to \in done]
    <3>1. b \in back'
      BY <2>3 DEF AddBackDep
    <3>2. b.from = a /\ b.to = d /\ ~b.propagated
      BY <2>2, <2>4
    <3> HIDE DEF b
    <3> QED
      BY <3>1, <3>2
  <2>6. attempt[d].st = "FINISHED" => RecordCompletionMut(d) \in journal'
    <3>1. attempt[d].st = "FINISHED" => RecordCompletionMut(d) \in journal
      BY <1>1, <2>4 DEF CompletionsOK
    <3>2. RecordCompletionMut(d) # m
      BY <2>2 DEF RecordCompletionMut
    <3> QED
      BY <1>2, <3>1, <3>2
  <2> QED
    BY <1>8, <2>5, <2>6
<1>12. CASE AddBackDepMut(a, d, TRUE) \notin AllMutations
  <2>1. PICK b \in back : b.from = a /\ b.to = d /\ ~b.propagated
    BY <1>10, <1>12 DEF WillCome, Coming
  <2>2. attempt[d].st = "FINISHED" => RecordCompletionMut(d) \in journal
    BY <1>10, <1>12 DEF WillCome, Coming
  <2>3. CASE m.type = "AddBackDep" /\ AddBackDep(m)
    <3>1. m.from \in Attempts /\ m.to \in Attempts /\ m.ack \in BOOLEAN
          /\ m = AddBackDepMut(m.from, m.to, m.ack)
      BY <1>1, <2>3, MutationShapes
    <3>2. m \in AllMutations
      BY AllMutationsIn DEF InAll
    <3>3. m.from # a \/ m.to # d
      <4>1. m # AddBackDepMut(a, d, TRUE) /\ m # AddBackDepMut(a, d, FALSE)
        BY <1>12, <3>2 DEF WillCome
      <4> QED
        BY <3>1, <4>1
    <3>4. b \in back'
      BY <2>1, <2>3, <3>3 DEF AddBackDep
    <3>5. RecordCompletionMut(d) # m
      BY <2>3 DEF RecordCompletionMut
    <3> QED
      BY <1>2, <1>8, <2>1, <2>2, <3>4, <3>5
  <2>4. CASE m.type = "RecordCompletion" /\ RecordCompletion(m)
    <3>1. m.for \in Attempts /\ m = RecordCompletionMut(m.for)
      BY <1>1, <2>4, MutationShapes
    <3>2. CASE m.for = d
      <4>1. b \in back' /\ m \in journal'
        BY <1>9, <2>1, <2>4, <3>2, BatchFacts
      <4> QED
        BY <2>1, <3>1, <3>2, <4>1
    <3>3. CASE m.for # d
      <4>1. b \in back'
        BY <2>1, <2>4, <3>3 DEF RecordCompletion
      <4>2. RecordCompletionMut(d) # m
        BY <3>3 DEF RecordCompletionMut
      <4> QED
        BY <1>2, <1>8, <2>1, <2>2, <4>1, <4>2
    <3> QED
      BY <3>2, <3>3
  <2>5. CASE m.type \notin {"AddBackDep", "RecordCompletion"}
    <3>1. back' = back
      BY <2>5 DEF RollForward, EnsureQuestAttempts, MergeQuest, EnsureAttempt, ScheduleExecution,
         FinishExecution, TimeoutExecution, AckFwdDep, graph
    <3>2. RecordCompletionMut(d) # m
      BY <2>5 DEF RecordCompletionMut
    <3> QED
      BY <1>2, <1>8, <2>1, <2>2, <3>1, <3>2
  <2> QED
    BY <2>3, <2>4, <2>5 DEF RollForward
<1> QED
  BY <1>11, <1>12

\* Steps outside tumble make back dependencies without acknowledgement only for
\* dependencies that did not exist, and that they declare.
LEMMA OthersBackDeps ==
  ASSUME TypesOK, DMNext, ~\E m \in journal : RollForward(m)
  PROVE  \A a, d : AddBackDepMut(a, d, FALSE) \in AllMutations' =>
           \/ AddBackDepMut(a, d, FALSE) \in AllMutations
           \/ ~HasDep(a, d) /\ HasDep(a, d)'
<1> SUFFICES ASSUME NEW a, NEW d, AddBackDepMut(a, d, FALSE) \in AllMutations',
                    AddBackDepMut(a, d, FALSE) \notin AllMutations
             PROVE  ~HasDep(a, d) /\ HasDep(a, d)'
  OBVIOUS
<1>1. /\ attempt \in [Attempts -> AttemptRecords] /\ call \in [Calls -> CallRecords \cup {NoCall}]
      /\ journal \subseteq Mutations
  BY DEF TypesOK
<1> DEFINE z == AddBackDepMut(a, d, FALSE)
<1>2. z.type = "AddBackDep" /\ z.from = a /\ z.to = d
  BY DEF AddBackDepMut
<1>3. z \in AllMutations' /\ z \notin AllMutations
  OBVIOUS
<1> HIDE DEF z
<1>4. ASSUME NEW new, journal' \subseteq journal \cup new PROVE InAll(z, new)
  BY <1>3, <1>4, AllNew
<1>5. ASSUME NEW new, journal' \subseteq journal \cup new,
             \A y \in new : y.type \notin {"AddBackDep", "MergeQuest"}
      PROVE  FALSE
  BY <1>2, <1>4, <1>5 DEF InAll
<1>6. ~(journal' \subseteq journal)
  BY <1>3, AllMutationsIn DEF InAll
<1>7. ASSUME NEW q, NEW S, journalQuestAttempts(q, S) PROVE FALSE
  <2>1. PICK b : journal' = journal \cup {EnsureQuestMut(q, S, b)}
    BY <1>7 DEF journalQuestAttempts
  <2> DEFINE new == {EnsureQuestMut(q, S, b)}
  <2>2. journal' \subseteq journal \cup new /\ \A y \in new : y.type = "EnsureQuestAttempts"
    BY <2>1 DEF EnsureQuestMut
  <2> HIDE DEF new
  <2> QED
    BY <1>5, <2>2
<1>8. ASSUME NEW b \in Attempts, NEW n \in Executions, NEW s, NEW known \in BOOLEAN,
             journal' = journal \cup TimedOut(b, n, s, 0, known)
      PROVE  FALSE
  <2> DEFINE T == TimedOut(b, n, s, 0, known)
  <2>1. \A y \in T : y.type \notin {"AddBackDep", "MergeQuest"}
    BY TimedOutFacts
  <2>2. journal' \subseteq journal \cup T
    BY <1>8
  <2> HIDE DEF T
  <2> QED
    BY <1>5, <2>1, <2>2
<1>9. ASSUME NEW b \in Attempts, NEW n \in Executions, NEW s,
             LoadedTimer(b, n, s) \/ TimerFires(b, n) \/ LoadTimer(b, n)
      PROVE  FALSE
  BY <1>6, <1>8, <1>9 DEF LoadedTimer, TimerFires, LoadTimer
<1>10. ASSUME NEW b, NEW n, NEW k, NotifyExecution(b, n, k) PROVE FALSE
  <2> DEFINE new == {FinishExecutionMut(b, n, task[b][n][k])}
  <2>1. journal' \subseteq journal \cup new
    BY <1>10 DEF NotifyExecution
  <2>2. \A y \in new : y.type = "FinishExecution"
    BY DEF FinishExecutionMut
  <2> HIDE DEF new
  <2> QED
    BY <1>5, <2>1, <2>2
<1>11. ASSUME NEW b, NEW n, NEW k, NEW c, NEW want, NEW r,
              \/ ActivateExecution(b, n, k) \/ FinishAttempt(b, n, k)
              \/ EnsureGraphData(c, b, n, k, want) \/ TaskEnds(b, n, k, r)
              \/ doGraphWalk(c) \/ depsFromMissing(c)
       PROVE  FALSE
  BY <1>6, <1>11 DEF ActivateExecution, FinishAttempt, EnsureGraphData, TaskEnds, doGraphWalk,
     depsFromMissing, work
<1>12. ASSUME NEW c \in Calls, DecideCall(c) PROVE ~HasDep(a, d) /\ HasDep(a, d)'
  <2> DEFINE x == call[c]
             new == filterExisting(x.from, x.missing)
  <2>1. /\ x.st = "read" /\ x.walk # None /\ x.missing # None
        /\ UNCHANGED journal \/ AddFinishedDeps(x) \/ AddDeps(x)
    BY <1>12 DEF DecideCall
  <2>2. /\ x.from \in Attempts /\ x.walk \in Walks /\ x.missing \in SUBSET Attempts
    BY <1>1, <2>1, CallFacts
  <2>3. new \in SUBSET Attempts /\ new \subseteq x.missing /\ \A e \in new : ~HasDep(x.from, e)
    BY <2>2 DEF filterExisting
  <2> HIDE DEF x
  <2>4. CASE UNCHANGED journal
    BY <1>6, <2>4
  <2>5. CASE AddDeps(x)
    <3>1. journal' \subseteq journal \cup AddDepsMuts(x.from, new, x.walk)
      BY <2>5 DEF AddDeps
    <3> HIDE DEF new
    <3>2. ~InAll(z, AddDepsMuts(x.from, new, x.walk))
      BY <2>2, <2>3, AddDepsMutsFacts, Zenon DEF z
    <3> QED
      BY <1>4, <3>1, <3>2
  <2>6. CASE AddFinishedDeps(x)
    <3> DEFINE B == {AddBackDepMut(x.from, e, FALSE) : e \in new}
               Q == {MergeQuestMut(q, {}) : q \in x.walk.newQuests}
    <3>1. journal' \subseteq journal \cup (B \cup Q)
      BY <2>6 DEF AddFinishedDeps
    <3>2. /\ \A y \in Q : y.type = "MergeQuest" /\ y.then = {}
          /\ \A y \in B : y.type = "AddBackDep"
      BY DEF MergeQuestMut, AddBackDepMut
    <3>3. InAll(z, B \cup Q)
      <4> HIDE DEF B, Q
      <4> QED
        BY <1>4, <3>1
    <3>4. z \in B
      <4> HIDE DEF B, Q
      <4> QED
        BY <1>2, <3>2, <3>3 DEF InAll
    <3>5. a = x.from /\ d \in new
      BY <1>2, <3>4 DEF AddBackDepMut
    <3>6. \E f \in FwdDeps(x.from, x.missing) : f.to = d /\ f.from = a
      BY <1>1, <2>2, <2>3, <3>5, FwdDepsFacts
    <3>7. \E f \in fwd' : f.to = d /\ f.from = a
      BY <2>6, <3>5, <3>6 DEF AddFinishedDeps
    <3> QED
      BY <2>3, <3>5, <3>7 DEF HasDep
  <2> QED
    BY <2>1, <2>4, <2>5, <2>6
<1> QED
  BY <1>7, <1>9, <1>10, <1>11, <1>12, Steps

\* What will set the bit of a dependency is not lost in a step that rolls nothing
\* forward, and no dependency comes to need no acknowledgement.
LEMMA WillComeOthers ==
  ASSUME TypesOK, DMNext, ~\E m \in journal : RollForward(m), NEW f \in fwd, WillCome(f)
  PROVE  WillCome(f)'
<1>1. f.to \in Attempts
  BY DEF TypesOK
<1>2. /\ journal \subseteq journal' /\ attempt'[f.to].st = attempt[f.to].st
      /\ UNCHANGED <<back, done>>
  BY <1>1, OthersKeep, OthersMoveNothing
<1>3. AllMutations \subseteq AllMutations'
  BY <1>2, AllMutationsIn DEF InAll
<1>4. Coming(f)'
  BY <1>2, <1>3 DEF WillCome, Coming
<1> QED
  BY <1>4, OthersBackDeps DEF WillCome, HasDep

\* Attempts do not cease to exist, and one that is finished was so or has its
\* completion recorded.
LEMMA StatesKept ==
  ASSUME TypesOK, DMNext, NEW b \in Attempts
  PROVE  /\ attempt'[b].st = "DNE" => attempt[b].st = "DNE"
         /\ attempt'[b].st = "FINISHED" =>
              attempt[b].st = "FINISHED" \/ RecordCompletionMut(b) \in journal'
<1>1. ASSUME NEW m \in journal, RollForward(m), Moved(m, b)
      PROVE  /\ attempt'[b].st = "DNE" => attempt[b].st = "DNE"
             /\ attempt'[b].st = "FINISHED" =>
                  attempt[b].st = "FINISHED" \/ RecordCompletionMut(b) \in journal'
  BY <1>1 DEF Moved
<1> QED
  BY <1>1, RollMoves, OthersMoveNothing

\* The dependencies that x declares are waited for.
Declares(x) ==
    LET new == filterExisting(x.from, x.missing)
    IN  /\ x.st = "read" /\ x.walk # None /\ x.missing # None
        /\ attempt[x.from].st = "EXECUTING" /\ AddDeps(x)
        /\ attempt'[x.from].deps = [i \in 1..Cardinality(new) |-> FALSE]

\* Outside tumble, only a declaration of dependencies changes a DepMap.
LEMMA OthersDeps ==
  ASSUME TypesOK, DMNext, ~\E m \in journal : RollForward(m), NEW b \in Attempts
  PROVE  \/ attempt'[b].deps = attempt[b].deps
         \/ \E c \in Calls : call[c].from = b /\ Declares(call[c])
<1>1. ASSUME NEW c \in Calls, DecideCall(c)
      PROVE  attempt'[b].deps = attempt[b].deps \/ (call[c].from = b /\ Declares(call[c]))
  <2> DEFINE x == call[c]
             new == filterExisting(x.from, x.missing)
             D == [i \in 1..Cardinality(new) |-> FALSE]
  <2>1. /\ attempt \in [Attempts -> AttemptRecords] /\ call \in [Calls -> CallRecords \cup {NoCall}]
    BY DEF TypesOK
  <2>2. /\ x.st = "read" /\ x.walk # None /\ x.missing # None
        /\ UNCHANGED attempt \/ (Authentic(x.from, x.ex, x.run) /\ AddDeps(x))
    BY <1>1 DEF DecideCall, AddFinishedDeps
  <2>3. x.from \in Attempts
    BY <2>1, <2>2, CallFacts
  <2>4. CASE UNCHANGED attempt
    BY <2>4
  <2>5. CASE Authentic(x.from, x.ex, x.run) /\ AddDeps(x)
    <3>1. \/ UNCHANGED attempt
          \/ attempt' = [attempt EXCEPT ![x.from].deps = D]
      BY <2>5 DEF AddDeps
    <3>2. attempt[x.from] \in AttemptRecords
      BY <2>1, <2>3
    <3>3. attempt[x.from].st = "EXECUTING"
      BY <2>5 DEF Authentic
    <3> HIDE DEF D, x
    <3>4. ASSUME attempt' = [attempt EXCEPT ![x.from].deps = D]
          PROVE  /\ \A e \in Attempts \ {x.from} : attempt'[e] = attempt[e]
                 /\ attempt'[x.from].deps = D
      BY <2>1, <2>3, <3>2, <3>4 DEF AttemptRecords
    <3>5. ASSUME attempt'[x.from].deps = D PROVE Declares(x)
      BY <2>2, <2>5, <3>3, <3>5 DEF Declares, D
    <3> QED
      BY <2>3, <3>1, <3>4, <3>5 DEF x
  <2> QED
    BY <2>2, <2>4, <2>5
<1> QED
  BY <1>1, OthersMoveNothing

\* An attempt that waits for nothing declares no dependencies behind its back.
LEMMA DepMapsStep ==
  ASSUME TypesOK, DepMapsOK, DMNext
  PROVE  DepMapsOK'
<1> SUFFICES ASSUME NEW a \in Attempts
             PROVE  /\ attempt'[a].st \in {"DNE", "SCHEDULING", "FINISHED"} => attempt'[a].deps = <<>>
                    /\ attempt'[a].st = "WAITING" =>
                         \E i \in DOMAIN attempt'[a].deps : ~attempt'[a].deps[i]
  BY DEF DepMapsOK
<1>1. /\ attempt[a].st \in {"DNE", "SCHEDULING", "FINISHED"} => attempt[a].deps = <<>>
      /\ attempt[a].st = "WAITING" => \E i \in DOMAIN attempt[a].deps : ~attempt[a].deps[i]
  BY DEF DepMapsOK
<1>2. ASSUME NEW m \in journal, RollForward(m)
      PROVE  /\ attempt'[a].st \in {"DNE", "SCHEDULING", "FINISHED"} => attempt'[a].deps = <<>>
             /\ attempt'[a].st = "WAITING" =>
                  \E i \in DOMAIN attempt'[a].deps : ~attempt'[a].deps[i]
  <2>1. Moved(m, a)
    BY <1>2, RollMoves
  <2>2. ASSUME NEW f \in fwd,
               Applies(f), f.from = a, attempt'[a].st = attempt[a].st,
               f.bit \in DOMAIN attempt[a].deps,
               attempt'[a].deps = [attempt[a].deps EXCEPT ![f.bit] = TRUE],
               attempt[a].st = "WAITING" => attempt[a].deps[f.bit] \/
                 \E i \in DOMAIN attempt[a].deps : i # f.bit /\ ~attempt[a].deps[i]
        PROVE  /\ attempt'[a].st \in {"DNE", "SCHEDULING", "FINISHED"} => attempt'[a].deps = <<>>
               /\ attempt'[a].st = "WAITING" =>
                    \E i \in DOMAIN attempt'[a].deps : ~attempt'[a].deps[i]
    <3>1. attempt[a].st \in {"EXECUTING", "WAITING"}
      BY <2>2 DEF Applies
    <3>2. attempt[a].deps \in Seq(BOOLEAN)
      BY DEF TypesOK, AttemptRecords
    <3>3. attempt[a].st = "WAITING" =>
            \E i \in DOMAIN attempt[a].deps : i # f.bit /\ ~attempt[a].deps[i]
      BY <1>1, <2>2
    <3> QED
      BY <2>2, <3>1, <3>2, <3>3
  <2> QED
    BY <1>1, <2>1, <2>2 DEF Moved
<1>3. CASE ~\E m \in journal : RollForward(m)
  <2>1. attempt'[a].st = attempt[a].st
    BY <1>3, OthersMoveNothing
  <2>2. attempt'[a].deps = attempt[a].deps \/ attempt[a].st = "EXECUTING"
    BY <1>3, OthersDeps DEF Declares
  <2> QED
    BY <1>1, <2>1, <2>2
<1> QED
  BY <1>2, <1>3

\* A finished attempt keeps its RecordCompletion until it is in done.
LEMMA CompletionsStep ==
  ASSUME TypesOK, CompletionsOK, DMNext
  PROVE  CompletionsOK'
<1> SUFFICES ASSUME NEW a \in Attempts, attempt'[a].st = "FINISHED", a \notin done'
             PROVE  RecordCompletionMut(a) \in journal'
  BY DEF CompletionsOK, RecordCompletionMut
<1>1. attempt[a].st = "FINISHED" \/ RecordCompletionMut(a) \in journal'
  BY StatesKept
<1>2. ASSUME NEW m \in journal, RollForward(m), attempt[a].st = "FINISHED"
      PROVE  RecordCompletionMut(a) \in journal'
  <2>1. done \subseteq done'
    BY <1>2 DEF RollForward, EnsureQuestAttempts, MergeQuest, EnsureAttempt, ScheduleExecution,
         FinishExecution, TimeoutExecution, AckFwdDep, AddBackDep, RecordCompletion, graph
  <2>2. RecordCompletionMut(a) \in journal
    BY <1>2, <2>1 DEF CompletionsOK
  <2>3. m # RecordCompletionMut(a)
    <3> SUFFICES ASSUME m = RecordCompletionMut(a) PROVE FALSE
      OBVIOUS
    <3>1. m.type = "RecordCompletion" /\ m.for = a
      BY DEF RecordCompletionMut
    <3>2. RecordCompletion(m)
      BY <1>2, <3>1 DEF RollForward
    <3> QED
      BY <3>1, <3>2 DEF RecordCompletion
  <2> QED
    BY <1>2, <2>2, <2>3, RollKeeps
<1>3. CASE ~\E m \in journal : RollForward(m)
  <2>1. done' = done /\ journal \subseteq journal'
    BY <1>3, OthersKeep, OthersMoveNothing
  <2> QED
    BY <1>1, <2>1 DEF CompletionsOK
<1> QED
  BY <1>1, <1>2, <1>3

\* A back dependency without acknowledgement has its FwdDep.
LEMMA UnackedStep ==
  ASSUME TypesOK, TypesOK', EdgesOK, UnackedOK, DMNext
  PROVE  UnackedOK'
<1> SUFFICES ASSUME NEW x \in AllMutations', x.type = "AddBackDep", ~x.ack
             PROVE  HasDep(x.from, x.to)'
  BY DEF UnackedOK, HasDep
<1>1. x \in Mutations
  <2>1. journal' \subseteq Mutations
    BY DEF TypesOK
  <2>2. x \in journal' \/ \E y \in journal' : y.type = "MergeQuest" /\ x \in y.then
    BY AllMutationsIn DEF InAll
  <2>3. ASSUME NEW y \in journal', y.type = "MergeQuest", x \in y.then PROVE x \in Mutations
    <3>1. y \in Mutations
      BY <2>1
    <3> QED
      BY <2>3, <3>1, MutationShapes, DepMutsAreMutations
  <2> QED
    BY <2>1, <2>2, <2>3
<1>2. x = AddBackDepMut(x.from, x.to, FALSE)
  <2>1. x = AddBackDepMut(x.from, x.to, x.ack) /\ x.ack \in BOOLEAN
    BY <1>1, MutationShapes
  <2>2. x.ack = FALSE
    BY <2>1
  <2> QED
    BY <2>1, <2>2
<1>3. x \in AllMutations => HasDep(x.from, x.to)'
  <2>1. fwd \subseteq fwd'
    BY EdgesStep
  <2> QED
    BY <2>1 DEF UnackedOK, HasDep
<1>4. ASSUME NEW m \in journal, RollForward(m) PROVE x \in AllMutations
  BY <1>4, RollBackDeps
<1>5. CASE ~\E m \in journal : RollForward(m)
  BY <1>2, <1>3, <1>5, OthersBackDeps
<1> QED
  BY <1>3, <1>4, <1>5

\* What a call has read stays true, as far as it is used.
LEMMA CallsStep ==
  ASSUME TypesOK, CallsOK, DMNext
  PROVE  CallsOK'
<1>1. call \in [Calls -> CallRecords \cup {NoCall}]
  BY DEF TypesOK
<1> DEFINE Sound(x) ==
             /\ x.walk # None =>
                  \A d \in x.want : attempt'[d].st = "DNE" => d \in x.walk.dne
             /\ x.missing # None => x.missing \subseteq x.want
<1>2. \A c \in Calls : call[c].st = "read" => Sound(call[c])
  <2> SUFFICES ASSUME NEW c \in Calls, call[c].st = "read" PROVE Sound(call[c])
    OBVIOUS
  <2>1. call[c].want \in SUBSET Attempts
    BY <1>1, CallFacts
  <2>2. \A d \in call[c].want : attempt'[d].st = "DNE" => attempt[d].st = "DNE"
    BY <2>1, StatesKept
  <2> QED
    BY <2>2 DEF CallsOK
<1>3. SUFFICES \A c \in Calls : call'[c].st = "read" => Sound(call'[c])
  BY DEF CallsOK
<1> HIDE DEF Sound
<1>4. CASE UNCHANGED call
  BY <1>2, <1>4
<1>5. NoCall.st # "read"
  BY DEF NoCall
<1>6. ASSUME NEW c \in Calls, \A e \in Calls \ {c} : call'[e] = call[e],
             call'[c].st = "read" => Sound(call'[c])
      PROVE  \A e \in Calls : call'[e].st = "read" => Sound(call'[e])
  BY <1>2, <1>6
<1>7. ASSUME NEW c \in Calls, DecideCall(c)
      PROVE  \A e \in Calls : call'[e].st = "read" => Sound(call'[e])
  <2>1. call' = [call EXCEPT ![c] = NoCall]
    BY <1>7 DEF DecideCall
  <2>2. call'[c] = NoCall /\ \A e \in Calls \ {c} : call'[e] = call[e]
    BY <1>1, <2>1
  <2> QED
    BY <1>5, <1>6, <2>2
<1>8. ASSUME NEW c \in Calls, NEW a, NEW n, NEW k, NEW want, EnsureGraphData(c, a, n, k, want)
      PROVE  \A e \in Calls : call'[e].st = "read" => Sound(call'[e])
  <2> DEFINE x == [st |-> "read", from |-> a, ex |-> n, run |-> k,
                   want |-> want, walk |-> None, missing |-> None]
  <2>1. call' = [call EXCEPT ![c] = x]
    BY <1>8 DEF EnsureGraphData
  <2>2. Sound(x)
    BY DEF Sound
  <2> HIDE DEF x
  <2>3. call'[c] = x /\ \A e \in Calls \ {c} : call'[e] = call[e]
    BY <1>1, <2>1
  <2> QED
    BY <1>6, <2>2, <2>3
<1>9. ASSUME NEW c \in Calls, doGraphWalk(c)
      PROVE  \A e \in Calls : call'[e].st = "read" => Sound(call'[e])
  <2> DEFINE x == call[c]
             no == {q \in {QuestOf[d] : d \in x.want} : q \notin quests}
             w == [allFinished |-> \A d \in x.want : attempt[d].st = "FINISHED",
                   dne |-> {d \in x.want : attempt[d].st = "DNE"},
                   newQuests |-> no \cup (load.rebuilt \cap {QuestOf[d] : d \in x.want})]
  <2>1. x.st = "read" /\ call' = [call EXCEPT ![c].walk = w] /\ attempt' = attempt
    BY <1>9 DEF doGraphWalk, graph
  <2>2. w.dne = {d \in x.want : attempt[d].st = "DNE"}
    OBVIOUS
  <2> HIDE DEF w
  <2>3. x \in CallRecords /\ Sound(x)
    BY <1>1, <1>2, <2>1, CallFacts
  <2>4. /\ call'[c] = [x EXCEPT !.walk = w] /\ \A e \in Calls \ {c} : call'[e] = call[e]
    BY <1>1, <2>1
  <2> HIDE DEF x
  <2>5. call'[c].walk = w /\ call'[c].want = x.want /\ call'[c].missing = x.missing
    BY <2>3, <2>4 DEF CallRecords
  <2>6. Sound(call'[c])
    BY <2>1, <2>2, <2>3, <2>5 DEF Sound
  <2> QED
    BY <1>6, <2>4, <2>6
<1>10. ASSUME NEW c \in Calls, depsFromMissing(c)
       PROVE  \A e \in Calls : call'[e].st = "read" => Sound(call'[e])
  <2> DEFINE x == call[c]
             D == {d \in x.want : ~HasDep(x.from, d)}
  <2>1. x.st = "read" /\ call' = [call EXCEPT ![c].missing = D] /\ attempt' = attempt
    BY <1>10 DEF depsFromMissing, graph
  <2>2. D \subseteq x.want
    OBVIOUS
  <2> HIDE DEF D
  <2>3. x \in CallRecords /\ Sound(x)
    BY <1>1, <1>2, <2>1, CallFacts
  <2>4. /\ call'[c] = [x EXCEPT !.missing = D] /\ \A e \in Calls \ {c} : call'[e] = call[e]
    BY <1>1, <2>1
  <2> HIDE DEF x
  <2>5. call'[c].walk = x.walk /\ call'[c].want = x.want /\ call'[c].missing = D
    BY <2>3, <2>4 DEF CallRecords
  <2>6. Sound(call'[c])
    BY <2>1, <2>2, <2>3, <2>5 DEF Sound
  <2> QED
    BY <1>6, <2>4, <2>6
<1>11. ASSUME NEW m, RollForward(m) PROVE UNCHANGED call
  BY <1>11 DEF RollForward, EnsureQuestAttempts, MergeQuest, EnsureAttempt, ScheduleExecution,
     FinishExecution, TimeoutExecution, AckFwdDep, AddBackDep, RecordCompletion, world
<1>12. ASSUME NEW a, NEW n, NEW k, NEW q, NEW S, NEW s, NEW r,
              \/ journalQuestAttempts(q, S) \/ LoadedTimer(a, n, s) \/ TimerFires(a, n)
              \/ LoadTimer(a, n) \/ ActivateExecution(a, n, k) \/ FinishAttempt(a, n, k)
              \/ TaskEnds(a, n, k, r) \/ NotifyExecution(a, n, k)
       PROVE  UNCHANGED call
  BY <1>12 DEF journalQuestAttempts, LoadedTimer, TimerFires, LoadTimer, ActivateExecution,
     FinishAttempt, TaskEnds, NotifyExecution, world
<1> QED
  BY <1>4, <1>7, <1>8, <1>9, <1>10, <1>11, <1>12, Steps

\* AckFwdDep sets the bit of the dependency it is for, or unblocks the attempt.
LEMMA AckSets ==
  ASSUME TypesOK, EdgesOK, NEW f \in fwd, Applies(f), NEW m \in journal,
         m = AckFwdDepMut(f.from, f.to), RollForward(m)
  PROVE  \/ attempt'[f.from].st = "SCHEDULING"
         \/ attempt'[f.from].deps[f.bit]
<1>1. m.type = "AckFwdDep" /\ m.from = f.from /\ m.to = f.to
  BY DEF AckFwdDepMut
<1>2. AckFwdDep(m)
  BY <1>1 DEF RollForward
<1>3. \A g \in fwd : g.from = m.from /\ g.to = m.to => g = f
  BY <1>1 DEF EdgesOK
<1>4. PICK wake \in BOOLEAN :
        /\ f.bit \in DOMAIN attempt[f.from].deps
        /\ attempt' = [attempt EXCEPT
                         ![f.from] = AckedAttempt(attempt[f.from], f.bit, wake)]
  BY <1>1, <1>2, <1>3, AckStep
<1>5. f.from \in Attempts /\ attempt[f.from] \in AttemptRecords
      /\ attempt \in [Attempts -> AttemptRecords]
  BY DEF TypesOK
<1> DEFINE x == AckedAttempt(attempt[f.from], f.bit, wake)
<1>6. /\ x.st = IF wake THEN "SCHEDULING" ELSE attempt[f.from].st
      /\ x.deps = IF wake THEN <<>> ELSE [attempt[f.from].deps EXCEPT ![f.bit] = TRUE]
  BY <1>4, <1>5, AckedFacts
<1>7. attempt'[f.from] = x
  BY <1>4, <1>5
<1> HIDE DEF x
<1>8. attempt[f.from].deps \in Seq(BOOLEAN)
  BY <1>5 DEF AttemptRecords
<1> QED
  BY <1>4, <1>6, <1>7, <1>8

\* A mutation that is rolled forward leaves every bit that is missing with what
\* will set it.
LEMMA WaitsRoll ==
  ASSUME TypesOK, EdgesOK, WakeupsOK, NEW m \in journal, RollForward(m), DMNext
  PROVE  WaitsOK'
<1> SUFFICES ASSUME NEW a \in Attempts, attempt'[a].st \in {"EXECUTING", "WAITING"},
                    NEW i \in DOMAIN attempt'[a].deps, ~attempt'[a].deps[i]
             PROVE  IsWaitedFor(a, i)'
  BY Zenon DEF WaitsOK
<1>1. Moved(m, a)
  BY RollMoves
<1>2. /\ attempt[a].st \in {"EXECUTING", "WAITING"} /\ attempt'[a].cur = attempt[a].cur
      /\ i \in DOMAIN attempt[a].deps /\ ~attempt[a].deps[i]
  <2>1. attempt[a].deps \in Seq(BOOLEAN)
    BY DEF TypesOK, AttemptRecords
  <2>2. attempt[a].st = "SCHEDULING" => attempt[a].deps = <<>>
    BY DEF WakeupsOK, DepMapsOK
  <2>3. ASSUME NEW f \in fwd, f.from = a, Applies(f),
               attempt'[a].st = attempt[a].st, attempt'[a].cur = attempt[a].cur,
               f.bit \in DOMAIN attempt[a].deps,
               attempt'[a].deps = [attempt[a].deps EXCEPT ![f.bit] = TRUE]
        PROVE  /\ attempt[a].st \in {"EXECUTING", "WAITING"}
               /\ i \in DOMAIN attempt[a].deps /\ ~attempt[a].deps[i]
    BY <2>1, <2>3
  <2>4. CASE attempt'[a] = attempt[a]
    BY <2>4
  <2>5. attempt[a].st = "SCHEDULING" => attempt'[a].deps # attempt[a].deps
    BY <2>2
  <2>6. attempt'[a].deps # <<>>
    OBVIOUS
  <2>7. CASE /\ attempt[a].st = "EXECUTING" /\ attempt'[a].cur = attempt[a].cur
             /\ attempt'[a].st = "WAITING" /\ attempt'[a].deps = attempt[a].deps
    BY <2>7
  <2> QED
    BY <1>1, <2>3, <2>4, <2>5, <2>6, <2>7 DEF Moved
<1>3. PICK f \in fwd : f.from = a /\ f.ex = attempt[a].cur /\ f.bit = i /\ WillCome(f)
  BY <1>2 DEF WakeupsOK, WaitsOK, IsWaitedFor
<1>4. m # AckFwdDepMut(f.from, f.to)
  <2>1. Applies(f)
    BY <1>2, <1>3 DEF Applies
  <2> QED
    BY <1>3, <2>1, AckSets
<1>5. WillCome(f)' /\ f \in fwd'
  BY <1>3, <1>4, WillComeRoll, EdgesStep DEF WakeupsOK
<1> QED
  BY <1>2, <1>3, <1>5 DEF IsWaitedFor

\* So does every step outside tumble: the dependencies that are declared in it
\* come with their back dependencies, and with the attempts that do not exist.
LEMMA WaitsOthers ==
  ASSUME TypesOK, EdgesOK, WakeupsOK, DMNext, ~\E m \in journal : RollForward(m)
  PROVE  WaitsOK'
<1> SUFFICES ASSUME NEW a \in Attempts, attempt'[a].st \in {"EXECUTING", "WAITING"},
                    NEW i \in DOMAIN attempt'[a].deps, ~attempt'[a].deps[i]
             PROVE  IsWaitedFor(a, i)'
  BY Zenon DEF WaitsOK
<1>1. attempt'[a].st = attempt[a].st /\ attempt'[a].cur = attempt[a].cur
  BY OthersMoveNothing
<1>2. CASE attempt'[a].deps = attempt[a].deps
  <2>1. PICK f \in fwd : f.from = a /\ f.ex = attempt[a].cur /\ f.bit = i /\ WillCome(f)
    BY <1>1, <1>2 DEF WakeupsOK, WaitsOK, IsWaitedFor
  <2>2. WillCome(f)' /\ f \in fwd'
    BY <2>1, WillComeOthers, EdgesStep
  <2> QED
    BY <1>1, <2>1, <2>2 DEF IsWaitedFor
<1>3. ASSUME NEW c \in Calls, call[c].from = a, Declares(call[c]) PROVE IsWaitedFor(a, i)'
  <2> DEFINE x == call[c]
             new == filterExisting(a, x.missing)
             muts == AddDepsMuts(a, new, x.walk)
  <2>1. /\ x.st = "read" /\ x.walk # None /\ x.missing # None /\ x.from = a
        /\ attempt'[a].deps = [j \in 1..Cardinality(new) |-> FALSE]
        /\ fwd' = fwd \cup FwdDeps(a, new)
        /\ new # {} => journal' = journal \cup muts
    BY <1>3 DEF Declares, AddDeps
  <2>2. /\ x.walk \in Walks /\ x.missing \in SUBSET Attempts
        /\ attempt \in [Attempts -> AttemptRecords]
    BY <2>1, CallFacts DEF TypesOK
  <2>3. new \in SUBSET Attempts /\ new \subseteq x.missing /\ \A d \in new : ~HasDep(a, d)
    BY <2>2 DEF filterExisting
  <2>4. /\ \A d \in x.want : attempt[d].st = "DNE" => d \in x.walk.dne
        /\ x.missing \subseteq x.want
    BY <2>1 DEF WakeupsOK, CallsOK
  <2> HIDE DEF x, new
  <2>5. PICK f \in FwdDeps(a, new) : f.bit = i
    BY <2>1, <2>2, <2>3, FwdDepsFacts
  <2>6. f.from = a /\ f.to \in new /\ f.ex = attempt[a].cur /\ f \in fwd'
    BY <2>1, <2>2, <2>3, FwdDepsFacts
  <2>7. /\ InAll(AddBackDepMut(a, f.to, TRUE), muts)
        /\ f.to \in x.walk.dne => InAll(EnsureAttemptMut(f.to), muts)
        /\ ~InAll(AddBackDepMut(a, f.to, FALSE), muts)
    BY <2>2, <2>3, <2>6, AddDepsMutsFacts, Zenon
  <2>8. journal' = journal \cup muts
    BY <2>1, <2>6
  <2> HIDE DEF muts
  <2>9. \A y : InAll(y, muts) => y \in AllMutations'
    BY <2>8, AllMutationsIn DEF InAll
  <2>10. AddBackDepMut(a, f.to, FALSE) \notin AllMutations'
    <3> DEFINE z == AddBackDepMut(a, f.to, FALSE)
    <3>1. z.type = "AddBackDep" /\ ~z.ack /\ z.from = a /\ z.to = f.to
      BY DEF AddBackDepMut
    <3>2. ~InAll(z, muts)
      BY <2>7
    <3> HIDE DEF z
    <3>3. z \notin AllMutations
      BY <2>3, <2>6, <3>1 DEF WakeupsOK, UnackedOK
    <3>4. journal' \subseteq journal \cup muts
      BY <2>8
    <3>5. z \notin AllMutations'
      BY <3>2, <3>3, <3>4, AllNew
    <3> QED
      BY <3>5 DEF z
  <2>11. attempt'[f.to].st = "DNE" => EnsureAttemptMut(f.to) \in AllMutations'
    <3>1. attempt'[f.to].st = attempt[f.to].st
      BY <2>3, <2>6, OthersMoveNothing
    <3> QED
      BY <2>3, <2>4, <2>6, <2>7, <2>9, <3>1
  <2>12. WillCome(f)'
    BY <2>6, <2>7, <2>9, <2>10, <2>11 DEF WillCome, Coming
  <2> QED
    BY <1>1, <2>5, <2>6, <2>12 DEF IsWaitedFor
<1> QED
  BY <1>2, <1>3, OthersDeps

-----------------------------------------------------------------------------
(* The theorems.                                                           *)

\* A step keeps the invariant.
LEMMA DMInvStep ==
  ASSUME DMInv, DMNext
  PROVE  DMInv'
<1>1. TypesOK'
  BY TypesStep DEF DMInv
<1>2. ExecutionsOK'
  BY <1>1, ExecutionsStep DEF DMInv
<1>3. EdgesOK'
  BY EdgesStep DEF DMInv
<1>4. TasksOK' /\ OneActive'
  BY <1>1, TasksStep, OneActiveStep DEF DMInv
<1>5. ScheduledWillRun'
  BY ScheduledStep DEF DMInv
<1>6. TimeoutsOK'
  BY TimeoutsRoll, TimeoutsOthers DEF DMInv
<1>7. WakeupsOK'
  <2>1. DepMapsOK' /\ CompletionsOK' /\ CallsOK'
    BY DepMapsStep, CompletionsStep, CallsStep DEF DMInv, WakeupsOK
  <2>2. UnackedOK'
    BY <1>1, UnackedStep DEF DMInv, WakeupsOK
  <2>3. WaitsOK'
    BY WaitsRoll, WaitsOthers DEF DMInv
  <2> QED
    BY <2>1, <2>2, <2>3 DEF WakeupsOK
<1> QED
  BY <1>1, <1>2, <1>3, <1>4, <1>5, <1>6, <1>7 DEF DMInv

\* Nothing has been asked for in the beginning.
LEMMA DMInvInit ==
  ASSUME DMInit
  PROVE  DMInv
<1>1. TypesOK
  <2>1. NewAttempt \in AttemptRecords
    BY DMAssumption DEF NewAttempt, AttemptRecords, AttemptStates
  <2>2. NewExecution \in ExecutionRecords
    BY DEF NewExecution, ExecutionRecords, ExecutionStates
  <2> QED
    BY <2>1, <2>2 DEF DMInit, TypesOK, TaskStates
<1>2. /\ \A a \in Attempts : attempt[a].st = "DNE" /\ attempt[a].cur = 0 /\ attempt[a].deps = <<>>
      /\ \A a \in Attempts, n \in Executions : exec[a][n].st = "DNE"
      /\ journal = {} /\ fwd = {} /\ back = {} /\ loaded = {} /\ notes = {}
      /\ \A a \in Attempts, n \in Executions, k \in Runs : task[a][n][k] = "none"
      /\ \A c \in Calls : call[c].st = "none"
  BY DEF DMInit, NewAttempt, NewExecution, NoCall
<1>3. load.timeouts \subseteq {"SCHEDULING", "RUNNING", "STOPPING"}
  BY <1>1, LoadFacts DEF TypesOK
<1>4. ExecutionsOK /\ EdgesOK /\ TasksOK /\ OneActive
  BY <1>2 DEF ExecutionsOK, ExecutionsAt, EdgesOK, TasksOK, OneActive, Executions
<1>5. ScheduledWillRun /\ TimeoutsOK
  BY <1>2, <1>3 DEF ScheduledWillRun, TimeoutsOK, Armed
<1>6. DepMapsOK /\ WaitsOK /\ CompletionsOK /\ CallsOK
  BY <1>2 DEF DepMapsOK, WaitsOK, CompletionsOK, CallsOK
<1>7. UnackedOK
  BY <1>2, AllMutationsIn DEF UnackedOK, InAll
<1> QED
  BY <1>1, <1>4, <1>5, <1>6, <1>7 DEF DMInv, WakeupsOK

\* The invariant holds of every state of every behaviour.
THEOREM DMInvariance == DMSpec => []DMInv
<1>1. DMInit => DMInv
  BY DMInvInit
<1>2. DMInv /\ [DMNext]_dmVars => DMInv'
  <2>1. ASSUME DMInv, UNCHANGED dmVars PROVE DMInv'
    <3>1. /\ UNCHANGED <<load, attempt, exec, fwd, back, done, timer, loaded, journal, task>>
          /\ UNCHANGED <<notes, call, slips>>
      BY <2>1 DEF dmVars, graph, work, world
    <3>2. TypesOK'
      BY <2>1, <3>1 DEF DMInv, TypesOK
    <3>3. ExecutionsOK' /\ EdgesOK' /\ TasksOK' /\ OneActive' /\ ScheduledWillRun'
      BY <2>1, <3>1 DEF DMInv, ExecutionsOK, ExecutionsAt, EdgesOK, TasksOK, OneActive,
         ScheduledWillRun
    <3>4. TimeoutsOK'
      BY <2>1, <3>1 DEF DMInv, TimeoutsOK, Armed, Ending
    <3>5. AllMutations' = AllMutations
      BY <3>1 DEF AllMutations
    <3>6. \A f \in fwd : WillCome(f) => WillCome(f)'
      BY <3>1, <3>5 DEF WillCome, Coming
    <3>7. DepMapsOK' /\ WaitsOK' /\ CompletionsOK' /\ CallsOK'
      BY <2>1, <3>1, <3>6 DEF DMInv, WakeupsOK, DepMapsOK, WaitsOK, IsWaitedFor, CompletionsOK,
         CallsOK
    <3>8. UnackedOK'
      BY <2>1, <3>1, <3>5 DEF DMInv, WakeupsOK, UnackedOK, HasDep
    <3> QED
      BY <3>2, <3>3, <3>4, <3>7, <3>8 DEF DMInv, WakeupsOK
  <2> QED
    BY <2>1, DMInvStep
<1> QED
  BY <1>1, <1>2, PTL DEF DMSpec

\* The ranges of the state hold, with one FwdDep and one BackDep per edge, and
\* an execution exists when it is not beyond the current one.
THEOREM DMTypeCorrect == DMSpec => []DMTypeOK
<1>1. DMInv => DMTypeOK
  <2> SUFFICES ASSUME DMInv PROVE DMTypeOK
    OBVIOUS
  <2>1. ASSUME NEW a \in Attempts
        PROVE  /\ attempt[a].st \in AttemptStates /\ attempt[a].cur \in 0..MaxExec
               /\ attempt[a].deps \in Seq(BOOLEAN)
    BY DEF DMInv, TypesOK, AttemptRecords
  <2>2. ASSUME NEW a \in Attempts, NEW n \in Executions
        PROVE  /\ exec[a][n].st \in ExecutionStates /\ exec[a][n].tok \in Runs \cup {None}
               /\ timer[a][n] \in {None, "gone"} \cup load.timeouts
    BY DEF DMInv, TypesOK, ExecutionRecords
  <2>3. ASSUME NEW a \in Attempts, NEW n \in Executions
        PROVE  exec[a][n].st = "DNE" <=> n > attempt[a].cur
    BY DEF DMInv, ExecutionsOK, ExecutionsAt
  <2>4. EdgesOK
    BY DEF DMInv
  <2> QED
    BY <2>1, <2>2, <2>3, <2>4 DEF DMTypeOK, EdgesOK
<1> QED
  BY <1>1, DMInvariance, PTL

\* FinishExecution and ScheduleExecution keep one execution of an attempt at a
\* time, whatever results come late or twice.
THEOREM OneExecution == DMSpec => []OneExecutionAtATime
<1>1. DMInv => OneExecutionAtATime
  <2> SUFFICES ASSUME DMInv, NEW a \in Attempts, NEW n \in 1..attempt[a].cur
               PROVE  Terminal(exec[a][n].st) <=>
                        ~(n = attempt[a].cur /\ attempt[a].st = "EXECUTING")
    BY DEF OneExecutionAtATime
  <2>1. attempt[a].cur \in 0..MaxExec /\ MaxExec \in Nat
    BY DMAssumption DEF DMInv, TypesOK, AttemptRecords
  <2>2. n \in Executions /\ n <= attempt[a].cur
    BY <2>1 DEF Executions
  <2> QED
    BY <2>2 DEF DMInv, ExecutionsOK, ExecutionsAt
<1> QED
  BY <1>1, DMInvariance, PTL

\* However often the distributor was called for an execution, and however often
\* ActivateExecution is retried, one task alone is active for it.
THEOREM OneTask == DMSpec => []OneTaskActivates
<1>1. DMInv => OneTaskActivates
  <2> SUFFICES ASSUME DMInv, NEW a \in Attempts, NEW n \in Executions
               PROVE  Cardinality({k \in Runs : task[a][n][k] = "active"}) <= 1
    BY DEF OneTaskActivates
  <2>1. \A j, k \in Runs : task[a][n][j] = "active" /\ task[a][n][k] = "active" => j = k
    BY DEF DMInv, OneActive
  <2> DEFINE S == {k \in Runs : task[a][n][k] = "active"}
  <2>2. CASE S = {}
    <3>1. Cardinality(S) = 0
      BY <2>2, FS_EmptySet
    <3> QED
      BY <3>1
  <2>3. CASE S # {}
    <3>1. \E k : S = {k}
      BY <2>1, <2>3
    <3>2. Cardinality(S) = 1
      BY <3>1, FS_Singleton
    <3> QED
      BY <3>2
  <2> QED
    BY <2>2, <2>3
<1> QED
  BY <1>1, DMInvariance, PTL

\* EnsureAttempt, AckFwdDep and FinishExecution never leave an attempt in
\* SCHEDULING without the mutation that executes it.
THEOREM ScheduledRuns == DMSpec => []ScheduledWillRun
<1>1. DMInv => ScheduledWillRun
  BY DEF DMInv
<1> QED
  BY <1>1, DMInvariance, PTL

\* An execution in a state with a timeout has that timeout under way, whatever
\* ResetExecutionTimeout, TimeoutExecution and FinishExecution do in between,
\* unless it is gone with the timeout of a former state.
THEOREM TimeoutsArmed == DMSpec => []TimeoutArmed
<1>1. DMInv => TimeoutArmed
  <2> SUFFICES ASSUME DMInv, NEW a \in Attempts, NEW n \in 1..attempt[a].cur,
                      exec[a][n].st \in load.timeouts
               PROVE  timer[a][n] \in {exec[a][n].st, "gone"} \/ Ending(a, n)
    BY DEF TimeoutArmed, Ending
  <2>1. attempt[a].cur \in 0..MaxExec /\ MaxExec \in Nat
    BY DMAssumption DEF DMInv, TypesOK, AttemptRecords
  <2>2. n \in Executions
    BY <2>1 DEF Executions
  <2> QED
    BY <2>2 DEF DMInv, TimeoutsOK, Armed
<1> QED
  BY <1>1, DMInvariance, PTL

\* Whatever the order in which AddBackDep, RecordCompletion and AckFwdDep are
\* rolled forward, and however often, no wake-up of a waiting attempt is lost.
THEOREM WakeupsKept == DMSpec => []WakeupNotLost
<1>1. DMInv => WakeupNotLost
  BY DEF DMInv, WakeupsOK, DepMapsOK, WaitsOK, IsWaitedFor, WillCome, WakeupNotLost
<1> QED
  BY <1>1, DMInvariance, PTL
=============================================================================
