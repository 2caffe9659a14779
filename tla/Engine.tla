------------------------------- MODULE Engine -------------------------------
(***************************************************************************)
(* The scheduler engine's request handlers                                 *)
(* (scheduler/appengine/engine/engine.go), with the task managers they     *)
(* call (scheduler/appengine/task/...) and the queues that call them.      *)
(*                                                                         *)
(* A worker is a request in flight.  It works on a copy of an Invocation   *)
(* (the taskController), talks to the remote service between transactions  *)
(* and commits with a compare-and-swap on Invocation.MutationsCount.       *)
(* Workers interleave, crash, and lose their response, in which case the   *)
(* queue delivers the task or the PubSub message again.                    *)
(***************************************************************************)
EXTENDS Job, FiniteSets, Sequences

CONSTANTS
    Workers,        \* request handlers that can run at a time
    MaxMutations,   \* bound: no callback is delivered to an Invocation that
                    \* was saved so many times
    Faults,         \* what may go wrong, each once: a subset of FaultKinds
    MaxFaults       \* bound: how many of them in one behaviour

FaultKinds ==
    {"crash",       \* a handler dies, or its response is lost
     "save",        \* the transaction of saveImpl fails after all its attempts
     "start",       \* the one at the head of startInvocation does
     "fatal",       \* a datastore call inside either of them fails
     "reject",      \* a callback cannot be set up: a token that does not
                    \* validate, a task that cannot be read
     "rpc",         \* a status check fails, transiently or for good
     "orphan"}      \* LaunchTask fails after the remote task was created

ASSUME EngineAssumption ==
    /\ Faults \subseteq FaultKinds /\ MaxFaults \in Nat /\ MaxMutations \in Nat
    /\ IsFiniteSet(Workers)
    /\ InvocationRetryLimit < TaskRetryLimit    \* "5 attempts to mark the job as failed"

VARIABLES
    invs,       \* Invocation entities, by ID
    timerQ,     \* timers queue: AddTimer callbacks of invocations
    msgs,       \* PubSub messages not acknowledged yet
    remote,     \* the remote task of an invocation
    workers,    \* the requests in flight
    faults      \* history: the faults that happened so far

engineVars == <<invs, timerQ, msgs, remote, workers, faults>>
vars == <<now, job, nonce, lastInv, tickQ, startQ, overrunQ, overrunInvs,
          overrunsLost, invs, timerQ, msgs, remote, workers, faults>>

FinalStatuses == {"SUCCEEDED", "FAILED", "OVERRUN", "ABORTED"}
Statuses == {"STARTING", "RUNNING"} \cup FinalStatuses
Final(status) == status \in FinalStatuses

InvIDs == 1..lastInv
Invocations ==
    [nonce : Nat, status : Statuses, MutationsCount : Nat, retry : Nat]

\* A taskController at work: saved is the Invocation as it was read or last
\* saved, status its new status, timer whether a timer was added to it, err the
\* error the task manager returned and saveErr the one of the last save.
IdleWorker ==
    [pc |-> "idle", kind |-> "none", task |-> {}, id |-> 0,
     saved |-> [status |-> "STARTING", MutationsCount |-> 0],
     status |-> "STARTING", timer |-> FALSE, err |-> "none", saveErr |-> "none"]

Controller(kind, task, id, inv, pc) ==
    [IdleWorker EXCEPT
        !.pc = pc, !.kind = kind, !.task = task, !.id = id,
        !.saved = [status |-> inv.status, MutationsCount |-> inv.MutationsCount],
        !.status = inv.status]

EngineInit ==
    /\ JobInit
    /\ invs = <<>> /\ remote = <<>>
    /\ timerQ = {} /\ msgs = {}
    /\ workers = [w \in Workers |-> IdleWorker]
    /\ faults = {}

Idle(w) == workers[w].pc = "idle"
Fault(kind) ==
    /\ kind \in Faults \ faults
    /\ Cardinality(faults) < MaxFaults
    /\ faults' = faults \cup {kind}

\* "Task queue guarantees not to execute same task concurrently."
Leased(kind, t) == \E w \in Workers : workers[w].kind = kind /\ workers[w].task = t

Finish(w) == workers' = [workers EXCEPT ![w] = IdleWorker]

-----------------------------------------------------------------------------
(* saveImpl: the transaction in which a task controller stores its         *)
(* Invocation, schedules its timers and rolls the Job forward.  (Nothing   *)
(* is saved when nothing changed; every caller has written a debug log     *)
(* line by then.)                                                          *)

\* Mutant of Conflict: no compare-and-swap.
NoConflict(c) == FALSE

Conflict(c) == invs[c.id].MutationsCount # c.saved.MutationsCount

\* Mutant of SaveEffect: the job is not told that its invocation is done.
SaveWithoutDone(c, touchJob) ==
    LET count == c.saved.MutationsCount + 1
        hasStartedOrFailed == c.saved.status = "STARTING" /\ c.status # "STARTING"
        m == MachineFor(job)
        started == IF hasStartedOrFailed THEN OnInvocationStarted(m, c.id) ELSE m
    IN  /\ invs' = [invs EXCEPT ![c.id].status = c.status,
                                ![c.id].MutationsCount = count]
        /\ timerQ' = IF c.timer /\ ~Final(c.status)
                     THEN timerQ \cup {[inv |-> c.id, seq |-> count]} ELSE timerQ
        /\ IF touchJob /\ job.exists /\ job.State.InvocationID = c.id
           THEN rollSM(job, started)
           ELSE UNCHANGED <<job, nonce, tickQ, startQ, overrunQ>>

SaveEffect(c, touchJob) ==
    LET count == c.saved.MutationsCount + 1
        hasStartedOrFailed == c.saved.status = "STARTING" /\ c.status # "STARTING"
        hasFinished == ~Final(c.saved.status) /\ Final(c.status)
        m == MachineFor(job)
        started == IF hasStartedOrFailed THEN OnInvocationStarted(m, c.id) ELSE m
        rolled == IF hasFinished THEN OnInvocationDone(started, c.id) ELSE started
    IN  /\ invs' = [invs EXCEPT ![c.id].status = c.status,
                                ![c.id].MutationsCount = count]
        /\ timerQ' = IF c.timer /\ ~hasFinished
                     THEN timerQ \cup {[inv |-> c.id, seq |-> count]} ELSE timerQ
        /\ IF touchJob /\ job.exists /\ job.State.InvocationID = c.id
           THEN rollSM(job, rolled)
           ELSE UNCHANGED <<job, nonce, tickQ, startQ, overrunQ>>

Saved(c) ==
    [c EXCEPT !.saved = [status |-> c.status,
                         MutationsCount |-> c.saved.MutationsCount + 1],
              !.timer = FALSE]

\* One call of saveImpl with the controller c, and the error it returns.  A
\* commit that fails is a transient error, and so is a lost race.  An error that
\* the transaction's function returns is fatal unless it is tagged, and the one
\* of ds.Put is not.
saveImpl(c, touchJob, saveErr) ==
    /\ \/ /\ saveErr = "none"
          /\ ~Conflict(c)
          /\ SaveEffect(c, touchJob)
          /\ UNCHANGED faults
       \/ /\ saveErr = "transient"
          /\ \/ Conflict(c) /\ UNCHANGED faults
             \/ Fault("save")
          /\ UNCHANGED <<job, nonce, tickQ, startQ, overrunQ, invs, timerQ>>
       \/ /\ saveErr = "fatal"
          /\ Fault("fatal")
          /\ UNCHANGED <<job, nonce, tickQ, startQ, overrunQ, invs, timerQ>>
    /\ UNCHANGED <<now, lastInv, overrunInvs, overrunsLost, msgs, remote>>

SaveErrors == {"none", "transient", "fatal"}

\* All that is left of a controller once its request is about to return.
Response(c, err, saveErr) ==
    [IdleWorker EXCEPT !.pc = "respond", !.kind = c.kind, !.task = c.task,
                       !.err = err, !.saveErr = saveErr]

-----------------------------------------------------------------------------
(* startInvocation.                                                        *)

\* The start task leaves the queue.
StartDrop(t) ==
    /\ startQ' = startQ \ {t}
    /\ UNCHANGED <<now, job, nonce, lastInv, tickQ, overrunQ, overrunInvs, overrunsLost>>

\* Mutant of RetryOrDrop: a failed task is not executed again.
NeverRetry(t) == StartDrop(t)

\* The queue executes a failed task again, up to its limit.
RetryOrDrop(t) == IF t.retry < TaskRetryLimit THEN StartRetry(t) ELSE StartDrop(t)

\* Mutant of NewInvocation: the previous attempt is left as it is.
NewInvocationOnly(t, status) ==
    Append(invs, [nonce |-> t.nonce, status |-> status, MutationsCount |-> 0,
                  retry |-> t.retry])

\* What the transaction at the head of startInvocation does to the table of
\* invocations: add a new one and fail the previous attempt, if it is not final.
NewInvocation(t, status) ==
    LET prev == job.State.InvocationID
        old == IF prev = 0 \/ Final(invs[prev].status) THEN invs
               ELSE [invs EXCEPT ![prev].status = "FAILED",
                                 ![prev].MutationsCount = @ + 1]
    IN  Append(old, [nonce |-> t.nonce, status |-> status, MutationsCount |-> 0,
                     retry |-> t.retry])

\* A new attempt: its Invocation is STARTING and the worker goes on to launch.
BeginAttempt(w, t) ==
    /\ Idle(w) /\ ~Leased("start", t)
    /\ StartAttempt(t)
    /\ invs' = NewInvocation(t, "STARTING")
    /\ remote' = Append(remote, "none")
    /\ workers' = [workers EXCEPT ![w] =
                     Controller("start", t, lastInv', invs'[lastInv'], "launch")]
    /\ UNCHANGED <<timerQ, msgs, faults>>

\* The last attempt: the Invocation is born FAILED and the job resumes.
GiveUp(t, acked) ==
    /\ ~Leased("start", t)
    /\ StartGiveUp(t, acked)
    /\ invs' = NewInvocation(t, "FAILED")
    /\ remote' = Append(remote, "none")
    /\ UNCHANGED <<timerQ, msgs, workers, faults>>

\* "No longer need to start invocation": the retry was unnecessary.
SkipAttempt(t) ==
    /\ ~Leased("start", t)
    /\ StartAck(t)
    /\ UNCHANGED engineVars

\* The transaction could not be committed, a transient error; or a datastore call
\* in it failed (for an ID, the new Invocation or the previous one), which is a
\* fatal one.
StartTxnFails(t) ==
    /\ ~Leased("start", t)
    /\ IsExpectingInvocation(job.State, t.nonce)
    /\ \/ Fault("start") /\ RetryOrDrop(t)
       \/ Fault("fatal") /\ StartDrop(t)
    /\ UNCHANGED <<invs, timerQ, msgs, remote, workers>>

\* LaunchTask dumps its log before it calls the remote service, and ignores
\* the error of that save.
LaunchSaveLog(w) ==
    LET c == workers[w]
    IN  /\ c.pc = "launch"
        /\ \E saveErr \in SaveErrors :
            /\ saveImpl(c, TRUE, saveErr)
            /\ workers' = [workers EXCEPT ![w] =
                   [(IF saveErr = "none" THEN Saved(c) ELSE c) EXCEPT !.pc = "rpc"]]

\* What startInvocation makes of LaunchTask's return: whatever is left in
\* STARTING becomes FAILED, and a transient error on the last attempt a fatal
\* one.
Launched(c, status, timer, err) ==
    [c EXCEPT
        !.pc = "save", !.timer = timer,
        !.status = IF status = "STARTING" THEN "FAILED" ELSE status,
        !.err = IF err = "transient" /\ c.task.retry + 1 >= InvocationRetryLimit
                THEN "fatal" ELSE err]

\* LaunchTask of a task manager returns: the task is running remotely and will
\* be checked by a timer, or it has finished in one go, or there was an error
\* (before the remote task was created or, with an orphan, after).
LaunchTask(w) ==
    LET c == workers[w]
        Return(status, timer, err) ==
            workers' = [workers EXCEPT ![w] = Launched(c, status, timer, err)]
        CreateRemote == remote' = [remote EXCEPT ![c.id] = "pending"]
    IN  /\ c.pc \in {"launch", "rpc"}
        /\ \/ Return("RUNNING", TRUE, "none") /\ CreateRemote /\ UNCHANGED faults
           \/ /\ \E status \in {"SUCCEEDED", "FAILED"} : Return(status, FALSE, "none")
              /\ UNCHANGED <<remote, faults>>
           \/ /\ \E err \in {"transient", "fatal"} : Return("STARTING", FALSE, err)
              /\ \/ UNCHANGED <<remote, faults>>
                 \/ Fault("orphan") /\ CreateRemote
        /\ UNCHANGED <<jobVars, invs, timerQ, msgs>>

\* "Do not touch Job entity when saving the current (failed) invocation" if it
\* is to be retried.  The error of the save counts only if there is no other.
SaveLaunched(w) ==
    LET c == workers[w]
    IN  /\ c.pc = "save" /\ c.kind = "start"
        /\ \E saveErr \in SaveErrors :
            /\ saveImpl(c, c.err # "transient", saveErr)
            /\ workers' = [workers EXCEPT ![w] =
                   Response(c, IF c.err = "none" THEN saveErr ELSE c.err, "none")]

\* A transient error makes the task queue retry the task, a fatal one does not.
RespondStart(w) ==
    LET c == workers[w]
    IN  /\ c.pc = "respond" /\ c.kind = "start"
        /\ IF c.err = "transient" THEN RetryOrDrop(c.task) ELSE StartDrop(c.task)
        /\ Finish(w)
        /\ UNCHANGED <<invs, timerQ, msgs, remote, faults>>

-----------------------------------------------------------------------------
(* Callbacks: invocation timers and PubSub notifications.                  *)

\* Read the Invocation.  Finished ones are immutable: the call is skipped.
BeginCallback(w, kind, task, id) ==
    /\ Idle(w) /\ ~Final(invs[id].status)
    /\ invs[id].MutationsCount < MaxMutations
    /\ workers' = [workers EXCEPT ![w] = Controller(kind, task, id, invs[id], "handle")]
    /\ UNCHANGED <<jobVars, invs, timerQ, msgs, remote, faults>>

BeginTimer(w, t) == ~Leased("timer", t) /\ BeginCallback(w, "timer", t, t.inv)
BeginNotification(w, msg) == BeginCallback(w, "pubsub", msg, msg.inv)

\* A callback that cannot be handed to a task manager: the task of its Invocation
\* is not readable or, for a message, its auth_token does not validate (tokens
\* expire).  Fatal errors, which are acknowledged.
RejectTimer(t) ==
    /\ ~Leased("timer", t) /\ ~Final(invs[t.inv].status)
    /\ Fault("reject")
    /\ timerQ' = timerQ \ {t}
    /\ UNCHANGED <<jobVars, invs, msgs, remote, workers>>

RejectNotification(msg) ==
    /\ Fault("reject")
    /\ msgs' = msgs \ {msg}
    /\ UNCHANGED <<jobVars, invs, timerQ, remote, workers>>

SkipTimer(t) ==
    /\ ~Leased("timer", t) /\ Final(invs[t.inv].status)
    /\ timerQ' = timerQ \ {t}
    /\ UNCHANGED <<jobVars, invs, msgs, remote, workers, faults>>

SkipNotification(msg) ==
    /\ Final(invs[msg.inv].status)
    /\ msgs' = msgs \ {msg}
    /\ UNCHANGED <<jobVars, invs, timerQ, remote, workers, faults>>

\* What the engine makes of the return of HandleTimer or HandleNotification: a
\* fatal error fails the invocation.
Handled(c, status, timer, err) ==
    [c EXCEPT !.pc = "save", !.timer = timer, !.err = err,
              !.status = IF err = "fatal" THEN "FAILED" ELSE status]

\* HandleTimer and HandleNotification: ask the remote service how the task is
\* doing.  A timer is added again as long as the task is not done.
CheckTaskStatus(w) ==
    LET c == workers[w]
        isTimer == c.kind = "timer"
        Return(status, timer, err) ==
            workers' = [workers EXCEPT ![w] = Handled(c, status, timer, err)]
    IN  /\ c.pc = "handle"
        /\ \/ /\ c.saved.status = "STARTING"
              /\ Return("STARTING", FALSE, "transient")
              /\ UNCHANGED faults
           \/ /\ c.saved.status = "RUNNING"
              /\ remote[c.id] \in {"pending", "running"}
              /\ Return("RUNNING", isTimer, "none")
              /\ UNCHANGED faults
           \/ /\ c.saved.status = "RUNNING"
              /\ remote[c.id] = "done"
              /\ \E status \in {"SUCCEEDED", "FAILED"} : Return(status, FALSE, "none")
              /\ UNCHANGED faults
           \/ /\ c.saved.status = "RUNNING"
              /\ Fault("rpc")
              /\ \E err \in {"transient", "fatal"} : Return("RUNNING", FALSE, err)
        /\ UNCHANGED <<jobVars, invs, timerQ, msgs, remote>>

SaveCallback(w) ==
    LET c == workers[w]
    IN  /\ c.pc = "save" /\ c.kind \in {"timer", "pubsub"}
        /\ \E saveErr \in SaveErrors :
            /\ saveImpl(c, TRUE, saveErr)
            /\ workers' = [workers EXCEPT ![w] = Response(c, c.err, saveErr)]

\* What invocationTimerTick returns: the error of the save if the one of the
\* handler is transient, and the handler's otherwise.
TimerResult(c) == IF c.err = "transient" THEN c.saveErr ELSE c.err

\* Mutant of NotificationResult: the error of the save is ignored.
NotificationResultOfHandler(c) == c.err

\* What handlePubSubMessage returns.
NotificationResult(c) == IF c.saveErr = "transient" THEN c.saveErr ELSE c.err

\* The timers queue and PubSub deliver again what ended in a transient error.
RespondTimer(w) ==
    LET c == workers[w]
    IN  /\ c.pc = "respond" /\ c.kind = "timer"
        /\ timerQ' = IF TimerResult(c) = "transient" THEN timerQ ELSE timerQ \ {c.task}
        /\ Finish(w)
        /\ UNCHANGED <<jobVars, invs, msgs, remote, faults>>

RespondNotification(w) ==
    LET c == workers[w]
    IN  /\ c.pc = "respond" /\ c.kind = "pubsub"
        /\ msgs' = IF NotificationResult(c) = "transient" THEN msgs ELSE msgs \ {c.task}
        /\ Finish(w)
        /\ UNCHANGED <<jobVars, invs, timerQ, remote, faults>>

-----------------------------------------------------------------------------
(* Aborts by users: nobody retries them.                                   *)

\* Read the invocation of an abort request and mark the copy ABORTED.  (The
\* AbortTask of every task manager leaves the remote task alone.)
BeginAbort(w, id) ==
    workers' = [workers EXCEPT ![w] =
        [Controller("abort", {}, id, invs[id], "save") EXCEPT !.status = "ABORTED"]]

AbortInvocation(w, id) ==
    /\ Idle(w) /\ ~Final(invs[id].status)
    /\ invs[id].MutationsCount < MaxMutations
    /\ BeginAbort(w, id)
    /\ UNCHANGED <<jobVars, invs, timerQ, msgs, remote, faults>>

\* First the job forgets its invocation, then the invocation is aborted.
AbortJob(w) ==
    LET id == job.State.InvocationID
    IN  /\ Idle(w)
        /\ AbortJobTxn
        /\ IF id = 0 THEN UNCHANGED workers
           ELSE workers' = [workers EXCEPT ![w] = [IdleWorker EXCEPT
                                !.pc = "abort", !.kind = "abort", !.id = id]]
        /\ UNCHANGED <<invs, timerQ, msgs, remote, faults>>

ReadAborted(w) ==
    LET id == workers[w].id
    IN  /\ workers[w].pc = "abort"
        /\ IF Final(invs[id].status) THEN Finish(w) ELSE BeginAbort(w, id)
        /\ UNCHANGED <<jobVars, invs, timerQ, msgs, remote, faults>>

SaveAborted(w) ==
    /\ workers[w].pc = "save" /\ workers[w].kind = "abort"
    /\ \E saveErr \in SaveErrors : saveImpl(workers[w], TRUE, saveErr)
    /\ Finish(w)

-----------------------------------------------------------------------------
(* The environment.                                                        *)

\* The request dies where it stands.  The queue executes a start task again
\* and counts the execution; a timer or a message is simply delivered again.
Crash(w) ==
    LET c == workers[w]
    IN  /\ ~Idle(w)
        /\ Fault("crash")
        /\ Finish(w)
        /\ IF c.kind = "start" THEN RetryOrDrop(c.task) ELSE UNCHANGED jobVars
        /\ UNCHANGED <<invs, timerQ, msgs, remote>>

\* The remote service publishes when the task starts and when it is done.
RemoteStarted(id) ==
    /\ remote[id] = "pending"
    /\ remote' = [remote EXCEPT ![id] = "running"]
    /\ msgs' = msgs \cup {[inv |-> id, event |-> "running"]}
    /\ UNCHANGED <<jobVars, invs, timerQ, workers, faults>>

RemoteDone(id) ==
    /\ remote[id] \in {"pending", "running"}
    /\ remote' = [remote EXCEPT ![id] = "done"]
    /\ msgs' = msgs \cup {[inv |-> id, event |-> "done"]}
    /\ UNCHANGED <<jobVars, invs, timerQ, workers, faults>>

-----------------------------------------------------------------------------

JobTxn ==
    /\ \/ \E sched \in Schedules : updateJob(sched)
       \/ disableJob
       \/ \E paused \in BOOLEAN : setPausedFlag(paused)
       \/ resetJobOnDevServer
       \/ TriggerInvocation
       \/ \E t \in tickQ, acked \in BOOLEAN : jobTimerTick(t, acked)
       \/ \E t \in overrunQ, acked \in BOOLEAN : recordOverrun(t, acked)
       \/ AdvanceClock
    /\ UNCHANGED engineVars

BeginNext ==
    \/ \E w \in Workers, t \in startQ : BeginAttempt(w, t)
    \/ \E t \in startQ, acked \in BOOLEAN : GiveUp(t, acked)
    \/ \E t \in startQ : SkipAttempt(t)
    \/ \E t \in startQ : StartTxnFails(t)
    \/ \E w \in Workers, t \in timerQ : BeginTimer(w, t)
    \/ \E t \in timerQ : SkipTimer(t) \/ RejectTimer(t)
    \/ \E w \in Workers, msg \in msgs : BeginNotification(w, msg)
    \/ \E msg \in msgs : SkipNotification(msg) \/ RejectNotification(msg)

WorkerStep(w) ==
    \/ LaunchTask(w) \/ SaveLaunched(w) \/ RespondStart(w)
    \/ CheckTaskStatus(w) \/ SaveCallback(w)
    \/ RespondTimer(w) \/ RespondNotification(w)
    \/ ReadAborted(w) \/ SaveAborted(w)

WorkerNext ==
    \E w \in Workers : WorkerStep(w) \/ LaunchSaveLog(w) \/ Crash(w)

AbortNext ==
    \/ \E w \in Workers : AbortJob(w)
    \/ \E w \in Workers, id \in InvIDs : AbortInvocation(w, id)

RemoteNext == \E id \in InvIDs : RemoteStarted(id) \/ RemoteDone(id)

EngineNext == JobTxn \/ BeginNext \/ WorkerNext \/ AbortNext \/ RemoteNext

EngineSafety == EngineInit /\ [][EngineNext]_vars

\* Requests in flight make progress, and the queues keep delivering.
EngineFairness ==
    /\ \A w \in Workers : WF_vars(WorkerStep(w))
    /\ WF_vars(\E w \in Workers, t \in startQ : BeginAttempt(w, t))
    /\ WF_vars(\E t \in startQ : GiveUp(t, TRUE) \/ SkipAttempt(t))
    /\ WF_vars(\E w \in Workers, msg \in msgs : BeginNotification(w, msg))

EngineSpec == EngineSafety /\ EngineFairness

-----------------------------------------------------------------------------
(* Properties.                                                             *)

\* The Job entity and the Invocation entity it points to agree, across all the
\* transactions that write either of them.
JobAndInvocationAgree ==
    LET inv == invs[js.InvocationID]
    IN  js.InvocationID # 0 =>
            /\ inv.nonce = js.InvocationNonce
            /\ js.State \in Running => inv.status = "RUNNING"
            /\ js.State \in Queued => inv.status \in {"STARTING", "FAILED"}

\* "Single InvocationNonce can spawn many InvocationIDs [...] Only one of them
\* will end up in Running state though."
OneAttemptAtATime ==
    \A i, k \in InvIDs :
        invs[i].nonce = invs[k].nonce /\ ~Final(invs[i].status) /\ ~Final(invs[k].status)
            => i = k

\* "Finished invocations are immutable": whatever stale copy a handler still
\* holds, it never overwrites a final Invocation.
FinalIsImmutable ==
    [][\A i \in InvIDs : Final(invs[i].status) => invs'[i] = invs[i]]_vars

\* Retries are bounded: however the attempts fail or crash, one invocation
\* request makes at most InvocationRetryLimit of them, and one more Invocation
\* that records the failure.
AttemptsBounded ==
    \A i \in InvIDs :
        Cardinality({k \in InvIDs : invs[k].nonce = invs[i].nonce})
            <= InvocationRetryLimit + 1

\* The notification that a task is done stays with PubSub until the invocation
\* is final, however saves race and fail transiently.  The exceptions are the
\* fatal errors that handlePubSubMessage has acknowledged: of a token, of the
\* task, and, since it then returns the error of HandleNotification, of a save.
DoneMessageNotLost ==
    \A i \in InvIDs :
        remote[i] = "done" /\ ~Final(invs[i].status) /\ faults \cap {"fatal", "reject"} = {}
            => [inv |-> i, event |-> "done"] \in msgs

\* A start task is dropped by a fatal error: of the transaction that begins an
\* attempt, of a save, or of a launch whose failure could not be saved (see
\* QueuedHasStartTask).
LosesStartTask ==
    /\ faults' \cap {"save", "orphan", "fatal"} # {}
    /\ \E t \in startQ : StartDrop(t)

\* The request handlers implement the promise of module Job, however they
\* interleave, crash and fail, but for the start tasks that fatal errors drop.
ImplementsJob == JobInit /\ [][JobNext \/ LosesStartTask]_jobVars

\* A queued invocation gets out of the queue: launched, written off or aborted.
QueuedLeavesQueue == js.State \in Queued ~> js.State \notin Queued

\* Once the remote task is done, its invocation becomes final (unless the bound
\* on the number of saves stops the model), even if the job was disabled or
\* aborted in the meantime.
DoneIsNoticed ==
    \A i \in 1..InvocationRetryLimit :
        i <= lastInv /\ remote[i] = "done" /\ invs[i].status = "RUNNING"
            ~> /\ i <= lastInv
               /\ Final(invs[i].status) \/ invs[i].MutationsCount >= MaxMutations
=============================================================================
