SPECIFICATION EngineSafety
CONSTANTS
    MaxTime = 1
    DistantFuture = 100
    MaxNonce = 2
    InvocationRetryLimit = 2
    TaskRetryLimit = 3
    MaxMutations = 2
    MaxFaults = 1
    Faults = {"crash", "start", "save", "orphan", "rpc", "fatal", "reject"}
    Workers = {w1, w2}
    Schedules <- TriggeredOnly
    CronNext <- MCCronNext
SYMMETRY WorkerSymmetry
INVARIANTS
    AttemptsBounded
    JobAndInvocationAgree
    OneAttemptAtATime
    DoneMessageNotLost
PROPERTIES
    FinalIsImmutable
    ImplementsJob
CHECK_DEADLOCK FALSE
