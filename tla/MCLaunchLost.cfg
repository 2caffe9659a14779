SPECIFICATION EngineSpec
CONSTANTS
    MaxTime = 1
    DistantFuture = 100
    MaxNonce = 2
    InvocationRetryLimit = 2
    TaskRetryLimit = 3
    MaxMutations = 3
    MaxFaults = 1
    Faults = {"save"}
    Workers = {w1, w2}
    Schedules <- TriggeredOnly
    CronNext <- MCCronNext
INVARIANTS
    QueuedHasStartTask
CHECK_DEADLOCK FALSE
