SPECIFICATION EngineSpec
CONSTANTS
    MaxTime = 1
    DistantFuture = 100
    MaxNonce = 2
    InvocationRetryLimit = 1
    TaskRetryLimit = 2
    MaxMutations = 3
    MaxFaults = 1
    Faults = {"crash"}
    Workers = {w1, w2}
    Schedules <- CronOnly
    CronNext <- MCCronNext
PROPERTIES
    QueuedLeavesQueue
    DoneIsNoticed
CHECK_DEADLOCK FALSE
