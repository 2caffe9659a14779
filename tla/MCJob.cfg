SPECIFICATION JobSpec
CONSTANTS
    MaxTime = 3
    DistantFuture = 100
    MaxNonce = 4
    InvocationRetryLimit = 1
    TaskRetryLimit = 2
    Schedules <- MCSchedules
    CronNext <- MCCronNext
INVARIANTS
    JobTypeOK
    NeverImpossible
    TickNotLost
    TickFollowsSchedule
    QueuedHasStartTask
    IntervalKept
    OverrunsOnRecord
PROPERTIES
    StartsOnTime
    DueTickFires
CHECK_DEADLOCK FALSE
