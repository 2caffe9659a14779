SPECIFICATION DMSpec
CONSTANTS
    Attempts = {1, 2, 3}
    Quests = {1, 2}
    QuestOf <- MCQuestOf
    Loads <- SafetyLoads
    Retry <- OneRetry
    CompletionLimit = 1
    MaxEnsureAttempts = 10
    MaxTimeoutAttempts = 1
    MaxExec = 2
    MaxRuns = 2
    Calls = {1}
    None = None
INVARIANTS
    DMTypeOK
    WakeupNotLost
    ScheduledWillRun
    OneExecutionAtATime
    OneTaskActivates
    TimeoutArmed
CHECK_DEADLOCK FALSE
