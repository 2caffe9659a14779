SPECIFICATION FairDMSpec
CONSTANTS
    Attempts = {1, 2}
    Quests = {1, 2}
    QuestOf <- MCQuestOf
    Loads <- LivenessLoads
    Retry <- OneRetry
    CompletionLimit = 1
    MaxEnsureAttempts = 10
    MaxTimeoutAttempts = 1
    MaxExec = 2
    MaxRuns = 2
    Calls = {1}
    None = None
PROPERTIES
    ExecutionEnds
    WaitingEnds
CHECK_DEADLOCK FALSE
