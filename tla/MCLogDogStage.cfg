SPECIFICATION FairLogDogSpec
CONSTANTS
    Handlers = {1}
    Archivists = {1}
    Bundles = {"b1", "b2"}
    Entries <- OneEntryEach
    TerminalIndex <- LastIsTerminal
    SettleDelay = 1
    CompletePeriod = 2
    MaxEntries = 1
    FaultKinds = {"stage"}
    MaxFaults = 1
PROPERTIES
    FailedArchivalIsRecorded
CHECK_DEADLOCK FALSE
