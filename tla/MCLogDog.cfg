SPECIFICATION FairLogDogSpec
CONSTANTS
    Handlers = {1, 2}
    Archivists = {1, 2}
    Bundles = {"b1", "b2"}
    Entries <- OneEntryEach
    TerminalIndex <- LastIsTerminal
    SettleDelay = 1
    CompletePeriod = 2
    MaxEntries = 2
    FaultKinds = {"register", "put", "data", "terminate", "collector", "prefix", "expire", "roll", "stage", "archivist", "redelivery"}
    MaxFaults = 1
INVARIANTS
    AckedIsStored
    CachedIndexIsRecorded
    TaskedHasItsTask
PROPERTIES
    ArchivedOnce
    BundlesAckedStreamArchived
CHECK_DEADLOCK FALSE
