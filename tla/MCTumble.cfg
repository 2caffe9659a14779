SPECIFICATION TumbleSpec
CONSTANTS
    Workers = {w1, w2}
    Roots = {1, 2}
    Kinds = {"a", "b", "c"}
    Target <- ChainTarget
    Emits <- ChainEmits
    Delay <- NamedDelay
    Starts <- ChainStarts
    Names <- Names1
    Broken = {}
    Faults = {"fire", "abort", "busy", "inner", "roll", "conflict", "commit", "delete", "lock", "crash"}
    MaxFaults = 1
    MaxInst = 3
    DelayedMutations = TRUE
    BatchSize = 2
    RoundFactor = 1
    MinDelay = 0
    LoopDuration = 0
    DustSettle = 1
    MaxNoWorkDelay = 1
    NoWorkDelayGrowth = 3
    Cron = FALSE
    Horizon = 1
    Half = 8
    None = None
SYMMETRY WorkerSymmetry
INVARIANTS
    RunsOnce
PROPERTIES
    JournalPromise
    NamedLossExplained
CHECK_DEADLOCK FALSE
