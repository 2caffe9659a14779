SPECIFICATION FairTumbleSpec
CONSTANTS
    Workers = {w1}
    Roots = {1, 2}
    Kinds = {"a", "b", "x"}
    Target <- StuckTarget
    Emits <- StuckEmits
    Delay <- StuckDelay
    Starts <- StuckStarts
    Names <- NoStarts
    Broken = {"x"}
    Faults = {"fire", "busy"}
    MaxFaults = 1
    MaxInst = 4
    DelayedMutations = TRUE
    BatchSize = 1
    RoundFactor = 1
    MinDelay = 0
    LoopDuration = 1
    DustSettle = 1
    MaxNoWorkDelay = 1
    NoWorkDelayGrowth = 3
    Cron = TRUE
    Horizon = 1
    Half = 8
    None = None
PROPERTIES
    AnnouncedShardFindsIt
    ChainCompletes
CHECK_DEADLOCK FALSE
