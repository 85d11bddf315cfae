CONSTANTS
    nPowTargetSpacing = 10
    nPowTargetTimespan = 40
    powLimit = 4194303
    fPowAllowMinDifficultyBlocks = TRUE
    fPowNoRetargeting = FALSE
    forceRetarget = FALSE
    FinalActivateForkHeight = 8
    FinalDifficultyDropFactor = 4
    Base = 16
    Digits = 6
    nMedianTimeSpan = 3
    nPeriod = 2
    nThreshold = 1
    nTimeStart = 40
    nTimeTimeout = 110
    Genesis <- GenesisVal
    Incoming <- SomeHeaders
    Starts = {4, 6, 15}
    MaxHeaders = 3
    MaxReorgs = 1
    MaxQueries = 2
SPECIFICATION Spec
INVARIANTS
    WorkCanBeMet
    TargetFollowsTime
    SpecialBlocksForgotten
    CacheRight
CHECK_DEADLOCK FALSE
