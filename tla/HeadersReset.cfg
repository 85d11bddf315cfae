CONSTANTS
    nPowTargetSpacing = 10
    nPowTargetTimespan = 40
    powLimit = 4194303
    fPowAllowMinDifficultyBlocks = TRUE
    fPowNoRetargeting = FALSE
    forceRetarget = FALSE
    FinalActivateForkHeight = 8
    FinalDifficultyDropFactor = 33
    Base = 16
    Digits = 6
    nMedianTimeSpan = 3
    nPeriod = 2
    nThreshold = 1
    nTimeStart = 40
    nTimeTimeout = 110
    Genesis <- GenesisVal
    Incoming <- FasterHeaders
    Starts = {3}
    MaxHeaders = 4
    MaxReorgs = 0
    MaxQueries = 0
SPECIFICATION Spec
INVARIANTS DropFactorUsable
CHECK_DEADLOCK FALSE
