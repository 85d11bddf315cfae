SPECIFICATION Spec
CONSTANTS
    MaxHeight = 4
    main = main
    alt = alt
    Branches = {main}
    SplitHeight = 1
    SegwitHeight <- NoSegwit
    Args <- OnlyPlain
    StartHeights = {1}
    MaxForkId = 1
    BackupResults = {"ok"}
    AllowCrash = FALSE
    AllowReorg = TRUE
INVARIANTS NewRulesOnlyAboveFork
