SPECIFICATION Spec
CONSTANTS
    MaxHeight = 4
    main = main
    alt = alt
    Branches = {main, alt}
    SplitHeight = 1
    SegwitHeight <- SegwitOnMain
    Args <- EditedSettings
    StartHeights = {0}
    MaxForkId = 2
    BackupResults = {"ok"}
    AllowCrash = FALSE
    AllowReorg = TRUE
INVARIANTS BackupByFork MarkerMatchesMemory
