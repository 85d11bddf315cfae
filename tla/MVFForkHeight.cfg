SPECIFICATION Spec
CONSTANTS
    MaxHeight = 4
    main = main
    alt = alt
    Branches = {main}
    SplitHeight = 1
    SegwitHeight <- NoSegwit
    Args <- HeightTrigger
    StartHeights = {0, 4}
    MaxForkId = 1
    BackupResults = {"ok", "throw"}
    AllowCrash = TRUE
    AllowReorg = TRUE
INVARIANTS TypeOK StrictTriggerSuffices NewRulesAboveFork ActiveLeavesMarker
PROPERTIES MarkerWrittenOnce
