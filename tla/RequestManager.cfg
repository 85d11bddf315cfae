CONSTANTS
    n1 = n1
    n2 = n2
    None = None
    End = 3
    Nodes <- NodesVal
    Thin <- ThinVal
    Txns <- TxnsVal
    Blks <- BlksVal
    Leaving <- LeavingVal
    MaxMsgs = 2
SPECIFICATION FairSpec
INVARIANTS
    TypeOK
    RefCounted
    NoDanglingNode
    IteratorsValid
    InFlightNotOver
    RequestRemembered
PROPERTIES ObjectsLeave NodesDeleted
CHECK_DEADLOCK FALSE
