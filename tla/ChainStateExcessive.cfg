CONSTANTS
    Blocks <- Branches
    Genesis = "g"
    Parent <- BranchParent
    GetBlockProof <- OneEach
    Addr <- Places1
    Txids <- Ids1
    Coins <- Heights
    Pruned = Pruned
    Absent = Absent
    None = None
    Txs <- BranchTxs
    BadScripts = {"b1"}
    BadForm = {}
    Excessive = {"b2", "b3"}
    excessiveAcceptDepth = 1
    EXCESSIVE_BLOCK_CHAIN_RESET = 1
    InitCoins <- OneCoin
    HeadersFirst = {}
    Looked = {"t"}
    MaxCalls = 0
    MaxStops = 0
SPECIFICATION Spec
INVARIANT TargetNotKnownInvalid
