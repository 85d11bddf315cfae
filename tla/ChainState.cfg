CONSTANTS
    Blocks <- Branches
    Genesis = "g"
    Parent <- BranchParent
    GetBlockProof <- OneEach
    Addr <- Places1
    Txids <- Ids1
    Coins <- Heights
    Pruned = Pruned
    Absent = Absent
    None = None
    Txs <- BranchTxs
    BadScripts = {"b2"}
    BadForm = {"b3"}
    Excessive = {"a1"}
    excessiveAcceptDepth = 1
    EXCESSIVE_BLOCK_CHAIN_RESET = 1
    InitCoins <- OneCoin
    HeadersFirst = {"b1"}
    Looked = {"t"}
    MaxCalls = 1
    MaxStops = 1
SPECIFICATION Spec
INVARIANTS
    TypeOK
    CacheFlagsSound
    IndexCoversCoins
    BestChainActive
    CheckBlockIndex
    StartsAgain
PROPERTIES
    KeepsLedger
    CallsAdvance
