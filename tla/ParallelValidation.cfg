SPECIFICATION FairSpec
CONSTANTS
    g = g
    p = p
    a = a
    b = b
    d = d
    x = x
    y = y
    z = z
    Blocks <- Tree
    Genesis = g
    Parent <- ParentOf
    GetBlockProof <- UnitWork
    Addr <- AddrOf
    Threads = {t1, t2}
    Miner = miner
    None = none
    Arriving = {d, x, y}
    Mined = {z}
    Preverified = {y}
    nBlockSize <- SizeOf
    InitTip = a
    SideBlocks = {b}
    ForkHeight = 3
    NChecks = 1
CHECK_DEADLOCK FALSE
INVARIANTS TypeOK CoinsMatchTip QueueExclusive CheckedUnderOneRule NotBlamedForInputs
 
