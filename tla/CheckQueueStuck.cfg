SPECIFICATION FairSpec
CONSTANTS
    Workers = {w1, w2}
    Master = master
    None = none
    Checks = {c1, c2}
    nBatchSize = 2
PROPERTIES IdleAgain
