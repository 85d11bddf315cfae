SPECIFICATION FairSpec
CONSTANTS
    Workers = {w1, w2}
    Master = master
    None = none
    Checks = {c1, c2, c3}
    nBatchSize = 2
INVARIANTS ControlFindsIdle TypeOK TodoExact VerdictRight FinishedUnlessQuit
PROPERTIES WaitReturns IdleUnlessQuit
