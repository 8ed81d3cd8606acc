SPECIFICATION FairSpec
CONSTANTS
    Block = {1, 2}
    Selected <- SelectedTxs
    MayFail <- MCMayFail
    Txs <- MCTxs
    IsoIndex <- AllCalls
    RunOutOfGas = TRUE
    ContractIso = TRUE
    SkipInternalTxs = FALSE
    SkipSlowTxs = TRUE
    SlowTxCalls = 4
    ChanCap = 1
    Workers = 2
CHECK_DEADLOCK FALSE
INVARIANTS
    NoSendAfterClose
    FileComplete
    VerdictTrue
PROPERTIES
    Terminates
