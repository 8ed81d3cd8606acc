SPECIFICATION FairSpec
CONSTANTS
    Workers = {w1, w2}
    First = 1
    Last = 3
    MaxUint64 = 7
    WorkCap = 1
    DoneCap = 1
    TxIds = {0, 1}
    Kind <- MCKind
    SkipKinds <- MCSkip
    TxListEnabled = TRUE
    BlockSet <- MCBlockSet
    TxSet <- MCTxSet
    MayFail <- MCMayFail
PROPERTIES
    SegmentReturns

CHECK_DEADLOCK FALSE
