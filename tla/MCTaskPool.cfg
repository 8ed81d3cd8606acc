SPECIFICATION FairSpec
CONSTANTS
    Workers = {w1, w2, w3}
    First = 1
    Last = 4
    MaxUint64 = 7
    WorkCap = 1
    DoneCap = 4
    TxIds = {0, 1}
    Kind <- MCKind
    SkipKinds <- MCSkip
    TxListEnabled = TRUE
    BlockSet <- MCBlockSet
    TxSet <- MCTxSet
    MayFail <- MCMayFail
INVARIANTS
    NoBlockTwice
    TotalsExact
    NoSendOnClosed
    PoolInv
PROPERTIES
    SegmentReturns
    ImplementsSegment
