SPECIFICATION MCSpec
CONSTANTS
    ContractIso = FALSE
    Timeout = FALSE
    MaxInst = 4
    RecOutOfGas = TRUE
    EVMOutOfGas = TRUE
    MaxFrames = 3
    MaxStack = 3
    W = 512
    Gas = 130
    EIP150 = TRUE
    MaxGas = 128
    LeftOvers = {0}
    Refunds = {0, 5}
    RecLeftOverGas = 100
    RecRefundGas = 3
CHECK_DEADLOCK FALSE
INVARIANTS
    TypeOK
    RunInv
    ErrorReported
    Settled
    SubstrateResult
PROPERTIES
    AlwaysReturns
