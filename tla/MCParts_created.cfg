SPECIFICATION MCSpec
CONSTANTS
    ContractIso = TRUE
    InterpreterMode = "EVM"
    IsolationMode = "TAC"
    IsolationIndex = 1
    CallCreateDepth = 2
    Fns = {"Call", "StaticCall", "Create"}
    MaxCalls = 4
    MaxWorld = 2
    Records <- AllRecords
    Own <- OwnEffects
    Nested <- NestedEffects
    Tracing = TRUE
    MaxEffects = 2
    Workers = {w1, w2}
    Contracts <- CreatedContracts
    NoAccount = NoAccount
    NoHash = NoHash
    Dirs <- CreatedDirs
    ProgCap = 2
    TextCap = 1
    Parts = {"cache"}
CHECK_DEADLOCK FALSE
INVARIANTS
    Memoized
