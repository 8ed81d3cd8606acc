SPECIFICATION MCSpec
CONSTANTS
    ContractIso = TRUE
    InterpreterMode = "EVM"
    IsolationMode = "TAC"
    IsolationIndex = 1
    CallCreateDepth = 2
    Fns = {"Call", "StaticCall", "Create"}
    MaxCalls = 4
    MaxWorld = 2
    Records <- AllRecords
    Own <- OwnEffects
    Nested <- NestedEffects
    Tracing = TRUE
    MaxEffects = 2
    Workers = {w1, w2}
    Contracts <- CacheContracts
    NoAccount = NoAccount
    NoHash = NoHash
    Dirs <- CacheDirs
    ProgCap = 2
    TextCap = 1
    Parts = {"verdict"}
CHECK_DEADLOCK FALSE
INVARIANTS
    SameDeletedAccounts
