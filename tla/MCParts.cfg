SPECIFICATION MCSpec
CONSTANTS
    ContractIso = TRUE
    InterpreterMode = "EVM"
    IsolationMode = "TAC"
    IsolationIndex = 1
    CallCreateDepth = 2
    Fns = {"Call", "StaticCall", "Create"}
    MaxCalls = 4
    MaxWorld = 2
    Records <- AllRecords
    Own <- OwnEffects
    Nested <- NestedEffects
    Tracing = TRUE
    MaxEffects = 2
    Workers = {w1, w2}
    Contracts <- CacheContracts
    NoAccount = NoAccount
    NoHash = NoHash
    Dirs <- CacheDirs
    ProgCap = 2
    TextCap = 1
    Parts = {"evm", "iso", "tac", "control", "phi", "swap", "deviation", "validation",
             "memory", "words", "layout", "shared", "flags", "verdict", "cache"}
CHECK_DEADLOCK FALSE
INVARIANTS
    PartsOK
    StaticUnchanged
    TraceSound
    RowIsOfIsolated
    PhiPicksLatest
    PrivateCalls
    RowExact
    ComputesAsEVM
    FollowsGraph
    SelectsWhatIsNamed
    AcceptsEqualEffects
    RejectsOtherEffects
    MatchedReadsSameSlots
    SharedByHash
    OwnProgram
PROPERTIES
    OutOfGasExact
