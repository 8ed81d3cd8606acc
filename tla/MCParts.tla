-------------------------------- MODULE MCParts --------------------------------
(***************************************************************************)
(* The parts of the program that promise safety alone: IsoExec, TACExec,   *)
(* Deviation, TACMemory, TACWords, TACLayout, Flags, Validation and        *)
(* ProgCache, small instances of each.  A behaviour is a behaviour of the  *)
(* one part that MCInit chooses.  The constants of the configuration are   *)
(* those of IsoExec with isolation, of Deviation with a trace to compare   *)
(* with, and of ProgCache; the other parts share the variables x1 to x10,  *)
(* each under the names of its module.                                     *)
(***************************************************************************)
EXTENDS IsoExec, Deviation, ProgCache, SequencesExt, TLC

CONSTANT Parts  \* the parts to check

VARIABLES part, x1, x2, x3, x4, x5, x6, x7, x8, x9, x10

-------------------------------------------------------------------------------
\* The calls of a transaction all by the EVM, and all by the TAC interpreter.
PlainEVM == INSTANCE IsoExec WITH
    ContractIso <- FALSE, InterpreterMode <- "EVM", IsolationMode <- "EVM",
    IsolationIndex <- 0, CallCreateDepth <- 2, MaxCalls <- 4, MaxWorld <- 2,
    Fns <- {"Call", "StaticCall", "Create"},
    world <- x1, traces <- x2, ct <- x3, frames <- x4, ro <- x5, interp <- x6,
    result <- x7, subErr <- x8, ran <- x9

PlainTAC == INSTANCE IsoExec WITH
    ContractIso <- FALSE, InterpreterMode <- "TAC", IsolationMode <- "TAC",
    IsolationIndex <- 0, CallCreateDepth <- 2, MaxCalls <- 3, MaxWorld <- 2,
    Fns <- {"Call", "CallCode", "DelegateCall", "StaticCall", "Create", "Create2"},
    world <- x1, traces <- x2, ct <- x3, frames <- x4, ro <- x5, interp <- x6,
    result <- x7, subErr <- x8, ran <- x9

ASSUME IsoExecAssumption ==
    Configured /\ PlainEVM!Configured /\ PlainTAC!Configured
-------------------------------------------------------------------------------
(***************************************************************************)
(* TAC programs: every entry function of some instructions between a block *)
(* flag and a RETURN, with every private function of a block flag and some *)
(* instructions.                                                           *)
(***************************************************************************)
ISet == [
    flag |-> [op |-> "flag"],
    op |-> [op |-> "op", dest |-> 1],
    not |-> [op |-> "not", dest |-> 1],
    const |-> [op |-> "const", dest |-> 2],
    phi |-> [op |-> "phi", phis |-> <<[dest |-> 3, from |-> <<1, 2>>]>>],
    phi2 |-> [op |-> "phi", phis |-> <<[dest |-> 3, from |-> <<2, 1>>],
                                      [dest |-> 4, from |-> <<1>>]>>],
    swap |-> [op |-> "phi", phis |-> <<[dest |-> 1, from |-> <<2>>],
                                      [dest |-> 2, from |-> <<1>>]>>],
    loop |-> [op |-> "jumpi", target |-> 1, cond |-> 1],
    skip |-> [op |-> "jumpi", target |-> 4, cond |-> 1],
    nojump |-> [op |-> "jumpi", target |-> -1, cond |-> 2],
    call1 |-> [op |-> "callprivate", dests |-> <<1>>, fn |-> "f", args |-> <<2>>],
    call2 |-> [op |-> "callprivate", dests |-> <<3, 4>>, fn |-> "f", args |-> <<1>>],
    ret0 |-> [op |-> "returnprivate", from |-> <<>>],
    ret1 |-> [op |-> "returnprivate", from |-> <<1>>],
    ret2 |-> [op |-> "returnprivate", from |-> <<2, 1>>],
    return |-> [op |-> "return", var |-> 2],
    revert |-> [op |-> "revert", var |-> 2],
    throw |-> [op |-> "throw"]]

Insts(names, n) ==
    {<<ISet["flag"]>> \o [i \in 1..n |-> ISet[s[i]]] : s \in [1..n -> names]}

Progs(main, mainLen, private, fLen) ==
    {[main |-> [args |-> <<>>, consts |-> (2 :> 1), insts |-> Append(m, ISet["return"])],
      f |-> [args |-> <<1>>, consts |-> (2 :> 1), insts |-> f]] :
        m \in Insts(main, mainLen), f \in Insts(private, fLen)}

\* Loops, private calls and every way to end.
ControlPrograms ==
    Progs({"op", "not", "const", "phi2", "loop", "nojump", "call2"}, 3,
          {"ret1", "ret2", "return", "revert", "skip", "call1", "throw", "ret0"}, 2)
\* Phi nodes over every kind of definition but NOT.
PhiPrograms ==
    Progs({"op", "const", "phi2", "loop", "call1"}, 4, {"ret1", "phi", "op"}, 2)
\* Phi nodes that read what another one of their block writes.
SwapPrograms == Progs({"op", "const", "swap"}, 3, {"ret1"}, 1)

Control == INSTANCE TACExec WITH
    Programs <- ControlPrograms, Vars <- 1..4, Words <- {0, 1},
    MaxContexts <- 3, MaxCycle <- 7,
    prog <- x1, ctxs <- x2, reverts <- x3, halts <- x4, ret <- x5, out <- x6,
    picks <- x7, want <- x8

Phis == INSTANCE TACExec WITH
    Programs <- PhiPrograms, Vars <- 1..4, Words <- {0, 1},
    MaxContexts <- 3, MaxCycle <- 7,
    prog <- x1, ctxs <- x2, reverts <- x3, halts <- x4, ret <- x5, out <- x6,
    picks <- x7, want <- x8

Swaps == INSTANCE TACExec WITH
    Programs <- SwapPrograms, Vars <- 1..4, Words <- {0, 1},
    MaxContexts <- 3, MaxCycle <- 7,
    prog <- x1, ctxs <- x2, reverts <- x3, halts <- x4, ret <- x5, out <- x6,
    picks <- x7, want <- x8
-------------------------------------------------------------------------------
\* The effects of a TAC program, the contract 0: two stores, a log, a call of the
\* contract 1 with two inputs, a delegate call, whose callee is not the one the
\* trace records, a creation and a hash; and a store and a delegate call of 1.
Eff(k, fn, from, v, x) == [k |-> k, fn |-> fn, from |-> from, v |-> v, x |-> x]

OwnEffects ==
    {Eff("sstore", "", 0, 0, 0), Eff("sstore", "", 0, 1, 0), Eff("log", "", 0, 0, 0),
     Eff("call", "Call", 0, 1, 0), Eff("call", "Call", 0, 1, 1),
     Eff("call", "DelegateCall", 0, 1, 0), Eff("call", "Create", 0, 2, 0),
     Eff("sha3", "", 0, 0, 0)}
NestedEffects == {Eff("sstore", "", 1, 2, 0), Eff("call", "DelegateCall", 1, 0, 0)}
FewEffects == {Eff("sstore", "", 0, 0, 0), Eff("log", "", 0, 0, 0),
               Eff("call", "Call", 0, 1, 0), Eff("sha3", "", 0, 0, 0)}

DevTraces(effects, max) ==
    {[ops |-> [k \in {"sstore", "log", "call"} |-> SelectSeq(s, LAMBDA e : e.k = k)],
      sha3 |-> {e.v : e \in {x \in ToSet(s) : x.k = "sha3"}}] :
        s \in UNION {[1..n -> effects] : n \in 0..max}}

\* One effect of each kind before the call, at most two in it and one after it.
DevRecords(effects) ==
    [pre : {[ops |-> [k \in {"sstore", "log", "call"} |->
                        <<CHOOSE e \in FewEffects : e.k = k>>], sha3 |-> {}]},
     iso : DevTraces(effects, 2),
     post : DevTraces({e \in FewEffects : e.k \in {"sstore", "call"}}, 1),
     oog : BOOLEAN]

AllRecords == DevRecords(OwnEffects \cup NestedEffects)
FewRecords == DevRecords(FewEffects)

Validated == INSTANCE Deviation WITH
    Records <- FewRecords, Own <- FewEffects, Nested <- {}, Tracing <- FALSE,
    MaxEffects <- 3,
    rec <- x1, tac <- x2, checked <- x3, dev <- x4, state <- x5, reported <- x6

\* The assumptions of the theorems about Deviation.
ASSUME DeviationAssumption == DevConfigured /\ Validated!DevConfigured
-------------------------------------------------------------------------------
\* Memory: words of two bytes, uint64 below 16.
Offsets == {0, 3, 15, 16}
Sizes == {0, 1, 2, 15}
ReadSizes == {0, 1, 14}

Copies(k) == {[k |-> k, off |-> o, len |-> l, from |-> f] :
                o \in Offsets, l \in Sizes, f \in {0, 1, 17}}

MemInstrs ==
    {[k |-> "mload", off |-> o] : o \in Offsets}
    \cup {[k |-> "mstore", off |-> o, val |-> <<1, 2>>] : o \in Offsets}
    \cup {[k |-> "mstore8", off |-> o, val |-> <<3>>] : o \in Offsets}
    \cup {[k |-> "read", off |-> o, len |-> l] : o \in Offsets, l \in ReadSizes}
    \cup Copies("copy") \cup Copies("retcopy")
    \cup {[k |-> "call", off |-> o, len |-> l, roff |-> r, rlen |-> rl,
           failed |-> f, ret |-> IF f THEN <<>> ELSE <<7, 8>>] :
            o \in Offsets, l \in ReadSizes, r \in Offsets, rl \in Sizes, f \in BOOLEAN}

Memory == INSTANCE TACMemory WITH
    W64 <- 16, W256 <- 64, WordSize <- 2, MaxSize <- 10, MemoryGas <- 1,
    QuadCoeffDiv <- 2, MaxGas <- 12, Gas <- 7, Instrs <- MemInstrs, Input <- <<5, 6>>,
    MaxSteps <- 3,
    evm <- x1, tac <- x2, outE <- x3, outT <- x4, ret <- x5, empty <- x6, steps <- x7

\* Words of four bits, two bytes.
WordOps == {"add", "sub", "mul", "div", "sdiv", "mod", "smod", "exp", "signextend",
            "not", "lt", "gt", "slt", "sgt", "eq", "iszero", "and", "or", "xor", "byte",
            "addmod", "mulmod", "shl", "shr", "sar"}
WordInputs == (0..15) \X (0..15) \X {0, 1, 3, 8, 15}

Words == INSTANCE TACWords WITH
    Bits <- 4, ByteBits <- 2, Ops <- WordOps,
    Inputs <- WordInputs,
    op <- x1, stack <- x2, regs <- x3
-------------------------------------------------------------------------------
\* Functions of three blocks.
N(b, s) == [base |-> b, sfx |-> s]
St(op, typ, to) == [op |-> op, typ |-> typ, to |-> to, aux |-> FALSE]
Other == St("OTHER", "const", "none")
Const == St("CONST", "const", "none")
Blk(stmts, succ) == [stmts |-> stmts, succ |-> succ]
Pairs(ns) == {r \in ns \X ns : r[1] # r[2]}

\* The blocks that a function with these names can have; a CONST at the end of
\* a block occurs in Gigahorse's output.
Halting == {Blk(<<Other, St("RETURN", "const", "none")>>, <<>>), Blk(<<Other>>, <<>>)}
Falling(ns) == {Blk(<<Other>>, <<n>>) : n \in ns} \cup {Blk(<<>>, <<n>>) : n \in ns}
Jumping(ns) == {Blk(<<St("JUMP", "const", n.base), Const>>, <<n>>) : n \in ns}
Branching(ns) ==
    {Blk(<<Const, St("JUMPI", "const", q[2].base)>>, q) :
        q \in {r \in ns \X ns : r[1].base # r[2].base}}
VarJumping(ns) ==
    {Blk(<<St("JUMP", "var", "none")>>, q) : q \in Pairs(ns)}
    \cup {Blk(<<St("JUMPI", "var", "none")>>, q) : q \in Pairs(ns)}
Odd(ns) == {Blk(<<Other>>, q) : q \in Pairs(ns)} \cup {Blk(<<>>, q) : q \in Pairs(ns)}

Fun(names, bs) ==
    {[i \in 1..Len(names) |-> [name |-> names[i], stmts |-> c[i].stmts, succ |-> c[i].succ]] :
        c \in [1..Len(names) -> bs]}

Plain == <<N("0x0", ""), N("0x1", ""), N("0x10", "")>>
Shared == <<N("0x0", ""), N("0x1", "B0x5"), N("0x1", "B0x9")>>
Both(names) == Halting \cup Falling(ToSet(names)) \cup Jumping(ToSet(names)) \cup Branching(ToSet(names))

\* Every address once, all kinds of blocks.
PlainFns == Fun(Plain, Both(Plain) \cup VarJumping({N("0x1", ""), N("0x10", "")})
                       \cup Odd({N("0x0", ""), N("0x1", "")}))
\* Two blocks share an address.
SharedFns == Fun(Shared, Both(Shared))

Layout == INSTANCE TACLayout WITH
    Functions <- PlainFns, Longer <- {<<"0x1", "0x10">>},
    src <- x1, fn <- x2, stage <- x3, order <- x4, frames <- x5, insts <- x6,
    addrs <- x7, pc <- x8, blk <- x9, move <- x10

SharedLayout == INSTANCE TACLayout WITH
    Functions <- SharedFns, Longer <- {<<"0x1", "0x10">>},
    src <- x1, fn <- x2, stage <- x3, order <- x4, frames <- x5, insts <- x6,
    addrs <- x7, pc <- x8, blk <- x9, move <- x10
-------------------------------------------------------------------------------
\* Flags: 64 stands for 2^64, units of 4 and 16 blocks; no segment wraps around.
Elems == [first : 0..3, last : {-1} \cup 0..3, unit : {"", "k"}]
         \cup {[first |-> f, last |-> f + 1, unit |-> "M"] : f \in 0..2}
TxLines == {<<>>, <<2>>, <<2, 0>>, <<2, 1>>, <<5>>, <<5, 1>>, <<2, 1, 0>>}

Flag == INSTANCE Flags WITH
    W <- 64, Kilo <- 4, Mega <- 16, Elements <- Elems, Lines <- TxLines,
    MaxElements <- 2, MaxLines <- 2,
    list <- x1, segments <- x2, err <- x3, enabled <- x4, lines <- x5,
    blockSet <- x6, txSet <- x7, txBlockSet <- x8, done <- x9
-------------------------------------------------------------------------------
\* Validation: two accounts, contracts or wallets, with two slots.
Slots == {1, 2}
Deployed(b) == [nonce |-> 1, bal |-> b, code |-> 1, storage |-> [k \in Slots |-> k % 2]]
Wallet == [nonce |-> 0, bal |-> 0, code |-> 0, storage |-> [k \in Slots |-> 0]]
NoOne == [nil |-> TRUE]

ValWorlds ==
    {<<Deployed(1), c>> : c \in {NoOne, Wallet, Deployed(0)}}
    \cup {<<Deployed(0), Deployed(0)>>}

ValOps ==
    {[kind |-> "read", a |-> a] : a \in 1..2}
    \cup {[kind |-> "sload", a |-> a, k |-> 1] : a \in 1..2}
    \cup {[kind |-> "sstore", a |-> a, k |-> k, v |-> 0] : a \in 1..2, k \in Slots}
    \cup {[kind |-> "sstore", a |-> 1, k |-> 1, v |-> 1]}
    \cup {[kind |-> "call", a |-> 2, n |-> n] : n \in {0, 1}}
    \cup {[kind |-> "create", a |-> 2, k |-> 1, v |-> 1, out |-> "stored"]}
    \cup {[kind |-> "kill", a |-> a, b |-> 1] : a \in 1..2}
    \cup {[kind |-> "snapshot"], [kind |-> "revert", id |-> 1]}

Verdict == INSTANCE Validation WITH
    Addr <- 1..2, Key <- Slots, Val <- {0, 1}, EIP158 <- TRUE, MaxBal <- 2,
    Worlds <- ValWorlds, Ops <- ValOps, MaxRecord <- 3, MaxReplay <- 3,
    db <- x1, phase <- x2, left <- x3, frames <- x4, x <- x5, y <- x6,
    eqAlloc <- x7, matchedSA <- x8, loaded <- x9
-------------------------------------------------------------------------------
\* The program cache.  Deployed contracts, two of them with the same code; the
\* init code that CREATE2 has run at the address of one of them; an init code of
\* CREATE; and an account that does not exist.
K(code, addr, fn) == [code |-> code, addr |-> addr, fn |-> fn]

CacheContracts ==
    {K("c1", "a1", "Call"), K("c1", "a2", "Call"), K("c3", "a2", "Create2"),
     K("c4", "a4", "Create"), K(NoAccount, "a6", "DelegateCall")}

\* Every set of files, with names of every kind; the one named by a hash may be
\* broken.
CacheNames == {<<"addr", "a1">>, <<"hash", "c1">>, <<"md5hex", "c3">>, <<"md5", "c4">>}
File(n, bad) == [of |-> n[2], ok |-> n # bad]

CacheDirs ==
    UNION {{[n \in S |-> File(n, bad)] : bad \in {<<"hash", "c1">>, <<>>}} :
            S \in SUBSET CacheNames}

\* Two init codes of CREATE, each with the file of its own code.
CreatedContracts == {K("c4", "a4", "Create"), K("c5", "a5", "Create")}
CreatedDirs == {[n \in {<<"md5", "c4">>, <<"md5", "c5">>} |-> File(n, <<>>)]}
-------------------------------------------------------------------------------
Nine == x9 = 0 /\ x10 = 0
Six == x6 = 0 /\ x7 = 0 /\ x8 = 0 /\ Nine
Unused == x1 = 0 /\ x2 = 0 /\ x3 = 0 /\ x4 = 0 /\ x5 = 0 /\ Six

xs == <<x1, x2, x3, x4, x5, x6, x7, x8, x9, x10>>

\* Where the variables of Deviation and ProgCache stay in the other parts.
DevAtRest == rec = (CHOOSE r \in Records : TRUE) /\ DevInit
CacheAtRest == dir = (CHOOSE d \in Dirs : TRUE) /\ CacheInit

MCInit ==
    /\ part \in Parts
    /\ Init
    /\ IF part = "deviation" THEN DevInit ELSE DevAtRest
    /\ IF part = "cache" THEN CacheInit ELSE CacheAtRest
    /\ \/ part \in {"iso", "deviation", "cache"} /\ Unused
       \/ part = "evm" /\ PlainEVM!Init /\ x10 = 0
       \/ part = "tac" /\ PlainTAC!Init /\ x10 = 0
       \/ part = "control" /\ Control!Init /\ Nine
       \/ part = "phi" /\ Phis!Init /\ Nine
       \/ part = "swap" /\ Swaps!Init /\ Nine
       \/ part = "validation" /\ Validated!DevInit /\ x7 = 0 /\ x8 = 0 /\ Nine
       \/ part = "memory" /\ Memory!Init /\ x8 = 0 /\ Nine
       \/ part = "words" /\ Words!Init /\ x4 = 0 /\ x5 = 0 /\ Six
       \/ part = "layout" /\ Layout!Init
       \/ part = "shared" /\ SharedLayout!Init
       \/ part = "flags" /\ Flag!Init /\ x10 = 0
       \/ part = "verdict" /\ Verdict!Init /\ x10 = 0

InstanceNext ==
    \/ part = "evm" /\ PlainEVM!Next /\ UNCHANGED x10
    \/ part = "tac" /\ PlainTAC!Next /\ UNCHANGED x10
    \/ part = "control" /\ Control!Next /\ UNCHANGED <<x9, x10>>
    \/ part = "phi" /\ Phis!Next /\ UNCHANGED <<x9, x10>>
    \/ part = "swap" /\ Swaps!Next /\ UNCHANGED <<x9, x10>>
    \/ part = "validation" /\ Validated!DevNext /\ UNCHANGED <<x7, x8, x9, x10>>
    \/ part = "memory" /\ Memory!Next /\ UNCHANGED <<x8, x9, x10>>
    \/ part = "words" /\ Words!Next /\ UNCHANGED <<x4, x5, x6, x7, x8, x9, x10>>
    \/ part = "layout" /\ Layout!Next
    \/ part = "shared" /\ SharedLayout!Next
    \/ part = "flags" /\ Flag!Next /\ UNCHANGED x10
    \/ part = "verdict" /\ Verdict!Next /\ UNCHANGED x10

MCNext ==
    /\ UNCHANGED part
    /\ \/ part = "iso" /\ Next /\ UNCHANGED <<devVars, cacheVars, xs>>
       \/ part = "deviation" /\ DevNext /\ UNCHANGED <<vars, cacheVars, xs>>
       \/ part = "cache" /\ CacheNext /\ UNCHANGED <<vars, devVars, xs>>
       \/ InstanceNext /\ UNCHANGED <<vars, devVars, cacheVars>>

MCSpec == MCInit /\ [][MCNext]_<<part, vars, devVars, cacheVars, xs>>
-------------------------------------------------------------------------------
\* The type invariant of each part; what holds of the calls with isolation holds
\* of them with one interpreter for all too: a finished trace is the calls as
\* they were executed and the row is the outermost call's.
PartsOK ==
    /\ part = "iso" => TypeOK
    /\ part = "deviation" => DevTypeOK
    /\ part = "evm" => PlainEVM!TypeOK /\ PlainEVM!StaticUnchanged /\ PlainEVM!TraceSound
    /\ part = "tac" => PlainTAC!TypeOK /\ PlainTAC!TraceSound /\ PlainTAC!RowIsOfIsolated
    /\ part = "control" => Control!TypeOK
    /\ part = "phi" => Phis!TypeOK
    /\ part = "swap" => Swaps!TypeOK
    /\ part = "validation" => Validated!DevTypeOK
    /\ part = "memory" => Memory!TypeOK
    /\ part = "words" => Words!TypeOK
    /\ part = "layout" => Layout!TypeOK
    /\ part = "shared" => SharedLayout!TypeOK
    /\ part = "flags" => Flag!TypeOK

\* A phi node takes the choice that was defined last on the path, by any
\* instruction but NOT.
PhiPicksLatest == part = "phi" => Phis!PhiPicksLatest

\* "phi should be executed in parallel, so we copy the whole value array": the
\* phi nodes of a block have the effect of executing them at once.
PhiParallel == part = "swap" => Swaps!PhiParallel

\* A private call gives its destinations what this callee returned, never the
\* data of an earlier call, and what ends the contract ends it once, at any depth
\* of private calls.
PrivateCalls == part = "control" => Control!PrivateDataFresh /\ Control!EndsOnce

\* A TAC instruction computes what the EVM's does on all small words, zero and the
\* largest ones among them, but for SAR of zero past the width, which is minus one;
\* and as long as the EVM executes the contract, the TAC interpreter reads the same
\* bytes of memory and leaves the same memory, unless it fails to resize for a
\* region of no bytes.
ComputesAsEVM ==
    /\ part = "words" => Words!SameAsEVM
    /\ part = "memory" => Memory!MemoryAgrees

\* Control follows the graph of the decompiler: a jump with a constant target
\* goes to the successor of its block at that address, whatever other blocks have
\* the address; where no two blocks share an address, so does a jump to the
\* address in a register, and a block that does not jump is left to its first
\* successor, with the exceptions that FallsWhenAhead names.
FollowsGraph ==
    /\ part = "layout" => /\ Layout!JumpsFollowGraph
                          /\ Layout!VarJumpsFollowGraph
                          /\ Layout!FallsWhenAhead
    /\ part = "shared" => SharedLayout!JumpsFollowGraph

\* The transactions that run are those that a segment and a line of the list
\* name, and segments whose ends meet in the same unit split the chain.
SelectsWhatIsNamed == part = "flags" => Flag!SelectsWhatIsNamed /\ Flag!SegmentsMeet

\* A correct decompiled program passes: when the second run leaves the state as the
\* recorded one did, EquivalentAlloc accepts, whatever else both did on the way.
AcceptsEqualEffects == part = "verdict" => Verdict!AcceptsEqualEffects

\* A wrong one does not: when EquivalentAlloc accepts, and the same accounts were
\* deleted, the two runs leave the same state.
RejectsOtherEffects == part = "verdict" => Verdict!RejectsOtherEffects

\* matchedSA means that both runs read the same slots of every account that was
\* there before and survives the recorded run.
MatchedReadsSameSlots == part = "verdict" => Verdict!MatchedReadsSameSlots

\* "x and y must have same list of deleted accounts" (EquivalentSideEffects).
SameDeletedAccounts == part = "verdict" => Verdict!SameDeletedAccounts
===============================================================================
