------------------------------ MODULE TACMemory ------------------------------
(***************************************************************************)
(* The memory of a contract under the EVM and under the TAC interpreter.   *)
(* The EVM computes the size an instruction needs from its operands,       *)
(* charges the growth and resizes before the instruction is executed       *)
(* (interpreter.go, memory_table.go, gas_table.go); the TAC interpreter    *)
(* has no gas and resizes in the instruction, up to the growth that MaxGas *)
(* pays for (extended_memory.go).  Both execute the same instructions.     *)
(*                                                                         *)
(* Operands are words below W256; uint64 arithmetic is modulo W64.  A      *)
(* machine is its memory, lastGasCost, the gas left and how it failed.     *)
(***************************************************************************)
EXTENDS Integers, Sequences, SequencesExt

CONSTANTS
    W64, W256,      \* 2^64 and 2^256
    WordSize,       \* bytes of a memory word, 32
    MaxSize,        \* 0x1FFFFFFFE0 of memoryGasCost
    MemoryGas, QuadCoeffDiv,    \* params
    MaxGas,         \* Delta.MaxGas, EXT_DEFAULT_MAX_GAS
    Gas,            \* gas of the contract in the EVM
    Instrs,         \* the instructions there may be
    Input,          \* contract.Input, or the code a CODECOPY copies
    MaxSteps        \* bound: instructions executed

VARIABLES
    evm, tac,       \* the two machines
    outE, outT,     \* what the last instruction read
    ret,            \* returnData, the same in both
    empty,          \* history: the last instruction read a region of no bytes
    steps

vars == <<evm, tac, outE, outT, ret, empty, steps>>
-------------------------------------------------------------------------------
\* toWordSize
ToWords(n) ==
    IF n > W64 - 1 - (WordSize - 1) THEN (W64 - 1) \div WordSize + 1
    ELSE (n + WordSize - 1) \div WordSize

Fee(words) == words * MemoryGas + (words * words) \div QuadCoeffDiv

\* memoryGasCost: the price of the growth, and the machine that remembers it.
Grows(m, n) == n # 0 /\ ToWords(n) * WordSize > Len(m.mem)
GasCost(m, n) == IF Grows(m, n) THEN Fee(ToWords(n)) - m.last ELSE 0
Priced(m, n) == IF Grows(m, n) THEN [m EXCEPT !.last = Fee(ToWords(n))] ELSE m

\* Memory.Resize
Resized(m, size) ==
    IF Len(m.mem) < size
    THEN [m EXCEPT !.mem = @ \o [i \in 1..(size - Len(m.mem)) |-> 0]] ELSE m

Failed(m, e) == [m EXCEPT !.err = e]

\* copy(store[off:off+len], bytes), where the store is long enough.
Copied(m, off, len, bytes) ==
    [m EXCEPT !.mem = [i \in 1..Len(@) |->
        IF i > off /\ i <= off + len /\ i - off <= Len(bytes) THEN bytes[i - off] ELSE @[i]]]

\* getData: the bytes from start, padded with zeros.
getData(data, start, size) ==
    [i \in 1..size |-> IF start + i <= Len(data) THEN data[start + i] ELSE 0]
-------------------------------------------------------------------------------
\* calcMemSize64: the size a region needs, -1 on overflow.
calcMemSize(off, len) ==
    IF len >= W64 THEN -1
    ELSE IF len = 0 THEN 0
    ELSE IF off >= W64 \/ off + len >= W64 THEN -1
    ELSE off + len

\* The memory size functions of memory_table.go.
MemSize(i) ==
    CASE i.k = "mload" -> calcMemSize(i.off, WordSize)
      [] i.k = "mstore" -> calcMemSize(i.off, WordSize)
      [] i.k = "mstore8" -> calcMemSize(i.off, 1)
      [] i.k \in {"read", "copy", "retcopy"} -> calcMemSize(i.off, i.len)
      [] i.k = "call" ->
            LET x == calcMemSize(i.roff, i.rlen)
                y == calcMemSize(i.off, i.len)
            IN  IF x = -1 \/ y = -1 THEN -1 ELSE IF x > y THEN x ELSE y

\* The loop of EVMInterpreter.Run before the instruction is executed.
Prepared(m, i) ==
    LET size == ToWords(MemSize(i)) * WordSize
        cost == GasCost(m, size)
    IN  IF MemSize(i) = -1 \/ size >= W64 \/ size > MaxSize THEN Failed(m, "OutOfGas")
        ELSE IF cost > m.gas THEN Failed(Priced(m, size), "OutOfGas")
        ELSE Resized([Priced(m, size) EXCEPT !.gas = @ - cost], size)

\* The bounds that opReturnDataCopy and exec_returndatacopy check.
RetInBounds(i) ==
    i.from < W64 /\ (i.from + i.len) % W256 < W64 /\ Len(ret) >= (i.from + i.len) % W256

\* getData's start for a source offset that is not a uint64.
Start(from) == IF from >= W64 THEN W64 - 1 ELSE from

Source(i) == IF i.k = "retcopy" THEN SubSeq(ret, i.from + 1, i.from + i.len)
             ELSE getData(Input, Start(i.from), i.len)

EVMExec(m, i) ==
    LET p == Prepared(m, i) IN
    IF p.err # "none" THEN p
    ELSE CASE i.k \in {"mload", "read"} -> p
           [] i.k = "mstore" -> Copied(p, i.off, WordSize, i.val)
           [] i.k = "mstore8" -> Copied(p, i.off, 1, i.val)
           [] i.k = "copy" -> Copied(p, i.off, i.len, Source(i))
           [] i.k = "retcopy" -> IF RetInBounds(i) THEN Copied(p, i.off, i.len, Source(i))
                                 ELSE Failed(p, "OutOfBounds")
           [] i.k = "call" -> IF i.failed THEN p ELSE Copied(p, i.roff, i.rlen, i.ret)

\* Memory.GetPtr of the region the instruction reads.
EVMRead(m, i) ==
    IF m.err # "none" \/ i.k \notin {"mload", "read", "call"} THEN <<>>
    ELSE SubSeq(m.mem, i.off + 1, i.off + (IF i.k = "mload" THEN WordSize ELSE i.len))
-------------------------------------------------------------------------------
\* Ext_Resize: GasUintOverflow and OutOfGas are one failure here.
Ext_Resize(m, n) ==
    IF n > MaxSize THEN Failed(m, "OutOfGas")
    ELSE IF GasCost(m, n) > MaxGas THEN Failed(Priced(m, n), "OutOfGas")
    ELSE Resized(Priced(m, n), ToWords(n) * WordSize)

\* Operands are cut to 64 bits, their sum wraps around; a slice that begins
\* behind the end of the store is a Go panic.
Cut(x) == x % W64

Set_OneShort(m, off, len, bytes) ==
    LET p == Ext_Resize(m, (off + len) % W64) IN
    IF p.err # "none" THEN p
    ELSE IF off + len > Len(p.mem) THEN Failed(p, "TACPanic")
    ELSE Copied(p, off, len - 1, bytes)

Ext_Set(m, off, len, bytes) ==
    LET p == Ext_Resize(m, (off + len) % W64) IN
    IF p.err # "none" THEN p
    ELSE IF off + len > Len(p.mem) THEN Failed(p, "TACPanic")
    ELSE Copied(p, off, len, bytes)

Signed(x) == IF x >= W64 \div 2 THEN x - W64 ELSE x

\* Ext_GetPtr and Ext_GetCopy: what the store is then ...
Ext_Get(m, off, len) ==
    LET p == Ext_Resize(m, (off + len) % W64) IN
    IF p.err = "none" /\ len # 0 /\ Len(p.mem) > Signed(off)
            /\ ~(0 <= Signed(off) /\ Signed(len) > 0)
    THEN Failed(p, "TACPanic") ELSE p

\* ... and the region, or nil.
Ext_Ptr(m, off, len) ==
    IF m.err # "none" \/ len = 0 \/ Len(m.mem) <= off THEN <<>>
    ELSE SubSeq(m.mem, off + 1, off + len)

\* if size > 0, in Ext_Set
SetRegion(m, off, len, bytes) == IF len = 0 THEN m ELSE Ext_Set(m, off, len, bytes)

\* Ext_getData: the copy must be payable on an empty memory.
Payable(len) == len <= MaxSize /\ Fee(ToWords(len)) <= MaxGas

TACExecute(m, i) ==
    CASE i.k = "mload" -> Ext_Get(m, Cut(i.off), WordSize)
      [] i.k = "read" -> Ext_Get(m, Cut(i.off), Cut(i.len))
      [] i.k = "mstore" -> Ext_Set(m, Cut(i.off), WordSize, i.val)
      [] i.k = "mstore8" -> Ext_Set(m, Cut(i.off), 1, i.val)
      [] i.k = "copy" -> IF ~Payable(Cut(i.len)) THEN Failed(m, "OutOfGas")
                         ELSE SetRegion(m, Cut(i.off), Cut(i.len),
                                        getData(Input, Start(i.from), Cut(i.len)))
      [] i.k = "retcopy" -> IF ~RetInBounds(i) THEN Failed(m, "OutOfBounds")
                            ELSE SetRegion(m, Cut(i.off), Cut(i.len), Source(i))
      [] i.k = "call" ->
            LET p == Ext_Get(m, Cut(i.off), Cut(i.len)) IN
            IF p.err # "none" \/ i.failed THEN p
            ELSE SetRegion(p, Cut(i.roff), Cut(i.rlen), i.ret)

TACRead(m, i) ==
    IF i.k \notin {"mload", "read", "call"} THEN <<>>
    ELSE Ext_Ptr(m, Cut(i.off), IF i.k = "mload" THEN WordSize ELSE Cut(i.len))
-------------------------------------------------------------------------------
New == [mem |-> <<>>, last |-> 0, gas |-> Gas, err |-> "none"]

Init ==
    /\ evm = New /\ tac = New
    /\ outE = <<>> /\ outT = <<>> /\ ret = <<>> /\ empty = FALSE /\ steps = 0

\* Both interpreters execute the instruction; the contract ends where it fails.
\* A call reads its arguments before the callee's result is written.
Execute(i) ==
    /\ steps < MaxSteps /\ tac.err = "none"
    /\ steps' = steps + 1
    /\ evm' = IF evm.err = "none" THEN EVMExec(evm, i) ELSE evm
    /\ tac' = TACExecute(tac, i)
    /\ outE' = IF evm.err = "none" /\ evm'.err = "none"
               THEN EVMRead(IF i.k = "call" THEN Prepared(evm, i) ELSE evm', i) ELSE <<>>
    /\ outT' = IF tac'.err # "none" THEN <<>>
               ELSE TACRead(IF i.k = "call" THEN Ext_Get(tac, Cut(i.off), Cut(i.len))
                            ELSE tac', i)
    /\ ret' = IF i.k = "call" THEN i.ret ELSE ret
    /\ empty' = (i.k \in {"read", "call"} /\ i.len = 0)

Next == \E i \in Instrs : Execute(i)

Spec == Init /\ [][Next]_vars
-------------------------------------------------------------------------------
\* Memories are whole words, and lastGasCost is what the memory has cost: the
\* next growth is not charged twice nor for nothing.
TypeOK ==
    /\ \A m \in {evm, tac} :
        /\ m.gas \in 0..Gas
        /\ Len(m.mem) % WordSize = 0
        /\ m.err = "none" => m.last = Fee(Len(m.mem) \div WordSize)
    /\ empty \in BOOLEAN /\ steps \in 0..MaxSteps

SameBytes(a, b) ==
    \A i \in 1..(Len(a) + Len(b)) :
        (IF i <= Len(a) THEN a[i] ELSE 0) = (IF i <= Len(b) THEN b[i] ELSE 0)

\* As long as the EVM executes the contract, the TAC interpreter does so too,
\* reads the same bytes and leaves the same memory.  The one instruction that may
\* fail in it alone reads a region of no bytes: Ext_GetPtr and Ext_GetCopy resize
\* to its offset, for which the EVM has no use.
MemoryAgrees ==
    evm.err = "none" =>
        \/ tac.err = "none" /\ outE = outT /\ SameBytes(evm.mem, tac.mem)
        \/ tac.err = "OutOfGas" /\ empty
===============================================================================
