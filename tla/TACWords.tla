------------------------------ MODULE TACWords -------------------------------
(***************************************************************************)
(* The arithmetic, comparison, bit and shift instructions: the EVM takes   *)
(* its operands from the stack and leaves the result on its top            *)
(* (instructions.go), the TAC interpreter takes them from registers and    *)
(* writes a register (tac_interpreter.go).  The methods of uint256.Int are *)
(* external.  A word has Bits bits, 256 in the code, a byte ByteBits, 8.   *)
(***************************************************************************)
EXTENDS Integers, Sequences, SequencesExt

CONSTANTS
    Bits, ByteBits,
    Ops,            \* the instructions there are
    Inputs          \* the operands: sequences of three words

VARIABLES
    op,             \* the instruction executed, or "none"
    stack,          \* the EVM's stack, the top is last
    regs            \* the TAC registers: the operands, and the result last

vars == <<op, stack, regs>>
-------------------------------------------------------------------------------
pow2[n \in Nat] == IF n = 0 THEN 1 ELSE 2 * pow2[n - 1]

M == pow2[Bits]
Word == 0..(M - 1)
AllOne == M - 1

Bit(x, n) == (x \div pow2[n]) % 2

\* The methods of uint256.Int.
SInt(x) == IF Bit(x, Bits - 1) = 1 THEN x - M ELSE x
Sign(x) == IF x = 0 THEN 0 ELSE IF Bit(x, Bits - 1) = 1 THEN -1 ELSE 1
Abs(i) == IF i < 0 THEN -i ELSE i
Add(x, y) == (x + y) % M
Sub(x, y) == (x - y) % M
Mul(x, y) == (x * y) % M
Div(x, y) == IF y = 0 THEN 0 ELSE x \div y
Mod(x, y) == IF y = 0 THEN 0 ELSE x % y
SDiv(x, y) ==
    LET q == Div(Abs(SInt(x)), Abs(SInt(y)))
    IN  (IF Sign(x) = Sign(y) THEN q ELSE -q) % M
SMod(x, y) ==
    LET r == Mod(Abs(SInt(x)), Abs(SInt(y)))
    IN  (IF Sign(x) = -1 THEN -r ELSE r) % M
AddMod(x, y, z) == Mod(x + y, z)
MulMod(x, y, z) == Mod(x * y, z)
Exp(x, y) == LET p[n \in 0..y] == IF n = 0 THEN 1 % M ELSE (p[n - 1] * x) % M IN p[y]
ExtendSign(x, back) ==
    LET bit == back * ByteBits + ByteBits - 1 IN
    IF back > Bits \div ByteBits - 2 THEN x
    ELSE IF Bit(x, bit) = 1 THEN M - pow2[bit] + (x % pow2[bit]) ELSE x % pow2[bit]
Byte(x, n) ==
    IF n >= Bits \div ByteBits THEN 0
    ELSE (x \div pow2[Bits - ByteBits * (n + 1)]) % pow2[ByteBits]
Lsh(x, n) == IF n >= Bits THEN 0 ELSE (x * pow2[n]) % M
Rsh(x, n) == IF n >= Bits THEN 0 ELSE x \div pow2[n]
SRsh(x, n) == IF n >= Bits THEN (IF Sign(x) = -1 THEN AllOne ELSE 0)
              ELSE (SInt(x) \div pow2[n]) % M
Not(x) == M - 1 - x
PerBit(x, y, f(_, _)) ==
    LET s[n \in 0..Bits] ==
            IF n = 0 THEN 0 ELSE s[n - 1] + pow2[n - 1] * f(Bit(x, n - 1), Bit(y, n - 1))
    IN  s[Bits]
Xor(x, y) == PerBit(x, y, LAMBDA a, b : (a + b) % 2)
And(x, y) == PerBit(x, y, LAMBDA a, b : a * b)
Or(x, y) == PerBit(x, y, LAMBDA a, b : IF a + b > 0 THEN 1 ELSE 0)

\* SetOne or Clear
Truth(b) == IF b THEN 1 ELSE 0
-------------------------------------------------------------------------------
Unary == {"iszero", "not"}
Ternary == {"addmod", "mulmod"}
Arity(o) == IF o \in Unary THEN 1 ELSE IF o \in Ternary THEN 3 ELSE 2

\* op*: x is popped first, the operand that stays (y, or z) takes the result.
EVMResult(o, x, y, z) ==
    CASE o = "add" -> Add(x, y)
      [] o = "sub" -> Sub(x, y)
      [] o = "mul" -> Mul(x, y)
      [] o = "div" -> Div(x, y)
      [] o = "sdiv" -> SDiv(x, y)
      [] o = "mod" -> Mod(x, y)
      [] o = "smod" -> SMod(x, y)
      [] o = "exp" -> Exp(x, y)
      [] o = "signextend" -> ExtendSign(y, x)
      [] o = "not" -> Not(x)
      [] o = "lt" -> Truth(x < y)
      [] o = "gt" -> Truth(x > y)
      [] o = "slt" -> Truth(SInt(x) < SInt(y))
      [] o = "sgt" -> Truth(SInt(x) > SInt(y))
      [] o = "eq" -> Truth(x = y)
      [] o = "iszero" -> Truth(x = 0)
      [] o = "and" -> And(x, y)
      [] o = "or" -> Or(x, y)
      [] o = "xor" -> Xor(x, y)
      [] o = "byte" -> Byte(y, x)
      [] o = "addmod" -> IF z = 0 THEN 0 ELSE AddMod(x, y, z)
      [] o = "mulmod" -> MulMod(x, y, z)
      [] o = "shl" -> IF x < Bits THEN Lsh(y, x) ELSE 0
      [] o = "shr" -> IF x < Bits THEN Rsh(y, x) ELSE 0
      [] o = "sar" -> IF x > Bits THEN (IF Sign(y) >= 0 THEN 0 ELSE AllOne) ELSE SRsh(y, x)

\* exec_sar
Sar(shift, value) ==
    IF shift > Bits THEN (IF Sign(value) > 0 THEN 0 ELSE AllOne) ELSE SRsh(value, shift)

SignExtend_Swapped(arg0, arg1) == ExtendSign(arg0, arg1)

\* exec_signextend
SignExtend(arg0, arg1) == ExtendSign(arg1, arg0)

\* exec_*: arg0, arg1 and arg2 in the order of the instruction's operands.
TACResult(o, arg0, arg1, arg2) ==
    CASE o = "add" -> Add(arg0, arg1)
      [] o = "sub" -> Sub(arg0, arg1)
      [] o = "mul" -> Mul(arg0, arg1)
      [] o = "div" -> Div(arg0, arg1)
      [] o = "sdiv" -> SDiv(arg0, arg1)
      [] o = "mod" -> Mod(arg0, arg1)
      [] o = "smod" -> SMod(arg0, arg1)
      [] o = "exp" -> Exp(arg0, arg1)
      [] o = "signextend" -> SignExtend(arg0, arg1)
      [] o = "not" -> Not(arg0)
      [] o = "lt" -> Truth(arg0 < arg1)
      [] o = "gt" -> Truth(arg0 > arg1)
      [] o = "slt" -> Truth(SInt(arg0) < SInt(arg1))
      [] o = "sgt" -> Truth(SInt(arg0) > SInt(arg1))
      [] o = "eq" -> Truth(arg0 = arg1)
      [] o = "iszero" -> Truth(arg0 = 0)
      [] o = "and" -> And(arg0, arg1)
      [] o = "or" -> Or(arg0, arg1)
      [] o = "xor" -> Xor(arg0, arg1)
      [] o = "byte" -> Byte(arg1, arg0)
      [] o \in Ternary -> IF arg2 = 0 THEN 0
                          ELSE IF o = "addmod" THEN AddMod(arg0, arg1, arg2)
                          ELSE MulMod(arg0, arg1, arg2)
      [] o = "shl" -> IF arg0 < Bits THEN Lsh(arg1, arg0) ELSE 0
      [] o = "shr" -> IF arg0 < Bits THEN Rsh(arg1, arg0) ELSE 0
      [] o = "sar" -> Sar(arg0, arg1)
-------------------------------------------------------------------------------
\* The operands of the program point: pushed last to first, and in registers.
Init ==
    \E i \in Inputs : stack = Reverse(i) /\ regs = i /\ op = "none"

\* The instruction pops its operands but the last, which takes the result.
Execute(o) ==
    /\ op = "none" /\ op' = o
    /\ LET x == Last(stack)
           y == stack[2]
           z == stack[1]
       IN  stack' = Append(SubSeq(stack, 1, 3 - Arity(o)), EVMResult(o, x, y, z))
    /\ regs' = Append(regs, TACResult(o, regs[1], regs[2], regs[3]))

Next == \E o \in Ops : Execute(o)

Spec == Init /\ [][Next]_vars
-------------------------------------------------------------------------------
\* Stack and registers hold words, and an instruction replaces exactly its
\* operands on the stack by its result.
TypeOK ==
    /\ op \in Ops \cup {"none"}
    /\ op \in Unary => Len(stack) = 3
    /\ op \in Ternary => Len(stack) = 1
    /\ op \notin Unary \cup Ternary \cup {"none"} => Len(stack) = 2
    /\ \A i \in 1..Len(stack) : stack[i] \in Word
    /\ \A i \in 1..Len(regs) : regs[i] \in Word

\* The register that exec_<op> writes holds what op<op> leaves on the stack:
\* operand order, the zero modulus and shifts of the width and more included.
\* One case differs: exec_sar shifts zero by more than the width to minus one
\* (it tests Sign() > 0 where opSAR tests Sign() >= 0).
SameAsEVM ==
    op # "none" =>
        Last(regs) = IF op = "sar" /\ regs[2] = 0 /\ regs[1] > Bits
                     THEN 2^Bits - 1 ELSE Last(stack)
===============================================================================
