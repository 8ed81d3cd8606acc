-------------------------------- MODULE TACRun --------------------------------
(***************************************************************************)
(* TACInterpreter.Run of the outermost TAC call (tac_interpreter.go): the  *)
(* program is executed by a goroutine of its own while Run waits for it    *)
(* or for the timeout, and the two share in.abort, evm.abort, the variable *)
(* err and Delta.SubstrateErr.  The goroutine's callees are EVM frames     *)
(* with isolation and TAC frames of the same interpreter without it.       *)
(*                                                                         *)
(* What the program does is chosen step by step; it may run for ever.      *)
(***************************************************************************)
EXTENDS Integers, Sequences

CONSTANTS
    ContractIso,    \* research.GetContractIso()
    Timeout,        \* tacTimeoutValue > 0
    MaxInst,        \* Delta.TACMaxInstCount, 0 when there is no limit
    RecOutOfGas,    \* the recorded call ran out of gas (see Deviation)
    MaxStack,       \* bound: nested calls
    W,              \* 2^64
    Gas,            \* contract.Gas when Run is called
    EIP150,         \* chainRules.IsEIP150: a creation gets all but one 64th
    MaxGas,         \* Delta.MaxGas
    LeftOvers,      \* what evm.Create and evm.Create2 may return of the gas given
    Refunds,        \* what the refund counter may be, before the call and after a callee
    RecLeftOverGas, \* recCallTrace.LeftOverGas
    RecRefundGas    \* recCallTrace.RefundGas

ASSUME TACRunAssumption ==
    /\ ContractIso \in BOOLEAN /\ Timeout \in BOOLEAN /\ RecOutOfGas \in BOOLEAN
    /\ MaxInst \in Nat /\ MaxStack \in Nat /\ W \in Nat \ {0}
    /\ Gas \in 0..(W - 1) /\ RecLeftOverGas \in 0..(W - 1)
    /\ RecRefundGas \in 0..(W - 1) /\ Refunds \subseteq 0..(W - 1)
    /\ EIP150 \in BOOLEAN /\ MaxGas \in Nat /\ 3 * MaxGas < W
    /\ LeftOvers \subseteq Nat /\ \A r \in LeftOvers : r + 2 * MaxGas < W

\* IsTACGlobalError; "global" stands for the ones that name a reason.
Global == {"TACTimeout", "TACPanic", "global"}
Errs == {"none", "reverted", "error", "OutOfGas", "stop"} \cup Global

VARIABLES
    m,          \* Run: "select", "t1", "t2", "t3", "wait", "fin", "done"
    g,          \* where the goroutine is (see TypeOK)
    stack,      \* its calls above the outermost: [kind, by]
    abort,      \* in.abort
    evmAbort,   \* evm.abort
    subErr,     \* Delta.SubstrateErr
    err,        \* the variable err of Run
    count,      \* Delta.TACInstCount
    gas,        \* contract.Gas
    refund,     \* StateDB.GetRefund()
    cut,        \* history: an EVM callee was stopped in the middle as if done
    fired,      \* history: the timer has fired
    failed      \* history: some TAC frame returned a global error

vars == <<m, g, stack, abort, evmAbort, subErr, err, count, gas, refund, cut, fired, failed>>
env == <<gas, refund>>
-------------------------------------------------------------------------------
Init ==
    /\ m = "select" /\ g = "head" /\ stack = <<>>
    /\ abort = "no" /\ evmAbort = FALSE
    /\ subErr = "none" /\ err = "none" /\ count = 0
    /\ gas = Gas /\ refund \in Refunds
    /\ cut = FALSE /\ fired = FALSE /\ failed = FALSE

\* exec_create and exec_create2: what the created contract is given of the
\* outermost contract's gas, and the limit it must keep.
Given == IF EIP150 THEN gas - gas \div 64 ELSE gas

Creatable_Always == TRUE

Creatable == Given <= MaxGas

\* The innermost callee is left.  A creation of the outermost contract adds what
\* is returned to its gas, from which nothing was taken; the calls ignore it.  The
\* callee may have changed the refund counter.
CalleeLeft ==
    /\ stack' = SubSeq(stack, 1, Len(stack) - 1)
    /\ gas' \in IF Len(stack) = 1 /\ stack[1].by = "create"
                THEN {(gas + r) % W : r \in LeftOvers \cup {Given}}
                ELSE {gas}
    /\ refund' \in {refund} \cup Refunds

NestedStored_Not(e) == subErr

\* The end of a nested Run.
NestedStored(e) == IF e \in Global THEN e ELSE subErr

\* execute_func of the innermost TAC frame returns e.  The outermost one's
\* goroutine tells doneChan.  A nested Run stores a global error, and the call
\* instruction that made it hands the error on; exec_create and exec_create2
\* test the variable err that they never assign, and go on.
FuncReturns(e) ==
    /\ failed' = (failed \/ e \in Global)
    /\ IF stack = <<>>
       THEN /\ err' = e /\ g' = "sent" /\ UNCHANGED <<stack, subErr, env>>
       ELSE LET f == stack[Len(stack)] IN
            /\ CalleeLeft
            /\ subErr' = NestedStored(e)
            /\ err' = IF e \in Global /\ f.by = "call" THEN e ELSE err
            /\ g' = IF e \in Global /\ f.by = "call" THEN "hand" ELSE "head"

\* The call instruction's "return nil, err" ends the frame that executed it.
HandOn ==
    /\ g = "hand" /\ FuncReturns(err)
    /\ UNCHANGED <<m, abort, evmAbort, count, cut, fired>>

AtLimit_Past == MaxInst > 0 /\ count > MaxInst

AtLimit == MaxInst > 0 /\ count >= MaxInst

\* The head of the loop: checkOutOfGas and the instruction limit may abort.
LoopHead ==
    /\ g = "head" /\ g' = "load"
    /\ \E oog \in (IF RecOutOfGas THEN BOOLEAN ELSE {FALSE}) :
            abort' = IF AtLimit THEN "timeout" ELSE IF oog THEN "outofgas" ELSE abort
    /\ subErr' = IF AtLimit THEN "TACTimeout" ELSE subErr
    /\ evmAbort' = (evmAbort \/ AtLimit)
    /\ UNCHANGED <<m, stack, err, count, env, cut, fired, failed>>

\* switch a := in.abort.Load()
LoadAbort ==
    /\ g = "load"
    /\ CASE abort = "no" -> g' = "loadevm" /\ UNCHANGED <<stack, subErr, err, env, failed>>
         [] abort = "timeout" -> FuncReturns("TACTimeout")
         [] abort = "outofgas" -> FuncReturns("OutOfGas")
    /\ UNCHANGED <<m, abort, evmAbort, count, cut, fired>>

\* TAC_NO_ABORT, but the EVM was cancelled after in.abort was read.
LoadEVMAbort ==
    /\ g = "loadevm"
    /\ IF evmAbort
       THEN FuncReturns(IF subErr = "none" THEN "stop" ELSE subErr)
       ELSE g' = "exec" /\ UNCHANGED <<stack, subErr, err, env, failed>>
    /\ UNCHANGED <<m, abort, evmAbort, count, cut, fired>>

\* in.Delta.TACInstCount++, which matters only when there is a limit.
Counted == IF MaxInst > 0 THEN count + 1 ELSE count

\* One instruction: it goes on, calls or creates a contract, or ends the
\* function.
Exec ==
    /\ g = "exec" /\ count' = Counted
    /\ \/ g' = "head" /\ UNCHANGED <<stack, subErr, err, env, failed>>
       \/ /\ Len(stack) < MaxStack
          /\ \E by \in {"call", "create"} :
                /\ stack = <<>> /\ by = "create" => Creatable
                /\ stack' = Append(stack, [kind |-> IF ContractIso THEN "evm" ELSE "tac",
                                           by |-> by])
          /\ g' = IF ContractIso THEN "evmbody" ELSE "head"
          /\ UNCHANGED <<subErr, err, env, failed>>
       \/ \E e \in {"none", "reverted", "error", "global"} : FuncReturns(e)
    /\ UNCHANGED <<m, abort, evmAbort, cut, fired>>

\* A Go panic unwinds every frame; the goroutine recovers.  Without a timeout
\* there is no goroutine and nothing recovers: the program dies.
Panic ==
    /\ g = "exec" /\ Timeout /\ count' = Counted
    /\ stack' = <<>> /\ err' = "TACPanic" /\ g' = "sent" /\ failed' = TRUE
    /\ UNCHANGED <<m, abort, evmAbort, subErr, env, cut, fired>>

EVMJump_NoAbort ==
    /\ g = "evm" /\ g' = "evmbody"
    /\ UNCHANGED <<m, stack, abort, evmAbort, subErr, err, count, env, cut, fired, failed>>

\* An EVM callee: opJump and opJumpi stop it, as if it had executed STOP, when
\* evm.abort is set.  A program without an end jumps again and again.
EVMJump ==
    /\ g = "evm"
    /\ IF evmAbort
       THEN cut' = TRUE /\ g' = "head" /\ CalleeLeft
       ELSE g' = "evmbody" /\ UNCHANGED <<cut, stack, env>>
    /\ UNCHANGED <<m, abort, evmAbort, subErr, err, count, fired, failed>>

\* The code up to the next jump, or to the end of the callee, which it leaves
\* with or without an error.
EVMBody ==
    /\ g = "evmbody"
    /\ \/ g' = "evm" /\ UNCHANGED <<stack, env>>
       \/ g' = "head" /\ CalleeLeft
    /\ UNCHANGED <<m, abort, evmAbort, subErr, err, count, cut, fired, failed>>

Goroutine ==
    \/ HandOn \/ LoopHead \/ LoadAbort \/ LoadEVMAbort \/ Exec \/ Panic
    \/ EVMJump \/ EVMBody
-------------------------------------------------------------------------------
\* The select of Run: the goroutine is done ...
DoneChan ==
    /\ m = "select" /\ g = "sent" /\ m' = "fin"
    /\ UNCHANGED <<g, stack, abort, evmAbort, subErr, err, count, env, cut, fired, failed>>

\* ... or the timer has fired, and Run stops the goroutine step by step.
TimeAfter ==
    /\ m = "select" /\ Timeout /\ m' = "t1" /\ fired' = TRUE
    /\ UNCHANGED <<g, stack, abort, evmAbort, subErr, err, count, env, cut, failed>>

StoreErr ==
    /\ m = "t1" /\ m' = "t2" /\ subErr' = "TACTimeout"
    /\ UNCHANGED <<g, stack, abort, evmAbort, err, count, env, cut, fired, failed>>

StoreAbort ==
    /\ m = "t2" /\ m' = "t3" /\ abort' = "timeout"
    /\ UNCHANGED <<g, stack, evmAbort, subErr, err, count, env, cut, fired, failed>>

Cancel ==
    /\ m = "t3" /\ m' = "wait" /\ evmAbort' = TRUE
    /\ UNCHANGED <<g, stack, abort, subErr, err, count, env, cut, fired, failed>>

AwaitDone_Not == m' = "fin"

\* <-doneChan
AwaitDone == g = "sent" /\ m' = "fin"

TimedOut_KeepErr == UNCHANGED err

\* res, err = nil, ErrTACTimeout
TimedOut == err' = "TACTimeout"

Wait ==
    /\ m = "wait" /\ AwaitDone /\ TimedOut
    /\ UNCHANGED <<g, stack, abort, evmAbort, subErr, count, env, cut, fired, failed>>

Charged_Saturating == refund + (IF RecRefundGas > refund THEN RecRefundGas - refund ELSE 0)

\* AddRefund(rec - GetRefund()) in uint64: the difference may be negative.
Charged == (refund + ((RecRefundGas - refund) % W)) % W

\* contract.UseGas(contract.Gas - rec): nothing is used if that is more than
\* there is, as it is when the difference wraps around.
LeftOver ==
    LET amount == (gas - RecLeftOverGas) % W
    IN  IF gas < amount THEN gas ELSE gas - amount

StoresErr_Not == UNCHANGED subErr

\* if IsTACGlobalError(err) { in.Delta.SubstrateErr = err }
StoresErr == subErr' = IF err \in Global THEN err ELSE subErr

\* The end of Run and its deferred functions.
Finish ==
    /\ m = "fin" /\ m' = "done" /\ StoresErr
    /\ gas' = LeftOver /\ refund' = Charged
    /\ UNCHANGED <<g, stack, abort, evmAbort, err, count, cut, fired, failed>>

Runner == DoneChan \/ StoreErr \/ StoreAbort \/ Cancel \/ Wait \/ Finish

Next == Goroutine \/ Runner \/ TimeAfter

Spec == Init /\ [][Next]_vars

\* Both goroutines are scheduled, and a timer that was started fires.
FairSpec == Spec /\ WF_vars(Goroutine) /\ WF_vars(Runner) /\ WF_vars(TimeAfter)
-------------------------------------------------------------------------------
\* The state has the shape the declarations give it, and the instruction count
\* stays within its limit.
TypeOK ==
    /\ m \in {"select", "t1", "t2", "t3", "wait", "fin", "done"}
    /\ g \in {"head", "load", "loadevm", "exec", "evm", "evmbody", "hand", "sent"}
    /\ stack \in Seq([kind : {"evm", "tac"}, by : {"call", "create"}])
    /\ abort \in {"no", "timeout", "outofgas"} /\ evmAbort \in BOOLEAN
    /\ subErr \in {"none"} \cup Global /\ err \in Errs
    /\ count \in 0..MaxInst
    /\ gas \in 0..(W - 1) /\ refund \in 0..(W - 1)
    /\ cut \in BOOLEAN /\ fired \in BOOLEAN /\ failed \in BOOLEAN

\* Run returns only when the program's goroutine is over: the caller never
\* touches the StateDB while the TAC program still does.
NoOverlap == m \in {"fin", "done"} => g = "sent"

\* A transaction that a global error or a cancelled callee has left incomplete
\* is never validated: the error is in Delta.SubstrateErr when Run returns.  Once
\* the timer has fired that is the timeout, whatever the goroutine stored or
\* returned before, between or after Run's own stores.
ErrorReported ==
    m = "done" => /\ cut \/ failed => subErr # "none"
                  /\ fired => subErr = "TACTimeout"

\* What the caller is left with: the refund counter is the recorded one, even when
\* the difference is negative, and the gas the recorded rest, although creations
\* have added to it what was never taken from it.
Settled ==
    m = "done" => refund = RecRefundGas /\ (RecLeftOverGas <= Gas => gas = RecLeftOverGas)

\* Why an error is never lost: it is in Delta.SubstrateErr, or it is the result
\* the goroutine has handed to Run and Run has yet to store; whatever cancels an
\* EVM callee has stored its reason first.  The instruction limit is noticed
\* before it is passed.  The limit of what a creation is given keeps the gas from
\* wrapping around, so it only grows until Run settles it.
RunInv ==
    /\ g = "sent" => stack = <<>>
    /\ m \in {"fin", "done"} => g = "sent"
    /\ cut => evmAbort
    /\ evmAbort \/ m \in {"t2", "t3", "wait"} => subErr # "none"
    /\ failed => subErr # "none" \/ (g = "sent" /\ err \in Global)
    /\ m = "done" => (err \in Global => subErr # "none")
    /\ g \in {"evm", "evmbody"} => stack # <<>>
    /\ g = "load" /\ AtLimit => abort = "timeout"
    /\ g \in {"loadevm", "exec"} => ~AtLimit
    /\ m \in {"t1", "t2", "t3", "wait"} => fired
    /\ fired => /\ m # "select" /\ (m = "fin" => err = "TACTimeout")
                /\ m = "done" => subErr = "TACTimeout"
    /\ stack # <<>> /\ stack[1].by = "create" => Creatable
    /\ m # "done" => Gas <= gas

\* Run always returns, even for a program that never halts: the timer or the
\* instruction limit stops it.
RunReturns == <>(m = "done")
===============================================================================
