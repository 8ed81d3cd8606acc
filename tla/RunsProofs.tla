------------------------------ MODULE RunsProofs ------------------------------
(***************************************************************************)
(* Proofs about the two Run functions that wait for a goroutine.  Of       *)
(* TACRun: for every limit, timeout, gas and isolation mode.  Of           *)
(* SubstrateRun: for any depth of nested Runs and whatever the program     *)
(* does, the busy loop of Run never starts before its frame is the         *)
(* innermost one, and Run reports the recorded out of gas and the timeout. *)
(***************************************************************************)
EXTENDS TACRun, SubstrateRun, SequenceTheorems, TLAPS

\* What every step keeps.
IInv == TypeOK /\ RunInv

Frames == [kind : {"evm", "tac"}, by : {"call", "create"}]

\* Arithmetic modulo the width of uint64.
LEMMA ModBounds ==
    ASSUME NEW x \in Int
    PROVE  x % W \in 0..(W - 1)
BY TACRunAssumption, SMT

LEMMA ModSmall ==
    ASSUME NEW x \in 0..(W - 1)
    PROVE  x % W = x
BY TACRunAssumption, SMT

LEMMA ModNegative ==
    ASSUME NEW x \in Int, -W <= x, x < 0
    PROVE  x % W = x + W
BY TACRunAssumption, SMT

LEMMA ModOnce ==
    ASSUME NEW x \in Int, W <= x, x < 2 * W
    PROVE  x % W = x - W
BY TACRunAssumption, SMT

\* AddRefund of the wrapped difference leaves exactly the recorded refund.
LEMMA RefundExact ==
    ASSUME refund \in 0..(W - 1)
    PROVE  Charged = RecRefundGas
<1>1. CASE RecRefundGas >= refund
  <2>1. (RecRefundGas - refund) % W = RecRefundGas - refund
    BY <1>1, ModSmall, TACRunAssumption
  <2>2. RecRefundGas % W = RecRefundGas
    BY ModSmall, TACRunAssumption
  <2> QED BY <2>1, <2>2, TACRunAssumption DEF Charged
<1>2. CASE RecRefundGas < refund
  <2>1. (RecRefundGas - refund) % W = RecRefundGas - refund + W
    BY <1>2, ModNegative, TACRunAssumption
  <2>2. (RecRefundGas + W) % W = RecRefundGas
    BY ModOnce, TACRunAssumption
  <2> QED BY <2>1, <2>2, TACRunAssumption DEF Charged
<1> QED BY <1>1, <1>2, TACRunAssumption

\* UseGas never gives gas back, and takes all but the recorded rest if there is
\* that much.
LEMMA GasUsed ==
    ASSUME gas \in 0..(W - 1)
    PROVE  /\ LeftOver \in 0..(W - 1)
           /\ RecLeftOverGas <= gas => LeftOver = RecLeftOverGas
<1>1. (gas - RecLeftOverGas) % W \in 0..(W - 1)
  BY ModBounds, TACRunAssumption
<1>2. RecLeftOverGas <= gas => (gas - RecLeftOverGas) % W = gas - RecLeftOverGas
  BY ModSmall, TACRunAssumption
<1> QED BY <1>1, <1>2, TACRunAssumption DEF LeftOver

\* The limit of what a creation is given bounds the gas that there is: what the
\* creation returns is added without wrapping around.
LEMMA NoWrap ==
    ASSUME gas \in 0..(W - 1), Creatable, NEW r \in LeftOvers \cup {Given}
    PROVE  (gas + r) % W = gas + r /\ gas + r \in 0..(W - 1) /\ gas <= gas + r
<1>1. PICK q \in Nat : q = gas \div 64 /\ 64 * q <= gas
  <2>1. gas \div 64 \in Nat /\ 64 * (gas \div 64) <= gas
    BY TACRunAssumption
  <2> QED BY <2>1
<1>2. gas <= 2 * MaxGas /\ Given \in Nat
  BY <1>1, TACRunAssumption DEF Creatable, Given
<1>3. gas + r < W /\ r \in Nat
  BY <1>2, TACRunAssumption DEF Creatable
<1>4. gas + r \in 0..(W - 1)
  BY <1>3, TACRunAssumption
<1> QED BY <1>3, <1>4, ModSmall

\* A call is popped from the stack of frames.
LEMMA PopFrame ==
    ASSUME stack \in Seq(Frames), stack # <<>>
    PROVE  SubSeq(stack, 1, Len(stack) - 1) \in Seq(Frames)
<1>1. Len(stack) \in Nat \ {0}
  BY EmptySeq, LenProperties
<1>2. \A i \in 1..(Len(stack) - 1) : stack[i] \in Frames
  BY <1>1, ElementOfSeq
<1> QED BY <1>1, <1>2, SubSeqProperties

\* What leaving a callee keeps: the gas does not shrink, and while a creation of
\* the outermost contract runs it does not change.
LEMMA CalleeLeftKeeps ==
    ASSUME IInv, stack # <<>>, m # "done", CalleeLeft
    PROVE  /\ stack' \in Seq(Frames) /\ gas' \in 0..(W - 1) /\ refund' \in 0..(W - 1)
           /\ Gas <= gas'
           /\ stack' # <<>> /\ stack'[1].by = "create" => Creatable'
<1>1. /\ stack \in Seq(Frames) /\ gas \in 0..(W - 1) /\ refund \in 0..(W - 1) /\ Gas <= gas
      /\ stack[1].by = "create" => Creatable
  BY DEF IInv, TypeOK, RunInv, Frames
<1>2. stack' = SubSeq(stack, 1, Len(stack) - 1) /\ stack' \in Seq(Frames)
  BY <1>1, PopFrame DEF CalleeLeft
<1>3. refund' \in 0..(W - 1)
  BY <1>1, TACRunAssumption DEF CalleeLeft
<1>4. Len(stack) \in Nat \ {0}
  BY <1>1, EmptySeq, LenProperties
<1>5. CASE Len(stack) = 1 /\ stack[1].by = "create"
  <2>1. PICK r \in LeftOvers \cup {Given} : gas' = (gas + r) % W
    BY <1>5 DEF CalleeLeft
  <2>2. gas' = gas + r /\ gas' \in 0..(W - 1) /\ gas <= gas'
    BY <1>1, <1>5, <2>1, NoWrap
  <2>3. Gas <= gas'
    BY <1>1, <2>2, TACRunAssumption
  <2>4. stack' = <<>>
    BY <1>1, <1>2, <1>5
  <2> QED BY <1>2, <1>3, <2>2, <2>3, <2>4
<1>6. CASE ~(Len(stack) = 1 /\ stack[1].by = "create")
  <2>1. gas' = gas
    BY <1>6 DEF CalleeLeft
  <2>2. ASSUME stack' # <<>> PROVE stack'[1] = stack[1]
    <3>1. Len(stack') = Len(stack) - 1 /\ \A i \in 1..(Len(stack) - 1) : stack'[i] = stack[i]
      <4>0. Len(stack) - 1 \in Nat /\ Len(stack) - 1 <= Len(stack)
        BY <1>4
      <4>1. PICK k \in Nat : k = Len(stack) - 1 /\ k <= Len(stack)
        BY <4>0
      <4>2. stack' = SubSeq(stack, 1, k) /\ \A i \in 1..k : stack[i] \in Frames
        BY <1>1, <1>2, <1>4, <4>1, ElementOfSeq
      <4> QED BY <1>1, <4>1, <4>2, SubSeqProperties
    <3>2. Len(stack') # 0
      BY <1>2, <2>2, EmptySeq
    <3> QED BY <1>4, <3>1, <3>2
  <2>3. Creatable => Creatable'
    BY <2>1 DEF Creatable, Given
  <2> QED BY <1>1, <1>2, <1>3, <2>1, <2>2, <2>3
<1> QED BY <1>5, <1>6

\* What the end of a function keeps of the invariant.
LEMMA FuncReturnsKeeps ==
    ASSUME IInv, NEW e \in Errs, FuncReturns(e), m' = m, abort' = abort, evmAbort' = evmAbort,
           count' \in 0..MaxInst, cut' = cut, fired' = fired, g # "sent",
           m \notin {"fin", "done"}
    PROVE  IInv'
<1> USE DEF IInv, Errs, Global
<1>1. CASE stack = <<>>
  <2>0. /\ failed' = (failed \/ e \in Global) /\ err' = e /\ g' = "sent"
        /\ stack' = stack /\ subErr' = subErr /\ gas' = gas /\ refund' = refund
    BY <1>1 DEF FuncReturns, env
  <2>1. TypeOK'
    BY <2>0 DEF TypeOK
  <2>2. RunInv'
    <3>1. stack' = <<>>
      BY <1>1, <2>0
    <3> QED BY <2>0, <3>1 DEF RunInv
  <2> QED BY <2>1, <2>2
<1>2. CASE stack # <<>>
  <2> DEFINE f == stack[Len(stack)]
  <2>1. /\ CalleeLeft /\ subErr' = NestedStored(e)
        /\ err' = IF e \in Global /\ f.by = "call" THEN e ELSE err
        /\ g' = IF e \in Global /\ f.by = "call" THEN "hand" ELSE "head"
        /\ failed' = (failed \/ e \in Global)
    BY <1>2 DEF FuncReturns
  <2>2. /\ stack' \in Seq(Frames) /\ gas' \in 0..(W - 1) /\ refund' \in 0..(W - 1)
        /\ Gas <= gas'
        /\ stack' # <<>> /\ stack'[1].by = "create" => Creatable'
    BY <1>2, <2>1, CalleeLeftKeeps
  <2>3. TypeOK'
    BY <2>1, <2>2 DEF TypeOK, Frames, NestedStored
  <2>4. g' \in {"hand", "head"} /\ m \in {"select", "t1", "t2", "t3", "wait"}
    BY <2>1 DEF TypeOK
  <2>5. RunInv'
    BY <2>1, <2>2, <2>4 DEF RunInv, NestedStored
  <2> QED BY <2>3, <2>5
<1> QED BY <1>1, <1>2

\* The goroutine is running: Run has not gone past its wait.
LEMMA RunsBefore ==
    ASSUME IInv, g # "sent"
    PROVE  m \notin {"fin", "done"}
BY DEF IInv, RunInv

LEMMA InitInv == Init => IInv
<1> SUFFICES ASSUME Init PROVE IInv
  OBVIOUS
<1>1. stack \in Seq(Frames)
  BY EmptySeq DEF Init
<1>2. refund \in 0..(W - 1) /\ gas \in 0..(W - 1) /\ Gas <= gas /\ count \in 0..MaxInst
  BY TACRunAssumption DEF Init
<1>3. /\ m = "select" /\ g = "head" /\ abort = "no" /\ evmAbort = FALSE
      /\ subErr = "none" /\ err = "none" /\ cut = FALSE /\ failed = FALSE
      /\ stack = <<>> /\ fired = FALSE
  BY DEF Init
<1>4. TypeOK
  BY <1>1, <1>2, <1>3 DEF TypeOK, Errs, Global, Frames
<1>5. RunInv
  BY <1>2, <1>3 DEF RunInv, AtLimit
<1> QED BY <1>4, <1>5 DEF IInv

LEMMA GoroutineInv == IInv /\ Goroutine => IInv'
<1> SUFFICES ASSUME IInv, Goroutine PROVE IInv'
  OBVIOUS
<1> USE TACRunAssumption
<1>1. CASE HandOn
  <2>1. g # "sent" /\ err \in Errs /\ count' \in 0..MaxInst /\ m \notin {"fin", "done"}
    BY <1>1, RunsBefore DEF HandOn, IInv, TypeOK
  <2> QED BY <1>1, <2>1, FuncReturnsKeeps DEF HandOn
<1>2. CASE LoopHead
  <2>1. TypeOK'
    BY <1>2 DEF LoopHead, IInv, TypeOK, env, Global
  <2>2. RunInv'
    BY <1>2 DEF LoopHead, IInv, TypeOK, env, Global, RunInv, AtLimit, Creatable, Given
  <2> QED BY <2>1, <2>2 DEF IInv
<1>3. CASE LoadAbort
  <2>0. g # "sent" /\ count' \in 0..MaxInst /\ m \notin {"fin", "done"} /\ abort \in {"no", "timeout", "outofgas"}
    BY <1>3, RunsBefore DEF LoadAbort, IInv, TypeOK
  <2>1. CASE abort = "no"
    BY <1>3, <2>1 DEF LoadAbort, IInv, TypeOK, RunInv, AtLimit, Creatable, Given, env
  <2>2. CASE abort = "timeout"
    <3>1. FuncReturns("TACTimeout")
      BY <1>3, <2>2 DEF LoadAbort
    <3> QED BY <1>3, <2>0, <3>1, FuncReturnsKeeps DEF LoadAbort, Errs, Global
  <2>3. CASE abort = "outofgas"
    <3>1. FuncReturns("OutOfGas")
      BY <1>3, <2>3 DEF LoadAbort
    <3> QED BY <1>3, <2>0, <3>1, FuncReturnsKeeps DEF LoadAbort, Errs, Global
  <2> QED BY <2>0, <2>1, <2>2, <2>3
<1>4. CASE LoadEVMAbort
  <2>0. g # "sent" /\ count' \in 0..MaxInst /\ m \notin {"fin", "done"}
    BY <1>4, RunsBefore DEF LoadEVMAbort, IInv, TypeOK
  <2>1. CASE evmAbort
    <3>1. subErr \in Errs /\ "stop" \in Errs
      BY DEF IInv, TypeOK, Errs, Global
    <3> QED BY <1>4, <2>0, <2>1, <3>1, FuncReturnsKeeps DEF LoadEVMAbort
  <2>2. CASE ~evmAbort
    BY <1>4, <2>2 DEF LoadEVMAbort, IInv, TypeOK, RunInv, AtLimit, Creatable, Given, env
  <2> QED BY <2>1, <2>2
<1>5. CASE Exec
  <2>0. g # "sent" /\ count' \in 0..MaxInst /\ m \notin {"fin", "done"}
    BY <1>5, RunsBefore DEF Exec, IInv, TypeOK, RunInv, AtLimit, Counted
  <2>1. CASE g' = "head" /\ UNCHANGED <<stack, subErr, err, env, failed>>
    BY <1>5, <2>0, <2>1 DEF Exec, IInv, TypeOK, RunInv, AtLimit, Creatable, Given, env
  <2>2. ASSUME NEW by \in {"call", "create"},
               stack' = Append(stack, [kind |-> IF ContractIso THEN "evm" ELSE "tac", by |-> by]),
               stack = <<>> /\ by = "create" => Creatable,
               g' = IF ContractIso THEN "evmbody" ELSE "head",
               UNCHANGED <<subErr, err, env, failed>>
        PROVE  IInv'
    <3>1. stack' \in Seq(Frames) /\ stack' # <<>>
      BY <2>2, AppendProperties DEF IInv, TypeOK, Frames
    <3>4. stack'[1].by = "create" => Creatable'
      <4>1. Creatable' <=> Creatable
        BY <2>2 DEF Creatable, Given, env
      <4>2. CASE stack = <<>>
        BY <2>2, <4>1, <4>2
      <4>3. CASE stack # <<>>
        <5>1. stack \in Seq(Frames) /\ Len(stack) \in Nat \ {0}
          BY <4>3, EmptySeq, LenProperties DEF IInv, TypeOK, Frames
        <5>2. stack'[1] = stack[1]
          BY <2>2, <5>1
        <5> QED BY <4>1, <4>3, <5>2 DEF IInv, RunInv
      <4> QED BY <4>2, <4>3
    <3>2. TypeOK'
      BY <1>5, <2>0, <2>2, <3>1 DEF Exec, IInv, TypeOK, Frames, env
    <3>3. RunInv'
      BY <1>5, <2>0, <2>2, <3>1, <3>4 DEF Exec, IInv, TypeOK, RunInv, AtLimit, env
    <3> QED BY <3>2, <3>3 DEF IInv
  <2>3. ASSUME NEW e \in {"none", "reverted", "error", "global"}, FuncReturns(e)
        PROVE  IInv'
    BY <1>5, <2>0, <2>3, FuncReturnsKeeps DEF Exec, Errs, Global
  <2> QED BY <1>5, <2>1, <2>2, <2>3 DEF Exec
<1>6. CASE Panic
  <2>0. g # "sent" /\ count' \in 0..MaxInst /\ m \notin {"fin", "done"}
    BY <1>6, RunsBefore DEF Panic, IInv, TypeOK, RunInv, AtLimit, Counted
  <2>1. <<>> \in Seq(Frames)
    BY EmptySeq
  <2>2. TypeOK'
    BY <1>6, <2>0, <2>1 DEF Panic, IInv, TypeOK, Frames, Errs, Global, env
  <2>3. RunInv'
    BY <1>6, <2>0 DEF Panic, IInv, TypeOK, RunInv, AtLimit, Global, env
  <2> QED BY <2>2, <2>3 DEF IInv
<1>7. CASE EVMJump
  <2>0. stack # <<>> /\ m \notin {"fin", "done"}
    BY <1>7, RunsBefore DEF EVMJump, IInv, RunInv
  <2>1. CASE evmAbort
    <3>1. CalleeLeft /\ g' = "head" /\ m # "done"
      BY <1>7, <2>0, <2>1 DEF EVMJump
    <3>2. /\ stack' \in Seq(Frames) /\ gas' \in 0..(W - 1) /\ refund' \in 0..(W - 1)
          /\ Gas <= gas'
          /\ stack' # <<>> /\ stack'[1].by = "create" => Creatable'
      BY <2>0, <3>1, CalleeLeftKeeps
    <3>3. TypeOK'
      BY <1>7, <2>1, <3>1, <3>2 DEF EVMJump, IInv, TypeOK, Frames
    <3>4. RunInv'
      BY <1>7, <2>0, <2>1, <3>1, <3>2 DEF EVMJump, IInv, TypeOK, RunInv
    <3> QED BY <3>3, <3>4 DEF IInv
  <2>2. CASE ~evmAbort
    BY <1>7, <2>0, <2>2 DEF EVMJump, IInv, TypeOK, RunInv, AtLimit, Creatable, Given, env
  <2> QED BY <1>7, <2>1, <2>2 DEF EVMJump
<1>8. CASE EVMBody
  <2>0. stack # <<>> /\ m \notin {"fin", "done"}
    BY <1>8, RunsBefore DEF EVMBody, IInv, RunInv
  <2>1. CASE g' = "head" /\ CalleeLeft
    <3>1. CalleeLeft /\ g' = "head" /\ m # "done"
      BY <1>8, <2>0, <2>1 DEF EVMBody
    <3>2. /\ stack' \in Seq(Frames) /\ gas' \in 0..(W - 1) /\ refund' \in 0..(W - 1)
          /\ Gas <= gas'
          /\ stack' # <<>> /\ stack'[1].by = "create" => Creatable'
      BY <2>0, <3>1, CalleeLeftKeeps
    <3>3. TypeOK'
      BY <1>8, <2>1, <3>1, <3>2 DEF EVMBody, IInv, TypeOK, Frames
    <3>4. RunInv'
      BY <1>8, <2>0, <2>1, <3>1, <3>2 DEF EVMBody, IInv, TypeOK, RunInv
    <3> QED BY <3>3, <3>4 DEF IInv
  <2>2. CASE g' = "evm" /\ UNCHANGED <<stack, env>>
    BY <1>8, <2>0, <2>2 DEF EVMBody, IInv, TypeOK, RunInv, AtLimit, Creatable, Given, env
  <2> QED BY <1>8, <2>1, <2>2 DEF EVMBody
<1> QED BY <1>1, <1>2, <1>3, <1>4, <1>5, <1>6, <1>7, <1>8 DEF Goroutine

LEMMA RunnerInv == IInv /\ (Runner \/ TimeAfter) => IInv'
<1> SUFFICES ASSUME IInv, Runner \/ TimeAfter PROVE IInv'
  OBVIOUS
<1> USE TACRunAssumption DEF IInv, TypeOK, RunInv, AtLimit, Global, Errs, env, Creatable, Given
<1>1. CASE DoneChan
  BY <1>1 DEF DoneChan
<1>2. CASE StoreErr
  BY <1>2 DEF StoreErr
<1>3. CASE StoreAbort
  BY <1>3 DEF StoreAbort
<1>4. CASE Cancel
  BY <1>4 DEF Cancel
<1>5. CASE Wait
  BY <1>5 DEF Wait, AwaitDone, TimedOut
<1>6. CASE Finish
  <2>1. Charged = RecRefundGas /\ LeftOver \in 0..(W - 1)
    BY RefundExact, GasUsed
  <2>2. stack' = <<>>
    BY <1>6 DEF Finish
  <2> HIDE DEF Charged, LeftOver
  <2> QED BY <1>6, <2>1, <2>2 DEF Finish, StoresErr
<1>7. CASE TimeAfter
  BY <1>7 DEF TimeAfter
<1> QED BY <1>1, <1>2, <1>3, <1>4, <1>5, <1>6, <1>7 DEF Runner

LEMMA StutterInv == IInv /\ UNCHANGED vars => IInv'
BY DEF IInv, TypeOK, RunInv, AtLimit, Creatable, Given, vars

LEMMA Inductive == Spec => []IInv
<1>1. IInv /\ [Next]_vars => IInv'
  BY GoroutineInv, RunnerInv, StutterInv DEF Next
<1> QED BY InitInv, <1>1, PTL DEF Spec

\* The shape of the shared state; TACInstCount never passes TACMaxInstCount.
THEOREM TypeCorrect == Spec => []TypeOK
<1>1. IInv => TypeOK
  BY DEF IInv
<1> QED BY Inductive, <1>1, PTL

\* The inductive invariant that ties err, Delta.SubstrateErr and the abort flags.
THEOREM RunInvariant == Spec => []RunInv
<1>1. IInv => RunInv
  BY DEF IInv
<1> QED BY Inductive, <1>1, PTL

\* Run does not return while the goroutine of execute_func is running.
THEOREM NeverOverlap == Spec => []NoOverlap
<1>1. IInv => NoOverlap
  BY DEF IInv, RunInv, NoOverlap
<1> QED BY Inductive, <1>1, PTL

\* No global error, and no callee that was cut short, goes unreported, and once
\* the timer has fired it is the timeout that Delta.SubstrateErr holds, however
\* Run's stores and those of the goroutine interleave.
THEOREM ErrorsReported == Spec => []ErrorReported
<1>1. IInv => ErrorReported
  BY DEF IInv, RunInv, ErrorReported
<1> QED BY Inductive, <1>1, PTL

\* What Settled says of a state, kept by every step of Run and its goroutine.
LEMMA SettledStep == IInv /\ Settled /\ [Next]_vars => Settled'
<1> SUFFICES ASSUME IInv, Settled, [Next]_vars, m' = "done"
             PROVE  refund' = RecRefundGas /\ (RecLeftOverGas <= Gas => gas' = RecLeftOverGas)
  BY DEF Settled
<1>1. CASE Finish
  <2>1. m # "done" /\ gas \in 0..(W - 1) /\ refund \in 0..(W - 1) /\ Gas <= gas
    BY <1>1 DEF Finish, IInv, TypeOK, RunInv
  <2>2. gas' = LeftOver /\ refund' = Charged
    BY <1>1 DEF Finish
  <2> QED BY <2>1, <2>2, RefundExact, GasUsed, TACRunAssumption
<1>2. CASE ~Finish
  <2>1. m = "done"
    BY <1>2 DEF Next, Goroutine, Runner, HandOn, LoopHead, LoadAbort, LoadEVMAbort, Exec, Panic,
         EVMJump, EVMBody, DoneChan, TimeAfter, StoreErr, StoreAbort, Cancel, Wait, AwaitDone,
         vars
  <2>2. g = "sent"
    BY <2>1 DEF IInv, RunInv
  <2>3. UNCHANGED env
    BY <1>2, <2>1, <2>2 DEF Next, Goroutine, Runner, HandOn, LoopHead, LoadAbort, LoadEVMAbort,
         Exec, Panic, EVMJump, EVMBody, DoneChan, TimeAfter, StoreErr, StoreAbort, Cancel, Wait,
         vars, env
  <2> QED BY <2>1, <2>3 DEF Settled, env
<1> QED BY <1>1, <1>2

\* The refund counter, and the gas if the recorded rest is not more than what was
\* given, are what the recorded call left, whatever the program did, whatever its
\* creations added, and however the differences wrap around.
THEOREM GasSettled == Spec => []Settled
<1>1. Init => Settled
  BY DEF Init, Settled
<1> QED BY Inductive, <1>1, SettledStep, PTL DEF Spec
-------------------------------------------------------------------------------

\* A frame is replaced: all there is to show is about the new frame.
LEMMA SetFrame ==
    ASSUME NEW fs, FramesOK(fs), NEW f \in 1..Len(fs), NEW x \in Frame,
           FrameOK(x), f = 1 => First(x), f < Len(fs) <=> x.go = "call"
    PROVE  /\ FramesOK([fs EXCEPT ![f] = x]) /\ Len([fs EXCEPT ![f] = x]) = Len(fs)
           /\ \A j \in 1..Len(fs) : [fs EXCEPT ![f] = x][j] = IF j = f THEN x ELSE fs[j]
PROOF
  <1> DEFINE w == [fs EXCEPT ![f] = x]
  <1>1. fs \in Seq(Frame) /\ Len(fs) \in 1..MaxFrames BY DEF FramesOK
  <1>2. /\ w \in Seq(Frame) /\ Len(w) = Len(fs)
        /\ \A j \in 1..Len(fs) : w[j] = IF j = f THEN x ELSE fs[j]
    BY <1>1, ExceptSeq
  <1>3. 1 \in 1..Len(fs) BY <1>1
  <1> HIDE DEF w
  <1>4. \A j \in 1..Len(w) : FrameOK(w[j]) /\ (j < Len(w) <=> w[j].go = "call")
    BY <1>2 DEF FramesOK
  <1>5. First(w[1]) BY <1>2, <1>3 DEF FramesOK
  <1>6. FramesOK(w) BY <1>1, <1>2, <1>4, <1>5 DEF FramesOK
  <1> QED BY <1>2, <1>6 DEF w

\* A Run is called by the innermost goroutine.
LEMMA PushFrame ==
    ASSUME Configured, NEW fs, FramesOK(fs), Len(fs) < MaxFrames, NEW y \in Frame,
           FrameOK(y), Len(fs) = 1 => First(y), y.go = "call"
    PROVE  FramesOK(Append([fs EXCEPT ![Len(fs)] = y], New))
PROOF
  <1> DEFINE n == Len(fs)
             w == [fs EXCEPT ![n] = y]
             u == Append(w, New)
  <1>1. fs \in Seq(Frame) /\ n \in 1..MaxFrames /\ n \in Nat /\ n \in 1..Len(fs)
    BY DEF FramesOK
  <1>2. w \in Seq(Frame) /\ Len(w) = n /\ \A j \in 1..n : w[j] = IF j = n THEN y ELSE fs[j]
    BY <1>1, ExceptSeq
  <1> HIDE DEF w
  <1>3. New \in Frame /\ FrameOK(New) /\ New.go = "walk" BY DEF New, Frame, FrameOK
  <1>4. /\ u \in Seq(Frame) /\ Len(u) = n + 1 /\ u[n + 1] = New
        /\ \A j \in 1..n : u[j] = w[j]
    BY <1>2, <1>3
  <1> HIDE DEF u
  <1>5. Len(u) \in 1..MaxFrames BY <1>1, <1>4 DEF Configured
  <1>6. \A j \in 1..n : FrameOK(fs[j]) /\ (j < n <=> fs[j].go = "call") BY DEF FramesOK
  <1> HIDE DEF n
  <1>7. ASSUME NEW j \in 1..Len(u) PROVE FrameOK(u[j]) /\ (j < Len(u) <=> u[j].go = "call")
    <2>1. CASE j = n + 1 BY <2>1, <1>3, <1>4, <1>1
    <2>2. CASE j = n BY <2>2, <1>2, <1>4, <1>1
    <2>3. CASE j \in 1..(n - 1)
      <3>1. j \in 1..n /\ j < n /\ j < Len(u) BY <2>3, <1>1, <1>4
      <3>2. u[j] = fs[j] BY <3>1, <1>2, <1>4
      <3> QED BY <3>1, <3>2, <1>6
    <2> QED BY <2>1, <2>2, <2>3, <1>1, <1>4
  <1>8. First(u[1])
    <2>1. CASE n = 1 BY <2>1, <1>2, <1>4 DEF n
    <2>2. CASE n # 1
      <3>1. 1 \in 1..n BY <1>1
      <3>2. u[1] = fs[1] BY <3>1, <2>2, <1>2, <1>4
      <3> QED BY <3>2 DEF FramesOK
    <2> QED BY <2>1, <2>2
  <1>9. FramesOK(u) BY <1>4, <1>5, <1>7, <1>8 DEF FramesOK
  <1> QED BY <1>9 DEF u, w, n

\* A Run returns to the goroutine that called it.
LEMMA PopSubFrame ==
    ASSUME Configured, NEW fs, FramesOK(fs), Len(fs) > 1
    PROVE  FramesOK([Front(fs) EXCEPT ![Len(fs) - 1].go = "walk"])
PROOF
  <1> DEFINE n == Len(fs)
             k == n - 1
             h == SubSeq(fs, 1, k)
             y == [h[k] EXCEPT !.go = "walk"]
             w == [h EXCEPT ![k] = y]
  <1>1. fs \in Seq(Frame) /\ n \in 1..MaxFrames /\ n \in Nat BY DEF FramesOK
  <1>2. k \in 1..n /\ k < n /\ k \in Nat /\ k \in 1..MaxFrames BY <1>1 DEF Configured
  <1>3. h \in Seq(Frame) /\ Len(h) = k /\ \A j \in 1..k : h[j] = fs[j]
    BY <1>1, <1>2
  <1>4. Front(fs) = h BY DEF Front
  <1>5. k \in 1..Len(h) /\ h[k] = fs[k] /\ h[k] \in Frame BY <1>1, <1>2, <1>3
  <1>6. [h EXCEPT ![k].go = "walk"] = w OBVIOUS
  <1>7. /\ \A j \in 1..n : FrameOK(fs[j]) /\ (j < n <=> fs[j].go = "call")
        /\ First(fs[1])
    BY DEF FramesOK
  <1> HIDE DEF h
  <1>8. h[k].go = "call" BY <1>2, <1>5, <1>7
  <1>9. y \in Frame /\ y.go = "walk" /\ FrameOK(y)
    BY <1>2, <1>5, <1>7, <1>8 DEF Frame, FrameOK
  <1>10. k = 1 => First(y)
    BY <1>5, <1>7, <1>8 DEF Frame, First
  <1> HIDE DEF y
  <1>11. w \in Seq(Frame) /\ Len(w) = k /\ \A j \in 1..k : w[j] = IF j = k THEN y ELSE h[j]
    BY <1>3, <1>5, <1>9, ExceptSeq
  <1> HIDE DEF w
  <1>12. ASSUME NEW j \in 1..Len(w) PROVE FrameOK(w[j]) /\ (j < Len(w) <=> w[j].go = "call")
    <2>1. CASE j = k BY <2>1, <1>9, <1>11, <1>2
    <2>2. CASE j # k
      <3>1. j \in 1..k /\ j \in 1..n /\ j < n /\ j < Len(w) BY <2>2, <1>1, <1>2, <1>11
      <3>2. w[j] = fs[j] BY <3>1, <2>2, <1>3, <1>11
      <3> QED BY <3>1, <3>2, <1>7
    <2> QED BY <2>1, <2>2
  <1>13. First(w[1])
    <2>1. 1 \in 1..k BY <1>2
    <2>2. CASE k = 1 BY <2>1, <2>2, <1>10, <1>11
    <2>3. CASE k # 1
      <3>1. w[1] = fs[1] BY <2>1, <2>3, <1>3, <1>11
      <3> QED BY <3>1, <1>7
    <2> QED BY <2>2, <2>3
  <1>14. FramesOK(w) BY <1>2, <1>11, <1>12, <1>13 DEF FramesOK
  <1> QED BY <1>4, <1>6, <1>14
-------------------------------------------------------------------------------
\* What the invariant says of one frame, of the innermost one and while Run waits.
LEMMA FrameFacts ==
    ASSUME Configured, SubInv, NEW f \in 1..Len(frames)
    PROVE  /\ frames[f] \in Frame /\ FrameOK(frames[f]) /\ (f = 1 => First(frames[f]))
           /\ (f < Len(frames) <=> frames[f].go = "call")
           /\ FramesOK(frames) /\ Len(frames) \in 1..MaxFrames /\ Len(frames) \in Nat
           /\ (frames[f].run # "spin" => result = None)
PROOF
  <1>1. frames \in Seq(Frame) /\ Len(frames) \in 1..MaxFrames /\ FramesOK(frames)
    BY DEF SubInv, FramesOK
  <1>2. Len(frames) \in Nat BY <1>1
  <1>3. frames[f].run # "spin" => result = None BY DEF SubInv
  <1>4. /\ FrameOK(frames[f]) /\ (f = 1 => First(frames[f]))
        /\ (f < Len(frames) <=> frames[f].go = "call")
    BY <1>1 DEF FramesOK
  <1> QED BY <1>1, <1>2, <1>3, <1>4

LEMMA TopFacts ==
    ASSUME Configured, SubInv
    PROVE  top \in 1..Len(frames) /\ top = Len(frames)
PROOF
  <1>1. Len(frames) \in 1..MaxFrames BY DEF SubInv, FramesOK
  <1> QED BY <1>1 DEF top

\* Every step that keeps the frames in order and does not end the outermost Run.
LEMMA FramesStep ==
    ASSUME Configured, SubInv, result = None, FramesOK(frames'), tick' \in 0..1,
           UNCHANGED <<rows, result>>
    PROVE  SubInv'
PROOF
  <1>1. frames' \in Seq(Frame) /\ Len(frames') \in 1..MaxFrames
        /\ \A f \in 1..Len(frames') : f < Len(frames') <=> frames'[f].go = "call"
    BY DEF FramesOK
  <1>2. SubTypeOK' BY <1>1 DEF SubInv, SubTypeOK
  <1>3. IntendedTermination' /\ EndlessReported'
    BY DEF SubInv, IntendedTermination, EndlessReported
  <1> QED BY <1>2, <1>3 DEF SubInv

\* A step that replaces one frame.
LEMMA SetStep ==
    ASSUME Configured, SubInv, result = None, NEW f \in 1..Len(frames), NEW x \in Frame,
           FrameOK(x), f = 1 => First(x), f < Len(frames) <=> x.go = "call",
           Set(f, x), UNCHANGED <<tick, rows, result>>
    PROVE  SubInv'
PROOF
  <1>1. FramesOK(frames) /\ tick \in 0..1 BY DEF SubInv, SubTypeOK
  <1>2. FramesOK([frames EXCEPT ![f] = x]) BY <1>1, SetFrame
  <1>3. FramesOK(frames') BY <1>2 DEF Set
  <1> QED BY <1>1, <1>3, FramesStep

\* preAct and the deferred function of the goroutine.
LEMMA TerminatesStep ==
    ASSUME Configured, SubInv, Terminates
    PROVE  SubInv'
PROOF
  <1> DEFINE x == [frames[top] EXCEPT !.go = "recover", !.v = "terminate"]
  <1>1. result = None /\ frames[top].go = "walk" /\ Set(top, x)
        /\ UNCHANGED <<tick, rows, result>>
    BY DEF Terminates, Walking
  <1>2. top \in 1..Len(frames) /\ top = Len(frames) BY TopFacts
  <1>3. /\ frames[top] \in Frame /\ FrameOK(frames[top]) /\ (top = 1 => First(frames[top]))
        /\ ~(top < Len(frames))
    BY <1>2, FrameFacts
  <1>4. x \in Frame /\ FrameOK(x) /\ x.go # "call" BY <1>1, <1>3 DEF Frame, FrameOK
  <1>5. top = 1 => First(x) BY <1>1, <1>3 DEF Frame, First
  <1> HIDE DEF x
  <1> QED BY <1>1, <1>2, <1>3, <1>4, <1>5, SetStep

\* checkOutOfGas keeps what is known of the outermost Run.
LEMMA FindsOutOfGasStep ==
    ASSUME Configured, SubInv, FindsOutOfGas
    PROVE  SubInv'
PROOF
  <1> DEFINE x == [frames[top] EXCEPT !.term = 2, !.oog = TRUE]
  <1>1. result = None /\ frames[top].go = "walk" /\ Set(top, x)
        /\ UNCHANGED <<tick, rows, result>>
    BY DEF FindsOutOfGas, Walking
  <1>2. top \in 1..Len(frames) /\ top = Len(frames) BY TopFacts
  <1>3. /\ frames[top] \in Frame /\ FrameOK(frames[top]) /\ (top = 1 => First(frames[top]))
        /\ ~(top < Len(frames))
    BY <1>2, FrameFacts
  <1>4. x \in Frame
    <2>1. [frames[top] EXCEPT !.term = 2] \in Frame BY <1>3 DEF Frame
    <2>2. x = [[frames[top] EXCEPT !.term = 2] EXCEPT !.oog = TRUE] OBVIOUS
    <2> QED BY <2>1, <2>2 DEF Frame
  <1>5. x.go = "walk" /\ FrameOK(x) BY <1>1, <1>3 DEF Frame, FrameOK
  <1>6. top = 1 => First(x) BY <1>1, <1>3 DEF Frame, First
  <1> HIDE DEF x
  <1> QED BY <1>1, <1>2, <1>3, <1>4, <1>5, <1>6, SetStep

LEMMA FailsStep ==
    ASSUME Configured, SubInv, Fails
    PROVE  SubInv'
PROOF
  <1> DEFINE x == [frames[top] EXCEPT !.go = "recover",
                       !.v = IF frames[top].term = 2 THEN "terminate" ELSE "panic"]
  <1>1. result = None /\ frames[top].go = "walk" /\ Set(top, x)
        /\ UNCHANGED <<tick, rows, result>>
    BY DEF Fails, Walking
  <1>2. top \in 1..Len(frames) /\ top = Len(frames) BY TopFacts
  <1>3. /\ frames[top] \in Frame /\ FrameOK(frames[top]) /\ (top = 1 => First(frames[top]))
        /\ ~(top < Len(frames))
    BY <1>2, FrameFacts
  <1>4. x \in Frame /\ FrameOK(x) /\ x.go # "call" BY <1>1, <1>3 DEF Frame, FrameOK
  <1>5. top = 1 => First(x) BY <1>1, <1>3 DEF Frame, First
  <1> HIDE DEF x
  <1> QED BY <1>1, <1>2, <1>3, <1>4, <1>5, SetStep

LEMMA ReturnsStep ==
    ASSUME Configured, SubInv, Returns
    PROVE  SubInv'
PROOF
  <1>1. result = None /\ frames[top].go = "walk" /\ UNCHANGED <<tick, rows, result>>
    BY DEF Returns, Walking
  <1>2. PICK e \in {"none", "reverted", "invalidjump"}, o \in {FALSE, EVMOutOfGas} :
            Set(top, [frames[top] EXCEPT !.go = "recover", !.err = e,
                          !.term = IF o THEN 2 ELSE @, !.oog = @ \/ o])
    BY DEF Returns
  <1> DEFINE t == IF o THEN 2 ELSE frames[top].term
             j == frames[top].oog \/ o
             x == [frames[top] EXCEPT !.go = "recover", !.err = e, !.term = t, !.oog = j]
  <1>3. o \in BOOLEAN /\ Set(top, x) BY <1>2 DEF Configured
  <1>4. top \in 1..Len(frames) /\ top = Len(frames) BY TopFacts
  <1>5. /\ frames[top] \in Frame /\ FrameOK(frames[top]) /\ (top = 1 => First(frames[top]))
        /\ ~(top < Len(frames))
    BY <1>4, FrameFacts
  <1>6. /\ t \in 0..2 /\ j \in BOOLEAN
        /\ t = (IF o THEN 2 ELSE frames[top].term) /\ (j <=> frames[top].oog \/ o)
    BY <1>3, <1>5 DEF Frame
  <1> HIDE DEF t, j
  <1>7. x \in Frame /\ FrameOK(x) /\ x.go # "call" BY <1>1, <1>5, <1>6 DEF Frame, FrameOK
  <1>8. top = 1 => First(x) BY <1>1, <1>3, <1>5, <1>6 DEF Frame, First
  <1> HIDE DEF x
  <1> QED BY <1>1, <1>3, <1>4, <1>5, <1>7, <1>8, SetStep

\* An intended termination is the result, and no panic.
LEMMA RecoverStep ==
    ASSUME Configured, SubInv, Recover
    PROVE  SubInv'
PROOF
  <1> DEFINE fr == frames[top]
             x == Recovered(fr)
  <1>1. result = None /\ fr.go = "recover" /\ Set(top, x) /\ UNCHANGED <<tick, rows, result>>
    BY DEF Recover
  <1>2. top \in 1..Len(frames) /\ top = Len(frames) BY TopFacts
  <1>3. fr \in Frame /\ FrameOK(fr) /\ (top = 1 => First(fr)) /\ ~(top < Len(frames))
    BY <1>2, FrameFacts
  <1>4. ~fr.msg BY <1>1, <1>3 DEF FrameOK
  <1> HIDE DEF fr
  <1>5. CASE fr.term = 2
    <2>1. x = [fr EXCEPT !.go = "sent", !.err = "recorded"] BY <1>5 DEF Recovered
    <2>2. x \in Frame /\ FrameOK(x) /\ x.go # "call" BY <1>1, <1>3, <2>1 DEF Frame, FrameOK
    <2>3. top = 1 => First(x) BY <1>1, <1>3, <1>4, <2>1 DEF Frame, First
    <2> HIDE DEF x
    <2> QED BY <1>1, <1>2, <1>3, <2>2, <2>3, SetStep
  <1>6. CASE fr.term # 2
    <2> DEFINE e == IF fr.v = "nil" THEN fr.err ELSE "reverted"
               j == fr.v = "panic"
    <2>1. x = [fr EXCEPT !.go = "sent", !.err = e, !.msg = j] BY <1>6 DEF Recovered
    <2>2. e \in {"none", "reverted", "invalidjump", "recorded"} /\ j \in BOOLEAN
      BY <1>3 DEF Frame
    <2> HIDE DEF e, j
    <2>3. x \in Frame /\ FrameOK(x) /\ x.go # "call" BY <1>1, <1>3, <2>1, <2>2 DEF Frame, FrameOK
    <2>4. top = 1 => First(x) BY <1>1, <1>3, <1>6, <2>1, <2>2 DEF Frame, First
    <2> HIDE DEF x
    <2> QED BY <1>1, <1>2, <1>3, <2>3, <2>4, SetStep
  <1> QED BY <1>5, <1>6

LEMMA CallsStep ==
    ASSUME Configured, SubInv, Calls
    PROVE  SubInv'
PROOF
  <1> DEFINE fr == frames[top]
             y == [fr EXCEPT !.go = "call", !.late = NodeStops]
  <1>1. result = None /\ fr.go = "walk" /\ top < MaxFrames /\ UNCHANGED <<tick, rows, result>>
    BY DEF Calls, Walking
  <1>2. top \in 1..Len(frames) /\ top = Len(frames) BY TopFacts
  <1>3. fr \in Frame /\ FrameOK(fr) /\ (top = 1 => First(fr)) /\ FramesOK(frames)
    BY <1>2, FrameFacts
  <1>4. frames' = Append([frames EXCEPT ![Len(frames)] = y], New)
    BY <1>2 DEF Calls
  <1>5. NodeStops \in BOOLEAN BY DEF NodeStops
  <1> HIDE DEF fr
  <1>6. y \in Frame /\ FrameOK(y) /\ y.go = "call" BY <1>1, <1>3, <1>5 DEF Frame, FrameOK
  <1>7. top = 1 => First(y) BY <1>1, <1>3, <1>5 DEF Frame, First
  <1> HIDE DEF y
  <1>8. FramesOK(frames') BY <1>1, <1>2, <1>3, <1>4, <1>6, <1>7, PushFrame
  <1>9. tick \in 0..1 BY DEF SubInv, SubTypeOK
  <1> QED BY <1>1, <1>8, <1>9, FramesStep
-------------------------------------------------------------------------------
\* select, the timeout, and the wait for the goroutine.
LEMMA ReceiveStep ==
    ASSUME Configured, SubInv, NEW f \in 1..Len(frames), Receive(f)
    PROVE  SubInv'
PROOF
  <1> DEFINE fr == frames[f]
             x == [fr EXCEPT !.run = "defer"]
  <1>1. fr.run = "select" /\ fr.go = "sent" /\ Set(f, x) /\ UNCHANGED <<tick, rows, result>>
    BY DEF Receive
  <1>2. /\ fr \in Frame /\ FrameOK(fr) /\ (f = 1 => First(fr)) /\ result = None
        /\ (f < Len(frames) <=> fr.go = "call")
    BY <1>1, FrameFacts
  <1> HIDE DEF fr
  <1>3. x \in Frame /\ FrameOK(x) /\ x.go = fr.go BY <1>1, <1>2 DEF Frame, FrameOK
  <1>4. f = 1 => First(x) BY <1>1, <1>2 DEF Frame, First
  <1> HIDE DEF x
  <1> QED BY <1>1, <1>2, <1>3, <1>4, SetStep

LEMMA TimeoutStep ==
    ASSUME Configured, SubInv, NEW f \in 1..Len(frames), TimeoutFires(f)
    PROVE  SubInv'
PROOF
  <1> DEFINE fr == frames[f]
             k == EndlessMsg(f)
             n == top = 1
             x == [fr EXCEPT !.run = "defer", !.timed = TRUE, !.inner = n, !.endless = k]
  <1>1. fr.run = "select" /\ Set(f, x) /\ UNCHANGED <<tick, rows, result>>
    BY DEF TimeoutFires
  <1>2. /\ fr \in Frame /\ FrameOK(fr) /\ (f = 1 => First(fr)) /\ result = None
        /\ (f < Len(frames) <=> fr.go = "call") /\ Len(frames) \in 1..MaxFrames
    BY <1>1, FrameFacts
  <1>3. k \in BOOLEAN /\ n \in BOOLEAN BY DEF EndlessMsg
  <1>4. ASSUME n PROVE k <=> fr.term # 2
    <2>1. f = top BY <1>4, TopFacts
    <2> QED BY <2>1 DEF EndlessMsg
  <1> HIDE DEF fr, k, n
  <1>5. x \in Frame /\ FrameOK(x) /\ x.go = fr.go BY <1>1, <1>2, <1>3 DEF Frame, FrameOK
  <1>6. f = 1 => First(x)
    <2>1. x.oog = fr.oog /\ x.timed /\ x.inner = n /\ x.endless = k BY <1>2, <1>3 DEF Frame
    <2>2. ~fr.oog => fr.term # 2 BY <1>2 DEF FrameOK
    <2>3. x.timed /\ x.inner /\ ~x.oog => x.endless BY <1>4, <2>1, <2>2
    <2> QED BY <2>1, <2>3 DEF First
  <1> HIDE DEF x
  <1> QED BY <1>1, <1>2, <1>5, <1>6, SetStep

LEMMA WaitedStep ==
    ASSUME Configured, SubInv, NEW f \in 1..Len(frames), Waited(f)
    PROVE  SubInv'
PROOF
  <1> DEFINE fr == frames[f]
             x == [fr EXCEPT !.run = "spin"]
  <1>1. fr.run = "wait" /\ fr.go = "sent" /\ Set(f, x) /\ UNCHANGED <<tick, rows, result>>
    BY DEF Waited, WaitDone
  <1>2. /\ fr \in Frame /\ FrameOK(fr) /\ (f = 1 => First(fr)) /\ result = None
        /\ (f < Len(frames) <=> fr.go = "call")
    BY <1>1, FrameFacts
  <1> HIDE DEF fr
  <1>3. x \in Frame /\ FrameOK(x) /\ x.go = fr.go BY <1>1, <1>2 DEF Frame, FrameOK
  <1>4. f = 1 => First(x) BY <1>1, <1>2 DEF Frame, First
  <1> HIDE DEF x
  <1> QED BY <1>1, <1>2, <1>3, <1>4, SetStep

\* The flag of the innermost frame is overwritten.  When that is the outermost one,
\* the Run that stores it has had the result of the goroutine or its timeout.
LEMMA StoreTerminateStep ==
    ASSUME Configured, SubInv, NEW f \in 1..Len(frames), StoreTerminate(f)
    PROVE  SubInv'
PROOF
  <1> DEFINE fr == frames[f]
             x == [fr EXCEPT !.run = "wait"]
             fs == [frames EXCEPT ![f] = x]
             y == [fs[top] EXCEPT !.term = 1]
  <1>1. fr.run = "defer" /\ UNCHANGED <<tick, rows, result>>
        /\ frames' = [frames EXCEPT ![f].run = "wait", ![top].term = 1]
    BY DEF StoreTerminate, StoresTo
  <1>2. /\ fr \in Frame /\ FrameOK(fr) /\ (f = 1 => First(fr)) /\ result = None
        /\ (f < Len(frames) <=> fr.go = "call") /\ FramesOK(frames)
    BY <1>1, FrameFacts
  <1>3. top \in 1..Len(frames) /\ top = Len(frames) BY TopFacts
  <1>4. frames' = [fs EXCEPT ![top] = y] BY <1>1
  <1> HIDE DEF fr
  <1>5. x \in Frame /\ FrameOK(x) /\ x.go = fr.go BY <1>1, <1>2 DEF Frame, FrameOK
  <1>6. f = 1 => First(x) BY <1>1, <1>2 DEF Frame, First
  <1>7. x.run = "wait" BY <1>2 DEF Frame
  <1> HIDE DEF x
  <1>8. /\ FramesOK(fs) /\ Len(fs) = Len(frames)
        /\ \A j \in 1..Len(frames) : fs[j] = IF j = f THEN x ELSE frames[j]
    BY <1>2, <1>5, <1>6, SetFrame
  <1>9. top = 1 => fs[top].run = "wait" BY <1>3, <1>7, <1>8
  <1> HIDE DEF fs
  <1>10. fs[top] \in Frame /\ FrameOK(fs[top]) /\ (top = 1 => First(fs[top])) /\ fs[top].go # "call"
    BY <1>3, <1>8 DEF FramesOK
  <1>11. y \in Frame /\ FrameOK(y) /\ y.go # "call" BY <1>10 DEF Frame, FrameOK
  <1>12. top = 1 => First(y) BY <1>9, <1>10 DEF Frame, First
  <1> HIDE DEF y
  <1>13. FramesOK([fs EXCEPT ![top] = y]) BY <1>3, <1>8, <1>11, <1>12, SetFrame
  <1>14. tick \in 0..1 BY DEF SubInv, SubTypeOK
  <1> QED BY <1>1, <1>2, <1>4, <1>13, <1>14, FramesStep

\* The frame is popped, or the outermost Run returns what its frame holds.
LEMMA PopStep ==
    ASSUME Configured, SubInv, NEW f \in 1..Len(frames), Pop(f)
    PROVE  SubInv'
PROOF
  <1>1. f = top /\ result = None /\ frames[f].run = "spin" /\ UNCHANGED tick BY DEF Pop
  <1>2. top = Len(frames) /\ Len(frames) \in 1..MaxFrames /\ Len(frames) \in Nat
    BY TopFacts, FrameFacts
  <1>3. rows \in 0..MaxRows /\ tick \in 0..1 /\ (MaxFrames = 1 => rows = 0)
    BY <1>1 DEF SubInv, SubTypeOK
  <1>4. rows' = (IF RowWritten /\ rows < MaxRows THEN rows + 1 ELSE rows) BY DEF Pop
  <1>5. rows' \in 0..MaxRows BY <1>3, <1>4 DEF MaxRows
  <1>6. CASE Len(frames) > 1
    <2>1. frames' = [Front(frames) EXCEPT ![Len(frames) - 1].go = "walk"] /\ result' = result
      BY <1>2, <1>6 DEF Pop
    <2>2. FramesOK(frames) BY DEF SubInv
    <2>3. FramesOK(frames') BY <1>6, <2>1, <2>2, PopSubFrame
    <2>4. frames' \in Seq(Frame) /\ Len(frames') \in 1..MaxFrames
          /\ \A j \in 1..Len(frames') : j < Len(frames') <=> frames'[j].go = "call"
      BY <2>3 DEF FramesOK
    <2>5. MaxFrames # 1 BY <1>2, <1>6
    <2>6. SubTypeOK' BY <1>1, <1>3, <1>5, <2>4, <2>5 DEF SubTypeOK
    <2>7. IntendedTermination' /\ EndlessReported'
      BY <2>1 DEF SubInv, IntendedTermination, EndlessReported
    <2> QED BY <1>1, <2>1, <2>3, <2>5, <2>6, <2>7 DEF SubInv
  <1>7. CASE Len(frames) = 1
    <2> DEFINE fr == frames[1]
    <2>1. frames' = frames /\ result' = ResultOf(fr) BY <1>1, <1>2, <1>7 DEF Pop
    <2>2. fr \in Frame /\ FrameOK(fr) /\ First(fr) /\ FramesOK(frames) BY <1>7, FrameFacts
    <2>3. fr.run = "spin" BY <1>1, <1>2, <1>7
    <2> HIDE DEF fr
    <2>4. fr.go = "sent" BY <2>2, <2>3 DEF FrameOK
    <2>5. IntendedTermination'
      <3>1. fr.oog /\ ~fr.timed => fr.err = "recorded" /\ ~fr.msg BY <2>2, <2>4 DEF First
      <3> QED BY <2>1, <3>1 DEF IntendedTermination, ResultOf
    <2>6. EndlessReported'
      BY <2>1, <2>2 DEF First, EndlessReported, ResultOf
    <2>7. result' # None
      <3>1. fr.err # "running" BY <2>2 DEF Frame
      <3>2. result'.err = fr.err BY <2>1 DEF ResultOf
      <3> QED BY <3>1, <3>2 DEF None
    <2>8. rows' > 0 /\ (MaxFrames = 1 => rows' = 1)
      BY <1>2, <1>3, <1>4, <1>7 DEF RowWritten, MaxRows
    <2>9. SubTypeOK' BY <1>1, <1>3, <1>5, <2>1, <2>7, <2>8 DEF SubInv, SubTypeOK
    <2> QED BY <1>7, <2>1, <2>2, <2>3, <2>5, <2>6, <2>8, <2>9 DEF SubInv, fr
  <1> QED BY <1>2, <1>6, <1>7
-------------------------------------------------------------------------------
LEMMA InitSub ==
    ASSUME Configured, SubInit
    PROVE  SubInv
PROOF
  <1>1. New \in Frame /\ FrameOK(New) /\ First(New) /\ New.go = "walk"
    BY DEF New, Frame, FrameOK, First
  <1>2. frames = <<New>> /\ tick = 0 /\ rows = 0 /\ result = None BY DEF SubInit
  <1>3. frames \in Seq(Frame) /\ Len(frames) = 1 /\ frames[1] = New BY <1>1, <1>2
  <1>4. FramesOK(frames) BY <1>1, <1>3 DEF FramesOK, Configured
  <1>5. SubTypeOK BY <1>2, <1>3, <1>4 DEF SubTypeOK, FramesOK, MaxRows
  <1>6. IntendedTermination /\ EndlessReported
    BY <1>2 DEF IntendedTermination, EndlessReported, None
  <1> QED BY <1>2, <1>4, <1>5, <1>6 DEF SubInv

LEMMA NextSub ==
    ASSUME Configured, SubInv, [SubNext]_subVars
    PROVE  SubInv'
PROOF
  <1>1. CASE GoStep
    <2>1. CASE Walk
      <3>1. result = None /\ tick' = 1 - tick /\ UNCHANGED <<frames, rows, result>>
        BY <2>1 DEF Walk, Walking
      <3>2. FramesOK(frames) /\ tick \in 0..1 BY DEF SubInv, SubTypeOK
      <3>3. FramesOK(frames') /\ tick' \in 0..1 BY <3>1, <3>2
      <3> QED BY <3>1, <3>3, FramesStep
    <2> QED BY <1>1, <2>1, TerminatesStep, FindsOutOfGasStep, FailsStep, ReturnsStep,
               CallsStep, RecoverStep DEF GoStep
  <1>2. CASE \E f \in 1..Len(frames) : RunStep(f) \/ TimeoutFires(f)
    BY <1>2, ReceiveStep, StoreTerminateStep, WaitedStep, PopStep, TimeoutStep DEF RunStep
  <1>3. CASE UNCHANGED subVars
    <2>1. frames' = frames /\ tick' = tick /\ rows' = rows /\ result' = result
      BY <1>3 DEF subVars
    <2> QED BY <2>1 DEF SubInv, SubTypeOK, IntendedTermination, EndlessReported
  <1> QED BY <1>1, <1>2, <1>3 DEF SubNext

\* The invariant of Run and its goroutine holds for every depth of nesting: a Run
\* is past its wait only when its goroutine has ended, and the outermost frame keeps
\* the recorded out of gas until it is the result.
THEOREM SubInvariant ==
    ASSUME Configured
    PROVE  SubSpec => []SubInv
PROOF
  <1>1. SubInit => SubInv BY InitSub
  <1>2. SubInv /\ [SubNext]_subVars => SubInv' BY NextSub
  <1> QED BY <1>1, <1>2, PTL DEF SubSpec

LEMMA SubResult ==
    ASSUME Configured, SubInv
    PROVE  SubstrateResult
PROOF
  <1>1. NoFrameOverlap
    <2> SUFFICES ASSUME NEW f \in 1..Len(frames), frames[f].run = "spin"
                 PROVE  f = top /\ frames[f].go = "sent"
      BY DEF NoFrameOverlap
    <2>1. frames[f].go = "sent" BY FrameFacts DEF FrameOK
    <2>2. ~(f < Len(frames)) /\ Len(frames) \in Nat BY <2>1, FrameFacts
    <2> QED BY <2>1, <2>2 DEF top
  <1> QED BY <1>1 DEF SubInv, SubstrateResult

\* Run's busy loop on in.framePtr begins only when the frame is the innermost one and
\* its goroutine has ended; a recorded out of gas is what Run returns unless a timeout
\* came first; a timeout of the innermost Run is in the row, which is written
\* before Run returns.
THEOREM ResultReported ==
    ASSUME Configured
    PROVE  SubSpec => []SubstrateResult
PROOF
  <1>1. SubInv => SubstrateResult BY SubResult
  <1> QED BY <1>1, SubInvariant, PTL
===============================================================================
