----------------------------- MODULE SubstrateRun -----------------------------
(***************************************************************************)
(* SubstrateInterpreter.Run (substrate_interpreter.go): a goroutine walks  *)
(* the syntax tree while Run waits for its result or for five seconds.     *)
(* They share in.framePtr, the innermost frame of callContexts, and its    *)
(* terminate flag, which every node of the tree checks (preAct).  With     *)
(* isolation callees are EVM frames (MaxFrames = 1); without it a callee   *)
(* is another Run of the same interpreter, on the goroutine of the caller. *)
(*                                                                         *)
(* What the program does is chosen step by step; it may loop for ever.     *)
(***************************************************************************)
EXTENDS Integers, Sequences, SequencesExt

CONSTANTS
    MaxFrames,      \* bound: nested Runs
    EVMOutOfGas     \* Delta.CheckOutOfGas may report that the EVM stopped here

VARIABLES
    frames,     \* callContexts
    tick,       \* changes with every turn of a loop of the program
    rows,       \* Delta.SubstrateResult was written and the gas settled so often (at most MaxRows)
    result      \* what the outermost Run returns

subVars == <<frames, tick, rows, result>>

\* term: terminate;  go: the goroutine;  run: Run;  v: what recover() gives;
\* err: the variable err;  msg: callPanicMsg;  endless: what the timeout panics
\* with is not empty;  late: the node entered before the flag was set has called;
\* history: timed: the timeout fired, inner: while only one frame existed,
\* oog: the recorded out of gas was found
New == [term |-> 0, go |-> "walk", run |-> "select", v |-> "nil", err |-> "none",
        msg |-> FALSE, late |-> FALSE, endless |-> FALSE, timed |-> FALSE, inner |-> FALSE,
        oog |-> FALSE]

None == [err |-> "running", msg |-> FALSE, endless |-> FALSE, timed |-> FALSE, inner |-> FALSE,
         oog |-> FALSE]

ResultOf(fr) == [err |-> fr.err, msg |-> fr.msg, endless |-> fr.endless, timed |-> fr.timed,
                 inner |-> fr.inner, oog |-> fr.oog]

MaxRows == 2        \* bound

top == Len(frames)
Set(f, fr) == frames' = [frames EXCEPT ![f] = fr]
-------------------------------------------------------------------------------
SubInit == frames = <<New>> /\ tick = 0 /\ rows = 0 /\ result = None

\* Nothing is running behind a Run that has returned.
Walking == result = None /\ frames[top].go = "walk"

\* preAct, and the heads of the loops: Panic("Terminate").
NodeStops == frames[top].term # 0

Terminates ==
    /\ Walking /\ NodeStops
    /\ Set(top, [frames[top] EXCEPT !.go = "recover", !.v = "terminate"])
    /\ UNCHANGED <<tick, rows, result>>

\* A node was executed and the program goes on.
Walk ==
    /\ Walking /\ ~NodeStops
    /\ tick' = 1 - tick /\ UNCHANGED <<frames, rows, result>>

\* checkOutOfGas before and after stores, calls and hashes.  It and the three
\* steps below may follow a flag that was set after the last node was entered.
FindsOutOfGas ==
    /\ Walking /\ EVMOutOfGas
    /\ Set(top, [frames[top] EXCEPT !.term = 2, !.oog = TRUE])
    /\ UNCHANGED <<tick, rows, result>>

\* Panic with a message: not implemented, a deviation, a parse error, ...
Fails ==
    /\ Walking
    /\ Set(top, [frames[top] EXCEPT !.go = "recover",
                                    !.v = IF frames[top].term = 2 THEN "terminate" ELSE "panic"])
    /\ UNCHANGED <<tick, rows, result>>

\* The selector returns; checkOutOfGas is called once more.
Returns ==
    /\ Walking
    /\ \E e \in {"none", "reverted", "invalidjump"}, o \in {FALSE, EVMOutOfGas} :
        Set(top, [frames[top] EXCEPT !.go = "recover", !.err = e,
                                     !.term = IF o THEN 2 ELSE @, !.oog = @ \/ o])
    /\ UNCHANGED <<tick, rows, result>>

\* An external call: Run of the callee, called by this goroutine.
Calls ==
    /\ Walking /\ top < MaxFrames /\ ~frames[top].late
    /\ frames' = Append([frames EXCEPT ![top].go = "call", ![top].late = NodeStops], New)
    /\ UNCHANGED <<tick, rows, result>>

Recovered_Kept(fr) ==
    [fr EXCEPT !.go = "sent", !.err = IF fr.v = "nil" THEN @ ELSE "reverted", !.msg = fr.v = "panic"]

\* The deferred function: an intended termination is no panic.
Recovered(fr) ==
    IF fr.term = 2 THEN [fr EXCEPT !.go = "sent", !.err = "recorded"]
    ELSE [fr EXCEPT !.go = "sent", !.err = IF fr.v = "nil" THEN @ ELSE "reverted",
                    !.msg = fr.v = "panic"]

Recover ==
    /\ result = None /\ frames[top].go = "recover"
    /\ Set(top, Recovered(frames[top]))
    /\ UNCHANGED <<tick, rows, result>>
-------------------------------------------------------------------------------
\* select
Receive(f) ==
    /\ frames[f].run = "select" /\ frames[f].go = "sent"
    /\ Set(f, [frames[f] EXCEPT !.run = "defer"])
    /\ UNCHANGED <<tick, rows, result>>

EndlessMsg_Running(f) == frames[f].go # "sent"

\* Panic: no message once the innermost frame found the recorded out of gas.
EndlessMsg(f) == frames[top].term # 2

\* time.After: Panic("Endless loop"), recovered by the deferred function.
TimeoutFires(f) ==
    /\ frames[f].run = "select"
    /\ Set(f, [frames[f] EXCEPT !.run = "defer", !.timed = TRUE, !.inner = top = 1,
                                  !.endless = EndlessMsg(f)])
    /\ UNCHANGED <<tick, rows, result>>

\* atomic.StoreInt32(&in.framePtr.terminate, 1): the innermost frame's flag
StoresTo(f) == top

StoreTerminate(f) ==
    /\ frames[f].run = "defer"
    /\ frames' = [frames EXCEPT ![f].run = "wait", ![StoresTo(f)].term = 1]
    /\ UNCHANGED <<tick, rows, result>>

WaitDone_Not(f) == TRUE

\* wg.Wait()
WaitDone(f) == frames[f].go = "sent"

Waited(f) ==
    /\ frames[f].run = "wait" /\ WaitDone(f)
    /\ Set(f, [frames[f] EXCEPT !.run = "spin"])
    /\ UNCHANGED <<tick, rows, result>>

RowWritten_Nested == top > 1

\* len(in.callContexts) == 1, after the pop
RowWritten == top <= 2

\* for in.framePtr != callContext, then the frame is popped unless it is the
\* last; the row and the gas are settled when one frame is left.
Pop(f) ==
    /\ frames[f].run = "spin" /\ f = top /\ result = None
    /\ rows' = IF RowWritten /\ rows < MaxRows THEN rows + 1 ELSE rows
    /\ IF top > 1
       THEN frames' = [Front(frames) EXCEPT ![top - 1].go = "walk"] /\ result' = result
       ELSE frames' = frames /\ result' = ResultOf(frames[f])
    /\ UNCHANGED tick

GoStep ==
    Terminates \/ Walk \/ FindsOutOfGas \/ Fails \/ Returns \/ Calls \/ Recover
RunStep(f) == Receive(f) \/ StoreTerminate(f) \/ Waited(f) \/ Pop(f)

SubNext == GoStep \/ \E f \in 1..Len(frames) : RunStep(f) \/ TimeoutFires(f)

SubSpec == SubInit /\ [][SubNext]_subVars

\* Both goroutines are scheduled, and the timer expires.
SubFairSpec ==
    /\ SubSpec /\ WF_subVars(GoStep)
    /\ \A f \in 1..MaxFrames :
        /\ WF_subVars(f \in 1..Len(frames) /\ RunStep(f))
        /\ WF_subVars(f \in 1..Len(frames) /\ TimeoutFires(f))
-------------------------------------------------------------------------------
Frame == [term : 0..2, go : {"walk", "call", "recover", "sent"},
          run : {"select", "defer", "wait", "spin"}, v : {"nil", "terminate", "panic"},
          err : {"none", "reverted", "invalidjump", "recorded"}, msg : BOOLEAN,
          late : BOOLEAN, endless : BOOLEAN, timed : BOOLEAN, inner : BOOLEAN, oog : BOOLEAN]

\* Only the innermost goroutine walks, the others wait for their callees; a row
\* is written once when calls are isolated.
SubTypeOK ==
    /\ frames \in Seq(Frame) /\ Len(frames) \in 1..MaxFrames
    /\ tick \in 0..1 /\ rows \in 0..MaxRows
    /\ \A f \in 1..Len(frames) : f < Len(frames) <=> frames[f].go = "call"
    /\ MaxFrames = 1 => rows = (IF result = None THEN 0 ELSE 1)

\* in.framePtr is the frame of this Run when the busy loop that compares them
\* begins (the loop has no synchronisation and might never see a change), and
\* the goroutine no longer executes.
NoFrameOverlap ==
    \A f \in 1..Len(frames) : frames[f].run = "spin" => f = top /\ frames[f].go = "sent"

\* A call that the recorded EVM ran out of gas in ends with the recorded error,
\* whatever the program does after it, unless the timeout came first.
IntendedTermination ==
    result.oog /\ ~result.timed => result.err = "recorded" /\ ~result.msg

\* A timeout is in the row, unless the program was to stop anyway.  With nested
\* Runs the message depends on the flag of the innermost frame, so a timeout of a
\* caller may be without one.
EndlessReported == result.timed /\ result.inner /\ ~result.oog => result.endless

\* What Run reports: the row is written by when Run returns, and says what happened.
SubstrateResult ==
    /\ NoFrameOverlap /\ IntendedTermination /\ EndlessReported
    /\ result # None => rows > 0

\* "Wait until go routine for ActSubstrate ends": Run returns, also when the
\* program loops for ever.
SubReturns == <>(result # None)
-------------------------------------------------------------------------------
Configured == MaxFrames \in Nat \ {0} /\ EVMOutOfGas \in BOOLEAN

\* The invariant behind SubstrateResult.  Of every frame: Run is past its wait
\* only when the goroutine has sent, which alone sets the message, and the flag is
\* 2 only after a recorded out of gas.
FrameOK(fr) ==
    /\ fr.run = "spin" => fr.go = "sent"
    /\ fr.msg => fr.go = "sent"
    /\ fr.term = 2 => fr.oog

\* Of the outermost frame, which no other Run's timeout stops: without a timeout
\* Run goes on only after the goroutine, and the recorded out of gas is kept from
\* when it is found until the deferred function has made it the result.
First(fr) ==
    /\ fr.run = "select" \/ fr.timed \/ fr.go = "sent"
    /\ fr.oog /\ ~fr.timed =>
        IF fr.go = "sent" THEN fr.err = "recorded" /\ ~fr.msg ELSE fr.term = 2
    /\ fr.timed /\ fr.inner /\ ~fr.oog => fr.endless

FramesOK(fs) ==
    /\ fs \in Seq(Frame) /\ Len(fs) \in 1..MaxFrames
    /\ \A f \in 1..Len(fs) : FrameOK(fs[f]) /\ (f < Len(fs) <=> fs[f].go = "call")
    /\ First(fs[1])

SubInv ==
    /\ SubTypeOK /\ FramesOK(frames) /\ IntendedTermination /\ EndlessReported
    /\ result # None => frames[1].run = "spin" /\ Len(frames) = 1 /\ rows > 0

===============================================================================
