------------------------------- MODULE IsoExec -------------------------------
(***************************************************************************)
(* The calls of one transaction and who executes them (core/vm/evm.go).    *)
(* Every Call, CallCode, DelegateCall, StaticCall, Create and Create2      *)
(* appends an EVMCallTrace, makes it the StateDB's current one and         *)
(* restores the previous one when it returns.  With --contract-iso, run    *)
(* hands the call of number IsolationIndex to a fresh TAC interpreter and  *)
(* every other call to the EVM interpreter the EVM was created with; else  *)
(* all calls go to the interpreter of the configured mode.  The read-only  *)
(* flag of a static call is a field of the interpreter that executes it.   *)
(*                                                                         *)
(* The world state is the number of changes that survive: a failed call    *)
(* returns to its snapshot.  What a contract does is chosen step by step.  *)
(***************************************************************************)
EXTENDS Integers, Sequences, FiniteSets

CONSTANTS
    ContractIso,        \* research.GetContractIso()
    InterpreterMode,    \* evm.Config.InterpreterMode, "EVM" or "TAC"; "EVM" with isolation
    IsolationMode,      \* evm.Config.IsolationMode
    IsolationIndex,     \* evm.Config.IsolationIndex, 0 without isolation
    CallCreateDepth,    \* params.CallCreateDepth
    Fns,                \* the kinds of calls the contracts make
    MaxCalls,           \* bound: calls of the transaction
    MaxWorld            \* bound: changes of the world that survive

Modes == {"EVM", "TAC"}
Calls == {"Call", "CallCode", "DelegateCall", "StaticCall"}
Creates == {"Create", "Create2"}
Errs == {"none", "revert", "error", "global"}

\* How the commands configure an EVM: interpreter and isolation mode are known,
\* with isolation the EVM's own interpreter is the EVM's, without it no call
\* number is given.
Configured ==
    /\ ContractIso \in BOOLEAN /\ InterpreterMode \in Modes /\ IsolationMode \in Modes
    /\ IF ContractIso THEN InterpreterMode = "EVM" ELSE IsolationIndex = 0
    /\ IsolationIndex \in Nat /\ CallCreateDepth \in Nat
    /\ Fns \subseteq Calls \cup Creates
    /\ MaxCalls \in Nat /\ MaxWorld \in Nat

VARIABLES
    world,      \* changes of the world state that are in force
    traces,     \* StateDB.ResearchEVMTrace.CallTraces, call id k at k+1
    ct,         \* StateDB.ResearchEVMCallTrace: a position in traces, 0 is nil
    frames,     \* the calls being executed, the innermost last
    ro,         \* readOnly of the EVM and of the TAC interpreter
    interp,     \* the kind of evm.interpreter
    result,     \* Delta.SubstrateResult: the call whose row it is, 0 is ""
    subErr,     \* Delta.SubstrateErr is set
    ran         \* history: the calls the TAC interpreter executed or could not parse

vars == <<world, traces, ct, frames, ro, interp, result, subErr, ran>>
-------------------------------------------------------------------------------
Top == frames[Len(frames)]
NextId == Len(traces) + 1

\* research.NewEVMCallTrace, with the caller as a history field.
NewTrace(fn) ==
    [fn |-> fn, depth |-> 0, done |-> FALSE, ops |-> {},
     parent |-> IF frames = <<>> THEN 0 ELSE Top.id]

\* The deferred function that completes a trace; evm.depth is d then.
FillTrace(t, d) == [t EXCEPT !.depth = d + 1, !.done = TRUE]

ModeOf_FromIndex(id) ==
    IF ~ContractIso THEN InterpreterMode
    ELSE IF IsolationIndex <= id - 1 THEN IsolationMode ELSE "EVM"

\* The interpreter mode that run selects for the call just traced.
ModeOf(id) ==
    IF ~ContractIso THEN InterpreterMode
    ELSE IF IsolationIndex = id - 1 THEN IsolationMode ELSE "EVM"

\* With isolation a TAC interpreter is made for the call: nothing is read-only.
ReadOnlyOf(m) == IF ContractIso /\ m = "TAC" THEN FALSE ELSE ro[m]

SetsReadOnly_Always(fn, m) == fn = "StaticCall"

\* "Make sure the readOnly is only set if we aren't in readOnly yet."
SetsReadOnly(fn, m) == fn = "StaticCall" /\ ~ReadOnlyOf(m)

\* What the executing contract may ask for: an EVM frame refuses to write in
\* read-only mode, a TAC frame refuses a call with a value only.
MayCall(fn, value) ==
    IF frames = <<>> THEN fn \in {"Call", "Create"}
    ELSE /\ Top.fail = "none"
         /\ ro[Top.interp] => ~(fn = "Call" /\ value)
         /\ ro[Top.interp] /\ Top.interp = "EVM" => fn \notin Creates

\* What the caller f does when a call it made is back: opCall, opCallCode,
\* opDelegateCall and opStaticCall return Delta.SubstrateErr, their TAC
\* counterparts a global error of the TAC interpreter; creations go on.
CallerFails(f, fn, e, in, se) ==
    IF fn \in Creates THEN f.fail
    ELSE IF f.interp = "EVM" THEN IF se THEN "global" ELSE f.fail
    ELSE IF in = "TAC" /\ e = "global" THEN "global" ELSE f.fail

Back(fs, fn, e, in, se) ==
    IF fs = <<>> THEN fs
    ELSE [fs EXCEPT ![Len(fs)].fail = CallerFails(fs[Len(fs)], fn, e, in, se)]
-------------------------------------------------------------------------------
Init ==
    /\ world = 0 /\ traces = <<>> /\ ct = 0 /\ frames = <<>>
    /\ ro = [m \in Modes |-> FALSE]
    /\ interp = InterpreterMode
    /\ result = 0 /\ subErr = FALSE /\ ran = {}

\* The call has its trace and comes back before run: too deep, not enough
\* balance, an address collision, a precompile, an account without code.
Immediate(fn, value, e, cost) ==
    /\ NextId <= MaxCalls /\ MayCall(fn, value)
    /\ frames = <<>> => traces = <<>>
    /\ Len(frames) > CallCreateDepth => e = "error" /\ cost = 0
    /\ traces' = Append(traces, FillTrace(NewTrace(fn), Len(frames)))
    /\ world' = world + cost /\ world' <= MaxWorld
    /\ frames' = Back(frames, fn, e, interp, subErr)
    /\ UNCHANGED <<ct, ro, interp, result, subErr, ran>>

\* Without effect, with a value transferred by a Call, or with the nonce that
\* create has increased before it found the address taken.
Refused ==
    \E fn \in Fns, value \in BOOLEAN, e \in {"none", "error"} :
        \/ Immediate(fn, value, e, 0)
        \/ fn = "Call" /\ value /\ e = "none" /\ Immediate(fn, value, e, 1)
        \/ fn \in Creates /\ e = "error" /\ Immediate(fn, value, e, 1)

\* run selects the interpreter, Run counts the depth and sets readOnly.
Enter(fn, value) ==
    LET m == ModeOf(NextId)
        s == IF fn \in Creates THEN world + 1 ELSE world
        f == [id |-> NextId, fn |-> fn, interp |-> m, snap |-> s,
              setRO |-> SetsReadOnly(fn, m), prevCt |-> ct, fail |-> "none"]
        ts == Append(traces, NewTrace(fn))
    IN  /\ NextId <= MaxCalls /\ MayCall(fn, value)
        /\ frames = <<>> => traces = <<>>
        /\ Len(frames) <= CallCreateDepth
        /\ world' = IF fn \in Creates \/ (fn = "Call" /\ value) THEN s + 1 ELSE s
        /\ world' <= MaxWorld
        /\ ct' = NextId /\ interp' = m
        /\ frames' = Append(frames, f)
        /\ ro' = [ro EXCEPT ![m] = ReadOnlyOf(m) \/ fn = "StaticCall"]
        /\ traces' = IF m = "TAC"
                     THEN [ts EXCEPT ![IsolationIndex + 1].depth = Len(frames) + 1]
                     ELSE ts
        /\ ran' = IF m = "TAC" THEN ran \cup {NextId} ELSE ran
        /\ UNCHANGED <<result, subErr>>

\* run finds no TAC program for the code or cannot parse it, or Run finds no
\* code: the call is back at once.  In TAC mode the row is empty, except that of
\* a program that does not parse.  Call does not run an account without code.
NotRun(fn, e, parses) ==
    LET m == ModeOf(NextId)
        se == subErr \/ e = "global"
        row == e = "global" /\ ~parses
    IN  /\ NextId <= MaxCalls /\ MayCall(fn, FALSE)
        /\ frames = <<>> => traces = <<>>
        /\ Len(frames) <= CallCreateDepth
        /\ \/ e = "global" /\ m = "TAC"
           \/ e = "none" /\ fn # "Call"
        /\ world' = IF fn \in Creates THEN world + 1 + (IF e = "none" THEN 1 ELSE 0)
                    ELSE world
        /\ world' <= MaxWorld
        /\ interp' = m
        /\ ro' = [ro EXCEPT ![m] = ReadOnlyOf(m)]
        /\ traces' = Append(traces, FillTrace(NewTrace(fn), Len(frames)))
        /\ result' = IF m = "TAC" THEN IF row THEN NextId ELSE 0 ELSE result
        /\ subErr' = se
        /\ frames' = Back(frames, fn, e, m, se)
        /\ ran' = IF row THEN ran \cup {NextId} ELSE ran
        /\ UNCHANGED ct

\* SSTORE and SELFDESTRUCT; the TAC interpreter's check is still to be written
\* ("TODO: handles readonly").
Write ==
    /\ frames # <<>> /\ Top.fail = "none"
    /\ Top.interp = "EVM" => ~ro["EVM"]
    /\ world < MaxWorld /\ world' = world + 1
    /\ UNCHANGED <<traces, ct, frames, ro, interp, result, subErr, ran>>

\* The trace t of ts notes an instruction of call x.
Noted(ts, t, x) == [ts EXCEPT ![t].ops = @ \cup {x}]

\* SHA3 and GAS are noted in the StateDB's current trace by the EVM and in the
\* frame's trace, the last one when its Run began, by the TAC interpreter.
Note ==
    /\ frames # <<>> /\ Top.fail = "none"
    /\ LET t == IF Top.interp = "EVM" THEN ct ELSE Top.id IN
        traces' = Noted(traces, t, Top.id)
    /\ UNCHANGED <<world, ct, frames, ro, interp, result, subErr, ran>>

\* LOG: StateDB.AddLog notes it in the current trace for both interpreters.
Log ==
    /\ frames # <<>> /\ Top.fail = "none"
    /\ Top.interp = "EVM" => ~ro["EVM"]
    /\ world < MaxWorld /\ world' = world + 1
    /\ traces' = Noted(traces, ct, Top.id)
    /\ UNCHANGED <<ct, frames, ro, interp, result, subErr, ran>>

DepthAfter_Twice(fs) == Len(fs) - 2

DepthAfter_InRun(fs) == Len(fs) + 1

\* evm.depth when the deferred functions of the call are executed: Run has
\* decremented it.
DepthAfter(fs) == Len(fs)

RestoredTrace_Kept(f) == ct

\* The current trace when a call is back: the one of before it.
RestoredTrace(f) == f.prevCt

RowOf_First(f) == IF f.interp = "TAC" /\ result = 0 THEN f.id ELSE result

\* The deferred function of run in TAC mode: the row of this call.
RowOf(f) == IF f.interp = "TAC" THEN f.id ELSE result

\* Run returns, its deferred functions and those of the call are executed.
Return(e) ==
    LET f == Top
        fs == SubSeq(frames, 1, Len(frames) - 1)
        se == subErr \/ (e = "global" /\ f.interp = "TAC")
    IN  /\ frames # <<>>
        /\ IF f.fail # "none" THEN e = f.fail
           ELSE e = "global" => f.interp = "TAC"
        /\ world' = IF e = "none" THEN world ELSE f.snap
        /\ ro' = IF f.setRO THEN [ro EXCEPT ![f.interp] = FALSE] ELSE ro
        /\ traces' = [traces EXCEPT ![f.id] = FillTrace(@, DepthAfter(fs))]
        /\ ct' = RestoredTrace(f)
        /\ result' = RowOf(f)
        /\ subErr' = se
        /\ frames' = Back(fs, f.fn, e, interp, se)
        /\ UNCHANGED <<interp, ran>>

Next ==
    \/ Refused
    \/ \E fn \in Fns, value \in BOOLEAN : Enter(fn, value)
    \/ \E fn \in Fns, e \in {"none", "global"}, parses \in BOOLEAN : NotRun(fn, e, parses)
    \/ Write
    \/ Note
    \/ Log
    \/ \E e \in Errs : Return(e)

Spec == Init /\ [][Next]_vars
-------------------------------------------------------------------------------
FrameType ==
    [id : 1..MaxCalls, fn : Calls \cup Creates, interp : Modes,
     snap : 0..MaxWorld, setRO : BOOLEAN, prevCt : 0..MaxCalls, fail : Errs]

TraceType ==
    [fn : Calls \cup Creates, depth : Nat, done : BOOLEAN,
     ops : SUBSET (1..MaxCalls), parent : 0..MaxCalls]

\* The state has the shape the declarations give it.
TypeOK ==
    /\ world \in 0..MaxWorld
    /\ traces \in Seq(TraceType) /\ Len(traces) <= MaxCalls
    /\ ct \in 0..MaxCalls
    /\ frames \in Seq(FrameType)
    /\ ro \in [Modes -> BOOLEAN] /\ interp \in Modes
    /\ result \in 0..MaxCalls /\ subErr \in BOOLEAN
    /\ ran \subseteq 1..MaxCalls

\* StaticCall "executes the contract ... while disallowing any modifications to
\* the state during the call" (evm.go): as long as a static call is executed,
\* its callees included, the world is what it was when the call began, until the
\* TAC interpreter executes a call.
StaticUnchanged ==
    ran = {} =>
        \A i \in 1..Len(frames) :
            frames[i].fn = "StaticCall" => world = frames[i].snap

\* "This also makes sure that the readOnly flag isn't removed for child calls"
\* (Run of the three interpreters): whatever executes inside a static call does
\* so on an interpreter whose readOnly is set.
ReadOnlyInherited ==
    (\E i \in 1..Len(frames) : frames[i].fn = "StaticCall") => ro[Top.interp]

\* The instructions noted in a call's trace were executed by that call, however
\* the calls before it and below it ended and whichever interpreter ran them.
OpsOwned == \A i \in 1..Len(traces) : traces[i].ops \subseteq {i}

\* The depths of a finished trace determine the call tree: the caller of a call
\* is the last call before it of a smaller depth (CheckOutOfGas cuts the subtree
\* of a call out of the trace with them).
DepthsGiveTree ==
    frames = <<>> =>
        \A j \in 1..Len(traces) :
            /\ traces[j].parent < j
            /\ traces[j].parent # 0 =>
                    traces[traces[j].parent].depth < traces[j].depth
            /\ \A k \in (traces[j].parent + 1)..(j - 1) :
                    traces[k].depth >= traces[j].depth

\* The row the validation reports when the transaction is over is that of the
\* isolated call (of call 0 without isolation) if the TAC interpreter executed
\* that call or could not parse its program, and no row otherwise.
ResultIsOfIsolated ==
    frames = <<>> =>
        result = IF IsolationIndex + 1 \in ran THEN IsolationIndex + 1 ELSE 0

\* With isolation the TAC interpreter executes no other call: its callees and
\* the calls after it are the EVM's.
OnlyIsolatedRuns == ContractIso => ran \subseteq {IsolationIndex + 1}

\* A finished trace is the calls as they were executed.
TraceSound == OpsOwned /\ DepthsGiveTree

\* The reported row is that of the isolated call, or of the outermost one.
RowIsOfIsolated == ResultIsOfIsolated /\ OnlyIsolatedRuns
-------------------------------------------------------------------------------
(* What makes the properties inductive.                                    *)

\* The executing calls: numbered in order from the first call of the transaction,
\* each executed as run selected; the current trace is the innermost one's.
StackInv ==
    /\ \A i \in 1..Len(frames) :
          /\ frames[i].id <= Len(traces)
          /\ frames[i].prevCt = IF i = 1 THEN 0 ELSE frames[i - 1].id
          /\ frames[i].interp = ModeOf(frames[i].id)
          /\ \A k \in 1..(i - 1) : frames[k].id < frames[i].id
    /\ frames # <<>> => frames[1].id = 1
    /\ ct = IF frames = <<>> THEN 0 ELSE Top.id

\* The depth of call j, of the calls fs and the traces ts: its place on the stack
\* while it is executed, and what its trace says afterwards.
OnStack(fs, j) == \E i \in 1..Len(fs) : fs[i].id = j
Level(fs, ts, j) ==
    IF OnStack(fs, j) THEN CHOOSE i \in 1..Len(fs) : fs[i].id = j
    ELSE ts[j].depth

\* The levels give the tree, and what began after a call that is still executed
\* is below it.
TreeInv ==
    LET level(j) == Level(frames, traces, j)
    IN  /\ \A j \in 1..Len(traces) :
              /\ traces[j].parent < j
              /\ traces[j].parent # 0 => level(traces[j].parent) < level(j)
              /\ \A k \in (traces[j].parent + 1)..(j - 1) : level(j) <= level(k)
        /\ \A i \in 1..Len(frames), k \in 1..Len(traces) :
              frames[i].id < k => i < level(k)

\* The row is final unless the call it is about is being executed.
RowInv ==
    /\ ran \subseteq 1..Len(traces)
    /\ \A k \in ran : ModeOf(k) = "TAC"
    /\ \A i \in 1..Len(frames) : frames[i].interp = "TAC" => frames[i].id \in ran
    /\ \/ OnStack(frames, IsolationIndex + 1) /\ ModeOf(IsolationIndex + 1) = "TAC"
       \/ result = IF IsolationIndex + 1 \in ran THEN IsolationIndex + 1 ELSE 0

IsoInv == TypeOK /\ StackInv /\ OpsOwned /\ TreeInv /\ RowInv

\* While all calls are the EVM's, readOnly is set by one static call, the
\* outermost one; the snapshots taken since are of the present world.
ReadOnlyInv ==
    /\ ro["EVM"] <=> \E i \in 1..Len(frames) : frames[i].setRO
    /\ \A i, k \in 1..Len(frames) :
          /\ frames[i].setRO => frames[i].fn = "StaticCall"
          /\ frames[i].setRO /\ frames[k].setRO => i = k
          /\ frames[i].setRO /\ frames[k].fn = "StaticCall" => i <= k
          /\ frames[i].setRO /\ i <= k => frames[k].snap = world
    /\ (\E i \in 1..Len(frames) : frames[i].fn = "StaticCall") => ro["EVM"]

EVMInv == IsoInv /\ (ran = {} => ReadOnlyInv)
===============================================================================
