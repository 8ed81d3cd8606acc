------------------------------- MODULE TACExec -------------------------------
(***************************************************************************)
(* How the TAC interpreter executes one contract: execute_func and the     *)
(* instructions that decide what it runs next or which register value      *)
(* counts (core/vm/tac_interpreter.go, core/vm/tac_context.go).            *)
(*                                                                         *)
(* A program is a function from function names to records: the registers   *)
(* of the arguments, the values of the constants and the instructions.     *)
(* Each execute_func on the Go stack is a context; every register knows    *)
(* the cycle of its last definition, by which PHI chooses.  Values are     *)
(* words of Words; instructions that only compute are the one "op", whose  *)
(* result the environment chooses.                                         *)
(***************************************************************************)
EXTENDS Integers, Sequences, FiniteSets, SequencesExt

CONSTANTS
    Programs,       \* the programs to execute
    Vars,           \* register indices, 0..NumVars-1
    Words,          \* values, 0 among them
    MaxContexts,    \* bound: nested private calls
    MaxCycle        \* bound: instructions executed in one context

Nil == <<>>
NoRet == [res |-> Nil, err |-> "running"]

VARIABLES
    prog,       \* contract.TACProg
    ctxs,       \* the contexts of the functions being executed, innermost last
    reverts,    \* TACFrame.reverts
    halts,      \* TACFrame.halts
    ret,        \* what the innermost execute_func returns, or NoRet
    out,        \* what Run gets: NoRet until the entry function is done
    picks,      \* history: the last PHI block executed
    want        \* history: result of the instruction that ended the contract

vars == <<prog, ctxs, reverts, halts, ret, out, picks, want>>
-------------------------------------------------------------------------------
Ctx == ctxs[Len(ctxs)]
Fn == prog[Ctx.fn]
Inst == Fn.insts[Ctx.pc]
Running == out = NoRet /\ ret = NoRet /\ ctxs # <<>>
AtInst(op) == Running /\ Ctx.pc <= Len(Fn.insts) /\ Inst.op = op

\* NewContext: arguments and constants have a value and cycle 0.
NewContext(f, args) ==
    [fn |-> f, pc |-> 1, cycle |-> 0,
     regs |-> [v \in Vars |->
        [val |-> IF \E i \in 1..Len(prog[f].args) : prog[f].args[i] = v
                 THEN args[CHOOSE i \in 1..Len(prog[f].args) : prog[f].args[i] = v]
                 ELSE IF v \in DOMAIN prog[f].consts THEN prog[f].consts[v] ELSE 0,
         cycle |-> 0]],
     private |-> <<>>, dests |-> <<>>, sent |-> <<>>, defs |-> <<>>]

\* The context after an instruction that defines the registers ds (defs is the
\* history of them) and goes on at pc.
Defined(c, regs, ds, pc) ==
    [c EXCEPT !.regs = regs, !.pc = pc, !.cycle = @ + 1, !.defs = Append(@, ds)]

Continue(c) == ctxs' = [ctxs EXCEPT ![Len(ctxs)] = c]

Init ==
    /\ prog \in Programs
    /\ ctxs = <<NewContext("main", <<>>)>>
    /\ reverts = FALSE /\ halts = FALSE
    /\ ret = NoRet /\ out = NoRet
    /\ picks = <<>> /\ want = NoRet
-------------------------------------------------------------------------------
\* TAC_BLOCK_FLAG stands at the head of every block: the first instruction of a
\* function defines no register.
BlockFlag ==
    /\ AtInst("flag") /\ Ctx.cycle < MaxCycle
    /\ Continue(Defined(Ctx, Ctx.regs, {}, Ctx.pc + 1))
    /\ UNCHANGED <<prog, reverts, halts, ret, out, picks, want>>

\* An instruction that computes a register: dest.Set(ctx.cycle, ...).
Op ==
    /\ AtInst("op") /\ Ctx.cycle < MaxCycle
    /\ \E w \in Words :
        Continue(Defined(Ctx, [Ctx.regs EXCEPT ![Inst.dest] = [val |-> w, cycle |-> Ctx.cycle]],
                         {Inst.dest}, Ctx.pc + 1))
    /\ UNCHANGED <<prog, reverts, halts, ret, out, picks, want>>

\* exec_not assigns dest.val itself: the register keeps its old cycle.
Not ==
    /\ AtInst("not") /\ Ctx.cycle < MaxCycle
    /\ \E w \in Words :
        Continue(Defined(Ctx, [Ctx.regs EXCEPT ![Inst.dest].val = w], {Inst.dest}, Ctx.pc + 1))
    /\ UNCHANGED <<prog, reverts, halts, ret, out, picks, want>>

ConstCycle_Old(r, cycle) == r

\* c.UpdateCycle: a constant counts as defined where its CONST stands.
ConstCycle(r, cycle) == [r EXCEPT !.cycle = cycle]

Const ==
    /\ AtInst("const") /\ Ctx.cycle < MaxCycle
    /\ Continue(Defined(Ctx, [Ctx.regs EXCEPT ![Inst.dest] = ConstCycle(@, Ctx.cycle)],
                        {Inst.dest}, Ctx.pc + 1))
    /\ UNCHANGED <<prog, reverts, halts, ret, out, picks, want>>

\* The choice whose register has the largest cycle, the first one of them.
Recent(regs, from) ==
    LET best == CHOOSE i \in 1..Len(from) :
            /\ \A j \in 1..Len(from) : regs[from[j]].cycle <= regs[from[i]].cycle
            /\ \A j \in 1..(i - 1) : regs[from[j]].cycle < regs[from[i]].cycle
    IN  from[best]

\* One PHI: the chosen value is read in the registers as they are now, because
\* copiedRegister is a slice of the same array.
PhiStep(regs, phi, cycle) ==
    [regs EXCEPT ![phi.dest] =
        [val |-> regs[Recent(regs, phi.from)].val, cycle |-> cycle]]

\* The loop of exec_phi_start.
PhiLoop(regs, phis, cycle) == FoldLeft(LAMBDA r, phi : PhiStep(r, phi, cycle), regs, phis)

\* "phi should be executed in parallel": every PHI reads the registers of
\* before the block.
ParallelPhi(regs, phis, cycle) ==
    [v \in Vars |->
        IF \E i \in 1..Len(phis) : phis[i].dest = v
        THEN PhiStep(regs, phis[CHOOSE i \in 1..Len(phis) : phis[i].dest = v], cycle)[v]
        ELSE regs[v]]

\* TACPhiPolicy is the constant TACPhiPolicy_ExecAll: the policies that deny a PHI
\* are not in the program.
Phi ==
    /\ AtInst("phi") /\ Ctx.cycle < MaxCycle
    /\ LET after == PhiLoop(Ctx.regs, Inst.phis, Ctx.cycle) IN
        /\ Continue(Defined(Ctx, after,
                            {Inst.phis[i].dest : i \in 1..Len(Inst.phis)}, Ctx.pc + 1))
        /\ picks' = <<[phis |-> Inst.phis, before |-> Ctx.regs, after |-> after,
                       cycle |-> Ctx.cycle, defs |-> Ctx.defs]>>
    /\ UNCHANGED <<prog, reverts, halts, ret, out, want>>

\* JUMP and JUMPI to a block of the function; no target is an error that stops
\* the contract.  TACDenyAmbiJump is the constant false: an ambiguous jump is
\* counted and taken.
Jump ==
    /\ AtInst("jumpi") /\ Ctx.cycle < MaxCycle
    /\ IF Ctx.regs[Inst.cond].val = 0
       THEN Continue(Defined(Ctx, Ctx.regs, {}, Ctx.pc + 1)) /\ UNCHANGED <<ret, want>>
       ELSE IF Inst.target = -1
       THEN /\ ret' = [res |-> Nil, err |-> "IllJump"]
            /\ want' = [res |-> Nil, err |-> "IllJump"]
            /\ UNCHANGED ctxs
       ELSE Continue(Defined(Ctx, Ctx.regs, {}, Inst.target)) /\ UNCHANGED <<ret, want>>
    /\ UNCHANGED <<prog, reverts, halts, out, picks>>

ReturnSpace_Kept(c, n) == IF Len(c.private) = n THEN c.private ELSE [i \in 1..n |-> 0]

\* "prepare space to receive return data": n zeros.
ReturnSpace(c, n) == [i \in 1..n |-> 0]

\* CALLPRIVATE up to the recursive execute_func.
CallPrivate ==
    /\ AtInst("callprivate") /\ Len(ctxs) < MaxContexts /\ Ctx.cycle < MaxCycle
    /\ LET args == [i \in 1..Len(prog[Inst.fn].args) |-> Ctx.regs[Inst.args[i]].val]
           c == [Ctx EXCEPT !.private = ReturnSpace(Ctx, Len(Inst.dests)),
                            !.dests = Inst.dests, !.sent = <<>>, !.pc = @ + 1]
       IN  ctxs' = Append([ctxs EXCEPT ![Len(ctxs)] = c], NewContext(Inst.fn, args))
    /\ UNCHANGED <<prog, reverts, halts, ret, out, picks, want>>

\* RETURNPRIVATE writes the caller's PrivateReturnData; without a caller, or
\* with more values than it has room for, Go panics and Run gets ErrTACPanic.
ReturnPrivate ==
    /\ AtInst("returnprivate")
    /\ LET n == Len(Inst.from)
           caller == ctxs[Len(ctxs) - 1]
           vals == [i \in 1..n |-> Ctx.regs[Inst.from[i]].val]
       IN  IF n > 0 /\ (Len(ctxs) = 1 \/ n > Len(caller.private))
           THEN /\ out' = [res |-> Nil, err |-> "TACPanic"]
                /\ want' = out'
                /\ ctxs' = <<>>
                /\ UNCHANGED ret
           ELSE /\ ret' = [res |-> Nil, err |-> "none"]
                /\ ctxs' = IF Len(ctxs) = 1 THEN ctxs
                           ELSE [ctxs EXCEPT ![Len(ctxs) - 1].private =
                                    [i \in 1..Len(@) |-> IF i <= n THEN vals[i] ELSE @[i]],
                                 ![Len(ctxs) - 1].sent = vals]
                /\ UNCHANGED <<out, want>>
    /\ UNCHANGED <<prog, reverts, halts, picks>>

\* STOP and SELFDESTRUCT (no data) and RETURN: operation.halts.
Halt ==
    /\ AtInst("return")
    /\ halts' = TRUE
    /\ ret' = [res |-> <<Ctx.regs[Inst.var].val>>, err |-> "none"]
    /\ want' = ret'
    /\ UNCHANGED <<prog, ctxs, reverts, out, picks>>

\* REVERT: exec_revert returns the data with ErrExecutionReverted, and
\* execute_func answers an error with "return nil, err".
Revert ==
    /\ AtInst("revert")
    /\ ret' = [res |-> Nil, err |-> "Reverted"]
    /\ want' = [res |-> <<Ctx.regs[Inst.var].val>>, err |-> "Reverted"]
    /\ UNCHANGED <<prog, ctxs, reverts, halts, out, picks>>

\* THROW is an error of this contract.
Throw ==
    /\ AtInst("throw")
    /\ ret' = [res |-> Nil, err |-> "TACThrow"]
    /\ want' = ret'
    /\ UNCHANGED <<prog, ctxs, reverts, halts, out, picks>>

\* The loop of execute_func ends when pc is past the last instruction.
FallOff ==
    /\ Running /\ Ctx.pc > Len(Fn.insts)
    /\ ret' = [res |-> Nil, err |-> "none"]
    /\ UNCHANGED <<prog, ctxs, reverts, halts, out, picks, want>>

AfterCall_NoFlags(r) ==
    IF r.err # "none" THEN [res |-> Nil, err |-> r.err]
    ELSE IF reverts THEN [res |-> r.res, err |-> "Reverted"]
    ELSE NoRet

\* What the caller's execute_func does when CALLPRIVATE is executed: an error
\* and the flags of the frame end it too.
AfterCall(r) ==
    IF r.err # "none" THEN [res |-> Nil, err |-> r.err]
    ELSE IF reverts THEN [res |-> r.res, err |-> "Reverted"]
    ELSE IF halts THEN r ELSE NoRet

\* The rest of exec_callprivate: the destinations are assigned at the caller's
\* cycle, whatever the callee returned.
CallReturns ==
    /\ out = NoRet /\ ret # NoRet /\ Len(ctxs) > 1
    /\ LET c == ctxs[Len(ctxs) - 1]
           regs == [v \in Vars |->
               IF \E i \in 1..Len(c.dests) : c.dests[i] = v
               THEN [val |-> c.private[CHOOSE i \in 1..Len(c.dests) : c.dests[i] = v],
                     cycle |-> c.cycle]
               ELSE c.regs[v]]
       IN  ctxs' = Append(SubSeq(ctxs, 1, Len(ctxs) - 2),
                          Defined(c, regs, ToSet(c.dests), c.pc))
    /\ ret' = AfterCall(ret)
    /\ UNCHANGED <<prog, reverts, halts, out, picks, want>>

\* The entry function is done: Run has its result.
Done ==
    /\ out = NoRet /\ ret # NoRet /\ Len(ctxs) = 1
    /\ out' = ret /\ ctxs' = <<>>
    /\ UNCHANGED <<prog, reverts, halts, ret, picks, want>>

Next ==
    \/ BlockFlag \/ Op \/ Not \/ Const \/ Phi \/ Jump
    \/ CallPrivate \/ ReturnPrivate \/ CallReturns
    \/ Halt \/ Revert \/ Throw \/ FallOff \/ Done

Spec == Init /\ [][Next]_vars
-------------------------------------------------------------------------------
RegType == [Vars -> [val : Words, cycle : 0..MaxCycle]]

\* Registers hold words, and no register was defined at a cycle that its context
\* has not reached.
TypeOK ==
    /\ \A i \in 1..Len(ctxs) :
        /\ ctxs[i].regs \in RegType
        /\ \A v \in Vars : ctxs[i].regs[v].cycle \in {0} \cup 0..(ctxs[i].cycle - 1)
    /\ reverts \in BOOLEAN /\ halts \in BOOLEAN
    /\ Len(ctxs) <= MaxContexts

\* "choose the most recent updated one" (exec_phi_start).
\* Where no PHI of the block reads what another one writes, each picks a
\* register of those its path defined last: a choice defined by an instruction
\* executed later than the picked one's would be the wrong value.
PhiPicksLatest ==
    \A k \in 1..Len(picks) : \A i \in 1..Len(picks[k].phis) :
        LET p == picks[k].phis[i]
            defs == picks[k].defs
            last(v) == {n \in 1..Len(defs) : v \in defs[n]}
        IN  \E c \in ToSet(p.from) :
                /\ picks[k].after[p.dest].val = picks[k].before[c].val
                /\ \A d \in ToSet(p.from) : \A n \in last(d) : \E m \in last(c) : m >= n

\* "phi should be executed in parallel, so we copy the whole value array"
\* (exec_phi_start): a block of PHIs has the effect of executing them at once.
PhiParallel ==
    \A k \in 1..Len(picks) :
        picks[k].after = ParallelPhi(picks[k].before, picks[k].phis, picks[k].cycle)

\* A private call gives its destinations what this callee returned, and zeros
\* where it returned nothing: never the data of an earlier call.
PrivateDataFresh ==
    \A i \in 1..(Len(ctxs) - 1) :
        ctxs[i].private = [n \in 1..Len(ctxs[i].dests) |->
            IF n <= Len(ctxs[i].sent) THEN ctxs[i].sent[n] ELSE 0]

\* What ends the contract ends it at any depth of private calls: the result is
\* that of the instruction that halted or failed, and no other one follows it.
EndsOnce ==
    /\ want # NoRet => ret # NoRet \/ out # NoRet
    /\ out # NoRet /\ want # NoRet => out.err = want.err
    /\ out # NoRet /\ want # NoRet /\ want.err = "none" => out = want
===============================================================================
