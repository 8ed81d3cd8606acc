-------------------------------- MODULE MCRuns --------------------------------
(***************************************************************************)
(* Bounded instances of the two Run functions that wait for a goroutine.   *)
(* A behaviour is one of the part that Init chooses:                       *)
(*   limit   TACRun, the instruction limit instead of the timeout          *)
(*   tac     TACRun, the timeout, callees are TAC frames                   *)
(*   iso     TACRun, the timeout, callees are EVM frames                   *)
(*   single  SubstrateRun with isolated calls                              *)
(*   nested  SubstrateRun with nested Runs                                 *)
(* What a part does not use keeps its initial value.                       *)
(***************************************************************************)
EXTENDS TACRun, SubstrateRun

VARIABLE part

all == <<part, vars, subVars>>

Tac == INSTANCE TACRun WITH Timeout <- TRUE, MaxInst <- 0
Iso == INSTANCE TACRun WITH ContractIso <- TRUE, Timeout <- TRUE, MaxInst <- 0

Single == INSTANCE SubstrateRun WITH MaxFrames <- 1

\* The assumptions of the theorems about SubstrateRun.
ASSUME SubstrateAssumption == Configured /\ Single!Configured
-------------------------------------------------------------------------------
MCInit == part \in {"limit", "tac", "iso", "single", "nested"} /\ Init /\ SubInit

GoroutineSteps ==
    \/ part = "limit" /\ Goroutine /\ UNCHANGED <<part, subVars>>
    \/ part = "tac" /\ Tac!Goroutine /\ UNCHANGED <<part, subVars>>
    \/ part = "iso" /\ Iso!Goroutine /\ UNCHANGED <<part, subVars>>
    \/ part = "single" /\ Single!GoStep /\ UNCHANGED <<part, vars>>
    \/ part = "nested" /\ GoStep /\ UNCHANGED <<part, vars>>

RunSteps ==
    \/ part = "limit" /\ Runner /\ UNCHANGED <<part, subVars>>
    \/ part = "tac" /\ Tac!Runner /\ UNCHANGED <<part, subVars>>
    \/ part = "iso" /\ Iso!Runner /\ UNCHANGED <<part, subVars>>
    \/ part = "single" /\ Single!RunStep(1) /\ UNCHANGED <<part, vars>>
    \/ part = "nested" /\ (\E f \in 1..Len(frames) : RunStep(f)) /\ UNCHANGED <<part, vars>>

Timers ==
    \/ part = "tac" /\ Tac!TimeAfter /\ UNCHANGED <<part, subVars>>
    \/ part = "iso" /\ Iso!TimeAfter /\ UNCHANGED <<part, subVars>>
    \/ part = "single" /\ Single!TimeoutFires(1) /\ UNCHANGED <<part, vars>>
    \/ part = "nested" /\ (\E f \in 1..Len(frames) : TimeoutFires(f))
                       /\ UNCHANGED <<part, vars>>

MCNext == GoroutineSteps \/ RunSteps \/ Timers

\* The fairness of TACRun, and that of SubstrateRun with one frame.
MCSpec ==
    /\ MCInit /\ [][MCNext]_all
    /\ WF_all(GoroutineSteps) /\ WF_all(RunSteps) /\ WF_all(Timers)
-------------------------------------------------------------------------------
\* Run always returns, even for a program that never halts: the timer or the
\* instruction limit stops it.  (Not so nested Runs of the substrate
\* interpreter: the flag that the caller's timeout sets is the callee's.)
AlwaysReturns ==
    /\ part \in {"limit", "tac", "iso"} => RunReturns
    /\ part = "single" => Single!SubReturns
===============================================================================
