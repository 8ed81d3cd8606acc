------------------------------ MODULE Deviation ------------------------------
(***************************************************************************)
(* One isolated call executed by the TAC interpreter while its effects are *)
(* compared with the trace the EVM recorded of the same transaction        *)
(* (core/vm/track_deviation.go, core/vm/delta_semantics.go and the         *)
(* instructions of core/vm/tac_interpreter.go that call them).             *)
(*                                                                         *)
(* An effect is an SSTORE, a LOG, a call or a SHA3 of the contract from: v *)
(* stands for the operands that are compared (of a call, its target) and x *)
(* for those that are not (its input and its value).  A trace has, as      *)
(* EVMTrace does, a list for each of the first three kinds, and the set of *)
(* hashes of the isolated call.  The EVM executed pre before the call, iso *)
(* in it and post after it; pre is replayed by the EVM and is the same     *)
(* again.  With the isolation of one contract what the program calls or    *)
(* creates runs in the EVM, which adds its effects to the trace unchecked; *)
(* its hashes go to its own call trace.                                    *)
(***************************************************************************)
EXTENDS Integers, Sequences, FiniteSets

CONSTANTS
    Records,    \* recorded transactions: [pre, iso, post, oog]
    Own,        \* the effects the TAC program may have
    Nested,     \* those that what it calls or creates may have
    Tracing,    \* Config.EVMTrace is set: effects are compared
    MaxEffects  \* bound: effects of one kind

VARIABLES
    rec,        \* Config.EVMTrace and Delta.RecordedTrace
    tac,        \* the effects of the call so far (Delta.SubstrateTrace)
    checked,    \* history: the places of tac that were compared
    dev,        \* Delta.TACDeviation, "" when none
    state,      \* "run", "callee" (the EVM executes a callee), or how it
                \* ended: "deviated", "index" (both panics), "OutOfGas", "end"
    reported    \* the deferred function of run has written the row

devVars == <<rec, tac, checked, dev, state, reported>>

Lists == {"sstore", "log", "call"}
Kinds == Lists \cup {"sha3"}

EmptyTrace == [ops |-> [k \in Lists |-> <<>>], sha3 |-> {}]
-------------------------------------------------------------------------------
\* What the trace says of an effect: CallCode and DelegateCall record
\* caller.Address() as the callee.
Recorded(e) == IF e.fn = "DelegateCall" THEN e.from ELSE e.v

\* The recorded effects of a kind, in the whole transaction.
Trace(k) == rec.pre.ops[k] \o rec.iso.ops[k] \o rec.post.ops[k]

\* How many of them the run has had: SstoreCount, len(EventTraces) and
\* len(CallTraces) less the isolated call itself.
Count(k) == Len(rec.pre.ops[k]) + Len(tac.ops[k])

\* AddSstoreTrace, AddEventTrace, NextCallTrace and AddSHA3InstRet.
Added(e) == IF e.k = "sha3" THEN [tac EXCEPT !.sha3 = @ \cup {e.v}]
                            ELSE [tac EXCEPT !.ops[e.k] = Append(@, e)]

\* exec_create and exec_create2 compare nothing, and without a trace there is
\* nothing to compare with.
Checks(e) == Tracing /\ e.fn # "Create"

\* checkSstoreDeviation tests the length before it indexes; checkLogDeviation
\* and checkCallDeviation index first: an effect beyond the recorded ones is an
\* index out of range.
IndexPanics(e) == Checks(e) /\ e.k \in {"log", "call"} /\ Count(e.k) >= Len(Trace(e.k))

Deviates_Length(e) ==
    IF e.k = "sha3" THEN e.v \notin tac.sha3 \cup rec.iso.sha3
    ELSE Count(e.k) >= Len(Trace(e.k))

\* checkSstoreDeviation, checkLogDeviation, checkCallDeviation and
\* checkSHA3Deviation (CHECK_SHA3_ORDER is false).
Deviates(e) ==
    IF e.k = "sha3" THEN e.v \notin tac.sha3 \cup rec.iso.sha3
    ELSE \/ Count(e.k) >= Len(Trace(e.k))
         \/ Recorded(Trace(e.k)[Count(e.k) + 1]) # e.v

DevAfter(e) == IF Checks(e) /\ Deviates(e) THEN e.k ELSE dev

\* The place the effect gets in its list.
CheckedAfter(e) ==
    IF Checks(e) /\ e.k \in Lists
    THEN [checked EXCEPT ![e.k] = @ \cup {Len(tac.ops[e.k]) + 1}]
    ELSE checked

Remaining_NoCalls ==
    \/ \E k \in {"sstore", "log"} : Count(k) # Len(Trace(k))
    \/ Cardinality(tac.sha3) # Cardinality(rec.iso.sha3)

\* CheckRemainingDeviation: counts of the transaction, hashes of the call.
Remaining ==
    \/ \E k \in Lists : Count(k) # Len(Trace(k))
    \/ Cardinality(tac.sha3) # Cardinality(rec.iso.sha3)

\* The calls recorded inside the isolated one: those of a larger depth that
\* follow it.
SubtreeCalls == Len(rec.pre.ops["call"]) + Len(rec.iso.ops["call"])

OutOfGas_More ==
    /\ rec.oog
    /\ Count("call") = SubtreeCalls
    /\ Len(Trace("sstore")) < Count("sstore")
    /\ Len(Trace("log")) <= Count("log")
    /\ rec.iso.sha3 \subseteq tac.sha3

OutOfGas_NoHashes ==
    /\ rec.oog
    /\ Count("call") = SubtreeCalls
    /\ Len(Trace("sstore")) <= Count("sstore")
    /\ Len(Trace("log")) <= Count("log")

\* CheckOutOfGas: the recorded call ran out of gas and the run has had all of
\* its effects.
OutOfGas ==
    /\ rec.oog
    /\ Count("call") = SubtreeCalls
    /\ Len(Trace("sstore")) <= Count("sstore")
    /\ Len(Trace("log")) <= Count("log")
    /\ rec.iso.sha3 \subseteq tac.sha3
-------------------------------------------------------------------------------
DevInit ==
    /\ rec \in Records /\ tac = EmptyTrace /\ dev = ""
    /\ checked = [k \in Lists |-> {}]
    /\ state = "run" /\ reported = FALSE

\* The head of the loop of execute_func: out of gas is tested first, then a
\* deviation that an earlier instruction found ends the run with a panic.
Go == state = "run" /\ ~OutOfGas /\ dev = ""

StopOutOfGas ==
    /\ state = "run" /\ OutOfGas
    /\ state' = "OutOfGas"
    /\ UNCHANGED <<rec, tac, checked, dev, reported>>

StopDeviated ==
    /\ state = "run" /\ ~OutOfGas /\ dev # ""
    /\ state' = "deviated"
    /\ UNCHANGED <<rec, tac, checked, dev, reported>>

Room(e) == e.k \in Lists => Len(tac.ops[e.k]) < MaxEffects

\* exec_sstore, makeTACLog, exec_call and its kin, exec_create, exec_create2 and
\* exec_sha3: the check, then the effect is added to the run's trace, and a call
\* hands over to the EVM.
Effect(e) ==
    /\ Go /\ Room(e)
    /\ IF IndexPanics(e)
       THEN state' = "index" /\ UNCHANGED <<tac, checked, dev>>
       ELSE /\ dev' = DevAfter(e)
            /\ tac' = Added(e) /\ checked' = CheckedAfter(e)
            /\ state' = IF e.k = "call" THEN "callee" ELSE state
    /\ UNCHANGED <<rec, reported>>

\* An SSTORE, a LOG or a nested call of what was called, in the EVM.
CalleeEffect(e) ==
    /\ state = "callee" /\ Room(e)
    /\ tac' = Added(e)
    /\ UNCHANGED <<rec, checked, dev, state, reported>>

CalleeReturns ==
    /\ state = "callee" /\ state' = "run"
    /\ UNCHANGED <<rec, tac, checked, dev, reported>>

\* STOP, RETURN, REVERT, an error of an instruction or the end of the
\* instructions; the last two leave the loop without passing its head again.
End ==
    /\ state = "run" /\ state' = "end"
    /\ UNCHANGED <<rec, tac, checked, dev, reported>>

\* The deferred function of run, when Run has returned.
Report ==
    /\ state \notin {"run", "callee"} /\ ~reported
    /\ dev' = IF Tracing /\ dev = "" /\ Remaining THEN "remaining" ELSE dev
    /\ reported' = TRUE
    /\ UNCHANGED <<rec, tac, checked, state>>

DevNext ==
    \/ StopOutOfGas \/ StopDeviated
    \/ \E e \in Own : Effect(e)
    \/ \E e \in Nested : CalleeEffect(e)
    \/ CalleeReturns \/ End \/ Report

DevSpec == DevInit /\ [][DevNext]_devVars
-------------------------------------------------------------------------------
CallFns == {"Call", "DelegateCall", "Create"}
Effects == Own \cup Nested
EffectType == [k : Kinds, fn : {""} \cup CallFns, from : Nat, v : Nat, x : Nat]
TraceOfCall == [ops : [Lists -> Seq(Effects)], sha3 : SUBSET Nat]

\* What the recorded transactions and the program are assumed to be.
DevConfigured ==
    /\ Effects \subseteq EffectType /\ (\A e \in Nested : e.k \in Lists)
    /\ \A e \in Effects : e.fn \in CallFns <=> e.k = "call"
    /\ MaxEffects \in Nat /\ Tracing \in BOOLEAN
    /\ \A r \in Records :
        /\ r \in [pre : TraceOfCall, iso : TraceOfCall, post : TraceOfCall, oog : BOOLEAN]
        /\ IsFiniteSet(r.iso.sha3)

\* The state has the shape the declarations give it, and a run that is not
\* compared with a trace is not said to deviate.
DevTypeOK ==
    /\ rec \in Records /\ tac \in TraceOfCall
    /\ \A k \in Lists : Len(tac.ops[k]) <= MaxEffects
    /\ checked \in [Lists -> SUBSET Nat]
    /\ \A k \in Lists : \A i \in checked[k] : i \in 1..Len(tac.ops[k])
    /\ dev \in Kinds \cup {"", "remaining"} /\ (Tracing \/ dev = "")
    /\ state \in {"run", "callee", "deviated", "index", "OutOfGas", "end"}
    /\ reported \in BOOLEAN

\* What the EVM recorded from the isolated call on.
After(k) == rec.iso.ops[k] \o rec.post.ops[k]

\* The effect at this place is the recorded one, as far as they are compared.
Agrees(k, i) == i <= Len(After(k)) /\ Recorded(After(k)[i]) = tac.ops[k][i].v

SameEffects ==
    /\ \A k \in Lists : tac.ops[k] = After(k)
    /\ tac.sha3 = rec.iso.sha3

\* The program made no call with the code of another contract, whose callee the
\* EVM does not record.
NoDelegates ==
    \A k \in Lists : \A i \in checked[k] : tac.ops[k][i].fn # "DelegateCall"

\* The deviation row.  An empty one: the call had as many effects of each kind as
\* the EVM recorded from this call to the end of the transaction, those the
\* program itself had are the recorded ones in their places (a callee's and the
\* creations are only counted, inputs of calls are not looked at), and the hashes
\* are the same.  Another one: the effects do differ.
RowExact ==
    reported =>
        /\ dev = "" =>
            /\ \A k \in Lists : /\ Len(tac.ops[k]) = Len(After(k))
                                /\ \A i \in checked[k] : Agrees(k, i)
            /\ tac.sha3 = rec.iso.sha3
        /\ dev # "" /\ NoDelegates => ~SameEffects

\* Nothing is stored or logged after the call.
LastWrites == rec.post.ops["sstore"] = <<>> /\ rec.post.ops["log"] = <<>>

\* The call has had as many effects as the recorded one, and its hashes.
AsFar ==
    /\ \A k \in Lists : Len(tac.ops[k]) = Len(rec.iso.ops[k])
    /\ tac.sha3 = rec.iso.sha3

\* A call that the EVM left for want of gas: the program is left there too, so it
\* does nothing that the EVM did not do; only a callee may go beyond.
StopsWhereEVMStopped ==
    rec.oog /\ LastWrites /\ AsFar /\ state # "callee" => UNCHANGED tac

\* A run left for want of gas without a deviation has done all that the EVM did:
\* no recorded effect is missing, and the program's own are the recorded ones.
NothingMissing ==
    state = "OutOfGas" /\ dev \in {"", "remaining"} =>
        /\ \A k \in Lists : /\ Len(rec.iso.ops[k]) <= Len(tac.ops[k])
                            /\ \A i \in checked[k] : Agrees(k, i)
        /\ tac.sha3 = rec.iso.sha3

\* CheckOutOfGas leaves the run at the point where the EVM left the call: not
\* before the run has had all effects of the call, and before the program has
\* another.
OutOfGasExact == [][StopsWhereEVMStopped /\ NothingMissing']_devVars
-------------------------------------------------------------------------------
\* The invariant behind the exactness, for a run that is compared: without a
\* deviation the program's own effects are the recorded ones in their places,
\* with one an effect of that kind is not.
DevInv ==
    /\ dev \in {"", "remaining"} =>
        /\ \A k \in Lists : \A i \in checked[k] : Agrees(k, i)
        /\ tac.sha3 \subseteq rec.iso.sha3
    /\ dev \in Lists => \E i \in checked[dev] : ~Agrees(dev, i)
    /\ dev = "sha3" => ~(tac.sha3 \subseteq rec.iso.sha3)
    /\ dev = "remaining" => Remaining /\ reported
    /\ reported /\ dev = "" => ~Remaining
    /\ reported => state \notin {"run", "callee"}
    /\ state = "OutOfGas" => OutOfGas
===============================================================================
