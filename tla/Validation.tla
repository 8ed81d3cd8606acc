------------------------------ MODULE Validation ------------------------------
(***************************************************************************)
(* The verdict of the validate command on one call of one transaction      *)
(* (cmd/substate-cli/validate): the transaction was recorded as substate   *)
(* x; it runs again on a StateDB loaded from x.InputAlloc with one call    *)
(* interpreted by the decompiled (TAC) program, which gives substate y;    *)
(* EquivalentAlloc compares x and y.                                       *)
(*                                                                         *)
(* The decompiled program may be wrong, so the second run may make any     *)
(* accesses at all.  The question is whether the comparison of the two     *)
(* substates tells equal effects from different ones.                      *)
(***************************************************************************)
EXTENDS EVMAccess

CONSTANTS
    Worlds,         \* the possible states before the recorded transaction
    Ops,            \* the accesses a run may make
    EIP158,         \* the rules of EIP-158 hold
    MaxRecord,      \* bound: accesses of the recorded run
    MaxReplay       \* bound: accesses of the replayed run

VARIABLES
    db,         \* the StateDB of the run
    phase,      \* "record", "replay", "done"
    left,       \* accesses the run may still make
    frames,     \* the revision ids of the open calls, the innermost last
    x, y,       \* the recorded and the replayed substate
    eqAlloc, matchedSA,     \* the verdict of EquivalentAlloc
    loaded      \* history: the world loaded for the replay

vars == <<db, phase, left, frames, x, y, eqAlloc, matchedSA, loaded>>

Fresh == New([a \in Addr |-> Nil], EIP158)
Unsaved == [input |-> <<>>, output |-> <<>>]
-------------------------------------------------------------------------------
(***************************************************************************)
(* The comparison.  Allocs are functions on addresses, see StateDB.        *)
(***************************************************************************)
DeletedAccounts(s) == DOMAIN s.input \ DOMAIN s.output

\* StateDB.Copy: the journal is not copied, nor is the created flag.
Copy(d) ==
    [d EXCEPT !.journal = <<>>, !.revs = <<>>,
              !.obj = [a \in DOMAIN @ |-> [@[a] EXCEPT !.created = FALSE]]]

\* What GetNonce, GetBalance and GetCode return: zero if there is no account.
Fields(d, a) == IF Live(d, a) THEN <<d.obj[a].nonce, d.obj[a].bal, d.obj[a].code>>
                ELSE <<0, 0, 0>>
StateOf(d, a, k) == IF Live(d, a) THEN currentState(d, a, k) ELSE 0

EquivalentStateDBAlloc(d, alloc) ==
    \A a \in DOMAIN alloc :
        /\ Fields(d, a) = <<alloc[a].nonce, alloc[a].bal, alloc[a].code>>
        /\ \A i \in DOMAIN alloc[a].storage :
            StateOf(d, a, alloc[a].storage[i][1]) = alloc[a].storage[i][2]

\* idb with the output of s written over it and its deleted accounts marked.
Updated(idb, s) ==
    SetTxContext(FoldSet(LAMBDA a, d : SelfDestruct(d, a),
                         LoadSubstate(Copy(idb), s.output), DeletedAccounts(s)))

\* idb: both inputs, loaded one after the other.
CompareOn(idb, s, t) ==
    /\ EquivalentStateDBAlloc(Updated(idb, s), t.output)
    /\ EquivalentStateDBAlloc(Updated(idb, t), s.output)
CompareOn_OneWay(idb, s, t) ==
    EquivalentStateDBAlloc(Updated(idb, t), s.output)
Loaded(d, s) == SetTxContext(LoadSubstate(d, s.input))

\* The loop over yd compares the values of two map[Address]struct{}, which are
\* always equal: of the deleted accounts only their number is compared.
EquivalentSideEffects_OneWay(s, t) ==   \* mutant: t's changes are not looked at
    /\ Cardinality(DeletedAccounts(s)) = Cardinality(DeletedAccounts(t))
    /\ \E d \in {LoadSubstate(Fresh, s.input)} :
       \E idb \in {Loaded(d, t)} : CompareOn_OneWay(idb, s, t)
EquivalentSideEffects(s, t) ==
    /\ Cardinality(DeletedAccounts(s)) = Cardinality(DeletedAccounts(t))
    /\ \E d \in {LoadSubstate(Fresh, s.input)} :
       \E idb \in {Loaded(d, t)} : CompareOn(idb, s, t)

EqualStorageKeys_Count(s, t) ==         \* mutant: only the number of keys
    /\ DOMAIN s.output = DOMAIN t.output
    /\ \A a \in DOMAIN s.output :
        Len(s.output[a].storage) = Len(t.output[a].storage)
EqualStorageKeys(s, t) ==
    /\ DOMAIN s.output = DOMAIN t.output
    /\ \A a \in DOMAIN s.output :
        LET keys(u) == [i \in DOMAIN u.output[a].storage |-> u.output[a].storage[i][1]]
        IN  keys(s) = keys(t)

EquivalentAlloc_Strict(s, t) == s = t   \* mutant: no relaxed comparison
EquivalentAlloc(s, t) == s = t \/ EquivalentSideEffects(s, t)
-------------------------------------------------------------------------------
Init ==
    /\ \E w \in Worlds : db = SetTxContext(New(w, EIP158))
    /\ phase = "record" /\ left = MaxRecord /\ frames = <<>>
    /\ x = Unsaved /\ y = Unsaved
    /\ eqAlloc = FALSE /\ matchedSA = FALSE /\ loaded = World(Fresh)

\* One access of the run.
Access(op) ==
    /\ phase # "done" /\ left > 0 /\ Possible(db, op, frames)
    /\ db' = Step(db, op).db
    /\ left' = left - 1
    /\ frames' = CASE op.kind = "snapshot" -> Append(frames, Len(db'.revs))
                   [] op.kind = "revert" -> Front(frames)
                   [] OTHER -> frames
    /\ UNCHANGED <<phase, x, y, eqAlloc, matchedSA, loaded>>

\* A call that returns without error.
Return ==
    /\ phase # "done" /\ frames # <<>>
    /\ frames' = Front(frames)
    /\ UNCHANGED <<db, phase, left, x, y, eqAlloc, matchedSA, loaded>>

\* The recorded run ends; the validation loads its input.
LoadReplay ==
    /\ phase = "record" /\ frames = <<>>
    /\ LET d == SaveSubstate(Finalise(db, EIP158)) IN
        x' = [input |-> d.pre, output |-> d.post]
    /\ db' = SetTxContext(LoadSubstate(Fresh, x'.input))
    /\ loaded' = World(db')
    /\ phase' = "replay" /\ left' = MaxReplay
    /\ UNCHANGED <<frames, y, eqAlloc, matchedSA>>

\* The replayed run ends without a TAC error and the substates are compared.
Compare ==
    /\ phase = "replay" /\ frames = <<>>
    /\ db' = SaveSubstate(Finalise(db, EIP158))
    /\ y' = [input |-> db'.pre, output |-> db'.post]
    /\ eqAlloc' = EquivalentAlloc(x, y')
    /\ matchedSA' = EqualStorageKeys(x, y')
    /\ phase' = "done"
    /\ UNCHANGED <<left, frames, x, loaded>>

Next == (\E op \in Ops : Access(op)) \/ Return \/ LoadReplay \/ Compare

Spec == Init /\ [][Next]_vars
-------------------------------------------------------------------------------
\* The world w after the recorded effect of substate s.
SlotIn(acct, k) == {i \in DOMAIN acct.storage : acct.storage[i][1] = k}
Effect(s, w) ==
    [a \in Addr |->
        IF a \in DOMAIN s.output
        THEN LET o == s.output[a] IN
             Account(o, [k \in Key |->
                IF SlotIn(o, k) # {} THEN o.storage[CHOOSE i \in SlotIn(o, k) : TRUE][2]
                ELSE IF w[a] = Nil THEN 0 ELSE w[a].storage[k]])
        ELSE IF a \in DOMAIN s.input THEN Nil ELSE w[a]]

(***************************************************************************)
(* A correct decompiled program passes: when the second run leaves the     *)
(* loaded state as the recorded transaction does, EquivalentAlloc accepts, *)
(* whatever else the two runs read, wrote back or reverted on the way.     *)
(***************************************************************************)
AcceptsEqualEffects ==
    (phase = "done" /\ Effect(x, loaded) = World(db)) => eqAlloc

(***************************************************************************)
(* A wrong one does not: when EquivalentAlloc accepts, and the same        *)
(* accounts were deleted, the two runs leave the same state.               *)
(***************************************************************************)
RejectsOtherEffects ==
    (phase = "done" /\ eqAlloc /\ DeletedAccounts(x) = DeletedAccounts(y))
        => Effect(x, loaded) = World(db)

(***************************************************************************)
(* matchedSA, computed from the outputs, also speaks of the inputs: both   *)
(* runs read the same slots of every account that was there before and     *)
(* survives the recorded run.                                              *)
(***************************************************************************)
MatchedReadsSameSlots ==
    (phase = "done" /\ matchedSA) =>
        \A a \in DOMAIN x.output \cap DOMAIN x.input :
            /\ a \in DOMAIN y.input
            /\ \A k \in Key : SlotIn(x.input[a], k) # {} <=> SlotIn(y.input[a], k) # {}

(***************************************************************************)
(* "x and y must have same list of deleted accounts" (validation.go,       *)
(* EquivalentSideEffects).                                                 *)
(***************************************************************************)
SameDeletedAccounts ==
    (phase = "done" /\ eqAlloc) => DeletedAccounts(x) = DeletedAccounts(y)
===============================================================================
