------------------------------- MODULE Recorder -------------------------------
(***************************************************************************)
(* StateProcessor.Process with RecordSubstate (core/state_processor.go):   *)
(* the transactions of a block run one after the other on one StateDB;     *)
(* after each one its substate is saved and a goroutine runs CheckReplay,  *)
(* which replays the transaction on a fresh StateDB loaded from the        *)
(* substate and panics when the outputs differ.  When the block ends the   *)
(* consensus engine pays the reward and IntermediateRoot finalises once    *)
(* more, while replays may still be running.                               *)
(*                                                                         *)
(* A transaction is a sequence of StateDB accesses chosen step by step.    *)
(* The EVM is deterministic: a replay issues the same accesses as long as  *)
(* it has observed the same values, so obs records what each one returned. *)
(***************************************************************************)
EXTENDS EVMAccess

CONSTANTS
    Worlds,         \* the possible states at the start of the block
    Forks,          \* the kinds of blocks: their rules and the accesses made in them
    MaxTxs,         \* bound: transactions in the block
    MaxOps,         \* bound: accesses of the i-th transaction is MaxOps[i]
    MaxSpawned      \* bound: CheckReplay goroutines at the same time

\* An account of the state, and the accesses of a transaction.
AccountType == [nonce : 0..1, bal : 0..MaxBal, code : 0..1, storage : [Key -> Val]]
AccessType ==
    [kind : {"read"}, a : Addr]
    \cup [kind : {"sload"}, a : Addr, k : Key]
    \cup [kind : {"sstore"}, a : Addr, k : Key, v : Val]
    \cup [kind : {"call", "credit", "debit"}, a : Addr, n : Nat]
    \cup [kind : {"create"}, a : Addr, k : Key, v : Val,
         out : {"stored", "reverted", "unpaid"}]
    \cup [kind : {"kill", "kill6780"}, a : Addr, b : Addr]
    \cup [kind : {"snapshot"}] \cup [kind : {"revert"}, id : Nat]

ASSUME RecorderAssumption ==
    /\ MaxBal \in Nat /\ MaxTxs \in Nat
    /\ Worlds \subseteq [Addr -> AccountType \cup {Nil}]
    /\ \A f \in Forks : f.eip158 \in BOOLEAN /\ f.ops \subseteq AccessType

(***************************************************************************)
(* A creation that could not pay for its code left storage behind at an    *)
(* account without nonce and code, before EIP-158.  No contract is created *)
(* at such an address again: the address is made from the nonce of its     *)
(* creator, which was used then.                                           *)
(***************************************************************************)
Bare(x) == x.nonce = 0 /\ x.code = 0
Clean(x) == x # Nil /\ Bare(x) => \A k \in Key : x.storage[k] = 0
Made == {a \in Addr : \E f \in Forks : f.eip158 /\ \E op \in f.ops : op.kind = "create" /\ op.a = a}
ASSUME BareAssumption == \A w \in Worlds, a \in Made : Clean(w[a])

VARIABLES
    fork,       \* the kind of this block
    db,         \* the StateDB of the block
    phase,      \* "idle", "tx", "reward", "end"
    ntx,        \* SetTxContext calls so far
    script,     \* the accesses of the running transaction
    obs,        \* what they returned
    frames,     \* the revision ids of the open calls, the innermost last
    spawned,    \* substates whose CheckReplay has not finished
    panicked,   \* a CheckReplay found different outputs
    before,     \* history: the world when the transaction began
    snaps,      \* history: the world at each entry of db.revs
    saved       \* history: the last substate saved, with the world after it

vars == <<fork, db, phase, ntx, script, obs, frames, spawned, panicked,
          before, snaps, saved>>
-------------------------------------------------------------------------------
Init ==
    /\ fork \in Forks
    /\ \E w \in Worlds : db = New(w, fork.eip158)
    /\ phase = "idle" /\ ntx = 0
    /\ script = <<>> /\ obs = <<>> /\ frames = <<>>
    /\ spawned = {} /\ panicked = FALSE
    /\ before = World(db) /\ snaps = <<>> /\ saved = Nil

\* The head of the loop of Process: SetTxContext, then the message runs.
BeginTx ==
    /\ phase = "idle" /\ ~panicked
    /\ ntx < MaxTxs /\ Cardinality(spawned) < MaxSpawned
    /\ phase' = "tx" /\ ntx' = ntx + 1
    /\ db' = SetTxContext(db)
    /\ script' = <<>> /\ obs' = <<>> /\ frames' = <<>>
    /\ before' = World(db) /\ snaps' = <<>> /\ saved' = Nil
    /\ UNCHANGED <<fork, spawned, panicked>>

\* One access of the running transaction.
Access(op) ==
    /\ phase = "tx" /\ ~panicked
    /\ Len(script) < MaxOps[ntx] /\ Possible(db, op, frames)
    /\ LET r == Step(db, op) IN
        /\ db' = r.db
        /\ script' = Append(script, op) /\ obs' = Append(obs, r.obs)
        /\ snaps' = [i \in 1..Len(r.db.revs) |->
                        IF i <= Len(snaps) THEN snaps[i] ELSE World(db)]
    /\ frames' = CASE op.kind = "snapshot" -> Append(frames, Len(db'.revs))
                   [] op.kind = "revert" -> Front(frames)
                   [] OTHER -> frames
    /\ UNCHANGED <<fork, phase, ntx, spawned, panicked, before, saved>>

\* A call that succeeds keeps its revision: only an outer revert removes it.
Return ==
    /\ phase = "tx" /\ ~panicked /\ frames # <<>>
    /\ frames' = Front(frames)
    /\ UNCHANGED <<fork, db, phase, ntx, script, obs, spawned, panicked, before,
                   snaps, saved>>

\* The end of applyTransaction, SaveSubstate and the start of the goroutine.
EndTx ==
    /\ phase = "tx" /\ ~panicked /\ frames = <<>>
    /\ db' = SaveSubstate(Finalise(db, fork.eip158))
    /\ saved' = [input |-> db'.pre, output |-> db'.post, after |-> World(db')]
    /\ spawned' = spawned \cup {[tx |-> ntx, input |-> db'.pre,
                        output |-> db'.post, script |-> script, obs |-> obs]}
    /\ phase' = "idle" /\ script' = <<>> /\ obs' = <<>> /\ snaps' = <<>>
    /\ UNCHANGED <<fork, ntx, frames, panicked, before>>

(***************************************************************************)
(* CheckReplay: load the input on an empty StateDB, make the accesses      *)
(* again, finalise, and compare the outputs.  obs in the result lists what *)
(* the accesses returned: the EVM of the code would take another path at   *)
(* the first value that differs.                                           *)
(***************************************************************************)
Load(s) == SetTxContext(LoadSubstate(New([a \in Addr |-> Nil], fork.eip158), s.input))
Rerun(d, s) ==
    LET next(acc, op) == LET r == Step(acc.db, op) IN
                         [db |-> r.db, obs |-> Append(acc.obs, r.obs)]
    IN  FoldLeft(next, [db |-> d, obs |-> <<>>], s.script)
Same(end, s) ==
    /\ end.obs = s.obs
    /\ SaveSubstate(Finalise(end.db, fork.eip158)).post = s.output

CheckReplay(s) ==
    /\ ~panicked
    /\ spawned' = spawned \ {s}
    /\ \E d \in {Load(s)} : \E end \in {Rerun(d, s)} : panicked' = ~Same(end, s)
    /\ UNCHANGED <<fork, db, phase, ntx, script, obs, frames, before, snaps, saved>>

\* engine.Finalize: the block reward, or a withdrawal, for a.
Reward(a) ==
    /\ phase = "idle" /\ ~panicked
    /\ BalanceOf(db, a) < MaxBal
    /\ db' = AddBalance(db, a, 1)
    /\ phase' = "reward"
    /\ UNCHANGED <<fork, ntx, script, obs, frames, spawned, panicked, before,
                   snaps, saved>>

(***************************************************************************)
(* ValidateState: IntermediateRoot finalises again.  pre still holds the   *)
(* accounts of the last transaction, which are shared with its substate.   *)
(***************************************************************************)
ShareInput(s, d) ==
    IF s.tx # ntx THEN s
    ELSE [s EXCEPT !.input = [a \in DOMAIN @ |-> d.pre[a]]]

IntermediateRoot ==
    /\ phase \in {"idle", "reward"} /\ ~panicked
    /\ db' = Finalise(db, fork.eip158)
    /\ spawned' = {ShareInput(s, db') : s \in spawned}
    /\ phase' = "end" /\ saved' = Nil
    /\ UNCHANGED <<fork, ntx, script, obs, frames, panicked, before, snaps>>

Next ==
    \/ BeginTx
    \/ \E op \in fork.ops : Access(op)
    \/ Return
    \/ EndTx
    \/ \E s \in spawned : CheckReplay(s)
    \/ \E a \in Addr : Reward(a)
    \/ IntermediateRoot

Spec == Init /\ [][Next]_vars

-------------------------------------------------------------------------------
SlotEntries == Seq(Key \X Val)
IsAccount(x) ==
    /\ x.nonce \in 0..1 /\ x.bal \in 0..MaxBal /\ x.code \in 0..1
    /\ x.storage \in SlotEntries

(***************************************************************************)
(* Types of the recorded accounts and of the control variables, and what   *)
(* Finalise relies on when it dereferences the state object of every       *)
(* recorded account: the object is there, although a revert removes        *)
(* objects.                                                                *)
(***************************************************************************)
TypeOK ==
    /\ phase \in {"idle", "tx", "reward", "end"} /\ ntx \in 0..MaxTxs
    /\ Len(script) = Len(obs) /\ Len(snaps) = Len(db.revs)
    /\ DOMAIN db.obj \subseteq Addr /\ db.destruct \subseteq Addr
    /\ \A a \in DOMAIN db.pre : a \in Addr /\ (db.pre[a] = Nil \/ IsAccount(db.pre[a]))
    /\ \A a \in DOMAIN db.post : a \in Addr /\ IsAccount(db.post[a])
    /\ Recorded(db) \subseteq DOMAIN db.obj

(***************************************************************************)
(* Faithful replay: whenever the goroutine of a transaction gets to run,   *)
(* replaying the transaction from its InputAlloc alone returns at every    *)
(* access what the recording returned and produces the same OutputAlloc    *)
(* (CheckReplay: "not faithful replay - inconsistent output").             *)
(***************************************************************************)
FaithfulReplay == ~panicked

Slots(acct) == {acct.storage[i][1] : i \in DOMAIN acct.storage}
Slot(acct, k) ==
    acct.storage[CHOOSE i \in DOMAIN acct.storage : acct.storage[i][1] = k][2]
StrictlySorted(s) == \A i, j \in DOMAIN s : i < j => s[i][1] < s[j][1]

(***************************************************************************)
(* InputAlloc is a part of the world as it was before the transaction,     *)
(* whatever the transaction and the ones before it in the block did to the *)
(* accounts: no later value, no key of an earlier transaction or twice.    *)
(* Stated for EIP-158: before it, a creation that cannot pay for its code  *)
(* leaves storage behind which another creation at its address resets.     *)
(***************************************************************************)
InputIsPreState ==
    saved # Nil /\ fork.eip158 => \A a \in DOMAIN saved.input :
        LET x == saved.input[a] IN
        /\ before[a] # Nil
        /\ Account(x, <<>>) = Account(before[a], <<>>)
        /\ \A k \in Slots(x) : Slot(x, k) = before[a].storage[k]
        /\ StrictlySorted(x.storage)

(***************************************************************************)
(* The substate is the whole effect of the transaction: the world after it *)
(* is the world before it with the accounts of InputAlloc that are missing *)
(* in OutputAlloc removed and those of OutputAlloc written over it.        *)
(* Stated for EIP-158 too: the reset removes slots nobody touched.         *)
(***************************************************************************)
OutputIsEffect ==
    saved # Nil /\ fork.eip158 => \A a \in Addr :
        LET old == before[a]
            new == saved.after[a]
        IN  IF a \in DOMAIN saved.output
            THEN LET x == saved.output[a] IN
                 /\ new # Nil
                 /\ Account(x, <<>>) = Account(new, <<>>)
                 /\ \A k \in Key : new.storage[k] =
                        IF k \in Slots(x) THEN Slot(x, k)
                        ELSE IF old = Nil THEN 0 ELSE old.storage[k]
            ELSE new = IF a \in DOMAIN saved.input THEN Nil ELSE old

(***************************************************************************)
(* RevertToSnapshot brings back the world of its snapshot, through objects *)
(* created, reset and self-destructed in between, also inside a contract   *)
(* creation that fails.                                                    *)
(***************************************************************************)
RevertRestores ==
    [][(phase = "tx" /\ Len(script') > Len(script)) =>
        LET op == Last(script') IN
        /\ op.kind = "revert" => World(db') = snaps[op.id]
        /\ (op.kind = "create" /\ op.out = "reverted") => World(db') = World(db)]_vars
===============================================================================
