------------------------------- MODULE EVMAccess -------------------------------
(***************************************************************************)
(* The accesses of a running transaction to the StateDB, as the EVM makes  *)
(* them (core/vm/evm.go and instructions.go).  They serve a transaction    *)
(* that is recorded, its replay, and the run of its decompiled code.       *)
(***************************************************************************)
EXTENDS StateDB

CONSTANT MaxBal     \* bound: balances

(***************************************************************************)
(* What the EVM does to the StateDB.  Step(d, op) is the StateDB after op  *)
(* and what op returned.                                                   *)
(***************************************************************************)
View(d, a) ==
    IF Live(d, a) THEN <<d.obj[a].nonce, d.obj[a].bal, d.obj[a].code>> ELSE <<>>

\* BALANCE, EXTCODE*, EXIST...: any read of an account.
Seen(d, a) == [db |-> d, obs |-> View(d, a)]
Read(d, a) == Seen(getStateObject(d, a), a)

SlotSeen(d, a, k) == [db |-> d, obs |-> <<currentState(d, a, k)>>]
Sload(d, a, k) == SlotSeen(GetState(d, a, k), a, k)

\* The gas of SSTORE depends on the current and on the committed value.
SlotSet(d, a, k, v) ==
    [db |-> SetState(d, a, k, v),
     obs |-> <<currentState(d, a, k), committedState(d, a, k)>>]
Sstore(d, a, k, v) == SlotSet(GetState(d, a, k), a, k, v)

\* EVM.Call between its Snapshot and the run of the code: the callee appears
\* if it must.  The caller's side of the Transfer is a "debit".
Called(d, a, n) ==
    [db |-> IF Live(d, a) THEN AddBalance(d, a, n)
            ELSE IF d.eip158 /\ n = 0 THEN d
            ELSE AddBalance(CreateAccount(d, a), a, n),
     obs |-> View(d, a)]
Call(d, a, n) == Called(getStateObject(d, a), a, n)

(***************************************************************************)
(* EVM.create, without value, of a contract whose init code writes slot k. *)
(* The code is "stored", or the creation is "reverted", or, before         *)
(* Homestead, the gas does not pay for the code and the account stays      *)
(* without it ("unpaid").                                                  *)
(***************************************************************************)
FirstNonce(d, a) == IF d.eip158 THEN SetNonce(d, a, 1) ELSE d
RunInit(d, a, k, v, out, id) ==
    LET e == SetState(AddBalance(d, a, 0), a, k, v) IN
    CASE out = "stored" -> SetCode(e, a, 1)
      [] out = "reverted" -> RevertToSnapshot(e, id)
      [] out = "unpaid" -> e
NewContract(d, a, k, v, out) ==
    RunInit(FirstNonce(CreateAccount(Snapshot(d), a), a),
            a, k, v, out, Len(d.revs) + 1)
Collision(d, a) == Live(d, a) /\ (d.obj[a].nonce # 0 \/ d.obj[a].code # 0)
Created(d, a, k, v, out) ==
    [db |-> IF Collision(d, a) THEN d ELSE NewContract(d, a, k, v, out),
     obs |-> View(d, a)]

Create_NoRead(d, a, k, v, out) ==        \* mutant: no look at what is there
    [db |-> NewContract(d, a, k, v, out), obs |-> <<>>]
Create(d, a, k, v, out) == Created(getStateObject(d, a), a, k, v, out)

\* SELFDESTRUCT of contract a in favour of b, before and after EIP-6780.
Killed(d, a, b) ==
    [db |-> SelfDestruct(AddBalance(d, b, d.obj[a].bal), a),
     obs |-> <<d.obj[a].bal, d.obj[a].selfDestructed>>]
Kill(d, a, b) == Killed(getStateObject(d, a), a, b)

Killed6780(d, a, b) ==
    LET n == d.obj[a].bal IN
    [db |-> Selfdestruct6780(AddBalance(SubBalance(d, a, n), b, n), a),
     obs |-> <<n>>]
Kill6780(d, a, b) == Killed6780(getStateObject(d, a), a, b)

Step(d, op) ==
    CASE op.kind = "read" -> Read(d, op.a)
      [] op.kind = "sload" -> Sload(d, op.a, op.k)
      [] op.kind = "sstore" -> Sstore(d, op.a, op.k, op.v)
      [] op.kind = "call" -> Call(d, op.a, op.n)
      [] op.kind = "credit" -> [db |-> AddBalance(d, op.a, op.n), obs |-> <<>>]
      [] op.kind = "debit" -> [db |-> SubBalance(d, op.a, op.n), obs |-> <<>>]
      [] op.kind = "create" -> Create(d, op.a, op.k, op.v, op.out)
      [] op.kind = "kill" -> Kill(d, op.a, op.b)
      [] op.kind = "kill6780" -> Kill6780(d, op.a, op.b)
      [] op.kind = "snapshot" -> [db |-> Snapshot(d), obs |-> <<>>]
      [] op.kind = "revert" -> [db |-> RevertToSnapshot(d, op.id), obs |-> <<>>]

(***************************************************************************)
(* When the EVM can make an access: storage and SELFDESTRUCT belong to a   *)
(* contract that runs, a debit is covered, a revert ends an open call.     *)
(***************************************************************************)
BalanceOf(d, a) == IF World(d)[a] = Nil THEN 0 ELSE World(d)[a].bal
HasCode(d, a) == World(d)[a] # Nil /\ World(d)[a].code # 0
Possible(d, op, frames) ==
    CASE op.kind \in {"read", "snapshot"} -> TRUE
      [] op.kind \in {"sload", "sstore"} -> HasCode(d, op.a)
      [] op.kind \in {"kill", "kill6780"} ->
            HasCode(d, op.a) /\ BalanceOf(d, op.a) + BalanceOf(d, op.b) <= MaxBal
      [] op.kind \in {"call", "credit"} -> BalanceOf(d, op.a) + op.n <= MaxBal
      [] op.kind = "debit" -> BalanceOf(d, op.a) >= op.n
      [] op.kind = "create" -> op.out = "unpaid" => ~d.eip158
      [] op.kind = "revert" -> frames # <<>> /\ op.id = Last(frames)
===============================================================================
