----------------------------- MODULE MCSubstateDB -----------------------------
(***************************************************************************)
(* Two transactions that share code c1: t1 creates a contract (its init    *)
(* code is c2, an account without code takes part), t2 is a call of an     *)
(* account whose code is zero bytes, with data that are the bytes of c2.   *)
(***************************************************************************)
EXTENDS SubstateDB, TLC

C1 == <<"c1">>
C2 == <<"c2">>
MCCode == {C1, C2}
MCContent ==
    [t \in Txs |->
        IF t = "t1"
        THEN [input |-> Nil, output |-> C1, hasTo |-> FALSE, data |-> C2]
        ELSE [input |-> Empty, output |-> C1, hasTo |-> TRUE, data |-> C2]]

WorkerSymmetry == Permutations(Workers)
===============================================================================
