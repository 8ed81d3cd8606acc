---------------------------- MODULE MCValidateCmd ----------------------------
(***************************************************************************)
(* A bounded instance of ValidateCmd: validate-tac (no transaction has a   *)
(* trace to compare with) and detect-deviation-tac, whose tasks may fail,  *)
(* with --run-out-of-gas.                                                  *)
(***************************************************************************)
EXTENDS ValidateCmd

SelectedTxs(b) == IF b = 1 THEN {0, 1} ELSE {0}

Call(allowed, empty, row, apply, sub, res, equal) ==
    [allowed |-> allowed, empty |-> empty, row |-> row, apply |-> apply,
     sub |-> sub, res |-> res, equal |-> equal]

Good == Call(TRUE, FALSE, TRUE, "none", "none", "none", TRUE)
Wrong == Call(TRUE, FALSE, TRUE, "none", "none", "reverted", FALSE)
NoRow == Call(TRUE, FALSE, FALSE, "none", "none", "none", TRUE)
\* ApplyMessage refuses the transaction before any code runs.
Invalid == Call(TRUE, FALSE, FALSE, "invalid", "none", "none", FALSE)
Empty == Call(TRUE, TRUE, TRUE, "none", "none", "none", TRUE)
Late == Call(TRUE, FALSE, TRUE, "none", "TACTimeout", "TACTimeout", FALSE)
Panicked == Call(TRUE, FALSE, TRUE, "TACPanic", "none", "none", FALSE)
\* A TAC error that the EVM caller of the isolated call takes for a failed call,
\* as the recorded one was.
Hidden == Call(TRUE, FALSE, TRUE, "none", "TACPanic", "none", TRUE)

Tx(to, oog, calls) ==
    {[check |-> c, toContract |-> to, outOfGas |-> oog, calls |-> calls] : c \in BOOLEAN}

MCTxs == Tx(TRUE, TRUE, <<Good, Wrong, NoRow>>) \cup Tx(TRUE, TRUE, <<Invalid, Empty>>)
         \cup Tx(TRUE, TRUE, <<Late>>) \cup Tx(TRUE, TRUE, <<Hidden, Empty, Panicked>>)
         \cup Tx(FALSE, TRUE, <<Good>>) \cup Tx(TRUE, FALSE, <<Good>>)

MCMayFail == {<<1, 0>>, <<2, 0>>}
AllCalls == -1

\* The assumption of the theorems about ValidateCmd.
ASSUME CommandConfigured == Configured
===============================================================================
