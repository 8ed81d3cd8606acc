----------------------------- MODULE MCTaskPool -----------------------------
(***************************************************************************)
(* Small instances of TaskPool: segments 1-4 and 1-3 with at most two      *)
(* transactions per block, among them one that a skip flag removes.        *)
(***************************************************************************)
EXTENDS TaskPool, TLC

\* What the database holds for blocks 1-4, and the part in the segment.
MCStored ==
    <<(0 :> "call" @@ 1 :> "absent"), (0 :> "transfer" @@ 1 :> "create"),
      (0 :> "none" @@ 1 :> "call"), (0 :> "create" @@ 1 :> "none")>>
MCKind == [b \in Block |-> MCStored[b]]
MCSkip == {"transfer"}
\* 1_0, 2_1 and 3_1 are listed by their block or by themselves
MCTxSet == {<<1, 0>>, <<3, 1>>}
MCBlockSet == {2}
MCMayFail == {<<1, 0>>, <<2, 1>>}
=============================================================================
