------------------------------- MODULE Segment -------------------------------
(***************************************************************************)
(* What SubstateTaskPool.ExecuteSegment promises to its callers (replay,   *)
(* clone, record-trace, validate-tac, ...), with no goroutine in sight:    *)
(* it calls TaskFunc for the selected transactions of the segment, at most *)
(* once each and in any order, and returns.  A nil result means that every *)
(* selected transaction has run successfully, an error names a block that  *)
(* holds one whose TaskFunc may fail, and once the call has returned no    *)
(* task runs.                                                              *)
(***************************************************************************)
CONSTANTS
    Block,          \* the block numbers of the segment
    Selected(_),    \* Selected(b): the transactions of b TaskFunc is called for
    MayFail         \* the <<block, tx>> pairs whose TaskFunc can return an error

VARIABLES
    ran,            \* <<block, tx>> pairs whose TaskFunc returned nil
    ret,            \* "none" while the call is under way, then "nil" or "err"
    retBlock        \* the block an error is about

segVars == <<ran, ret, retBlock>>

AllTx == UNION {{<<b, t>> : t \in Selected(b)} : b \in Block}

SegInit ==
    /\ ran = {}
    /\ ret = "none"
    /\ retBlock \in Block

\* TaskFunc returns nil for one more transaction.
RunTask ==
    /\ ret = "none"
    /\ \E p \in AllTx \ ran : ran' = ran \cup {p}
    /\ UNCHANGED <<ret, retBlock>>

ReturnNil ==
    /\ ret = "none"
    /\ ran = AllTx
    /\ ret' = "nil"
    /\ UNCHANGED <<ran, retBlock>>

ReturnErr ==
    /\ ret = "none"
    /\ \E b \in Block : /\ \E t \in Selected(b) : <<b, t>> \in MayFail
                        /\ retBlock' = b
    /\ ret' = "err"
    /\ UNCHANGED ran

SegNext == RunTask \/ ReturnNil \/ ReturnErr

SegSpec == SegInit /\ [][SegNext]_segVars
=============================================================================
