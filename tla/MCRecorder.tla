------------------------------ MODULE MCRecorder ------------------------------
(***************************************************************************)
(* Small blocks for Recorder.  Address 1 is a contract with one slot set   *)
(* (or absent), address 2 is absent, empty, or holds ether only.           *)
(***************************************************************************)
EXTENDS Recorder

MCAddr == {1, 2}
Contract ==
    [nonce |-> 1, bal |-> 1, code |-> 1, storage |-> [k \in Key |-> k % 2]]
Empty == [nonce |-> 0, bal |-> 0, code |-> 0, storage |-> [k \in Key |-> 0]]
Wallet == [Empty EXCEPT !.bal = 1]

MCWorlds == {<<Contract, x>> : x \in {Nil, Empty, Wallet}}

Revert == {[kind |-> "revert", id |-> i] : i \in 1..2}
Frames == {[kind |-> "snapshot"]} \cup Revert
Storage == {[kind |-> "sload", a |-> 1, k |-> k] : k \in Key}
    \cup {[kind |-> "sstore", a |-> 1, k |-> k, v |-> v] : k \in Key, v \in Val}
Transfers ==
    {[kind |-> "call", a |-> a, n |-> n] : a \in {2}, n \in {0, 1}}
    \cup {[kind |-> "credit", a |-> 2, n |-> 0], [kind |-> "debit", a |-> 2, n |-> 1]}
Reads == {[kind |-> "read", a |-> a] : a \in MCAddr}
Creates == {[kind |-> "create", a |-> 2, k |-> 1, v |-> 1, out |-> out] :
                out \in {"stored", "reverted", "unpaid"}}
Kills(kind) == {[kind |-> kind, a |-> a, b |-> b] : a \in MCAddr, b \in MCAddr}

\* A transaction that reads, writes and pays, with calls that revert.
StorageOps == Storage \cup Reads \cup Transfers \cup Frames
\* Contracts that come and go: creation, use and destruction.
LifeOps ==
    Creates \cup Kills("kill") \cup Frames
    \cup {[kind |-> "sload", a |-> a, k |-> 1] : a \in MCAddr}
    \cup {[kind |-> "sstore", a |-> a, k |-> 1, v |-> 0] : a \in MCAddr}
    \cup {[kind |-> "call", a |-> 2, n |-> 1]}
LifeOps6780 == (LifeOps \ Kills("kill")) \cup Kills("kill6780")

\* Byzantium to Shanghai, Cancun, and Frontier.
MCForks ==
    {[eip158 |-> TRUE, ops |-> StorageOps], [eip158 |-> TRUE, ops |-> LifeOps],
     [eip158 |-> TRUE, ops |-> LifeOps6780], [eip158 |-> FALSE, ops |-> LifeOps]}

Three_Two == <<3, 2>>
===============================================================================
