--------------------------------- MODULE Flags ---------------------------------
(***************************************************************************)
(* --block-segment-list and --tx-list (substate_flags.go,                  *)
(* substate_task.go 36-77): the text is read element by element.  An       *)
(* element of the list of segments is [first, last, unit], last = -1 when  *)
(* it is missing; a line of the file is a sequence of numbers, its fields  *)
(* after '_' and ',' became blanks.  Numbers are W bits wide, and the      *)
(* units scaled down with W.                                               *)
(***************************************************************************)
EXTENDS Integers, Sequences, FiniteSets

CONSTANTS
    W,              \* 2^64
    Kilo, Mega,     \* 1_000 and 1_000_000
    Elements,       \* the segments that may be named
    Lines,          \* the lines of the transaction list
    MaxElements, MaxLines   \* bounds

VARIABLES
    list,       \* the elements parsed so far
    segments,   \* BlockSegmentList
    err,        \* ParseBlockSegmentList returned an error
    enabled,    \* TxListEnabled: a path was given
    lines,      \* the lines read so far
    blockSet, txSet, txBlockSet,    \* of SubstateTaskConfig
    done        \* the configuration is complete

vars == <<list, segments, err, enabled, lines, blockSet, txSet, txBlockSet, done>>

Unit(u) == CASE u = "k" -> Kilo [] u = "M" -> Mega [] OTHER -> 1

FirstBlock_Inclusive(e) ==
    IF e.unit = "" THEN e.first ELSE (e.first * Unit(e.unit)) % W

\* seg.First*1_000 + 1
FirstBlock(e) ==
    IF e.unit = "" THEN e.first ELSE (e.first * Unit(e.unit) + 1) % W

LastGiven(e) == IF e.last = -1 THEN e.first ELSE e.last

LastBlock(e) == (LastGiven(e) * Unit(e.unit)) % W

Parsed(e) == [first |-> FirstBlock(e), last |-> LastBlock(e)]

\* The regular expression takes a unit only after a last block.
Matches(e) == e.last = -1 => e.unit = ""

\* seg.First > seg.Last is an error
Ordered(s) == s.first <= s.last
-------------------------------------------------------------------------------
Init ==
    /\ list = <<>> /\ segments = <<>> /\ err = FALSE /\ enabled \in BOOLEAN /\ lines = <<>>
    /\ blockSet = {} /\ txSet = {} /\ txBlockSet = {} /\ done = FALSE

ParseBlockSegment(e) ==
    /\ ~err /\ ~done /\ lines = <<>> /\ Len(list) < MaxElements
    /\ list' = Append(list, e)
    /\ IF Matches(e) /\ Ordered(Parsed(e))
       THEN segments' = Append(segments, Parsed(e)) /\ err' = FALSE
       ELSE segments' = <<>> /\ err' = TRUE
    /\ UNCHANGED <<enabled, lines, blockSet, txSet, txBlockSet, done>>

\* One line: a block, a block and a transaction, or ignored.
ReadLine(l) ==
    /\ enabled /\ ~err /\ ~done /\ Len(lines) < MaxLines
    /\ lines' = Append(lines, l)
    /\ blockSet' = IF Len(l) = 1 THEN blockSet \union {l[1]} ELSE blockSet
    /\ txSet' = IF Len(l) = 2 THEN txSet \union {<<l[1], l[2]>>} ELSE txSet
    /\ UNCHANGED <<list, segments, err, enabled, txBlockSet, done>>

TxBlocks_Both == {x[1] : x \in {y \in txSet : y[1] \in blockSet}}

\* The blocks of which at least one transaction is listed.
TxBlocks == {x[1] : x \in txSet}

Configure ==
    /\ ~err /\ ~done
    /\ txBlockSet' = TxBlocks /\ done' = TRUE
    /\ UNCHANGED <<list, segments, err, enabled, lines, blockSet, txSet>>

Next ==
    \/ \E e \in Elements : ParseBlockSegment(e)
    \/ \E l \in Lines : ReadLine(l)
    \/ Configure

Spec == Init /\ [][Next]_vars
-------------------------------------------------------------------------------
IsBlockListed(b) == ~enabled \/ b \in blockSet \/ b \in txBlockSet

IsTxListed(b, t) == ~enabled \/ b \in blockSet \/ <<b, t>> \in txSet

\* ExecuteSegment visits the blocks of the segment, ExecuteBlock skips the
\* blocks and the transactions that are not listed.
Runs(b, t) ==
    /\ \E i \in DOMAIN segments : b \in segments[i].first .. segments[i].last
    /\ IsBlockListed(b) /\ IsTxListed(b, t)

Fits(e) == e.first * Unit(e.unit) + 1 < W /\ LastGiven(e) * Unit(e.unit) < W

\* What an element names: "<first>", "<first>-<last>", and (first, last] units.
Named(e) ==
    IF e.unit = "" THEN e.first .. LastGiven(e)
    ELSE (e.first * Unit(e.unit) + 1) .. (LastGiven(e) * Unit(e.unit))

NamesTx(l, b, t) == l = <<b>> \/ l = <<b, t>>
-------------------------------------------------------------------------------
\* The parser never hands out a segment whose loop would not run, every given
\* segment is there unless one was refused, and numbers keep their width.
TypeOK ==
    /\ \A i \in DOMAIN segments :
        /\ segments[i].first \in 0..(W - 1) /\ segments[i].last \in 0..(W - 1)
        /\ segments[i].first <= segments[i].last
    /\ err \/ Len(segments) = Len(list)

\* The transactions that run are those that a segment and a line of the list
\* name: a transaction listed alone is not lost because its block is not, and a
\* line of another length selects nothing.
SelectsWhatIsNamed ==
    done => \A b \in 0..(W - 1), t \in 0..1 :
        Runs(b, t) <=>
            /\ \E i \in DOMAIN list : b \in Named(list[i])
            /\ enabled => \E i \in DOMAIN lines : NamesTx(lines[i], b, t)

\* Segments whose ends meet in the same unit (0-1M,1-2M) split the chain: no
\* block is in both and none is left out between them.
SegmentsMeet ==
    ~err => \A i, j \in DOMAIN list :
        LET e == list[i]
            g == list[j]
        IN e.unit # "" /\ e.unit = g.unit /\ LastGiven(e) = g.first /\ Fits(e) /\ Fits(g)
            => segments[j].first = segments[i].last + 1
===============================================================================
