-------------------------- MODULE ValidateCmdProofs --------------------------
(***************************************************************************)
(* Proofs about ValidateCmd, for any segment, any transactions, any flags, *)
(* any number of workers and any capacity of statChan: rows reach the file *)
(* complete, once and in order, and the printed counts are those of the    *)
(* file.  The argument follows a row from valResults of its task through   *)
(* the channel, the received batch and the buffer: the pipeline that the   *)
(* channel and the received rows make is described by Pipe, a formula on   *)
(* values only, which sending and receiving a batch keep.                  *)
(***************************************************************************)
EXTENDS ValidateCmd, FiniteSetTheorems, SequenceTheorems, TLAPS

\* Wanted, RowOf, Holds and From for the transactions t.
CallsOf(t, p) == {i \in 1..Execs(t[p]) : HasRow(t[p], i)}
RowAt(t, p, i) == [tx |-> p, idx |-> i - 1, cat |-> Verdict(t[p].calls[i], t[p].check)]
HoldsAll(t, s, p) == \A i \in CallsOf(t, p) : \E n \in 1..Len(s) : s[n] = RowAt(t, p, i)
OnlyOf(t, s, q) ==
    \A n \in 1..Len(s) : \E p \in q : \E i \in CallsOf(t, p) : s[n] = RowAt(t, p, i)

\* The batches in the channel, and they and the received rows together.
Batches(t, q, ch, s) ==
    /\ \A k \in 1..Len(ch) :
        /\ ch[k] # <<>> /\ Ordered(ch[k])
        /\ \E p \in q : OnlyOf(t, ch[k], {p}) /\ HoldsAll(t, ch[k], p)
        /\ \A n \in 1..Len(s) : s[n].tx # ch[k][1].tx
    /\ \A k, l \in 1..Len(ch) : k # l => ch[k][1].tx # ch[l][1].tx
Arrived(t, q, ch, s) ==
    /\ Ordered(s) /\ OnlyOf(t, s, q)
    /\ \A p \in q : HoldsAll(t, s, p) \/ \E k \in 1..Len(ch) : HoldsAll(t, ch[k], p)
Pipe(t, q, ch, s) == Batches(t, q, ch, s) /\ Arrived(t, q, ch, s)

\* SoFar for the position a and the rows s of the task p.
Past(t, a, s, p) ==
    /\ Ordered(s) /\ OnlyOf(t, s, {p})
    /\ \A n \in 1..Len(s) : s[n].idx + 1 < a
    /\ \A i \in CallsOf(t, p) : i < a => \E n \in 1..Len(s) : s[n] = RowAt(t, p, i)

\* The counts of the categories are those of the rows s.
CountsOf(cn, s) == \A c \in Cats : cn[c] = Cardinality({n \in 1..Len(s) : s[n].cat = c})
-------------------------------------------------------------------------------
\* The invariant of the model says what the formulas on values say.
LEMMA PipeIs ==
    /\ ChanInv /\ ReceivedInv <=> Pipe(txs, ran, chan, Received)
    /\ (ChanInv /\ ReceivedInv)' <=> Pipe(txs', ran', chan', Received')
PROOF
  <1>1. ChanInv <=> Batches(txs, ran, chan, Received)
    BY DEF ChanInv, Batches, OnlyOf, HoldsAll, From, Holds, CallsOf, Wanted, RowAt, RowOf
  <1>2. ReceivedInv <=> Arrived(txs, ran, chan, Received)
    BY DEF ReceivedInv, Arrived, OnlyOf, HoldsAll, From, Holds, CallsOf, Wanted, RowAt, RowOf
  <1>3. ChanInv' <=> Batches(txs', ran', chan', Received')
    BY DEF ChanInv, Batches, OnlyOf, HoldsAll, From, Holds, CallsOf, Wanted, RowAt, RowOf
  <1>4. ReceivedInv' <=> Arrived(txs', ran', chan', Received')
    BY DEF ReceivedInv, Arrived, OnlyOf, HoldsAll, From, Holds, CallsOf, Wanted, RowAt, RowOf
  <1> QED BY <1>1, <1>2, <1>3, <1>4 DEF Pipe

LEMMA PastIs ==
    ASSUME NEW p
    PROVE  /\ SoFar(p) <=> Past(txs, at[p], rows[p], p)
           /\ SoFar(p)' <=> Past(txs', at'[p], rows'[p], p)
BY DEF SoFar, Past, OnlyOf, From, CallsOf, Wanted, RowAt, RowOf
-------------------------------------------------------------------------------
\* validateTacSubstateWithTrace gives a result of a known category, and no
\* execution is of a call the trace does not have.
LEMMA VerdictCat ==
    ASSUME Configured, NEW c \in CallRec, NEW b, c.row
    PROVE  Verdict(c, b) \in Cats
BY DEF Configured, CallRec, CallResult, Verdict, Cats, GlobalErr

LEMMA ExecsBound ==
    ASSUME Configured, NEW tx \in TxRec
    PROVE  Execs(tx) \in Nat /\ Execs(tx) <= Len(tx.calls)
PROOF
  <1>1. Len(tx.calls) \in Nat /\ Len(tx.calls) >= 1 BY DEF TxRec
  <1>2. Repeat(tx) \in Nat /\ Repeat(tx) <= Len(tx.calls) BY <1>1 DEF Repeat
  <1> QED BY <1>1, <1>2 DEF Execs

LEMMA RowType ==
    ASSUME Configured, NEW t \in [AllTx -> Txs], NEW p \in AllTx, NEW i \in CallsOf(t, p)
    PROVE  /\ i \in Nat /\ i >= 1
           /\ t[p].calls[i] \in CallRec
           /\ RowAt(t, p, i) \in Row
           /\ RowAt(t, p, i).tx = p /\ RowAt(t, p, i).idx = i - 1
           /\ RowAt(t, p, i).cat = Verdict(t[p].calls[i], t[p].check)
PROOF
  <1>1. t[p] \in TxRec BY DEF Configured
  <1>2. Execs(t[p]) \in Nat /\ Execs(t[p]) <= Len(t[p].calls) BY <1>1, ExecsBound
  <1>3. i \in 1..Execs(t[p]) BY DEF CallsOf
  <1>4. t[p].calls \in Seq(CallRec) BY <1>1 DEF TxRec
  <1>5. t[p].calls[i] \in CallRec BY <1>2, <1>3, <1>4
  <1>6. Verdict(t[p].calls[i], t[p].check) \in Cats
    <2>1. t[p].calls[i].row BY DEF CallsOf, HasRow
    <2> QED BY <1>5, <2>1, VerdictCat
  <1> QED BY <1>2, <1>3, <1>5, <1>6 DEF RowAt, Row

\* The rows of a batch are of its task.
LEMMA OneTask ==
    ASSUME Configured, NEW t \in [AllTx -> Txs], NEW p \in AllTx, NEW s, OnlyOf(t, s, {p})
    PROVE  \A n \in 1..Len(s) : s[n].tx = p /\ s[n] \in Row
BY RowType DEF OnlyOf
-------------------------------------------------------------------------------
\* Two ordered sequences of different transactions, one after the other.
LEMMA OrderedConcat ==
    ASSUME NEW s \in Seq(Row), NEW u \in Seq(Row), Ordered(s), Ordered(u),
           \A i \in 1..Len(s), j \in 1..Len(u) : s[i].tx # u[j].tx
    PROVE  Ordered(s \o u)
PROOF
  <1> DEFINE w == s \o u
  <1>1. /\ w \in Seq(Row) /\ Len(w) = Len(s) + Len(u)
        /\ \A i \in 1..Len(s) : w[i] = s[i]
        /\ \A i \in Len(s) + 1..Len(s) + Len(u) : i - Len(s) \in 1..Len(u) /\ w[i] = u[i - Len(s)]
    OBVIOUS
  <1> HIDE DEF w
  <1> SUFFICES ASSUME NEW i \in 1..Len(w), NEW j \in 1..Len(w), i < j, w[i].tx = w[j].tx
               PROVE  w[i].idx < w[j].idx /\ \A k \in i..j : w[k].tx = w[i].tx
    BY DEF Ordered, w
  <1>2. CASE j <= Len(s)
    <2>1. w[i] = s[i] /\ w[j] = s[j] /\ i \in 1..Len(s) /\ j \in 1..Len(s) BY <1>1, <1>2
    <2>2. \A k \in i..j : w[k] = s[k] BY <1>1, <1>2
    <2> QED BY <2>1, <2>2 DEF Ordered
  <1>3. CASE i > Len(s)
    <2> DEFINE a == i - Len(s)
               b == j - Len(s)
    <2>1. a \in 1..Len(u) /\ b \in 1..Len(u) /\ a < b /\ w[i] = u[a] /\ w[j] = u[b]
      BY <1>1, <1>3
    <2>2. \A k \in i..j : k - Len(s) \in a..b /\ w[k] = u[k - Len(s)] BY <1>1, <1>3
    <2> HIDE DEF a, b
    <2>3. u[a].idx < u[b].idx /\ \A k \in a..b : u[k].tx = u[a].tx BY <2>1 DEF Ordered
    <2> QED BY <2>1, <2>2, <2>3
  <1>4. CASE i <= Len(s) /\ j > Len(s)
    <2>1. j - Len(s) \in 1..Len(u) /\ w[j] = u[j - Len(s)] /\ w[i] = s[i] /\ i \in 1..Len(s)
      BY <1>1, <1>4
    <2> QED BY <2>1
  <1> QED BY <1>2, <1>3, <1>4, <1>1

\* One more row of the same transaction, of a later call.
LEMMA OrderedAppend ==
    ASSUME NEW s \in Seq(Row), NEW r \in Row, Ordered(s),
           \A n \in 1..Len(s) : s[n].tx = r.tx /\ s[n].idx < r.idx
    PROVE  Ordered(Append(s, r))
PROOF
  <1> DEFINE w == Append(s, r)
  <1>1. /\ w \in Seq(Row) /\ Len(w) = Len(s) + 1 /\ Len(s) \in Nat
        /\ \A i \in 1..Len(s) : w[i] = s[i]
        /\ w[Len(w)] = r
    OBVIOUS
  <1> HIDE DEF w
  <1>2. \A k \in 1..Len(w) : w[k].tx = r.tx BY <1>1
  <1> SUFFICES ASSUME NEW i \in 1..Len(w), NEW j \in 1..Len(w), i < j, w[i].tx = w[j].tx
               PROVE  w[i].idx < w[j].idx
    BY <1>2, <1>1 DEF Ordered, w
  <1>3. CASE j = Len(w) BY <1>1, <1>3
  <1>4. CASE j # Len(w)
    <2>1. w[i] = s[i] /\ w[j] = s[j] /\ i \in 1..Len(s) /\ j \in 1..Len(s) BY <1>1, <1>4
    <2> QED BY <2>1 DEF Ordered
  <1> QED BY <1>3, <1>4
-------------------------------------------------------------------------------
\* FinishTask: the rows of a task that returns enter the channel.
LEMMA PipeSend ==
    ASSUME Configured, NEW t \in [AllTx -> Txs], NEW q \in SUBSET AllTx,
           NEW ch \in Seq(Seq(Row)), NEW s \in Seq(Row), Pipe(t, q, ch, s),
           NEW p \in AllTx, p \notin q, NEW b \in Seq(Row),
           Ordered(b), OnlyOf(t, b, {p}), HoldsAll(t, b, p)
    PROVE  Pipe(t, q \cup {p}, IF b = <<>> THEN ch ELSE Append(ch, b), s)
PROOF
  <1>a. OnlyOf(t, s, q) BY DEF Pipe, Arrived
  <1>b. OnlyOf(t, s, q \cup {p}) BY <1>a DEF OnlyOf
  <1>c. \A n \in 1..Len(s) : s[n].tx \in q
    <2> SUFFICES ASSUME NEW n \in 1..Len(s) PROVE s[n].tx \in q OBVIOUS
    <2>1. PICK x \in q : \E i \in CallsOf(t, x) : s[n] = RowAt(t, x, i) BY <1>a DEF OnlyOf
    <2>2. PICK i \in CallsOf(t, x) : s[n] = RowAt(t, x, i) BY <2>1
    <2>3. x \in AllTx OBVIOUS
    <2> QED BY <2>2, <2>3, RowType
  <1>d. \A k \in 1..Len(ch) : ch[k][1].tx \in q
    <2> SUFFICES ASSUME NEW k \in 1..Len(ch) PROVE ch[k][1].tx \in q OBVIOUS
    <2>1. PICK x \in q : OnlyOf(t, ch[k], {x}) BY DEF Pipe, Batches
    <2>2. ch[k] # <<>> /\ ch[k] \in Seq(Row) BY DEF Pipe, Batches
    <2>3. 1 \in 1..Len(ch[k]) BY <2>2
    <2>4. x \in AllTx OBVIOUS
    <2> DEFINE u == ch[k]
    <2>5. OnlyOf(t, u, {x}) /\ 1 \in 1..Len(u) BY <2>1, <2>3
    <2> HIDE DEF u
    <2>6. \A n \in 1..Len(u) : u[n].tx = x BY <2>4, <2>5, OneTask
    <2> QED BY <2>5, <2>6 DEF u
  <1>1. CASE b = <<>>
    <2>1. Batches(t, q \cup {p}, ch, s) BY DEF Pipe, Batches
    <2>2. HoldsAll(t, s, p)
      BY <1>1 DEF HoldsAll
    <2>3. Arrived(t, q \cup {p}, ch, s) BY <1>b, <2>2 DEF Pipe, Arrived
    <2> QED BY <1>1, <2>1, <2>3 DEF Pipe
  <1>2. CASE b # <<>>
    <2> DEFINE c == Append(ch, b)
    <2>1. /\ Len(c) = Len(ch) + 1 /\ Len(ch) \in Nat
          /\ \A k \in 1..Len(ch) : c[k] = ch[k]
          /\ c[Len(ch) + 1] = b
      OBVIOUS
    <2> HIDE DEF c
    <2>2. b[1].tx = p
      <3>1. 1 \in 1..Len(b) BY <1>2
      <3> QED BY <3>1, OneTask
    <2>3. \A k \in 1..Len(c) : k \in 1..Len(ch) \/ k = Len(ch) + 1 BY <2>1
    <2>4. \A k \in 1..Len(c) :
            /\ c[k] # <<>> /\ Ordered(c[k])
            /\ \E x \in q \cup {p} : OnlyOf(t, c[k], {x}) /\ HoldsAll(t, c[k], x)
            /\ \A n \in 1..Len(s) : s[n].tx # c[k][1].tx
      <3> SUFFICES ASSUME NEW k \in 1..Len(c)
                   PROVE  /\ c[k] # <<>> /\ Ordered(c[k])
                          /\ \E x \in q \cup {p} : OnlyOf(t, c[k], {x}) /\ HoldsAll(t, c[k], x)
                          /\ \A n \in 1..Len(s) : s[n].tx # c[k][1].tx
        OBVIOUS
      <3>1. CASE k \in 1..Len(ch) BY <3>1, <2>1 DEF Pipe, Batches
      <3>2. CASE k = Len(ch) + 1 BY <3>2, <2>1, <2>2, <1>2, <1>c
      <3> QED BY <3>1, <3>2, <2>3
    <2>5. \A k, l \in 1..Len(c) : k # l => c[k][1].tx # c[l][1].tx
      <3> SUFFICES ASSUME NEW k \in 1..Len(c), NEW l \in 1..Len(c), k # l
                   PROVE  c[k][1].tx # c[l][1].tx
        OBVIOUS
      <3>1. CASE k \in 1..Len(ch) /\ l \in 1..Len(ch) BY <3>1, <2>1 DEF Pipe, Batches
      <3>2. CASE k = Len(ch) + 1 /\ l \in 1..Len(ch) BY <3>2, <2>1, <2>2, <1>d
      <3>3. CASE k \in 1..Len(ch) /\ l = Len(ch) + 1 BY <3>3, <2>1, <2>2, <1>d
      <3> QED BY <3>1, <3>2, <3>3, <2>3
    <2>6. Batches(t, q \cup {p}, c, s) BY <2>4, <2>5 DEF Batches
    <2>7. \A x \in q \cup {p} : HoldsAll(t, s, x) \/ \E k \in 1..Len(c) : HoldsAll(t, c[k], x)
      <3>1. \E k \in 1..Len(c) : HoldsAll(t, c[k], p) BY <2>1
      <3>2. \A k \in 1..Len(ch) : k \in 1..Len(c) /\ c[k] = ch[k] BY <2>1
      <3> QED BY <3>1, <3>2 DEF Pipe, Arrived
    <2>8. Arrived(t, q \cup {p}, c, s) BY <2>7, <1>b DEF Pipe, Arrived
    <2> QED BY <1>2, <2>6, <2>8 DEF Pipe, c
  <1> QED BY <1>1, <1>2

\* Receive: the first batch leaves the channel.
LEMMA PipeReceive ==
    ASSUME Configured, NEW t \in [AllTx -> Txs], NEW q \in SUBSET AllTx,
           NEW ch \in Seq(Seq(Row)), NEW s \in Seq(Row), Pipe(t, q, ch, s), ch # <<>>
    PROVE  Pipe(t, q, Tail(ch), s \o Head(ch))
PROOF
  <1> DEFINE b == Head(ch)
             c == Tail(ch)
             w == s \o b
  <1>1. /\ b \in Seq(Row) /\ c \in Seq(Seq(Row)) /\ 1 \in 1..Len(ch) /\ b = ch[1]
        /\ Len(c) = Len(ch) - 1 /\ Len(ch) \in Nat
        /\ \A k \in 1..Len(c) : k + 1 \in 1..Len(ch) /\ c[k] = ch[k + 1]
        /\ \A k \in 1..Len(ch) : k = 1 \/ (k - 1 \in 1..Len(c) /\ c[k - 1] = ch[k])
    OBVIOUS
  <1> HIDE DEF b, c
  <1>2. /\ w \in Seq(Row) /\ Len(w) = Len(s) + Len(b) /\ Len(s) \in Nat /\ Len(b) \in Nat
        /\ \A n \in 1..Len(s) : n \in 1..Len(w) /\ w[n] = s[n]
        /\ \A n \in 1..Len(b) : Len(s) + n \in 1..Len(w) /\ w[Len(s) + n] = b[n]
        /\ \A n \in 1..Len(w) : \/ n \in 1..Len(s) /\ w[n] = s[n]
                                \/ n - Len(s) \in 1..Len(b) /\ w[n] = b[n - Len(s)]
    BY <1>1
  <1> HIDE DEF w
  <1>3. PICK p \in q : OnlyOf(t, b, {p}) /\ HoldsAll(t, b, p) BY <1>1 DEF Pipe, Batches
  <1>4. b # <<>> /\ Ordered(b) BY <1>1 DEF Pipe, Batches
  <1>5. \A n \in 1..Len(b) : b[n].tx = b[1].tx
    <2>1. 1 \in 1..Len(b) BY <1>4, <1>1
    <2>2. p \in AllTx OBVIOUS
    <2>3. \A n \in 1..Len(b) : b[n].tx = p BY <1>3, <2>2, OneTask
    <2> QED BY <2>1, <2>3
  <1>6. \A n \in 1..Len(s) : s[n].tx # b[1].tx BY <1>1 DEF Pipe, Batches
  <1>7. Ordered(w)
    <2>1. Ordered(s) BY DEF Pipe, Arrived
    <2>2. \A i \in 1..Len(s), j \in 1..Len(b) : s[i].tx # b[j].tx BY <1>5, <1>6
    <2> QED BY <2>1, <2>2, <1>1, <1>4, OrderedConcat DEF w
  <1>8. OnlyOf(t, w, q)
    <2>1. OnlyOf(t, s, q) BY DEF Pipe, Arrived
    <2>2. OnlyOf(t, b, q) BY <1>3 DEF OnlyOf
    <2> SUFFICES ASSUME NEW n \in 1..Len(w)
                 PROVE  \E x \in q : \E i \in CallsOf(t, x) : w[n] = RowAt(t, x, i)
      BY DEF OnlyOf
    <2>3. CASE n \in 1..Len(s) /\ w[n] = s[n] BY <2>1, <2>3 DEF OnlyOf
    <2>4. CASE n - Len(s) \in 1..Len(b) /\ w[n] = b[n - Len(s)] BY <2>2, <2>4 DEF OnlyOf
    <2> QED BY <2>3, <2>4, <1>2
  <1>9. \A x \in q : HoldsAll(t, w, x) \/ \E k \in 1..Len(c) : HoldsAll(t, c[k], x)
    <2> SUFFICES ASSUME NEW x \in q
                 PROVE  HoldsAll(t, w, x) \/ \E k \in 1..Len(c) : HoldsAll(t, c[k], x)
      OBVIOUS
    <2>1. CASE HoldsAll(t, s, x) BY <2>1, <1>2 DEF HoldsAll
    <2>2. CASE HoldsAll(t, b, x)
      <3> SUFFICES ASSUME NEW i \in CallsOf(t, x)
                   PROVE  \E n \in 1..Len(w) : w[n] = RowAt(t, x, i)
        BY DEF HoldsAll
      <3>1. PICK n \in 1..Len(b) : b[n] = RowAt(t, x, i) BY <2>2 DEF HoldsAll
      <3>2. Len(s) + n \in 1..Len(w) /\ w[Len(s) + n] = RowAt(t, x, i) BY <3>1, <1>2
      <3> QED BY <3>2
    <2>3. HoldsAll(t, s, x) \/ \E k \in 1..Len(ch) : HoldsAll(t, ch[k], x)
      BY DEF Pipe, Arrived
    <2> QED BY <2>1, <2>2, <2>3, <1>1
  <1>10. \A k \in 1..Len(c) :
            /\ c[k] # <<>> /\ Ordered(c[k])
            /\ \E x \in q : OnlyOf(t, c[k], {x}) /\ HoldsAll(t, c[k], x)
            /\ \A n \in 1..Len(w) : w[n].tx # c[k][1].tx
    <2> SUFFICES ASSUME NEW k \in 1..Len(c)
                 PROVE  /\ c[k] # <<>> /\ Ordered(c[k])
                        /\ \E x \in q : OnlyOf(t, c[k], {x}) /\ HoldsAll(t, c[k], x)
                        /\ \A n \in 1..Len(w) : w[n].tx # c[k][1].tx
      OBVIOUS
    <2>1. k + 1 \in 1..Len(ch) /\ c[k] = ch[k + 1] /\ k + 1 # 1 BY <1>1
    <2>2. /\ c[k] # <<>> /\ Ordered(c[k])
          /\ \E x \in q : OnlyOf(t, c[k], {x}) /\ HoldsAll(t, c[k], x)
          /\ \A n \in 1..Len(s) : s[n].tx # c[k][1].tx
      BY <2>1 DEF Pipe, Batches
    <2>3. b[1].tx # c[k][1].tx BY <2>1, <1>1 DEF Pipe, Batches
    <2>4. \A n \in 1..Len(w) : w[n].tx # c[k][1].tx
      <3> SUFFICES ASSUME NEW n \in 1..Len(w) PROVE w[n].tx # c[k][1].tx OBVIOUS
      <3>1. CASE n \in 1..Len(s) /\ w[n] = s[n] BY <2>2, <3>1
      <3>2. CASE n - Len(s) \in 1..Len(b) /\ w[n] = b[n - Len(s)] BY <2>3, <1>5, <3>2
      <3> QED BY <3>1, <3>2, <1>2
    <2> QED BY <2>2, <2>4
  <1>11. \A k, l \in 1..Len(c) : k # l => c[k][1].tx # c[l][1].tx
    <2> SUFFICES ASSUME NEW k \in 1..Len(c), NEW l \in 1..Len(c), k # l
                 PROVE  c[k][1].tx # c[l][1].tx
      OBVIOUS
    <2>1. k + 1 # l + 1 BY <1>1
    <2>2. k + 1 \in 1..Len(ch) /\ l + 1 \in 1..Len(ch) /\ c[k] = ch[k + 1] /\ c[l] = ch[l + 1]
      BY <1>1
    <2>3. \A x, y \in 1..Len(ch) : x # y => ch[x][1].tx # ch[y][1].tx BY DEF Pipe, Batches
    <2> QED BY <2>1, <2>2, <2>3
  <1> QED BY <1>7, <1>8, <1>9, <1>10, <1>11 DEF Pipe, Batches, Arrived, b, c, w

\* Execute: the task is past one more call.
LEMMA PastStep ==
    ASSUME Configured, NEW t \in [AllTx -> Txs], NEW p \in AllTx,
           NEW a \in Nat \ {0}, a <= Execs(t[p]), NEW s \in Seq(Row), Past(t, a, s, p)
    PROVE  /\ HasRow(t[p], a) => /\ RowAt(t, p, a) \in Row
                                 /\ Past(t, a + 1, Append(s, RowAt(t, p, a)), p)
           /\ ~HasRow(t[p], a) => Past(t, a + 1, s, p)
PROOF
  <1>0. \A n \in 1..Len(s) : s[n].tx = p /\ s[n] \in Row BY OneTask DEF Past
  <1>1. Execs(t[p]) \in Nat BY ExecsBound DEF Configured
  <1>2. ASSUME HasRow(t[p], a)
        PROVE  RowAt(t, p, a) \in Row /\ Past(t, a + 1, Append(s, RowAt(t, p, a)), p)
    <2>1. a \in CallsOf(t, p) BY <1>1, <1>2 DEF CallsOf
    <2> DEFINE r == RowAt(t, p, a)
               w == Append(s, r)
    <2>2. r \in Row /\ r.tx = p /\ r.idx = a - 1 BY <2>1, RowType
    <2> HIDE DEF r
    <2>3. /\ Len(w) = Len(s) + 1 /\ Len(s) \in Nat
          /\ \A n \in 1..Len(s) : n \in 1..Len(w) /\ w[n] = s[n]
          /\ w[Len(s) + 1] = r /\ Len(s) + 1 \in 1..Len(w)
          /\ \A n \in 1..Len(w) : n \in 1..Len(s) \/ n = Len(s) + 1
      BY <2>2
    <2>4. Ordered(w)
      <3>1. \A n \in 1..Len(s) : s[n].idx \in Nat /\ s[n].idx < r.idx
        BY <2>2, <1>0 DEF Past, Row
      <3> QED BY <3>1, <1>0, <2>2, OrderedAppend DEF Past
    <2> HIDE DEF w
    <2>5. OnlyOf(t, w, {p}) BY <2>1, <2>3 DEF Past, OnlyOf, r
    <2>6. \A n \in 1..Len(w) : w[n].idx + 1 < a + 1
      <3>1. \A n \in 1..Len(s) : s[n].idx \in Nat /\ s[n].idx + 1 < a BY <1>0 DEF Past, Row
      <3> QED BY <3>1, <2>2, <2>3
    <2>7. \A i \in CallsOf(t, p) : i < a + 1 => \E n \in 1..Len(w) : w[n] = RowAt(t, p, i)
      <3> SUFFICES ASSUME NEW i \in CallsOf(t, p), i < a + 1
                   PROVE  \E n \in 1..Len(w) : w[n] = RowAt(t, p, i)
        OBVIOUS
      <3>1. i \in Nat BY RowType
      <3>2. CASE i = a BY <3>2, <2>3 DEF r
      <3>3. CASE i < a BY <3>3, <2>3 DEF Past
      <3> QED BY <3>1, <3>2, <3>3
    <2> QED BY <2>2, <2>4, <2>5, <2>6, <2>7 DEF Past, r, w
  <1>3. ASSUME ~HasRow(t[p], a) PROVE Past(t, a + 1, s, p)
    <2>1. \A n \in 1..Len(s) : s[n].idx + 1 < a + 1 BY <1>0 DEF Past, Row
    <2>2. \A i \in CallsOf(t, p) : i < a + 1 => i < a
      <3>1. \A i \in CallsOf(t, p) : i \in Nat /\ i # a BY <1>3, RowType DEF CallsOf
      <3> QED BY <3>1
    <2> QED BY <2>1, <2>2 DEF Past
  <1> QED BY <1>2, <1>3

\* WriteRow: one more row is counted.
LEMMA CountStep ==
    ASSUME NEW cn \in [Cats -> Nat], NEW s \in Seq(Row), CountsOf(cn, s), NEW r \in Row
    PROVE  CountsOf([cn EXCEPT ![r.cat] = @ + 1], Append(s, r))
PROOF
  <1> DEFINE w == Append(s, r)
             Of(x, c) == {n \in 1..Len(x) : x[n].cat = c}
  <1>1. /\ Len(w) = Len(s) + 1 /\ Len(s) \in Nat
        /\ \A n \in 1..Len(s) : w[n] = s[n]
        /\ w[Len(s) + 1] = r
    OBVIOUS
  <1>2. r.cat \in Cats BY DEF Row
  <1> HIDE DEF w
  <1> SUFFICES ASSUME NEW c \in Cats
               PROVE  [cn EXCEPT ![r.cat] = @ + 1][c] = Cardinality(Of(w, c))
    BY DEF CountsOf, w
  <1>3. IsFiniteSet(Of(s, c)) /\ Len(s) + 1 \notin Of(s, c) /\ cn[c] = Cardinality(Of(s, c))
    <2>1. IsFiniteSet(1..Len(s)) BY <1>1, FS_Interval
    <2>2. Of(s, c) \subseteq 1..Len(s) OBVIOUS
    <2>3. IsFiniteSet(Of(s, c)) BY <2>1, <2>2, FS_Subset
    <2> QED BY <2>3, <1>1 DEF CountsOf
  <1>4. CASE r.cat = c
    <2>1. Of(w, c) = Of(s, c) \cup {Len(s) + 1} BY <1>1, <1>4
    <2> HIDE DEF Of
    <2>2. Cardinality(Of(w, c)) = Cardinality(Of(s, c)) + 1 BY <2>1, <1>3, FS_AddElement
    <2> QED BY <2>2, <1>3, <1>4, <1>2
  <1>5. CASE r.cat # c
    <2>1. Of(w, c) = Of(s, c) BY <1>1, <1>5
    <2> HIDE DEF Of
    <2> QED BY <2>1, <1>3, <1>5, <1>2
  <1> QED BY <1>4, <1>5
-------------------------------------------------------------------------------
\* A row that is appended to the buffer is appended to what is counted, and a
\* row that goes from the batch to the rows before it leaves them all the same.
LEMMA AppendConcat ==
    ASSUME NEW f \in Seq(Row), NEW b \in Seq(Row), NEW r \in Row
    PROVE  f \o Append(b, r) = Append(f \o b, r) /\ f \o Append(b, r) \in Seq(Row)
PROOF
  <1> DEFINE u == f \o Append(b, r)
             w == Append(f \o b, r)
  <1>1. u \in Seq(Row) /\ w \in Seq(Row) /\ Len(u) = Len(w) OBVIOUS
  <1>2. \A i \in 1..Len(u) : u[i] = w[i] OBVIOUS
  <1> HIDE DEF u, w
  <1>3. u = w BY <1>1, <1>2, SeqEqual
  <1> QED BY <1>1, <1>3 DEF u, w

LEMMA MoveHead ==
    ASSUME NEW c \in Seq(Row), NEW x \in Seq(Row), x # <<>>
    PROVE  Append(c, Head(x)) \o Tail(x) = c \o x
PROOF
  <1> DEFINE u == Append(c, Head(x)) \o Tail(x)
             w == c \o x
  <1>1. Len(x) \in Nat /\ Len(x) > 0 /\ Head(x) = x[1] /\ Head(x) \in Row /\ Tail(x) \in Seq(Row)
    OBVIOUS
  <1>2. u \in Seq(Row) /\ w \in Seq(Row) /\ Len(u) = Len(w) BY <1>1
  <1>3. \A i \in 1..Len(u) : u[i] = w[i]
    <2> SUFFICES ASSUME NEW i \in 1..Len(u) PROVE u[i] = w[i] OBVIOUS
    <2>1. CASE i <= Len(c) BY <1>1, <2>1
    <2>2. CASE i = Len(c) + 1 BY <1>1, <2>2
    <2>3. CASE i > Len(c) + 1 BY <1>1, <2>3
    <2> QED BY <2>1, <2>2, <2>3
  <1> HIDE DEF u, w
  <1>4. u = w BY <1>2, <1>3, SeqEqual
  <1> QED BY <1>4 DEF u, w

LEMMA WriteRowRows ==
    ASSUME TypeOK, WriteRow
    PROVE  /\ Counted' = Append(Counted, Head(batch)) /\ Head(batch) \in Row
           /\ Received' = Received
PROOF
  <1> DEFINE r == Head(batch)
  <1>1. /\ file \in Seq(Row) /\ buf \in Seq(Row) /\ batch \in Seq(Row) /\ batch # <<>>
    BY DEF TypeOK, WriteRow
  <1>2. r \in Row /\ Tail(batch) \in Seq(Row) BY <1>1
  <1>3. Counted \in Seq(Row) BY <1>1 DEF Counted
  <1>4. batch' = Tail(batch) BY DEF WriteRow
  <1>5. Counted' = file \o Append(buf, r)
    <2>1. CASE buf' = Append(buf, r) /\ UNCHANGED file BY <2>1 DEF Counted
    <2>2. CASE file' = file \o Append(buf, r) /\ buf' = <<>>
      <3>1. file' \in Seq(Row) BY <2>2, <1>1, <1>2, AppendConcat
      <3>2. file' \o <<>> = file' BY <3>1, ConcatEmptySeq
      <3> QED BY <2>2, <3>2 DEF Counted
    <2> QED BY <2>1, <2>2 DEF WriteRow, Flushed
  <1>6. Counted' = Append(Counted, r) BY <1>1, <1>2, <1>5, AppendConcat DEF Counted
  <1>7. Received' = Append(Counted, r) \o Tail(batch) BY <1>6, <1>4 DEF Received
  <1>8. Append(Counted, r) \o Tail(batch) = Counted \o batch BY <1>1, <1>3, MoveHead
  <1> QED BY <1>2, <1>6, <1>7, <1>8 DEF Received

\* Flushing moves rows from the buffer to the file.
LEMMA FlushRows ==
    ASSUME TypeOK, file' = Flushed(buf), buf' = <<>>, batch' = batch
    PROVE  Counted' = Counted /\ Received' = Received
PROOF
  <1>1. file \o buf \in Seq(Row) BY DEF TypeOK
  <1>2. (file \o buf) \o <<>> = file \o buf BY <1>1, ConcatEmptySeq
  <1>3. Counted' = Counted BY <1>2 DEF Counted, Flushed
  <1> QED BY <1>3 DEF Received

LEMMA ReceiveRows ==
    ASSUME TypeOK, CsvInv, Receive
    PROVE  Counted' = Counted /\ Received' = Received \o Head(chan) /\ Received \in Seq(Row)
PROOF
  <1>1. Counted' = Counted BY DEF Receive, Counted
  <1>2. batch = <<>> BY DEF CsvInv, Receive
  <1>3. Counted \in Seq(Row) BY DEF TypeOK, Counted
  <1>4. Received = Counted BY <1>2, <1>3, ConcatEmptySeq DEF Received
  <1> QED BY <1>1, <1>3, <1>4 DEF Received, Receive
-------------------------------------------------------------------------------
LEMMA InitCmd == Configured /\ Init => CmdInv
PROOF
  <1> SUFFICES ASSUME Configured, Init PROVE CmdInv OBVIOUS
  <1> USE DEF Init, SegInit
  <1>1. TypeOK
    <2>1. [p \in AllTx |-> 1] \in [AllTx -> Nat \ {0}] OBVIOUS
    <2>2. [p \in AllTx |-> <<>>] \in [AllTx -> Seq(Row)] OBVIOUS
    <2>3. [c \in Cats |-> 0] \in [Cats -> Nat] OBVIOUS
    <2>4. <<>> \in Seq(Seq(Row)) /\ <<>> \in Seq(Row) /\ Len(<<>>) = 0 OBVIOUS
    <2>5. ChanCap \in Nat BY DEF Configured
    <2>6. Len(chan) <= ChanCap BY <2>4, <2>5
    <2>7. txs \in [AllTx -> Txs] OBVIOUS
    <2> QED BY <2>1, <2>2, <2>3, <2>4, <2>6, <2>7 DEF TypeOK
  <1>2. TaskInv
    <2>1. cmd = "exec" <=> ret = "none" OBVIOUS
    <2>2. closed <=> cmd \in {"wait", "done"} OBVIOUS
    <2>3. \A p \in AllTx : rows[p] = <<>> /\ at[p] = 1 OBVIOUS
    <2>4. ran \subseteq AllTx /\ ran \cap running = {} /\ failed \cap running = {} OBVIOUS
    <2>5. \A p \in running : SoFar(p) OBVIOUS
    <2>6. cmd # "exec" => running = {} OBVIOUS
    <2> QED BY <2>1, <2>2, <2>3, <2>4, <2>5, <2>6 DEF TaskInv
  <1>3. Counted = <<>> /\ Received = <<>> BY DEF Counted, Received
  <1>4. ChanInv /\ ReceivedInv BY <1>3 DEF ChanInv, ReceivedInv, Ordered, From
  <1>5. CsvInv BY DEF CsvInv
  <1>6. CountInv
    <2>1. \A c : {n \in 1..Len(Counted) : Counted[n].cat = c} = {} BY <1>3
    <2> QED BY <2>1, <1>3, FS_EmptySet DEF CountInv
  <1> QED BY <1>1, <1>2, <1>4, <1>5, <1>6 DEF CmdInv
-------------------------------------------------------------------------------
\* Every step keeps the types.
LEMMA TypeStep ==
    ASSUME Configured, CmdInv, [Next]_vars
    PROVE  TypeOK'
PROOF
  <1>0. TypeOK BY DEF CmdInv
  <1>1. ASSUME NEW p \in AllTx, StartTask(p) PROVE TypeOK'
    BY <1>0, <1>1 DEF TypeOK, StartTask, csvVars, segVars
  <1>2. ASSUME NEW p \in AllTx, Execute(p) PROVE TypeOK'
    <2>1. at' \in [AllTx -> Nat \ {0}] BY <1>0, <1>2 DEF TypeOK, Execute
    <2>2. rows' \in [AllTx -> Seq(Row)]
      <3>1. CASE ~HasRow(txs[p], at[p]) BY <1>0, <1>2, <3>1 DEF TypeOK, Execute
      <3>2. CASE HasRow(txs[p], at[p])
        <4>1. Past(txs, at[p], rows[p], p) BY <1>2, PastIs DEF CmdInv, TaskInv, Execute
        <4>2. at[p] \in Nat \ {0} /\ rows[p] \in Seq(Row) /\ txs \in [AllTx -> Txs]
          BY <1>0 DEF TypeOK
        <4>3. at[p] <= Execs(txs[p]) BY <1>2 DEF Execute
        <4>4. RowAt(txs, p, at[p]) \in Row BY <4>1, <4>2, <4>3, <3>2, PastStep
        <4>5. Append(rows[p], RowOf(p, at[p])) \in Seq(Row) BY <4>2, <4>4 DEF RowAt, RowOf
        <4>6. rows' = [rows EXCEPT ![p] = Append(rows[p], RowOf(p, at[p]))]
          BY <1>2, <3>2 DEF Execute
        <4>7. rows \in [AllTx -> Seq(Row)] BY <1>0 DEF TypeOK
        <4> QED BY <4>5, <4>6, <4>7
      <3> QED BY <3>1, <3>2
    <2> QED BY <1>0, <1>2, <2>1, <2>2 DEF TypeOK, Execute, csvVars, segVars
  <1>3. ASSUME NEW p \in AllTx, FinishTask(p) PROVE TypeOK'
    <2>1. chan' \in Seq(Seq(Row)) /\ Len(chan') <= ChanCap
      <3>1. CASE rows[p] = <<>> BY <1>0, <1>3, <3>1 DEF TypeOK, FinishTask
      <3>2. CASE rows[p] # <<>>
        <4>1. chan \in Seq(Seq(Row)) /\ rows[p] \in Seq(Row) BY <1>0 DEF TypeOK
        <4>2. chan' = Append(chan, rows[p]) /\ Len(chan) < ChanCap
          BY <1>3, <3>2 DEF FinishTask, HasRoom
        <4>3. Len(chan') = Len(chan) + 1 BY <4>1, <4>2
        <4> QED BY <4>1, <4>2, <4>3 DEF Configured
      <3> QED BY <3>1, <3>2
    <2>2. rows' \in [AllTx -> Seq(Row)] BY <1>0, <1>3 DEF TypeOK, FinishTask
    <2>3. running' \subseteq AllTx BY <1>0, <1>3 DEF TypeOK, FinishTask
    <2> QED BY <1>0, <1>3, <2>1, <2>2, <2>3 DEF TypeOK, FinishTask, csvVars
  <1>4. ASSUME NEW p \in AllTx, FailTask(p) PROVE TypeOK'
    BY <1>0, <1>4 DEF TypeOK, FailTask, csvVars, segVars
  <1>5. CASE ExecuteReturns
    BY <1>0, <1>5 DEF TypeOK, ExecuteReturns, ReturnNil, ReturnErr, csvVars, taskVars
  <1>6. CASE CloseChan
    BY <1>0, <1>6 DEF TypeOK, CloseChan, csvVars, taskVars, segVars
  <1>7. CASE PrintCounts
    BY <1>0, <1>7 DEF TypeOK, PrintCounts, csvVars, taskVars, segVars
  <1>8. CASE Receive
    <2>1. batch' \in Seq(Row) /\ chan' \in Seq(Seq(Row)) /\ Len(chan') <= ChanCap
      <3>1. chan \in Seq(Seq(Row)) /\ chan # <<>> /\ Len(chan) <= ChanCap
        BY <1>0, <1>8 DEF TypeOK, Receive
      <3>2. Len(Tail(chan)) = Len(chan) - 1 /\ Len(chan) \in Nat BY <3>1
      <3> QED BY <1>8, <3>1, <3>2 DEF Receive, Configured
    <2> QED BY <1>0, <1>8, <2>1 DEF TypeOK, Receive, taskVars, segVars
  <1>9. CASE WriteRow
    <2>1. /\ file \in Seq(Row) /\ buf \in Seq(Row) /\ batch \in Seq(Row) /\ batch # <<>>
      BY <1>0, <1>9 DEF TypeOK, WriteRow
    <2>2. Head(batch) \in Row /\ Tail(batch) \in Seq(Row) BY <2>1
    <2> DEFINE b == Append(buf, Head(batch))
    <2>a. b \in Seq(Row) /\ file \o b \in Seq(Row) BY <2>1, <2>2, AppendConcat
    <2>b. <<>> \in Seq(Row) OBVIOUS
    <2>c. (buf' = b /\ file' = file) \/ (file' = file \o b /\ buf' = <<>>)
      BY <1>9, Zenon DEF WriteRow, Flushed
    <2>3. file' \in Seq(Row) /\ buf' \in Seq(Row)
      <3> HIDE DEF b
      <3> QED BY <2>1, <2>a, <2>b, <2>c
    <2>4. count' \in [Cats -> Nat]
      <3>1. Head(batch).cat \in Cats BY <2>2 DEF Row
      <3>2. count \in [Cats -> Nat] /\ count' = [count EXCEPT ![Head(batch).cat] = @ + 1]
        BY <1>0, <1>9 DEF TypeOK, WriteRow
      <3> QED BY <3>1, <3>2
    <2> QED BY <1>0, <1>9, <2>2, <2>3, <2>4 DEF TypeOK, WriteRow, taskVars, segVars
  <1>10. CASE FlushBatch \/ CsvDone
    <2>1. file' = file \o buf /\ buf' = <<>> BY <1>10 DEF FlushBatch, CsvDone, Flushed
    <2>2. file' \in Seq(Row) /\ buf' \in Seq(Row) BY <1>0, <2>1 DEF TypeOK
    <2> QED BY <1>0, <1>10, <2>2 DEF TypeOK, FlushBatch, CsvDone, taskVars, segVars
  <1>11. CASE UNCHANGED vars
    BY <1>0, <1>11 DEF TypeOK, vars, taskVars, csvVars, segVars
  <1> QED BY <1>1, <1>2, <1>3, <1>4, <1>5, <1>6, <1>7, <1>8, <1>9, <1>10, <1>11
          DEF Next, Csv, Pool, Command

\* Every step keeps the counts those of the rows written.
LEMMA CountKept ==
    ASSUME CmdInv, [Next]_vars
    PROVE  CountInv'
PROOF
  <1>0. TypeOK /\ CountInv /\ CsvInv BY DEF CmdInv
  <1>1. ASSUME Counted' = Counted, total' = total, count' = count PROVE CountInv'
    BY <1>0, <1>1 DEF CountInv
  <1>2. CASE WriteRow
    <2>1. Counted' = Append(Counted, Head(batch)) /\ Head(batch) \in Row
      BY <1>0, <1>2, WriteRowRows
    <2>2. Counted \in Seq(Row) /\ count \in [Cats -> Nat] BY <1>0 DEF TypeOK, Counted
    <2>3. CountsOf(count, Counted) /\ total = Len(Counted) BY <1>0 DEF CountInv, CountsOf
    <2>4. count' = [count EXCEPT ![Head(batch).cat] = @ + 1] /\ total' = total + 1
      BY <1>2 DEF WriteRow
    <2>5. CountsOf(count', Counted') BY <2>1, <2>2, <2>3, <2>4, CountStep
    <2>6. Len(Counted') = Len(Counted) + 1 BY <2>1, <2>2
    <2> QED BY <2>3, <2>4, <2>5, <2>6 DEF CountInv, CountsOf
  <1>3. CASE Receive
    <2>1. Counted' = Counted BY <1>3 DEF Receive, Counted
    <2> QED BY <1>1, <1>3, <2>1 DEF Receive
  <1>4. CASE FlushBatch \/ CsvDone
    <2>1. Counted' = Counted BY <1>0, <1>4, FlushRows DEF FlushBatch, CsvDone
    <2> QED BY <1>1, <1>4, <2>1 DEF FlushBatch, CsvDone
  <1>5. CASE Pool \/ Command \/ UNCHANGED vars
    <2>1. UNCHANGED csvVars
      BY <1>5 DEF Pool, Command, vars, StartTask, Execute, FinishTask, FailTask,
                  ExecuteReturns, CloseChan, PrintCounts
    <2>2. Counted' = Counted BY <2>1 DEF csvVars, Counted
    <2> QED BY <1>1, <2>1, <2>2 DEF csvVars
  <1> QED BY <1>2, <1>3, <1>4, <1>5 DEF Next, Csv

\* Every step keeps what the goroutine and the command wait for.
LEMMA CsvKept ==
    ASSUME CmdInv, [Next]_vars
    PROVE  CsvInv'
PROOF
  <1>0. CsvInv /\ TaskInv BY DEF CmdInv
  <1>1. ASSUME NEW p \in AllTx, FinishTask(p) PROVE CsvInv'
    <2>1. ~closed BY <1>0, <1>1 DEF TaskInv, FinishTask
    <2> QED BY <1>0, <1>1, <2>1 DEF CsvInv, FinishTask, csvVars
  <1>2. ASSUME NEW p \in AllTx, StartTask(p) \/ Execute(p) \/ FailTask(p) PROVE CsvInv'
    BY <1>0, <1>2 DEF CsvInv, StartTask, Execute, FailTask, csvVars
  <1>3. CASE ExecuteReturns \/ CloseChan
    BY <1>0, <1>3 DEF CsvInv, TaskInv, ExecuteReturns, CloseChan, csvVars
  <1>4. CASE PrintCounts BY <1>0, <1>4 DEF CsvInv, PrintCounts, AwaitCsv, csvVars
  <1>5. CASE Receive BY <1>0, <1>5 DEF CsvInv, Receive
  <1>6. CASE WriteRow BY <1>0, <1>6 DEF CsvInv, WriteRow
  <1>7. CASE FlushBatch \/ CsvDone BY <1>0, <1>7 DEF CsvInv, FlushBatch, CsvDone
  <1>8. CASE UNCHANGED vars BY <1>0, <1>8 DEF CsvInv, vars, csvVars
  <1> QED BY <1>1, <1>2, <1>3, <1>4, <1>5, <1>6, <1>7, <1>8 DEF Next, Csv, Pool, Command

\* Every step keeps the rows of the tasks those of the calls they are past, and
\* no task runs when ExecuteSegment is back.
LEMMA TaskKept ==
    ASSUME Configured, CmdInv, [Next]_vars
    PROVE  TaskInv'
PROOF
  <1>0. TypeOK /\ TaskInv BY DEF CmdInv
  <1>a. \A p \in running : Past(txs, at[p], rows[p], p) BY <1>0, PastIs DEF TaskInv
  <1>b. ASSUME \A p \in running' : Past(txs', at'[p], rows'[p], p)
        PROVE  \A p \in running' : SoFar(p)'
    BY <1>b, PastIs
  <1>c. ASSUME txs' = txs, at' = at, rows' = rows, running' \subseteq running
        PROVE  \A p \in running' : SoFar(p)'
    BY <1>a, <1>b, <1>c
  <1>1. ASSUME NEW p \in AllTx, StartTask(p) PROVE TaskInv'
    <2>1. /\ txs' = txs /\ at' = at /\ rows' = rows /\ running' = running \cup {p}
          /\ ran' = ran /\ failed' = failed /\ p \notin ran \cup running \cup failed
          /\ cmd' = cmd /\ ret' = ret /\ closed' = closed /\ cmd = "exec"
      BY <1>1 DEF StartTask, segVars
    <2>2. rows[p] = <<>> /\ at[p] = 1 BY <1>0, <2>1 DEF TaskInv
    <2>3. Past(txs, 1, <<>>, p)
      <3>0. txs \in [AllTx -> Txs] BY <1>0 DEF TypeOK
      <3>1. \A i \in CallsOf(txs, p) : i \in Nat /\ i >= 1 BY <3>0, RowType
      <3> QED BY <3>1 DEF Past, Ordered, OnlyOf
    <2>4. \A q \in running' : Past(txs', at'[q], rows'[q], q)
      BY <1>a, <2>1, <2>2, <2>3
    <2>5. \A q \in running' : SoFar(q)' BY <1>b, <2>4
    <2> QED BY <1>0, <2>1, <2>5 DEF TaskInv
  <1>2. ASSUME NEW p \in AllTx, Execute(p) PROVE TaskInv'
    <2>1. /\ txs' = txs /\ running' = running /\ ran' = ran /\ failed' = failed
          /\ cmd' = cmd /\ ret' = ret /\ closed' = closed /\ p \in running
          /\ at' = [at EXCEPT ![p] = @ + 1] /\ at[p] <= Execs(txs[p])
      BY <1>2 DEF Execute, segVars
    <2>2. /\ at \in [AllTx -> Nat \ {0}] /\ rows \in [AllTx -> Seq(Row)] /\ running \subseteq AllTx
          /\ txs \in [AllTx -> Txs]
      BY <1>0 DEF TypeOK
    <2>3. at'[p] = at[p] + 1 /\ \A q \in AllTx \ {p} : at'[q] = at[q] BY <2>1, <2>2
    <2>4. \A q \in AllTx \ {p} : rows'[q] = rows[q] BY <1>2, <2>2 DEF Execute
    <2>5. Past(txs, at'[p], rows'[p], p)
      <3>1. Past(txs, at[p], rows[p], p) /\ at[p] \in Nat \ {0} /\ rows[p] \in Seq(Row)
        BY <1>a, <2>1, <2>2
      <3>2. CASE HasRow(txs[p], at[p])
        <4>1. rows'[p] = Append(rows[p], RowAt(txs, p, at[p]))
          BY <1>2, <2>2, <3>2 DEF Execute, RowAt, RowOf
        <4> QED BY <3>1, <3>2, <4>1, <2>1, <2>2, <2>3, PastStep
      <3>3. CASE ~HasRow(txs[p], at[p])
        <4>1. rows'[p] = rows[p] BY <1>2, <3>3 DEF Execute
        <4> QED BY <3>1, <3>3, <4>1, <2>1, <2>2, <2>3, PastStep
      <3> QED BY <3>2, <3>3
    <2>6. \A q \in running' : Past(txs', at'[q], rows'[q], q)
      <3> SUFFICES ASSUME NEW q \in running PROVE Past(txs, at'[q], rows'[q], q) BY <2>1
      <3>1. CASE q = p BY <3>1, <2>5
      <3>2. CASE q # p
        <4>1. at'[q] = at[q] /\ rows'[q] = rows[q] BY <3>2, <2>2, <2>3, <2>4
        <4> QED BY <4>1, <1>a
      <3> QED BY <3>1, <3>2
    <2>7. \A q \in running' : SoFar(q)' BY <1>b, <2>6
    <2>8. \A q \in AllTx : q \notin ran \cup running \cup failed => rows'[q] = <<>> /\ at'[q] = 1
      BY <1>0, <2>1, <2>3, <2>4 DEF TaskInv
    <2> QED BY <1>0, <2>1, <2>7, <2>8 DEF TaskInv
  <1>3. ASSUME NEW p \in AllTx, FinishTask(p) PROVE TaskInv'
    <2>1. /\ txs' = txs /\ at' = at /\ running' = running \ {p} /\ ran' = ran \cup {p}
          /\ failed' = failed /\ p \in running /\ rows' = [rows EXCEPT ![p] = <<>>]
          /\ cmd' = cmd /\ ret' = ret /\ closed' = closed
      BY <1>3 DEF FinishTask, RunTask
    <2>2. running \subseteq AllTx /\ rows \in [AllTx -> Seq(Row)] BY <1>0 DEF TypeOK
    <2>3. \A q \in AllTx \ {p} : rows'[q] = rows[q] BY <2>1, <2>2
    <2>4. \A q \in running' : Past(txs', at'[q], rows'[q], q)
      <3> SUFFICES ASSUME NEW q \in running, q # p PROVE Past(txs, at[q], rows'[q], q) BY <2>1
      <3>1. rows'[q] = rows[q] BY <2>2, <2>3
      <3> QED BY <3>1, <1>a
    <2>5. \A q \in running' : SoFar(q)' BY <1>b, <2>4
    <2>6. \A q \in AllTx : q \notin ran' \cup running' \cup failed' => rows'[q] = <<>> /\ at'[q] = 1
      BY <1>0, <2>1, <2>3 DEF TaskInv
    <2> QED BY <1>0, <2>1, <2>5, <2>6 DEF TaskInv
  <1>4. ASSUME NEW p \in AllTx, FailTask(p) PROVE TaskInv'
    <2>1. /\ txs' = txs /\ at' = at /\ rows' = rows /\ running' = running \ {p} /\ ran' = ran
          /\ failed' = failed \cup {p} /\ cmd' = cmd /\ ret' = ret /\ closed' = closed
      BY <1>4 DEF FailTask, segVars
    <2>2. \A q \in running' : SoFar(q)' BY <1>c, <2>1
    <2> QED BY <1>0, <2>1, <2>2 DEF TaskInv
  <1>5. CASE ExecuteReturns
    <2>1. /\ UNCHANGED taskVars /\ ran' = ran /\ cmd' = "close" /\ ret' \in {"nil", "err"}
          /\ running = {} /\ closed' = closed /\ cmd = "exec"
      BY <1>5 DEF ExecuteReturns, ReturnNil, ReturnErr, Stopped
    <2>2. \A q \in running' : SoFar(q)' BY <1>c, <2>1 DEF taskVars
    <2> QED BY <1>0, <2>1, <2>2 DEF TaskInv, taskVars
  <1>6. CASE CloseChan
    <2>1. \A q \in running' : SoFar(q)' BY <1>c, <1>6 DEF CloseChan, taskVars
    <2> QED BY <1>0, <1>6, <2>1 DEF TaskInv, CloseChan, taskVars, segVars
  <1>7. CASE PrintCounts
    <2>1. \A q \in running' : SoFar(q)' BY <1>c, <1>7 DEF PrintCounts, taskVars
    <2> QED BY <1>0, <1>7, <2>1 DEF TaskInv, PrintCounts, taskVars, segVars
  <1>8. CASE Csv \/ UNCHANGED vars
    <2>1. UNCHANGED <<segVars, taskVars, closed, cmd>>
      BY <1>8 DEF Csv, Receive, WriteRow, FlushBatch, CsvDone, vars
    <2>2. \A q \in running' : SoFar(q)' BY <1>c, <2>1 DEF taskVars
    <2> QED BY <1>0, <2>1, <2>2 DEF TaskInv, taskVars, segVars
  <1> QED BY <1>1, <1>2, <1>3, <1>4, <1>5, <1>6, <1>7, <1>8 DEF Next, Pool, Command

\* Every step keeps the pipeline from the tasks to the file.
LEMMA PipeKept ==
    ASSUME Configured, CmdInv, [Next]_vars
    PROVE  (ChanInv /\ ReceivedInv)'
PROOF
  <1>0. TypeOK /\ TaskInv /\ CsvInv BY DEF CmdInv
  <1>1. Pipe(txs, ran, chan, Received) BY PipeIs DEF CmdInv
  <1>2. /\ txs \in [AllTx -> Txs] /\ ran \in SUBSET AllTx /\ chan \in Seq(Seq(Row))
        /\ Received \in Seq(Row)
    BY <1>0 DEF TypeOK, TaskInv, Received, Counted
  <1> SUFFICES Pipe(txs', ran', chan', Received') BY PipeIs
  <1>3. ASSUME txs' = txs, ran' = ran, chan' = chan, Received' = Received
        PROVE  Pipe(txs', ran', chan', Received')
    BY <1>1, <1>3
  <1>4. ASSUME NEW p \in AllTx, FinishTask(p) PROVE Pipe(txs', ran', chan', Received')
    <2>1. /\ txs' = txs /\ ran' = ran \cup {p} /\ p \in running /\ p \notin ran
          /\ chan' = IF rows[p] = <<>> THEN chan ELSE Append(chan, rows[p])
          /\ at[p] > Execs(txs[p]) /\ UNCHANGED csvVars
      BY <1>0, <1>4 DEF FinishTask, TaskInv
    <2>2. Received' = Received BY <2>1 DEF csvVars, Received, Counted
    <2>3. Past(txs, at[p], rows[p], p) BY <1>0, <2>1, PastIs DEF TaskInv
    <2>4. rows[p] \in Seq(Row) BY <1>0 DEF TypeOK
    <2>5. HoldsAll(txs, rows[p], p)
      <3>1. txs[p] \in TxRec /\ at[p] \in Nat BY <1>0 DEF TypeOK, Configured
      <3>2. Execs(txs[p]) \in Nat BY <3>1, ExecsBound
      <3>3. \A i \in CallsOf(txs, p) : i < at[p] BY <3>1, <3>2, <2>1 DEF CallsOf
      <3> QED BY <3>3, <2>3 DEF Past, HoldsAll
    <2>6. Ordered(rows[p]) /\ OnlyOf(txs, rows[p], {p}) BY <2>3 DEF Past
    <2> QED BY <1>1, <1>2, <2>1, <2>2, <2>4, <2>5, <2>6, PipeSend
  <1>5. CASE Receive
    <2>1. /\ txs' = txs /\ ran' = ran /\ chan # <<>> /\ chan' = Tail(chan)
          /\ Received' = Received \o Head(chan)
      BY <1>0, <1>5, ReceiveRows DEF Receive, taskVars, segVars
    <2> QED BY <1>1, <1>2, <2>1, PipeReceive
  <1>6. CASE WriteRow
    BY <1>0, <1>3, <1>6, WriteRowRows DEF WriteRow, taskVars, segVars
  <1>7. CASE FlushBatch \/ CsvDone
    BY <1>0, <1>3, <1>7, FlushRows DEF FlushBatch, CsvDone, taskVars, segVars
  <1>8. ASSUME \/ \E p \in AllTx : StartTask(p) \/ Execute(p) \/ FailTask(p)
               \/ ExecuteReturns \/ Command \/ UNCHANGED vars
        PROVE  Pipe(txs', ran', chan', Received')
    <2>1. txs' = txs /\ ran' = ran /\ chan' = chan /\ UNCHANGED csvVars
      BY <1>8 DEF StartTask, Execute, FailTask, ExecuteReturns, ReturnNil, ReturnErr, Command,
                  CloseChan, PrintCounts, vars, taskVars, segVars
    <2>2. Received' = Received BY <2>1 DEF csvVars, Received, Counted
    <2> QED BY <1>3, <2>1, <2>2
  <1> QED BY <1>4, <1>5, <1>6, <1>7, <1>8 DEF Next, Csv, Pool
-------------------------------------------------------------------------------
\* The invariant of the command: its parts hold in every state, whatever the
\* order in which the tasks, the CSV goroutine and the command take their steps.
THEOREM CmdInvariant ==
    ASSUME Configured
    PROVE  Spec => []CmdInv
PROOF
  <1>1. Init => CmdInv BY InitCmd
  <1>2. CmdInv /\ [Next]_vars => CmdInv'
    <2> SUFFICES ASSUME CmdInv, [Next]_vars PROVE CmdInv' OBVIOUS
    <2>1. TypeOK' BY TypeStep
    <2>2. TaskInv' BY TaskKept
    <2>3. ChanInv' /\ ReceivedInv' BY PipeKept
    <2>4. CsvInv' BY CsvKept
    <2>5. CountInv' BY CountKept
    <2> QED BY <2>1, <2>2, <2>3, <2>4, <2>5 DEF CmdInv
  <1> QED BY <1>1, <1>2, PTL DEF Spec

\* statChan is closed when no task is left that could send, also when a task
\* failed and ExecuteSegment returned an error.
THEOREM NoSendOnClosed ==
    ASSUME Configured
    PROVE  Spec => []NoSendAfterClose
PROOF
  <1>1. CmdInv => NoSendAfterClose BY DEF CmdInv, TaskInv, NoSendAfterClose
  <1> QED BY <1>1, CmdInvariant, PTL

\* When the command prints, nothing is left in the channel and the buffers.
LEMMA AllInFile ==
    ASSUME CmdInv, cmd = "done"
    PROVE  chan = <<>> /\ Counted = file /\ Received = file
PROOF
  <1>1. csv = "done" BY DEF CmdInv, CsvInv
  <1>2. chan = <<>> /\ batch = <<>> /\ buf = <<>> BY <1>1 DEF CmdInv, CsvInv
  <1>3. file \in Seq(Row) BY DEF CmdInv, TypeOK
  <1>4. file \o <<>> = file BY <1>3, ConcatEmptySeq
  <1> QED BY <1>2, <1>4 DEF Counted, Received

\* The file has the rows of every task that returned, each once, those of one
\* transaction together and in the order of the calls, and no other row; the
\* printed counts are those of the file.
THEOREM FileIsComplete ==
    ASSUME Configured
    PROVE  Spec => []FileComplete
PROOF
  <1>1. CmdInv => RowsComplete
    <2> SUFFICES ASSUME CmdInv, cmd = "done"
                 PROVE  Ordered(file) /\ (\A p \in ran : Holds(file, p)) /\ From(file, ran)
      BY DEF RowsComplete
    <2>1. chan = <<>> /\ Received = file BY AllInFile
    <2>2. /\ Ordered(Received) /\ From(Received, ran)
          /\ \A p \in ran : Holds(Received, p) \/ \E k \in 1..Len(chan) : Holds(chan[k], p)
      BY DEF CmdInv, ReceivedInv
    <2>3. 1..Len(chan) = {} BY <2>1
    <2> QED BY <2>1, <2>2, <2>3
  <1>2. CmdInv => CountsMatchFile
    BY AllInFile DEF CmdInv, CountInv, CountsMatchFile
  <1>3. CmdInv => FileComplete BY <1>1, <1>2 DEF FileComplete
  <1> QED BY <1>3, CmdInvariant, PTL

\* In validate-tac a call whose execution met a TAC error is in the file under
\* that error, and a row says PASSED only for an execution without one and with
\* the recorded outputs.
THEOREM VerdictsAreTrue ==
    ASSUME Configured
    PROVE  Spec => []VerdictTrue
PROOF
  <1>1. CmdInv => VerdictTrue
    <2> SUFFICES ASSUME CmdInv, NEW n \in 1..Len(file), ~txs[file[n].tx].check
                 PROVE  LET c == txs[file[n].tx].calls[file[n].idx + 1] IN
                        /\ c.sub \in GlobalErr => file[n].cat = c.sub
                        /\ file[n].cat = "PASSED" =>
                             c.equal /\ c.sub \notin GlobalErr /\ c.apply = "none"
      BY DEF VerdictTrue
    <2>1. /\ file \in Seq(Row) /\ buf \in Seq(Row) /\ batch \in Seq(Row) /\ ran \subseteq AllTx
          /\ txs \in [AllTx -> Txs]
      BY DEF CmdInv, TypeOK, TaskInv
    <2>2. n \in 1..Len(Received) /\ Received[n] = file[n] BY <2>1 DEF Received, Counted
    <2>3. OnlyOf(txs, Received, ran) BY PipeIs DEF CmdInv, Pipe, Arrived
    <2>4. PICK p \in ran : \E i \in CallsOf(txs, p) : file[n] = RowAt(txs, p, i)
      BY <2>2, <2>3 DEF OnlyOf
    <2>5. PICK i \in CallsOf(txs, p) : file[n] = RowAt(txs, p, i) BY <2>4
    <2>6. p \in AllTx BY <2>1
    <2>7. /\ i \in Nat /\ file[n].tx = p /\ file[n].idx = i - 1
          /\ txs[p].calls[i] \in CallRec /\ file[n].cat = Verdict(txs[p].calls[i], txs[p].check)
      BY <2>1, <2>5, <2>6, RowType
    <2> DEFINE c == txs[p].calls[i]
    <2>8. txs[file[n].tx].calls[file[n].idx + 1] = c BY <2>7
    <2>9. c \in CallRec /\ file[n].cat = Verdict(c, FALSE)
      <3>1. txs[p].check \in BOOLEAN BY <2>1, <2>6 DEF Configured, TxRec
      <3>2. txs[p].check = FALSE BY <2>7, <3>1
      <3> QED BY <2>7, <3>2
    <2> HIDE DEF c
    <2>10. c.sub \in GlobalErr => Verdict(c, FALSE) = c.sub
      BY <2>9 DEF Verdict, GlobalErr
    <2>11. Verdict(c, FALSE) = "PASSED" => c.equal /\ c.sub \notin GlobalErr /\ c.apply = "none"
      BY <2>9 DEF Verdict, GlobalErr, CallRec, CallResult
    <2> QED BY <2>8, <2>9, <2>10, <2>11
  <1> QED BY <1>1, CmdInvariant, PTL
===============================================================================
