--------------------------- MODULE TaskPoolProofs ---------------------------
(* Proofs about TaskPool, for every segment, worker set and channel        *)
(* capacity.                                                               *)
EXTENDS TaskPool, FiniteSetTheorems, TLAPS

\* block++ does not wrap around inside the segment.
LEMMA SuccInSegment == \A b \in Block : Succ(b) = b + 1
  BY SegmentAssumption DEF Succ, Block

\* The skip rules and the tx list only select transactions of the database.
LEMMA SelectedType == \A b \in Block : Selected(b) \subseteq TxIds
  BY DEF Selected, BlockSubstates

\* numWorkers is a number.
LEMMA NumWorkersType == NumWorkers \in Nat
  BY PoolAssumption, FS_CardinalityType DEF NumWorkers

\* Taking the head of a channel keeps the order of the others.
LEMMA TailFacts ==
  ASSUME NEW S, NEW s \in Seq(S), s # <<>>
  PROVE  /\ Head(s) \in S /\ Head(s) = s[1]
         /\ Tail(s) \in Seq(S)
         /\ Len(s) \in Nat \ {0}
         /\ Len(Tail(s)) = Len(s) - 1
         /\ \A i \in 1..(Len(s) - 1) : Tail(s)[i] = s[i + 1]
  OBVIOUS

\* A send puts the element behind the others.
LEMMA AppendFacts ==
  ASSUME NEW S, NEW s \in Seq(S), NEW e \in S
  PROVE  /\ Append(s, e) \in Seq(S)
         /\ Len(s) \in Nat
         /\ Len(Append(s, e)) = Len(s) + 1
         /\ Append(s, e)[Len(s) + 1] = e
         /\ \A i \in 1..Len(s) : Append(s, e)[i] = s[i]
  OBVIOUS

\* What travels through doneChan.
LEMMA DoneType ==
  ASSUME NEW s \in Seq(Results), NEW i \in 1..Len(s)
  PROVE  s[i] \in Results /\ s[i].block \in Block /\ s[i].err \in BOOLEAN
  <1>1. s[i] \in Results
    OBVIOUS
  <1> QED BY <1>1 DEF Results

-----------------------------------------------------------------------------
(* Type correctness.                                                       *)

\* The channels and variables start within their types.
LEMMA InitTypeOK == Init => TypeOK
  <1>1. First \in Block
    BY SegmentAssumption DEF Block
  <1>2. First \in First..(Last + 1) /\ 0 \in 0..(NumWorkers + 1)
    BY NumWorkersType, SegmentAssumption
  <1>3. <<>> \in Seq(Block) /\ <<>> \in Seq(Results)
    OBVIOUS
  <1> SUFFICES ASSUME Init PROVE TypeOK
    OBVIOUS
  <1>4. /\ wpc \in [Workers -> {"select", "exec", "count", "send", "stopped"}]
        /\ wblk \in [Workers -> Block]
        /\ wnt \in [Workers -> Nat]
    BY <1>1 DEF Init
  <1>5. wtodo \in [Workers -> SUBSET TxIds]
    BY DEF Init
  <1>6. closed \in BOOLEAN /\ werr \in [Workers -> BOOLEAN]
    BY Zenon DEF Init
  <1>7. waitMap \subseteq Block /\ ran \subseteq Block \X TxIds
    BY DEF Init
  <1> QED
    BY <1>1, <1>2, <1>3, <1>4, <1>5, <1>6, <1>7 DEF Init, TypeOK

\* Each step of main, the producer and the workers keeps the types.
LEMMA NextTypeOK == TypeOK /\ [Next]_vars => TypeOK'
  <1> SUFFICES ASSUME TypeOK, [Next]_vars PROVE TypeOK'
    OBVIOUS
  <1> USE SegmentAssumption, SuccInSegment, SelectedType, NumWorkersType
  <1>1. ASSUME NEW w \in Workers, WorkerTake(w) PROVE TypeOK'
    <2>1. Head(work) \in Block /\ work' \in Seq(Block)
      BY <1>1, TailFacts DEF TypeOK, WorkerTake
    <2>2. Selected(Head(work)) \subseteq TxIds
      BY <2>1
    <2> QED
      BY <1>1, <2>1, <2>2 DEF TypeOK, WorkerTake, prodVars, mainVars, totalVars
  <1>2. ASSUME NEW w \in Workers, WorkerTaskOk(w) PROVE TypeOK'
    <2>1. PICK t \in wtodo[w] :
             /\ wtodo' = [wtodo EXCEPT ![w] = @ \ {t}]
             /\ ran' = ran \cup {<<wblk[w], t>>}
      BY <1>2 DEF WorkerTaskOk
    <2>2. <<wblk[w], t>> \in Block \X TxIds
      BY <2>1 DEF TypeOK
    <2>3. wtodo' \in [Workers -> SUBSET TxIds] /\ ran' \subseteq Block \X TxIds
      BY <2>1, <2>2 DEF TypeOK
    <2> QED
      BY <1>2, <2>3 DEF TypeOK, WorkerTaskOk, chanVars, prodVars, mainVars
  <1>3. ASSUME NEW w \in Workers, WorkerTaskErr(w) PROVE TypeOK'
    BY <1>3 DEF TypeOK, WorkerTaskErr, chanVars, prodVars, mainVars, totalVars
  <1>4. ASSUME NEW w \in Workers, WorkerBlockEnd(w) PROVE TypeOK'
    BY <1>4 DEF TypeOK, WorkerBlockEnd, chanVars, prodVars, mainVars, totalVars
  <1>5. ASSUME NEW w \in Workers, WorkerCount(w) PROVE TypeOK'
    BY <1>5 DEF TypeOK, WorkerCount, chanVars, prodVars, mainVars
  <1>6. ASSUME NEW w \in Workers, WorkerSend(w) PROVE TypeOK'
    <2>1. [block |-> wblk[w], err |-> werr[w]] \in Results
      BY DEF TypeOK, Results
    <2>2. done' \in Seq(Results)
      BY <1>6, <2>1, AppendFacts DEF TypeOK, WorkerSend
    <2> QED
      BY <1>6, <2>2 DEF TypeOK, WorkerSend, prodVars, mainVars, totalVars
  <1>7. ASSUME NEW w \in Workers, WorkerStop(w) PROVE TypeOK'
    BY <1>7 DEF TypeOK, WorkerStop, prodVars, mainVars, totalVars
  <1>8. CASE ProducerSend
    <2>1. pblk \in Block /\ Succ(pblk) \in First..(Last + 1)
      BY <1>8 DEF TypeOK, ProducerSend, Block
    <2>2. work' \in Seq(Block)
      BY <1>8, <2>1, AppendFacts DEF TypeOK, ProducerSend
    <2> QED
      BY <1>8, <2>1, <2>2
         DEF TypeOK, ProducerSend, workerVars, mainVars, totalVars
  <1>9. CASE ProducerStop
    BY <1>9 DEF TypeOK, ProducerStop, workerVars, mainVars, totalVars
  <1>10. CASE ProducerEnd
    BY <1>10 DEF TypeOK, ProducerEnd, chanVars, workerVars, mainVars, totalVars
  <1>11. CASE MainCount
    <2>1. Succ(mblk) \in First..(Last + 1)
      BY <1>11 DEF TypeOK, MainCount, Block
    <2> QED
      BY <1>11, <2>1
         DEF TypeOK, MainCount, chanVars, workerVars, prodVars, totalVars
  <1>12. CASE MainDone
    <2>1. Head(done) \in Results /\ done' \in Seq(Results)
      BY <1>12, TailFacts DEF TypeOK, MainDone
    <2>2. Head(done).block \in Block
      BY <2>1 DEF Results
    <2> QED
      BY <1>12, <2>1, <2>2
         DEF TypeOK, MainDone, workerVars, prodVars, totalVars
  <1>13. CASE MainErr
    <2>1. Head(done) \in Results /\ done' \in Seq(Results)
      BY <1>13, TailFacts DEF TypeOK, MainErr
    <2>2. Head(done).block \in Block
      BY <2>1 DEF Results
    <2> QED
      BY <1>13, <2>1, <2>2
         DEF TypeOK, MainErr, workerVars, prodVars, totalVars
  <1>14. CASE MainNil
    BY <1>14 DEF TypeOK, MainNil, chanVars, workerVars, prodVars, totalVars
  <1>15. CASE MainSendStop
    BY <1>15 DEF TypeOK, MainSendStop, workerVars, prodVars, totalVars
  <1>16. CASE MainReturn
    BY <1>16 DEF TypeOK, MainReturn, workerVars, prodVars, totalVars
  <1>17. CASE UNCHANGED vars
    BY <1>17 DEF TypeOK, vars, chanVars, workerVars, prodVars, mainVars, totalVars
  <1> QED
    BY <1>1, <1>2, <1>3, <1>4, <1>5, <1>6, <1>7, <1>8, <1>9, <1>10, <1>11,
       <1>12, <1>13, <1>14, <1>15, <1>16, <1>17
       DEF Next, Worker, Producer, Main, Returned

\* ExecuteSegment keeps its variables and channels well typed: in particular
\* only blocks of the segment ever travel through workChan and doneChan.
THEOREM TypeCorrect == Spec => []TypeOK
  <1> QED
    BY InitTypeOK, NextTypeOK, PTL DEF Spec
-----------------------------------------------------------------------------
(* The inductive invariant.  Most steps leave every block where it is.     *)

Places == WorkContiguous /\ NoBlockLost /\ NoBlockTwice

\* A step that moves no block between the channels, the workers and main
\* leaves every block in its place.
LEMMA PlacesKept ==
  ASSUME Places, UNCHANGED <<work, done, pblk, wblk, mblk, waitMap>>,
         \A w \in Workers : Holding(w)' <=> Holding(w),
         \A b \in Block : Erred(b)' <=> Erred(b),
         TypeOK, TypeOK'
  PROVE  Places'
  <1>1. Frontier' = Frontier
    BY DEF Frontier
  <1>2. WorkContiguous'
    BY <1>1 DEF Places, WorkContiguous
  <1>3. /\ \A b : AtWorker(b)' <=> AtWorker(b)
        /\ \A b : InDone(b)' <=> InDone(b)
    BY DEF AtWorker, InDone
  <1>4. Frontier \in Int /\ First..(Frontier - 1) \subseteq Block
    BY SegmentAssumption DEF TypeOK, Frontier, Block
  <1>5. NoBlockLost'
    BY <1>1, <1>3, <1>4 DEF Places, NoBlockLost
  <1>6. /\ \A w \in Workers : wblk[w] \in Block
        /\ \A i \in 1..Len(done) : done[i].block \in Block
        /\ waitMap \subseteq Block
        /\ retBlock \in Block /\ retBlock' \in Block
    BY DoneType DEF TypeOK
  <1>7. NoBlockTwice'
    <2>1. ASSUME NEW w \in Workers, Holding(w)'
          PROVE  /\ First <= wblk[w] /\ wblk[w] < Frontier /\ mblk <= wblk[w]
                 /\ wblk[w] \notin waitMap
                 /\ ~InDone(wblk[w])' /\ ~Erred(wblk[w])'
                 /\ \A v \in Workers \ {w} : Holding(v)' => wblk[v] # wblk[w]
      BY <2>1, <1>3, <1>6 DEF Places, NoBlockTwice
    <2>2. ASSUME NEW i \in 1..Len(done)
          PROVE  /\ First <= done[i].block /\ done[i].block < Frontier
                 /\ mblk <= done[i].block
                 /\ done[i].block \notin waitMap /\ ~Erred(done[i].block)'
                 /\ \A j \in 1..Len(done) : j # i => done[j].block # done[i].block
      BY <1>6 DEF Places, NoBlockTwice
    <2>3. \A b \in waitMap : mblk <= b /\ b < Frontier /\ ~Erred(b)'
      BY <1>6 DEF Places, NoBlockTwice
    <2>4. Erred(retBlock)' => (mblk <= retBlock' /\ retBlock' < Frontier)
      <3>1. Erred(retBlock') => retBlock' = retBlock
        BY DEF Erred
      <3> QED BY <3>1, <1>6 DEF Places, NoBlockTwice, Erred
    <2> QED BY <2>1, <2>2, <2>3, <2>4, <1>1 DEF NoBlockTwice
  <1> QED BY <1>2, <1>5, <1>7 DEF Places

\* Blocks that have left workChan are blocks of the segment.
LEMMA FrontierType ==
  ASSUME TypeOK
  PROVE  /\ Frontier \in Int /\ Frontier <= Last + 1
         /\ First..(Frontier - 1) \subseteq Block
  BY SegmentAssumption DEF TypeOK, Frontier, Block

\* All block numbers of the state are integers.
LEMMA IntFacts ==
  ASSUME TypeOK
  PROVE  /\ First \in Int /\ Last \in Int /\ mblk \in Int /\ pblk \in Int
         /\ Frontier \in Int /\ retBlock \in Int
         /\ \A v \in Workers : wblk[v] \in Int
         /\ \A i \in 1..Len(done) : done[i].block \in Int
         /\ \A c \in waitMap : c \in Int
         /\ Block \subseteq Int
  <1>1. \A b \in Block : b \in Int
    BY SegmentAssumption DEF Block
  <1>2. \A i \in 1..Len(done) : done[i].block \in Block
    BY DoneType DEF TypeOK
  <1>3. /\ retBlock \in Block /\ waitMap \subseteq Block
        /\ \A v \in Workers : wblk[v] \in Block
    BY DEF TypeOK
  <1>4. mblk \in Int /\ pblk \in Int
    BY SegmentAssumption DEF TypeOK
  <1>5. First \in Int /\ Last \in Int /\ Frontier \in Int
    BY FrontierType, SegmentAssumption
  <1> QED
    BY <1>1, <1>2, <1>3, <1>4, <1>5

\* A worker that receives from workChan moves one block from there to itself.
LEMMA TakePlaces ==
  ASSUME TypeOK, TypeOK', Places, NEW w \in Workers, WorkerTake(w)
  PROVE  Places' /\ Frontier' = Frontier + 1 /\ Head(work) = Frontier
  <1> DEFINE b == Head(work)
  <1>1. /\ work # <<>> /\ work \in Seq(Block) /\ work' = Tail(work)
        /\ wblk' = [wblk EXCEPT ![w] = b]
        /\ wpc[w] = "select" /\ wpc' = [wpc EXCEPT ![w] = "exec"]
        /\ UNCHANGED <<done, pblk, mblk, waitMap, ret, retBlock>>
    BY DEF WorkerTake, TypeOK, prodVars, mainVars
  <1>2. /\ Len(work) \in Nat \ {0} /\ Len(work') = Len(work) - 1
        /\ b = work[1] /\ \A i \in 1..Len(work') : work'[i] = work[i + 1]
    BY <1>1, TailFacts
  <1>3. pblk \in Int /\ Frontier \in Int /\ Frontier' = Frontier + 1
    BY <1>1, <1>2 DEF Frontier, TypeOK
  <1>4. First <= Frontier /\ \A i \in 1..Len(work) : work[i] = Frontier + i - 1
    BY DEF Places, WorkContiguous
  <1>5. b = Frontier
    BY <1>2, <1>3, <1>4
  <1>6. WorkContiguous'
    <2>1. ASSUME NEW i \in 1..Len(work') PROVE work'[i] = Frontier' + i - 1
      <3>1. i + 1 \in 1..Len(work) /\ work'[i] = work[i + 1]
        BY <1>2
      <3>2. work'[i] = Frontier + (i + 1) - 1
        BY <3>1, <1>4
      <3> QED BY <3>2, <1>3
    <2>2. First <= Frontier' /\ mblk' <= Frontier'
      BY <1>1, <1>3, <1>4, IntFacts DEF Places, WorkContiguous
    <2> QED BY <2>1, <2>2 DEF WorkContiguous
  <1>7. /\ Holding(w)' /\ ~Holding(w) /\ wblk'[w] = Frontier
        /\ \A v \in Workers \ {w} : (Holding(v)' <=> Holding(v)) /\ wblk'[v] = wblk[v]
    BY <1>1, <1>5 DEF Holding, TypeOK
  <1>8. /\ \A c : InDone(c)' <=> InDone(c)
        /\ \A c : Erred(c)' <=> Erred(c)
    BY <1>1 DEF InDone, Erred
  <1>9. NoBlockLost'
    <2> SUFFICES ASSUME NEW c \in First..(Frontier' - 1)
                 PROVE AtWorker(c)' \/ InDone(c)' \/ c \in waitMap' \/ c < mblk' \/ Erred(c)'
      BY DEF NoBlockLost
    <2>1. CASE c = Frontier
      BY <2>1, <1>7 DEF AtWorker
    <2>2. CASE c # Frontier
      <3>1. c \in First..(Frontier - 1)
        BY <2>2, <1>3, SegmentAssumption
      <3>2. AtWorker(c) \/ InDone(c) \/ c \in waitMap \/ c < mblk \/ Erred(c)
        BY <3>1 DEF Places, NoBlockLost
      <3>3. AtWorker(c) => AtWorker(c)'
        BY <1>7 DEF AtWorker
      <3> QED BY <3>2, <3>3, <1>8, <1>1
    <2> QED BY <2>1, <2>2
  <1>10. /\ Frontier \notin waitMap /\ ~InDone(Frontier) /\ ~Erred(Frontier)
         /\ \A v \in Workers : Holding(v) => wblk[v] < Frontier
    <2>1. /\ \A i \in 1..Len(done) : done[i].block < Frontier
          /\ \A c \in waitMap : c < Frontier
          /\ \A v \in Workers : Holding(v) => wblk[v] < Frontier
          /\ Erred(retBlock) => retBlock < Frontier
      BY DEF Places, NoBlockTwice
    <2> QED BY <2>1, IntFacts DEF InDone, Erred
  <1>11. NoBlockTwice'
    <2>2. \A v \in Workers : Holding(v)' => 
             /\ First <= wblk'[v] /\ wblk'[v] < Frontier' /\ mblk' <= wblk'[v]
             /\ wblk'[v] \notin waitMap'
             /\ ~InDone(wblk[v])' /\ ~Erred(wblk[v])'
             /\ \A u \in Workers \ {v} : Holding(u)' => wblk'[u] # wblk'[v]
      <3> SUFFICES ASSUME NEW v \in Workers, Holding(v)'
                   PROVE  /\ First <= wblk'[v] /\ wblk'[v] < Frontier' /\ mblk' <= wblk'[v]
                          /\ wblk'[v] \notin waitMap'
                          /\ ~InDone(wblk[v])' /\ ~Erred(wblk[v])'
                          /\ \A u \in Workers \ {v} : Holding(u)' => wblk'[u] # wblk'[v]
        OBVIOUS
      <3>1. CASE v = w
        <4>1. ~InDone(wblk[v])' /\ ~Erred(wblk[v])'
          BY <3>1, <1>7, <1>8, <1>10, <1>1 DEF InDone, Erred
        <4>2. mblk <= Frontier
          BY DEF Places, WorkContiguous
        <4> QED BY <3>1, <4>1, <4>2, <1>1, <1>3, <1>4, <1>7, <1>10, IntFacts
      <3>2. CASE v # w
        <4>1. /\ First <= wblk[v] /\ wblk[v] < Frontier /\ mblk <= wblk[v]
              /\ wblk[v] \notin waitMap
              /\ ~InDone(wblk[v]) /\ ~Erred(wblk[v])
              /\ \A u \in Workers \ {v} : Holding(u) => wblk[u] # wblk[v]
          BY <3>2, <1>7 DEF Places, NoBlockTwice
        <4>2. ~InDone(wblk[v])' /\ ~Erred(wblk[v])'
          BY <4>1, <3>2, <1>7, <1>1 DEF InDone, Erred
        <4> QED BY <3>2, <4>1, <4>2, <1>1, <1>3, <1>7, IntFacts
      <3> QED BY <3>1, <3>2
    <2>3. ASSUME NEW i \in 1..Len(done)
          PROVE  /\ First <= done[i].block /\ done[i].block < Frontier'
                 /\ mblk <= done[i].block
                 /\ done[i].block \notin waitMap /\ ~Erred(done[i].block)'
                 /\ \A j \in 1..Len(done) : j # i => done[j].block # done[i].block
      <3>1. /\ First <= done[i].block /\ done[i].block < Frontier
            /\ mblk <= done[i].block
            /\ done[i].block \notin waitMap /\ ~Erred(done[i].block)
            /\ \A j \in 1..Len(done) : j # i => done[j].block # done[i].block
        BY DEF Places, NoBlockTwice
      <3>2. ~Erred(done[i].block)'
        BY <3>1, <1>1 DEF Erred
      <3>3. done[i].block < Frontier + 1
        BY <3>1, IntFacts
      <3> QED BY <3>1, <3>2, <3>3, <1>3
    <2>4. \A c \in waitMap : mblk <= c /\ c < Frontier' /\ ~Erred(c)'
      BY <1>3, <1>8, IntFacts DEF Places, NoBlockTwice
    <2>5. Erred(retBlock)' => mblk' <= retBlock' /\ retBlock' < Frontier'
      BY <1>1, <1>3, IntFacts DEF Places, NoBlockTwice, Erred
    <2> QED BY <2>2, <2>3, <2>4, <2>5, <1>1 DEF NoBlockTwice
  <1> QED BY <1>3, <1>5, <1>6, <1>9, <1>11 DEF Places

\* A producer that sends puts a new block at the end of workChan.
LEMMA ProducePlaces ==
  ASSUME TypeOK, TypeOK', Places, ProducerSend
  PROVE  Places' /\ Frontier' = Frontier
  <1>1. /\ pblk \in Block /\ work \in Seq(Block)
        /\ work' = Append(work, pblk) /\ pblk' = pblk + 1
        /\ UNCHANGED <<done, wpc, wblk, mblk, waitMap, ret, retBlock>>
    BY SuccInSegment, SegmentAssumption
       DEF ProducerSend, TypeOK, Block, workerVars, mainVars
  <1>2. /\ Len(work) \in Nat /\ Len(work') = Len(work) + 1
        /\ work'[Len(work) + 1] = pblk
        /\ \A i \in 1..Len(work) : work'[i] = work[i]
    BY <1>1, AppendFacts
  <1>3. Frontier' = Frontier
    BY <1>1, <1>2, IntFacts DEF Frontier
  <1>4. WorkContiguous'
    <2>1. ASSUME NEW i \in 1..Len(work') PROVE work'[i] = Frontier + i - 1
      <3>1. CASE i = Len(work) + 1
        BY <3>1, <1>1, <1>2, IntFacts DEF Frontier
      <3>2. CASE i # Len(work) + 1
        BY <3>2, <1>2 DEF Places, WorkContiguous
      <3> QED BY <3>1, <3>2
    <2> QED BY <2>1, <1>1, <1>3 DEF Places, WorkContiguous
  <1>5. /\ \A c : AtWorker(c)' <=> AtWorker(c)
        /\ \A c : InDone(c)' <=> InDone(c)
        /\ \A c : Erred(c)' <=> Erred(c)
        /\ \A v \in Workers : Holding(v)' <=> Holding(v)
    BY <1>1 DEF AtWorker, InDone, Erred, Holding
  <1>6. NoBlockLost'
    BY <1>1, <1>3, <1>5 DEF Places, NoBlockLost
  <1>7. NoBlockTwice'
    BY <1>1, <1>3, <1>5 DEF Places, NoBlockTwice, InDone, Erred
  <1> QED BY <1>3, <1>4, <1>6, <1>7 DEF Places

\* A worker that sends its result moves its block to doneChan.
LEMMA SendPlaces ==
  ASSUME TypeOK, TypeOK', Places, NEW w \in Workers, WorkerSend(w)
  PROVE  Places' /\ Frontier' = Frontier
  <1> DEFINE e == [block |-> wblk[w], err |-> werr[w]]
  <1>1. /\ wpc[w] = "send" /\ done \in Seq(Results) /\ e \in Results
        /\ done' = Append(done, e) /\ wpc' = [wpc EXCEPT ![w] = "select"]
        /\ UNCHANGED <<work, wblk, pblk, mblk, waitMap, ret, retBlock>>
    BY DEF WorkerSend, TypeOK, Results, prodVars, mainVars
  <1>2. /\ Len(done) \in Nat /\ Len(done') = Len(done) + 1
        /\ done'[Len(done) + 1] = e
        /\ \A i \in 1..Len(done) : done'[i] = done[i]
    BY <1>1, AppendFacts
  <1> HIDE DEF e
  <1>3. e.block = wblk[w]
    BY DEF e
  <1>4. Frontier' = Frontier /\ WorkContiguous'
    BY <1>1 DEF Places, WorkContiguous, Frontier
  <1>5. /\ Holding(w) /\ ~Holding(w)'
        /\ \A v \in Workers \ {w} : Holding(v)' <=> Holding(v)
    BY <1>1 DEF Holding, TypeOK
  <1>6. \A c : InDone(c)' <=> InDone(c) \/ c = wblk[w]
    BY <1>2, <1>3 DEF InDone
  <1>7. \A c : Erred(c)' <=> Erred(c)
    BY <1>1 DEF Erred
  <1>8. \A c : AtWorker(c) => AtWorker(c)' \/ c = wblk[w]
    BY <1>1, <1>5 DEF AtWorker
  <1>9. NoBlockLost'
    BY <1>1, <1>4, <1>6, <1>7, <1>8 DEF Places, NoBlockLost
  <1>10. /\ First <= wblk[w] /\ wblk[w] < Frontier /\ mblk <= wblk[w]
         /\ wblk[w] \notin waitMap
         /\ ~InDone(wblk[w]) /\ ~Erred(wblk[w])
         /\ \A v \in Workers \ {w} : Holding(v) => wblk[v] # wblk[w]
    BY <1>5 DEF Places, NoBlockTwice
  <1>11. NoBlockTwice'
    <2>1. ASSUME NEW v \in Workers, Holding(v)'
          PROVE  /\ First <= wblk[v] /\ wblk[v] < Frontier /\ mblk <= wblk[v]
                 /\ wblk[v] \notin waitMap
                 /\ ~InDone(wblk[v])' /\ ~Erred(wblk[v])'
                 /\ \A u \in Workers \ {v} : Holding(u)' => wblk[u] # wblk[v]
      <3>1. v # w /\ Holding(v)
        BY <2>1, <1>5
      <3>2. /\ First <= wblk[v] /\ wblk[v] < Frontier /\ mblk <= wblk[v]
            /\ wblk[v] \notin waitMap
            /\ ~InDone(wblk[v]) /\ ~Erred(wblk[v])
            /\ \A u \in Workers \ {v} : Holding(u) => wblk[u] # wblk[v]
        BY <3>1 DEF Places, NoBlockTwice
      <3>3. wblk[v] # wblk[w]
        BY <3>1, <1>10
      <3>4. ~InDone(wblk[v])' /\ ~Erred(wblk[v])'
        <4>1. wblk'[v] = wblk[v]
          BY <1>1
        <4> QED BY <4>1, <3>2, <3>3, <1>1, <1>2, <1>3 DEF InDone, Erred
      <3> QED BY <3>1, <3>2, <3>4, <1>5
    <2>2. ASSUME NEW i \in 1..Len(done')
          PROVE  /\ First <= done'[i].block /\ done'[i].block < Frontier
                 /\ mblk <= done'[i].block
                 /\ done'[i].block \notin waitMap
                 /\ ~(ret = "err" /\ retBlock = done'[i].block)
                 /\ \A j \in 1..Len(done') : j # i => done'[j].block # done'[i].block
      <3>1. CASE i = Len(done) + 1
        <4>1. done'[i].block = wblk[w]
          BY <3>1, <1>2, <1>3
        <4>2. \A j \in 1..Len(done) : done'[j].block # wblk[w]
          BY <1>2, <1>10 DEF InDone
        <4>3. \A j \in 1..Len(done') : j # i => j \in 1..Len(done)
          BY <3>1, <1>2
        <4> QED BY <4>1, <4>2, <4>3, <1>10 DEF Erred
      <3>2. CASE i \in 1..Len(done)
        <4>1. /\ First <= done[i].block /\ done[i].block < Frontier
              /\ mblk <= done[i].block
              /\ done[i].block \notin waitMap /\ ~Erred(done[i].block)
              /\ \A j \in 1..Len(done) : j # i => done[j].block # done[i].block
          BY <3>2 DEF Places, NoBlockTwice
        <4>2. done'[i] = done[i] /\ done[i].block # wblk[w]
          BY <3>2, <1>2, <1>10 DEF InDone
        <4>3. \A j \in 1..Len(done') :
                 \/ j \in 1..Len(done) /\ done'[j] = done[j]
                 \/ done'[j].block = wblk[w]
          BY <1>2, <1>3
        <4> QED BY <4>1, <4>2, <4>3 DEF Erred
      <3> QED BY <3>1, <3>2, <1>2
    <2>3. \A c \in waitMap : mblk <= c /\ c < Frontier /\ ~Erred(c)'
      BY <1>7 DEF Places, NoBlockTwice
    <2>4. Erred(retBlock)' => mblk' <= retBlock' /\ retBlock' < Frontier'
      BY <1>1, <1>4 DEF Places, NoBlockTwice, Erred
    <2> QED BY <2>1, <2>2, <2>3, <2>4, <1>1, <1>4 DEF NoBlockTwice, Erred
  <1> QED BY <1>4, <1>9, <1>11 DEF Places

\* Main counts a block of waitMap: it moves below mblk.
LEMMA CountPlaces ==
  ASSUME TypeOK, TypeOK', Places, ret # "err", MainCount
  PROVE  Places' /\ Frontier' = Frontier
  <1>1. /\ mblk \in waitMap /\ waitMap' = waitMap \ {mblk} /\ mblk' = mblk + 1
        /\ UNCHANGED <<work, done, wpc, wblk, pblk, ret, retBlock>>
    BY SuccInSegment, SegmentAssumption
       DEF MainCount, TypeOK, Block, chanVars, workerVars, prodVars
  <1>2. Frontier' = Frontier
    BY <1>1 DEF Frontier
  <1>3. mblk < Frontier
    BY <1>1 DEF Places, NoBlockTwice
  <1>4. WorkContiguous'
    BY <1>1, <1>2, <1>3, IntFacts DEF Places, WorkContiguous
  <1>5. /\ \A c : AtWorker(c)' <=> AtWorker(c)
        /\ \A c : InDone(c)' <=> InDone(c)
        /\ \A c : ~Erred(c)' /\ ~Erred(c)
        /\ \A v \in Workers : Holding(v)' <=> Holding(v)
    BY <1>1 DEF AtWorker, InDone, Erred, Holding
  <1>6. NoBlockLost'
    <2> SUFFICES ASSUME NEW c \in First..(Frontier - 1)
                 PROVE  AtWorker(c)' \/ InDone(c)' \/ c \in waitMap' \/ c < mblk'
      BY <1>2 DEF NoBlockLost
    <2>1. AtWorker(c) \/ InDone(c) \/ c \in waitMap \/ c < mblk
      BY <1>5 DEF Places, NoBlockLost
    <2> QED BY <2>1, <1>1, <1>5, IntFacts
  <1>7. \A c \in Int : mblk <= c /\ c # mblk => mblk + 1 <= c
    BY IntFacts
  <1>8. NoBlockTwice'
    <2>1. ASSUME NEW v \in Workers, Holding(v)
          PROVE  /\ First <= wblk[v] /\ wblk[v] < Frontier /\ mblk + 1 <= wblk[v]
                 /\ wblk[v] \notin waitMap'
                 /\ ~InDone(wblk[v])
                 /\ \A u \in Workers \ {v} : Holding(u) => wblk[u] # wblk[v]
      BY <2>1, <1>1, <1>7, IntFacts DEF Places, NoBlockTwice
    <2>2. ASSUME NEW i \in 1..Len(done)
          PROVE  /\ First <= done[i].block /\ done[i].block < Frontier
                 /\ mblk + 1 <= done[i].block
                 /\ done[i].block \notin waitMap'
                 /\ \A j \in 1..Len(done) : j # i => done[j].block # done[i].block
      <3>1. /\ First <= done[i].block /\ done[i].block < Frontier
            /\ mblk <= done[i].block
            /\ done[i].block \notin waitMap
            /\ \A j \in 1..Len(done) : j # i => done[j].block # done[i].block
        BY DEF Places, NoBlockTwice
      <3>2. done[i].block # mblk
        BY <3>1, <1>1
      <3>3. done[i].block \in Int
        BY IntFacts
      <3> QED BY <3>1, <3>2, <3>3, <1>1, <1>7
    <2>3. \A c \in waitMap' : mblk + 1 <= c /\ c < Frontier
      BY <1>1, <1>7, IntFacts DEF Places, NoBlockTwice
    <2> QED BY <2>1, <2>2, <2>3, <1>1, <1>2, <1>5 DEF NoBlockTwice, InDone, Erred
  <1> QED BY <1>2, <1>4, <1>6, <1>8 DEF Places

\* A receive from doneChan, in both cases of the type switch: the block goes to
\* waitMap or becomes the one the error is about.
LEMMA ReceivePlaces ==
  ASSUME TypeOK, TypeOK', Places, ret # "err", MainDone \/ MainErr
  PROVE  Places' /\ Frontier' = Frontier
  <1> DEFINE b == done[1].block
  <1>1. /\ done # <<>> /\ done \in Seq(Results) /\ done' = Tail(done)
        /\ UNCHANGED <<work, wpc, wblk, pblk, mblk>>
    BY DEF MainDone, MainErr, TypeOK, workerVars, prodVars
  <1>2. /\ Len(done) \in Nat \ {0} /\ Len(done') = Len(done) - 1
        /\ Head(done) = done[1]
        /\ \A i \in 1..Len(done') : done'[i] = done[i + 1]
    BY <1>1, TailFacts
  <1>3. \/ waitMap' = waitMap \cup {b} /\ ret' = ret
        \/ waitMap' = waitMap /\ ret' = "err" /\ retBlock' = b
    BY <1>2 DEF MainDone, MainErr
  <1> HIDE DEF b
  <1>4. Frontier' = Frontier /\ WorkContiguous'
    BY <1>1 DEF Places, WorkContiguous, Frontier
  <1>5. /\ \A c : AtWorker(c)' <=> AtWorker(c)
        /\ \A v \in Workers : Holding(v)' <=> Holding(v)
    BY <1>1 DEF AtWorker, Holding
  <1>6. \A c : InDone(c) <=> InDone(c)' \/ c = b
    <2>1. \A c : InDone(c)' => InDone(c)
      <3> SUFFICES ASSUME NEW c, NEW i \in 1..Len(done'), done'[i].block = c
                   PROVE  InDone(c)
        BY DEF InDone
      <3>1. i + 1 \in 1..Len(done) /\ done[i + 1].block = c
        BY <1>2
      <3> QED BY <3>1 DEF InDone
    <2>2. InDone(b)
      BY <1>2 DEF InDone, b
    <2>3. ASSUME NEW c, InDone(c), c # b PROVE InDone(c)'
      <3>1. PICK i \in 1..Len(done) : done[i].block = c
        BY <2>3 DEF InDone
      <3>2. i - 1 \in 1..Len(done') /\ done'[i - 1].block = c
        BY <3>1, <2>3, <1>2 DEF b
      <3> QED BY <3>2 DEF InDone
    <2> QED BY <2>1, <2>2, <2>3
  <1>7. /\ \A c : ~Erred(c)
        /\ \A c : Erred(c)' => c = b
        /\ \A c : c \in waitMap' => c \in waitMap \/ c = b
        /\ \A c : c \in waitMap => c \in waitMap'
        /\ b \in waitMap' \/ (ret' = "err" /\ retBlock' = b)
    <2>1. /\ \A c : ~Erred(c)
          /\ \A c : Erred(c)' => c = b
      BY <1>3 DEF Erred
    <2>2. /\ \A c : c \in waitMap' => c \in waitMap \/ c = b
          /\ \A c : c \in waitMap => c \in waitMap'
          /\ b \in waitMap' \/ (ret' = "err" /\ retBlock' = b)
      BY <1>3
    <2> QED BY <2>1, <2>2
  <1>8. NoBlockLost'
    BY <1>1, <1>4, <1>5, <1>6, <1>7 DEF Places, NoBlockLost, Erred
  <1>9. /\ First <= b /\ b < Frontier /\ mblk <= b /\ b \notin waitMap
        /\ \A j \in 1..Len(done) : j # 1 => done[j].block # b
    BY <1>2 DEF Places, NoBlockTwice, b
  <1>10. NoBlockTwice'
    <2>1. ASSUME NEW v \in Workers, Holding(v)
          PROVE  /\ First <= wblk[v] /\ wblk[v] < Frontier /\ mblk <= wblk[v]
                 /\ wblk[v] \notin waitMap'
                 /\ ~InDone(wblk[v])' /\ ~Erred(wblk[v])'
                 /\ \A u \in Workers \ {v} : Holding(u) => wblk[u] # wblk[v]
      <3>1. /\ First <= wblk[v] /\ wblk[v] < Frontier /\ mblk <= wblk[v]
            /\ wblk[v] \notin waitMap /\ ~InDone(wblk[v])
            /\ \A u \in Workers \ {v} : Holding(u) => wblk[u] # wblk[v]
        BY <2>1 DEF Places, NoBlockTwice
      <3>2. wblk[v] # b /\ ~(\E i \in 1..Len(done') : done'[i].block = wblk[v])
        BY <3>1, <1>6 DEF InDone
      <3>3. wblk'[v] = wblk[v]
        BY <1>1
      <3>4. ~(ret' = "err" /\ retBlock' = wblk[v])
        BY <3>2, <1>7 DEF Erred
      <3> QED BY <3>1, <3>2, <3>3, <3>4, <1>7 DEF InDone, Erred
    <2>2. ASSUME NEW i \in 1..Len(done')
          PROVE  /\ First <= done'[i].block /\ done'[i].block < Frontier
                 /\ mblk <= done'[i].block
                 /\ done'[i].block \notin waitMap'
                 /\ ~(ret' = "err" /\ retBlock' = done'[i].block)
                 /\ \A j \in 1..Len(done') : j # i => done'[j].block # done'[i].block
      <3>1. i + 1 \in 1..Len(done) /\ done'[i] = done[i + 1]
        BY <1>2
      <3>2. /\ First <= done'[i].block /\ done'[i].block < Frontier
            /\ mblk <= done'[i].block
            /\ done'[i].block \notin waitMap
            /\ \A j \in 1..Len(done) : j # i + 1 => done[j].block # done'[i].block
        BY <3>1 DEF Places, NoBlockTwice
      <3>3. done'[i].block # b
        BY <3>1, <1>9
      <3>4. \A j \in 1..Len(done') : j # i =>
               j + 1 \in 1..Len(done) /\ j + 1 # i + 1 /\ done'[j] = done[j + 1]
        BY <1>2
      <3> QED BY <3>2, <3>3, <3>4, <1>7 DEF Erred
    <2>3. \A c \in waitMap' : mblk <= c /\ c < Frontier /\ ~Erred(c)'
      BY <1>3, <1>7, <1>9 DEF Places, NoBlockTwice, Erred
    <2>4. Erred(retBlock)' => mblk <= retBlock' /\ retBlock' < Frontier
      BY <1>3, <1>7, <1>9 DEF Erred
    <2> QED BY <2>1, <2>2, <2>3, <2>4, <1>1, <1>4, <1>5 DEF NoBlockTwice, Erred
  <1> QED BY <1>4, <1>8, <1>10 DEF Places
-----------------------------------------------------------------------------
(* Every step keeps the blocks in place or moves one of them.              *)

\* No step loses or doubles a block: the union of the cases above.
LEMMA PlacesStep ==
  ASSUME TypeOK, TypeOK', Places, MainInv, [Next]_vars
  PROVE  Places' /\ Frontier <= Frontier'
  <1> DEFINE Quiet == /\ UNCHANGED <<work, done, pblk, wblk, mblk, waitMap>>
                      /\ \A v \in Workers : Holding(v)' <=> Holding(v)
                      /\ \A b \in Block : Erred(b)' <=> Erred(b)
  <1>1. Quiet => Places' /\ Frontier <= Frontier'
    <2> SUFFICES ASSUME Quiet PROVE Places' /\ Frontier <= Frontier'
      OBVIOUS
    <2>1. Frontier' = Frontier
      BY DEF Frontier
    <2> QED BY <2>1, PlacesKept, IntFacts
  <1>2. \A x \in Int : x <= x /\ x <= x + 1
    OBVIOUS
  <1>3. ASSUME NEW w \in Workers, WorkerTake(w) PROVE Places' /\ Frontier <= Frontier'
    BY <1>3, <1>2, TakePlaces, IntFacts
  <1>4. ASSUME NEW w \in Workers, WorkerTaskOk(w) PROVE Quiet
    BY <1>4 DEF WorkerTaskOk, chanVars, prodVars, mainVars, Holding, Erred
  <1>5. ASSUME NEW w \in Workers, WorkerTaskErr(w) PROVE Quiet
    BY <1>5 DEF TypeOK, WorkerTaskErr, chanVars, prodVars, mainVars, Holding, Erred
  <1>6. ASSUME NEW w \in Workers, WorkerBlockEnd(w) PROVE Quiet
    BY <1>6 DEF TypeOK, WorkerBlockEnd, chanVars, prodVars, mainVars, Holding, Erred
  <1>7. ASSUME NEW w \in Workers, WorkerCount(w) PROVE Quiet
    BY <1>7 DEF TypeOK, WorkerCount, chanVars, prodVars, mainVars, Holding, Erred
  <1>8. ASSUME NEW w \in Workers, WorkerSend(w) PROVE Places' /\ Frontier <= Frontier'
    BY <1>8, <1>2, SendPlaces, IntFacts
  <1>9. ASSUME NEW w \in Workers, WorkerStop(w) PROVE Quiet
    BY <1>9 DEF TypeOK, WorkerStop, prodVars, mainVars, Holding, Erred
  <1>10. CASE ProducerSend
    BY <1>10, <1>2, ProducePlaces, IntFacts
  <1>11. CASE ProducerStop \/ ProducerEnd
    <2>1. Quiet
      BY <1>11 DEF ProducerStop, ProducerEnd, chanVars, workerVars, mainVars,
                   Holding, Erred
    <2> QED BY <2>1, <1>1
  <1>12. CASE MainCount
    <2>1. ret # "err"
      BY <1>12 DEF MainCount, MainInv
    <2> QED BY <1>12, <2>1, <1>2, CountPlaces, IntFacts
  <1>13. CASE MainDone \/ MainErr
    <2>1. ret # "err"
      BY <1>13 DEF MainDone, MainErr, MainInv
    <2> QED BY <1>13, <2>1, <1>2, ReceivePlaces, IntFacts
  <1>14. CASE MainNil
    <2>1. ret # "err" /\ ret' # "err"
      BY <1>14 DEF MainNil, MainInv
    <2>2. Quiet
      BY <1>14, <2>1 DEF MainNil, chanVars, workerVars, prodVars, Holding, Erred
    <2> QED BY <2>2, <1>1
  <1>15. CASE MainSendStop \/ MainReturn
    <2>1. Quiet
      BY <1>15 DEF MainSendStop, MainReturn, workerVars, prodVars, Holding, Erred
    <2> QED BY <2>1, <1>1
  <1>16. CASE UNCHANGED vars
    <2>1. Quiet
      BY <1>16 DEF vars, chanVars, workerVars, prodVars, mainVars, Holding, Erred
    <2> QED BY <2>1, <1>1
  <1> HIDE DEF Quiet
  <1> QED
    BY <1>1, <1>3, <1>4, <1>5, <1>6, <1>7, <1>8, <1>9, <1>10, <1>11, <1>12,
       <1>13, <1>14, <1>15, <1>16
       DEF Next, Worker, Producer, Main, Returned

\* Main's location determines its result.
LEMMA MainStep ==
  ASSUME TypeOK, TypeOK', Places, MainInv, [Next]_vars
  PROVE  MainInv'
  <1>1. ASSUME NEW w \in Workers, Worker(w) PROVE MainInv'
    <2>1. mpc # "returned"
      BY <1>1 DEF MainInv, Worker, WorkerTake, WorkerTaskOk, WorkerTaskErr,
                  WorkerBlockEnd, WorkerCount, WorkerSend, WorkerStop
    <2>2. UNCHANGED <<closed, ppc, mpc, mblk, ret>>
      BY <1>1 DEF Worker, WorkerTake, WorkerTaskOk, WorkerTaskErr, WorkerBlockEnd,
                  WorkerCount, WorkerSend, WorkerStop, chanVars, prodVars, mainVars
    <2> QED BY <2>1, <2>2 DEF MainInv
  <1>2. CASE Producer
    <2>1. mpc # "returned"
      BY <1>2 DEF MainInv, Producer, ProducerSend, ProducerStop, ProducerEnd
    <2>2. UNCHANGED <<closed, wpc, mpc, mblk, ret>>
      BY <1>2 DEF Producer, ProducerSend, ProducerStop, ProducerEnd, chanVars,
                  workerVars, mainVars
    <2> QED BY <2>1, <2>2 DEF MainInv
  <1>3. CASE MainCount
    BY <1>3 DEF MainInv, MainCount, chanVars, workerVars, prodVars
  <1>4. CASE MainDone
    BY <1>4 DEF MainInv, MainDone, workerVars, prodVars
  <1>5. CASE MainErr
    BY <1>5 DEF MainInv, MainErr, workerVars, prodVars
  <1>6. CASE MainNil
    BY <1>6, SegmentAssumption DEF MainInv, MainNil, TypeOK, chanVars, workerVars, prodVars
  <1>7. CASE MainSendStop
    BY <1>7 DEF MainInv, MainSendStop, workerVars, prodVars
  <1>8. CASE MainReturn
    BY <1>8 DEF MainInv, MainReturn, workerVars, prodVars
  <1>9. CASE UNCHANGED vars
    BY <1>9 DEF MainInv, vars, chanVars, workerVars, prodVars, mainVars
  <1> QED
    BY <1>1, <1>2, <1>3, <1>4, <1>5, <1>6, <1>7, <1>8, <1>9
       DEF Next, Main, Returned

\* The one step that runs a task adds one pair to ran; the others keep it.
LEMMA RanStep ==
  ASSUME TypeOK, [Next]_vars
  PROVE  \/ ran' = ran
         \/ \E w \in Workers : WorkerTaskOk(w)
  BY DEF Next, Worker, WorkerTake, WorkerTaskErr, WorkerBlockEnd, WorkerCount,
         WorkerSend, WorkerStop, Producer, ProducerSend, ProducerStop,
         ProducerEnd, Main, MainCount, MainDone, MainErr, MainNil,
         MainSendStop, MainReturn, Returned, totalVars, vars

\* A transaction that has run stays run.
LEMMA RanGrows ==
  ASSUME TypeOK, [Next]_vars
  PROVE  ran \subseteq ran' /\ \A b : FullyRun(b) => FullyRun(b)'
  <1>1. ran \subseteq ran'
    <2>1. ASSUME NEW w \in Workers, WorkerTaskOk(w) PROVE ran \subseteq ran'
      BY <2>1 DEF WorkerTaskOk
    <2> QED BY <2>1, RanStep
  <1> QED BY <1>1 DEF FullyRun

\* Only transactions of blocks that have left workChan have run.
LEMMA RanInvStep ==
  ASSUME TypeOK, TypeOK', Places, WorkerInv, RanInv, [Next]_vars,
         Frontier <= Frontier'
  PROVE  RanInv'
  <1>1. /\ Frontier \in Int /\ Frontier' \in Int
        /\ \A p \in ran : p[1] \in Int /\ p[1] < Frontier
        /\ \A p \in ran : p[2] \in Selected(p[1])
    <2>1. \A p \in ran : p[1] \in Block
      BY DEF TypeOK
    <2>2. Frontier' \in Int
      BY SegmentAssumption DEF TypeOK, Frontier
    <2> QED BY <2>1, <2>2, IntFacts DEF RanInv
  <1>2. CASE ran' = ran
    BY <1>1, <1>2 DEF RanInv
  <1>3. ASSUME NEW w \in Workers, WorkerTaskOk(w) PROVE RanInv'
    <2>1. PICK t \in wtodo[w] : ran' = ran \cup {<<wblk[w], t>>}
      BY <1>3 DEF WorkerTaskOk
    <2>2. wpc[w] = "exec" /\ wblk[w] < Frontier /\ wblk[w] \in Int
      BY <1>3, IntFacts DEF WorkerTaskOk, Places, NoBlockTwice, Holding
    <2>3. t \in Selected(wblk[w])
      BY <2>1, <2>2 DEF WorkerInv
    <2> QED BY <2>1, <2>2, <2>3, <1>1 DEF RanInv
  <1> QED BY <1>2, <1>3, RanStep

\* A worker step changes the record of its own worker only.
LEMMA WorkerInvStep ==
  ASSUME TypeOK, TypeOK', Places, WorkerInv, RanInv, [Next]_vars
  PROVE  WorkerInv'
  <1> DEFINE OK(v) ==
        /\ wpc[v] = "exec" =>
              /\ ~werr[v] /\ wtodo[v] \subseteq Selected(wblk[v])
              /\ \A t \in Selected(wblk[v]) :
                    t \in wtodo[v] <=> <<wblk[v], t>> \notin ran
        /\ wpc[v] \in {"count", "send"} =>
              IF werr[v]
              THEN \E t \in Selected(wblk[v]) : <<wblk[v], t>> \in MayFail
              ELSE FullyRun(wblk[v])
  <1>0. \A v \in Workers : OK(v)
    BY DEF WorkerInv
  <1>1. ASSUME ran' = ran, NEW v \in Workers,
               /\ wpc'[v] = wpc[v] \/ wpc'[v] \in {"select", "stopped"}
                  \/ (wpc[v] = "count" /\ wpc'[v] = "send")
               /\ wblk'[v] = wblk[v] /\ wtodo'[v] = wtodo[v] /\ werr'[v] = werr[v]
        PROVE  OK(v)'
    <2>1. FullyRun(wblk[v]) => FullyRun(wblk[v])'
      BY <1>1 DEF FullyRun
    <2>2. OK(v)
      BY <1>0
    <2> QED BY <1>1, <2>1, <2>2
  <1>2. ASSUME ran' = ran, UNCHANGED workerVars PROVE WorkerInv'
    <2>1. \A v \in Workers : OK(v)'
      BY <1>1, <1>2 DEF workerVars
    <2> QED BY <2>1 DEF WorkerInv
  <1>3. ASSUME NEW w \in Workers, WorkerTake(w) PROVE WorkerInv'
    <2>1. ASSUME NEW v \in Workers, v # w PROVE OK(v)'
      <3>1. /\ ran' = ran /\ wpc'[v] = wpc[v] /\ wblk'[v] = wblk[v]
            /\ wtodo'[v] = wtodo[v] /\ werr'[v] = werr[v]
        BY <1>3, <2>1 DEF WorkerTake, TypeOK, totalVars
      <3> QED BY <3>1, <1>1
    <2>2. OK(w)'
      <3>1. /\ wpc'[w] = "exec" /\ werr'[w] = FALSE /\ ran' = ran
            /\ wblk'[w] = Frontier /\ wtodo'[w] = Selected(Frontier)
        BY <1>3, TakePlaces DEF WorkerTake, TypeOK, totalVars
      <3>2. \A t : <<Frontier, t>> \notin ran
        BY IntFacts DEF RanInv
      <3> QED BY <3>1, <3>2
    <2> QED BY <2>1, <2>2 DEF WorkerInv
  <1>4. ASSUME NEW w \in Workers, WorkerTaskOk(w) PROVE WorkerInv'
    <2>1. PICK t \in wtodo[w] : /\ wtodo' = [wtodo EXCEPT ![w] = @ \ {t}]
                                /\ ran' = ran \cup {<<wblk[w], t>>}
      BY <1>4 DEF WorkerTaskOk
    <2>2. wpc[w] = "exec" /\ UNCHANGED <<wpc, wblk, werr>>
      BY <1>4 DEF WorkerTaskOk
    <2>3. wtodo'[w] = wtodo[w] \ {t}
      BY <2>1 DEF TypeOK
    <2>4. OK(w)'
      <3>1. OK(w)
        BY <1>0
      <3> QED BY <2>1, <2>2, <2>3, <3>1
    <2>5. ASSUME NEW v \in Workers, v # w PROVE OK(v)'
      <3>1. wtodo'[v] = wtodo[v]
        BY <2>1, <2>5 DEF TypeOK
      <3>2. wpc[v] = "exec" => wblk[v] # wblk[w]
        BY <2>2, <2>5 DEF Places, NoBlockTwice, Holding
      <3>3. FullyRun(wblk[v]) => FullyRun(wblk[v])'
        BY <2>1, <2>2 DEF FullyRun
      <3>4. OK(v)
        BY <1>0
      <3>5. wpc[v] = "exec" =>
               \A u : <<wblk[v], u>> \in ran' <=> <<wblk[v], u>> \in ran
        BY <2>1, <3>2
      <3> QED BY <2>2, <3>1, <3>3, <3>4, <3>5
    <2> QED BY <2>4, <2>5 DEF WorkerInv
  <1>5. ASSUME NEW w \in Workers, WorkerTaskErr(w) \/ WorkerBlockEnd(w)
        PROVE  WorkerInv'
    <2>1. /\ wpc[w] = "exec" /\ wpc' = [wpc EXCEPT ![w] = "count"]
          /\ UNCHANGED <<wblk, wtodo, ran>>
      BY <1>5 DEF WorkerTaskErr, WorkerBlockEnd, totalVars
    <2>2. ASSUME NEW v \in Workers, v # w PROVE OK(v)'
      <3>1. wpc'[v] = wpc[v] /\ werr'[v] = werr[v]
        BY <1>5, <2>1, <2>2 DEF WorkerTaskErr, WorkerBlockEnd, TypeOK
      <3> QED BY <2>1, <3>1, <1>1
    <2>3. OK(w)'
      <3>1. OK(w) /\ wpc'[w] = "count"
        BY <1>0, <2>1 DEF TypeOK
      <3>2. CASE WorkerTaskErr(w)
        <4>1. werr'[w] = TRUE
          BY <3>2 DEF WorkerTaskErr, TypeOK
        <4>2. \E t \in wtodo[w] : <<wblk[w], t>> \in MayFail
          BY <3>2 DEF WorkerTaskErr
        <4> QED BY <2>1, <3>1, <4>1, <4>2
      <3>3. CASE WorkerBlockEnd(w)
        <4>1. wtodo[w] = {} /\ werr'[w] = werr[w]
          BY <3>3 DEF WorkerBlockEnd
        <4>2. FullyRun(wblk[w])'
          BY <2>1, <3>1, <4>1 DEF FullyRun
        <4> QED BY <2>1, <3>1, <4>1, <4>2
      <3> QED BY <1>5, <3>2, <3>3
    <2> QED BY <2>2, <2>3 DEF WorkerInv
  <1>6. ASSUME NEW w \in Workers, WorkerCount(w) \/ WorkerSend(w) \/ WorkerStop(w)
        PROVE  WorkerInv'
    <2>1. ASSUME NEW v \in Workers PROVE OK(v)'
      <3>1. UNCHANGED <<wblk, wtodo, werr, ran>>
        BY <1>6 DEF WorkerCount, WorkerSend, WorkerStop, totalVars
      <3>2. \/ wpc'[v] = wpc[v] \/ wpc'[v] \in {"select", "stopped"}
            \/ (wpc[v] = "count" /\ wpc'[v] = "send")
        BY <1>6 DEF WorkerCount, WorkerSend, WorkerStop, TypeOK
      <3> QED BY <3>1, <3>2, <1>1
    <2> QED BY <2>1 DEF WorkerInv
  <1>7. CASE Producer \/ Main \/ UNCHANGED vars
    <2>1. ran' = ran /\ UNCHANGED workerVars
      BY <1>7 DEF Producer, ProducerSend, ProducerStop, ProducerEnd, Main,
                  MainCount, MainDone, MainErr, MainNil, MainSendStop,
                  MainReturn, vars, totalVars
    <2> QED BY <2>1, <1>2
  <1> QED
    BY <1>3, <1>4, <1>5, <1>6, <1>7 DEF Next, Worker, Returned

\* Results travel from the worker through doneChan to main unaltered.
LEMMA ResultsStep ==
  ASSUME TypeOK, TypeOK', WorkerInv, ResultsTrue, MainInv, [Next]_vars
  PROVE  ResultsTrue'
  <1> DEFINE Bad(b) == \E t \in Selected(b) : <<b, t>> \in MayFail
             True(e) == IF e.err THEN Bad(e.block) ELSE FullyRun(e.block)
  <1>0. /\ \A b \in Block : b \in waitMap \/ b < mblk => FullyRun(b)
        /\ \A i \in 1..Len(done) : True(done[i])
        /\ \A b \in Block : Erred(b) => Bad(b)
    BY DEF ResultsTrue
  <1>1. \A b : FullyRun(b) => FullyRun(b)'
    BY RanGrows
  <1>2. ASSUME /\ \A b \in Block : b \in waitMap' \/ b < mblk' => FullyRun(b)
               /\ \A i \in 1..Len(done') : True(done'[i])
               /\ \A b \in Block : (ret' = "err" /\ retBlock' = b) => Bad(b)
        PROVE  ResultsTrue'
    <2>1. \A b \in Block : b \in waitMap' \/ b < mblk' => FullyRun(b)'
      BY <1>1, <1>2
    <2>2. ASSUME NEW i \in 1..Len(done')
          PROVE  IF done'[i].err THEN Bad(done'[i].block)
                                 ELSE \A t \in Selected(done'[i].block) :
                                         <<done'[i].block, t>> \in ran'
      BY <1>2, RanGrows DEF FullyRun
    <2> QED BY <2>1, <2>2, <1>2 DEF ResultsTrue, FullyRun, Erred
  <1>3. ASSUME UNCHANGED <<done, waitMap, mblk>>, ret' # "err" \/ UNCHANGED <<ret, retBlock>>
        PROVE  ResultsTrue'
    BY <1>0, <1>2, <1>3 DEF Erred
  <1>4. ASSUME NEW w \in Workers, Worker(w), ~WorkerSend(w) PROVE ResultsTrue'
    <2>1. UNCHANGED <<done, waitMap, mblk, ret, retBlock>>
      BY <1>4 DEF Worker, WorkerTake, WorkerTaskOk, WorkerTaskErr, WorkerBlockEnd,
                  WorkerCount, WorkerStop, chanVars, mainVars
    <2> QED BY <2>1, <1>3
  <1>5. ASSUME NEW w \in Workers, WorkerSend(w) PROVE ResultsTrue'
    <2> DEFINE e == [block |-> wblk[w], err |-> werr[w]]
    <2>1. /\ e \in Results /\ done \in Seq(Results) /\ done' = Append(done, e)
          /\ UNCHANGED <<waitMap, mblk, ret, retBlock>>
      BY <1>5 DEF WorkerSend, TypeOK, Results, mainVars
    <2>2. True(e)
      <3>1. IF werr[w] THEN Bad(wblk[w]) ELSE FullyRun(wblk[w])
        BY <1>5 DEF WorkerSend, WorkerInv
      <3> QED BY <3>1
    <2>3. \A i \in 1..Len(done') : done'[i] = e \/ (i \in 1..Len(done) /\ done'[i] = done[i])
      BY <2>1, AppendFacts
    <2> HIDE DEF e, True
    <2>4. \A i \in 1..Len(done') : True(done'[i])
      BY <2>2, <2>3, <1>0
    <2> QED BY <2>1, <2>4, <1>0, <1>2 DEF Erred
  <1>6. CASE MainCount
    <2>1. /\ mblk \in waitMap /\ waitMap' = waitMap \ {mblk} /\ mblk' = mblk + 1
          /\ UNCHANGED <<done, ret, retBlock>>
      BY <1>6, SuccInSegment, SegmentAssumption DEF MainCount, TypeOK, Block, chanVars
    <2>2. \A b \in Block : b \in waitMap' \/ b < mblk' => FullyRun(b)
      BY <2>1, <1>0, IntFacts
    <2> QED BY <2>1, <2>2, <1>0, <1>2 DEF Erred
  <1>7. CASE MainDone \/ MainErr
    <2>1. /\ done # <<>> /\ done \in Seq(Results) /\ done' = Tail(done)
          /\ mblk' = mblk /\ ret # "err"
      BY <1>7 DEF MainDone, MainErr, TypeOK, MainInv
    <2>2. /\ Len(done) \in Nat \ {0} /\ Head(done) = done[1]
          /\ \A i \in 1..Len(done') : i + 1 \in 1..Len(done) /\ done'[i] = done[i + 1]
      BY <2>1, TailFacts
    <2>3. True(done[1])
      BY <2>2, <1>0
    <2>4. \A i \in 1..Len(done') : True(done'[i])
      <3> HIDE DEF True
      <3> QED BY <2>2, <1>0
    <2>5. CASE MainDone
      <3>1. waitMap' = waitMap \cup {done[1].block} /\ FullyRun(done[1].block) /\ ret' = ret
        BY <2>2, <2>3, <2>5 DEF MainDone
      <3> QED BY <2>1, <2>4, <3>1, <1>0, <1>2
    <2>6. CASE MainErr
      <3>1. waitMap' = waitMap /\ retBlock' = done[1].block /\ Bad(done[1].block)
        BY <2>2, <2>3, <2>6 DEF MainErr
      <3> QED BY <2>1, <2>4, <3>1, <1>0, <1>2
    <2> QED BY <1>7, <2>5, <2>6
  <1>8. CASE Producer \/ MainNil \/ MainSendStop \/ MainReturn \/ UNCHANGED vars
    <2>1. UNCHANGED <<done, waitMap, mblk>> /\ (ret' # "err" \/ UNCHANGED <<ret, retBlock>>)
      BY <1>8 DEF Producer, ProducerSend, ProducerStop, ProducerEnd, MainNil,
                  MainSendStop, MainReturn, vars, chanVars, mainVars
    <2> QED BY <2>1, <1>3
  <1> QED
    BY <1>4, <1>5, <1>6, <1>7, <1>8 DEF Next, Main, Returned

-----------------------------------------------------------------------------
(* The totals.                                                             *)

\* What has run is a finite set, and so is every part of it.
LEMMA RanFinite ==
  ASSUME TypeOK
  PROVE  /\ IsFiniteSet(ran) /\ IsFiniteSet(CountedTxs)
         /\ \A b : IsFiniteSet(RanOf(b))
         /\ IsFiniteSet(CountedBlocks)
  <1>1. IsFiniteSet(Block) /\ IsFiniteSet(First..(Frontier - 1))
    BY SegmentAssumption, FrontierType, FS_Interval DEF Block
  <1>2. IsFiniteSet(Block \X TxIds)
    BY <1>1, TaskAssumption, FS_Product
  <1>3. IsFiniteSet(ran)
    BY <1>2, FS_Subset DEF TypeOK
  <1>4. CountedTxs \subseteq ran /\ \A b : RanOf(b) \subseteq ran
    BY DEF CountedTxs, RanOf
  <1>5. CountedBlocks \subseteq First..(Frontier - 1)
    BY DEF CountedBlocks
  <1> QED BY <1>1, <1>3, <1>4, <1>5, FS_Subset

\* Adding the members of a disjoint set adds its size.
LEMMA DisjointSum ==
  ASSUME NEW S, NEW T, IsFiniteSet(S), IsFiniteSet(T), S \cap T = {}
  PROVE  Cardinality(S \cup T) = Cardinality(S) + Cardinality(T)
  <1>1. Cardinality(S \cup T) =
           Cardinality(S) + Cardinality(T) - Cardinality(S \cap T)
    BY FS_Union
  <1>2. Cardinality(S) \in Nat /\ Cardinality(T) \in Nat
    BY FS_CardinalityType
  <1>3. Cardinality(S \cap T) = 0
    BY FS_EmptySet
  <1> QED BY <1>1, <1>2, <1>3

\* No totals change while ran, the frontier and the counting workers stay.
LEMMA TotalsKept ==
  ASSUME TotalsInv, ran' = ran, Frontier' = Frontier,
         UNCHANGED <<totalNumTx, totalNumBlock>>,
         \A v \in Workers :
            /\ Counting(v)' <=> Counting(v)
            /\ Counting(v) => wblk'[v] = wblk[v] /\ wnt'[v] = wnt[v]
  PROVE  TotalsInv'
  <1>1. \A b : Uncounted(b)' <=> Uncounted(b)
    BY DEF Uncounted
  <1>2. CountedTxs' = CountedTxs /\ CountedBlocks' = CountedBlocks
    BY <1>1 DEF CountedTxs, CountedBlocks
  <1>3. \A b : RanOf(b)' = RanOf(b)
    BY DEF RanOf
  <1> QED BY <1>2, <1>3 DEF TotalsInv

\* A worker that takes a block starts counting at zero: nothing of it has run.
LEMMA TakeTotals ==
  ASSUME TypeOK, TypeOK', Places, RanInv, TotalsInv, NEW w \in Workers,
         WorkerTake(w)
  PROVE  TotalsInv'
  <1> DEFINE b == Head(work)
  <1>1. b = Frontier /\ Frontier' = Frontier + 1 /\ Frontier \in Int
        /\ First \in Int /\ First <= Frontier
    BY TakePlaces, IntFacts DEF Places, WorkContiguous
  <1>2. /\ wpc[w] = "select" /\ wpc' = [wpc EXCEPT ![w] = "exec"]
        /\ wblk' = [wblk EXCEPT ![w] = b] /\ wnt' = [wnt EXCEPT ![w] = 0]
        /\ UNCHANGED <<totalNumTx, totalNumBlock, ran>>
    BY DEF WorkerTake, totalVars
  <1>3. /\ wpc'[w] = "exec" /\ wblk'[w] = b /\ wnt'[w] = 0
        /\ \A v \in Workers \ {w} :
              wpc'[v] = wpc[v] /\ wblk'[v] = wblk[v] /\ wnt'[v] = wnt[v]
    BY <1>2 DEF TypeOK
  <1>4. \A c : Uncounted(c)' <=> Uncounted(c) \/ c = b
    BY <1>2, <1>3 DEF Uncounted, Counting
  <1>5. \A p \in ran : p[1] \in Int /\ p[1] < Frontier
    BY IntFacts DEF RanInv, TypeOK
  <1>6. \A c : RanOf(c)' = RanOf(c)
    BY <1>2 DEF RanOf
  <1>7. RanOf(b) = {}
    BY <1>1, <1>5 DEF RanOf
  <1>8. CountedTxs' = CountedTxs
    BY <1>1, <1>2, <1>4, <1>5 DEF CountedTxs
  <1>9. CountedBlocks' = CountedBlocks
    BY <1>1, <1>4 DEF CountedBlocks
  <1>10. ASSUME NEW v \in Workers, Counting(v)'
         PROVE  wnt'[v] = Cardinality(RanOf(wblk[v]))'
    <2>1. CASE v = w
      BY <2>1, <1>3, <1>6, <1>7, FS_EmptySet
    <2>2. CASE v # w
      BY <2>2, <1>3, <1>6, <1>10 DEF TotalsInv, Counting
    <2> QED BY <2>1, <2>2
  <1> QED BY <1>2, <1>8, <1>9, <1>10 DEF TotalsInv

\* A task that has run is counted once, by the worker that holds its block.
LEMMA TaskTotals ==
  ASSUME TypeOK, TypeOK', Places, WorkerInv, TotalsInv, NEW w \in Workers,
         WorkerTaskOk(w)
  PROVE  TotalsInv'
  <1>1. PICK t \in wtodo[w] : ran' = ran \cup {<<wblk[w], t>>}
    BY DEF WorkerTaskOk
  <1> DEFINE b == wblk[w]
             p == <<b, t>>
  <1>2. /\ wpc[w] = "exec" /\ wnt' = [wnt EXCEPT ![w] = @ + 1]
        /\ UNCHANGED <<wpc, wblk, work, pblk, totalNumTx, totalNumBlock>>
    BY DEF WorkerTaskOk, chanVars, prodVars
  <1>3. p \notin ran
    BY <1>1, <1>2 DEF WorkerInv
  <1>4. \A v \in Workers \ {w} : Counting(v) => wblk[v] # b
    BY <1>2 DEF Places, NoBlockTwice, Holding, Counting
  <1>5. /\ \A c : Uncounted(c)' <=> Uncounted(c)
        /\ Uncounted(b) /\ Frontier' = Frontier
    BY <1>2 DEF Uncounted, Counting, Frontier
  <1>6. CountedTxs' = CountedTxs /\ CountedBlocks' = CountedBlocks
    BY <1>1, <1>5 DEF CountedTxs, CountedBlocks
  <1>7. RanOf(b)' = RanOf(b) \cup {p} /\ p \notin RanOf(b)
    BY <1>1, <1>2, <1>3 DEF RanOf
  <1>8. Cardinality(RanOf(b)') = Cardinality(RanOf(b)) + 1
    BY <1>7, RanFinite, FS_AddElement
  <1>9. ASSUME NEW v \in Workers, Counting(v)'
        PROVE  wnt'[v] = Cardinality(RanOf(wblk[v]))'
    <2>1. Counting(v) /\ wnt[v] = Cardinality(RanOf(wblk[v]))
      BY <1>2, <1>9 DEF TotalsInv, Counting
    <2>2. CASE v = w
      BY <2>1, <2>2, <1>2, <1>8 DEF TypeOK
    <2>3. CASE v # w
      <3>1. wblk[v] # b /\ wnt'[v] = wnt[v]
        BY <2>1, <2>3, <1>2, <1>4 DEF TypeOK
      <3>2. RanOf(wblk[v])' = RanOf(wblk[v])
        BY <3>1, <1>1, <1>2 DEF RanOf
      <3> QED BY <3>1, <3>2, <2>1
    <2> QED BY <2>2, <2>3
  <1> QED BY <1>2, <1>6, <1>9 DEF TotalsInv

\* The atomic additions move one block and its tasks into the totals.
LEMMA CountTotals ==
  ASSUME TypeOK, TypeOK', Places, TotalsInv, NEW w \in Workers, WorkerCount(w)
  PROVE  TotalsInv'
  <1> DEFINE b == wblk[w]
  <1>1. /\ wpc[w] = "count" /\ wpc' = [wpc EXCEPT ![w] = "send"]
        /\ totalNumTx' = totalNumTx + wnt[w]
        /\ totalNumBlock' = totalNumBlock + 1
        /\ UNCHANGED <<wblk, wnt, ran, work, pblk>>
    BY DEF WorkerCount, chanVars, prodVars
  <1>2. /\ wpc'[w] = "send"
        /\ \A v \in Workers \ {w} : wpc'[v] = wpc[v]
    BY <1>1 DEF TypeOK
  <1>3. \A v \in Workers \ {w} : Counting(v) => wblk[v] # b
    BY <1>1 DEF Places, NoBlockTwice, Holding, Counting
  <1>4. /\ \A c : Uncounted(c)' <=> Uncounted(c) /\ c # b
        /\ Uncounted(b)
    BY <1>1, <1>2, <1>3 DEF Uncounted, Counting
  <1>5. Frontier' = Frontier /\ b \in First..(Frontier - 1)
    BY <1>1, IntFacts DEF Places, NoBlockTwice, Holding, Frontier
  <1>6. /\ CountedTxs' = CountedTxs \cup RanOf(b)
        /\ CountedTxs \cap RanOf(b) = {}
    BY <1>1, <1>4 DEF CountedTxs, RanOf
  <1>7. /\ CountedBlocks' = CountedBlocks \cup {b}
        /\ b \notin CountedBlocks
    BY <1>4, <1>5 DEF CountedBlocks
  <1>8. totalNumTx' = Cardinality(CountedTxs')
    BY <1>1, <1>6, RanFinite, DisjointSum DEF TotalsInv, Counting
  <1>9. totalNumBlock' = Cardinality(CountedBlocks')
    BY <1>1, <1>7, RanFinite, FS_AddElement DEF TotalsInv
  <1>10. ASSUME NEW v \in Workers, Counting(v)'
         PROVE  wnt'[v] = Cardinality(RanOf(wblk[v]))'
    <2>1. Counting(v) /\ wnt'[v] = wnt[v] /\ RanOf(wblk[v])' = RanOf(wblk[v])
      BY <1>1, <1>2, <1>10 DEF Counting, RanOf
    <2> QED BY <2>1 DEF TotalsInv
  <1> QED BY <1>8, <1>9, <1>10 DEF TotalsInv

\* The totals and the local counters agree with what has run, at every step.
LEMMA TotalsStep ==
  ASSUME TypeOK, TypeOK', Places, WorkerInv, RanInv, TotalsInv, [Next]_vars
  PROVE  TotalsInv'
  <1> USE DEF Counting
  <1>1. ASSUME NEW w \in Workers, Worker(w) PROVE TotalsInv'
    <2>1. CASE WorkerTake(w)
      BY <2>1, TakeTotals
    <2>2. CASE WorkerTaskOk(w)
      BY <2>2, TaskTotals
    <2>3. CASE WorkerCount(w)
      BY <2>3, CountTotals
    <2>4. CASE WorkerTaskErr(w) \/ WorkerBlockEnd(w) \/ WorkerSend(w)
               \/ WorkerStop(w)
      <3>1. /\ ran' = ran /\ Frontier' = Frontier
            /\ UNCHANGED <<totalNumTx, totalNumBlock, wblk, wnt>>
        BY <2>4 DEF WorkerTaskErr, WorkerBlockEnd, WorkerSend, WorkerStop,
                    Frontier, chanVars, prodVars, totalVars
      <3>2. \A v \in Workers : Counting(v)' <=> Counting(v)
        BY <2>4 DEF WorkerTaskErr, WorkerBlockEnd, WorkerSend, WorkerStop, TypeOK
      <3> QED BY <3>1, <3>2, TotalsKept
    <2> QED BY <1>1, <2>1, <2>2, <2>3, <2>4 DEF Worker
  <1>2. CASE ProducerSend
    <2>1. pblk \in Block /\ pblk \in Int /\ work \in Seq(Block)
      BY <1>2, SegmentAssumption DEF ProducerSend, TypeOK, Block
    <2>2. Len(work) \in Nat /\ Len(work') = Len(work) + 1 /\ pblk' = pblk + 1
      BY <1>2, <2>1, SuccInSegment, AppendFacts DEF ProducerSend
    <2>3. Frontier' = Frontier
      BY <2>1, <2>2 DEF Frontier
    <2> QED BY <1>2, <2>3, TotalsKept DEF ProducerSend, workerVars, totalVars
  <1>3. CASE ProducerStop \/ ProducerEnd \/ Main \/ UNCHANGED vars
    <2>1. UNCHANGED <<work, pblk, workerVars, totalVars>>
      BY <1>3 DEF ProducerStop, ProducerEnd, Main, MainCount, MainDone, MainErr,
                  MainNil, MainSendStop, MainReturn, vars, chanVars, prodVars
    <2> QED BY <2>1, TotalsKept DEF workerVars, totalVars, Frontier
  <1> QED BY <1>1, <1>2, <1>3 DEF Next, Producer, Returned

-----------------------------------------------------------------------------
\* The inductive invariant holds at the start.
LEMMA InitPoolInv == Init => PoolInv
  <1> SUFFICES ASSUME Init PROVE PoolInv
    OBVIOUS
  <1>1. TypeOK
    BY InitTypeOK
  <1>2. Frontier = First /\ Len(work) = 0 /\ Len(done) = 0
    BY SegmentAssumption DEF Init, Frontier
  <1>3. /\ \A w \in Workers : wpc[w] = "select" /\ ~Holding(w)
        /\ ran = {} /\ waitMap = {} /\ mblk = First /\ ret = "none"
        /\ mpc = "loop" /\ ~closed
    BY DEF Init, Holding
  <1>4. WorkContiguous
    BY <1>2, <1>3, SegmentAssumption DEF WorkContiguous
  <1>5. NoBlockLost
    BY <1>2, SegmentAssumption DEF NoBlockLost
  <1>6. NoBlockTwice
    BY <1>2, <1>3 DEF NoBlockTwice, Erred
  <1>7. ResultsTrue
    BY <1>2, <1>3, SegmentAssumption DEF ResultsTrue, Erred, Block
  <1>8. WorkerInv /\ RanInv /\ MainInv
    BY <1>3 DEF WorkerInv, RanInv, MainInv
  <1>9. TotalsInv
    <2>1. CountedTxs = {} /\ CountedBlocks = {}
      BY <1>2, <1>3, SegmentAssumption DEF CountedTxs, CountedBlocks
    <2> QED BY <2>1, <1>3, FS_EmptySet DEF TotalsInv, Counting, Init
  <1> QED
    BY <1>1, <1>4, <1>5, <1>6, <1>7, <1>8, <1>9 DEF PoolInv

\* The inductive invariant is inductive.
LEMMA NextPoolInv == PoolInv /\ [Next]_vars => PoolInv'
  <1> SUFFICES ASSUME PoolInv, [Next]_vars PROVE PoolInv'
    OBVIOUS
  <1>1. /\ TypeOK /\ Places /\ ResultsTrue /\ WorkerInv /\ RanInv /\ TotalsInv
        /\ MainInv
    BY DEF PoolInv, Places
  <1>2. TypeOK'
    BY <1>1, NextTypeOK
  <1>3. Places' /\ Frontier <= Frontier'
    BY <1>1, <1>2, PlacesStep
  <1>4. MainInv'
    BY <1>1, <1>2, MainStep
  <1>5. RanInv'
    BY <1>1, <1>2, <1>3, RanInvStep
  <1>6. WorkerInv'
    BY <1>1, <1>2, WorkerInvStep
  <1>7. ResultsTrue'
    BY <1>1, <1>2, ResultsStep
  <1>8. TotalsInv'
    BY <1>1, <1>2, TotalsStep
  <1> QED
    BY <1>2, <1>3, <1>4, <1>5, <1>6, <1>7, <1>8 DEF PoolInv, Places

\* The inductive invariant of ExecuteSegment holds in every state.
THEOREM PoolInvariant == Spec => []PoolInv
  BY InitPoolInv, NextPoolInv, PTL DEF Spec

\* Every block is processed exactly once: none is lost between the channels,
\* none is with two goroutines, and TaskFunc is not called twice for a
\* transaction, whatever the number of workers and the channel capacities.
THEOREM ExactlyOnce == Spec => [](NoBlockLost /\ NoBlockTwice /\ NoTaskTwice)
  <1>1. PoolInv => NoBlockLost /\ NoBlockTwice /\ NoTaskTwice
    BY DEF PoolInv, NoTaskTwice, WorkerInv
  <1> QED BY <1>1, PoolInvariant, PTL

\* What main counts has run, and an error it returns is the error of a task.
THEOREM ResultsAreTrue == Spec => []ResultsTrue
  <1>1. PoolInv => ResultsTrue
    BY DEF PoolInv
  <1> QED BY <1>1, PoolInvariant, PTL

\* workChan and doneChan are closed only when no goroutine is left to send.
THEOREM ClosedIsQuiet == Spec => []NoSendOnClosed
  <1>1. PoolInv => NoSendOnClosed
    BY DEF PoolInv, MainInv, NoSendOnClosed
  <1> QED BY <1>1, PoolInvariant, PTL

\* When ExecuteSegment returns, with or without an error, the totals it prints
\* count the tasks that ran; after nil they count the whole segment.
THEOREM TotalsAreExact == Spec => []TotalsExact
  <1>1. ASSUME PoolInv PROVE TotalsExact
    <2> SUFFICES ASSUME mpc = "returned" PROVE TotalsExact!2
      BY DEF TotalsExact
    <2>0. TypeOK /\ TotalsInv /\ MainInv /\ WorkContiguous /\ ResultsTrue
      BY <1>1 DEF PoolInv
    <2>1. \A b : ~Uncounted(b)
      BY <2>0 DEF MainInv, Uncounted, Counting
    <2>2. CountedTxs = ran /\ CountedBlocks = First..(Frontier - 1)
      BY <2>1 DEF CountedTxs, CountedBlocks
    <2>3. ASSUME ret = "nil"
          PROVE  totalNumBlock = Last - First + 1 /\ \A b \in Block : FullyRun(b)
      <3>1. mblk = Last + 1 /\ Frontier = Last + 1
        BY <2>0, <2>3, FrontierType, IntFacts DEF MainInv, WorkContiguous
      <3>2. \A b \in Block : b < mblk
        BY <3>1, SegmentAssumption DEF Block
      <3>3. Frontier - 1 = Last
        BY <3>1, SegmentAssumption
      <3>4. Cardinality(First..Last) = Last - First + 1
        BY SegmentAssumption, FS_Interval
      <3> QED BY <3>2, <3>3, <3>4, <2>0, <2>2 DEF ResultsTrue, TotalsInv
    <2> QED BY <2>0, <2>2, <2>3 DEF TotalsInv
  <1> QED BY <1>1, PoolInvariant, PTL
-----------------------------------------------------------------------------
(* Refinement: running a task and returning are the only visible steps.    *)

\* The initial states are initial states of Segment.
LEMMA RefineInit == Init => Seg!SegInit
  <1> SUFFICES ASSUME Init PROVE Seg!SegInit
    OBVIOUS
  <1>1. mpc = "loop" /\ ran = {} /\ First \in Block
    BY SegmentAssumption DEF Init, Block
  <1> QED BY <1>1 DEF Seg!SegInit

\* A step of ExecuteSegment is a step of Segment or leaves its state alone.
LEMMA RefineStep == PoolInv /\ [Next]_vars => [Seg!SegNext]_(Seg!segVars)
  <1> SUFFICES ASSUME PoolInv, [Next]_vars PROVE [Seg!SegNext]_(Seg!segVars)
    OBVIOUS
  <1>0. TypeOK /\ Places /\ ResultsTrue /\ WorkerInv /\ RanInv /\ MainInv
    BY DEF PoolInv, Places
  <1>1. ASSUME ran' = ran,
               UNCHANGED <<mpc, ret, retBlock>> \/ (mpc # "returned" /\ mpc' # "returned")
        PROVE  UNCHANGED Seg!segVars
    BY <1>1 DEF Seg!segVars
  <1>2. ASSUME NEW w \in Workers, WorkerTaskOk(w) PROVE Seg!RunTask
    <2>1. PICK t \in wtodo[w] : ran' = ran \cup {<<wblk[w], t>>}
      BY <1>2 DEF WorkerTaskOk
    <2>2. wpc[w] = "exec" /\ UNCHANGED <<mpc, ret, retBlock>>
      BY <1>2 DEF WorkerTaskOk, mainVars
    <2>3. mpc # "returned"
      BY <2>2, <1>0 DEF MainInv
    <2>4. t \in Selected(wblk[w]) /\ <<wblk[w], t>> \notin ran /\ wblk[w] \in Block
      BY <2>1, <2>2, <1>0 DEF WorkerInv, TypeOK
    <2>5. <<wblk[w], t>> \in Seg!AllTx \ ran
      BY <2>4 DEF Seg!AllTx
    <2> QED BY <2>1, <2>2, <2>3, <2>5 DEF Seg!RunTask
  <1>3. ASSUME NEW w \in Workers, Worker(w), ~WorkerTaskOk(w) PROVE UNCHANGED Seg!segVars
    <2>1. UNCHANGED <<ran, mpc, ret, retBlock>>
      BY <1>3 DEF Worker, WorkerTake, WorkerTaskErr, WorkerBlockEnd, WorkerCount,
                  WorkerSend, WorkerStop, mainVars, totalVars
    <2> QED BY <2>1, <1>1
  <1>4. CASE Producer \/ UNCHANGED vars
    <2>1. UNCHANGED <<ran, mpc, ret, retBlock>>
      BY <1>4 DEF Producer, ProducerSend, ProducerStop, ProducerEnd, vars,
                  mainVars, totalVars
    <2> QED BY <2>1, <1>1
  <1>5. CASE MainCount \/ MainDone \/ MainErr \/ MainNil \/ MainSendStop
    <2>1. ran' = ran /\ mpc # "returned" /\ mpc' # "returned"
      BY <1>5 DEF MainCount, MainDone, MainErr, MainNil, MainSendStop, totalVars
    <2> QED BY <2>1, <1>1
  <1>6. CASE MainReturn
    <2>1. /\ mpc = "cleanup" /\ mpc' = "returned"
          /\ UNCHANGED <<ran, ret, retBlock>>
      BY <1>6 DEF MainReturn, totalVars
    <2>2. ret \in {"nil", "err"} /\ retBlock \in Block
      BY <2>1, <1>0 DEF MainInv, TypeOK
    <2>3. CASE ret = "nil"
      <3>1. \A b \in Block : FullyRun(b)
        <4>1. mblk = Last + 1
          BY <2>3, <1>0 DEF MainInv
        <4>2. \A b \in Block : b < mblk
          BY <4>1, SegmentAssumption DEF Block
        <4> QED BY <4>2, <1>0 DEF ResultsTrue
      <3>2. Seg!AllTx \subseteq ran
        BY <3>1 DEF Seg!AllTx, FullyRun
      <3>3. ASSUME NEW p \in ran PROVE p \in Seg!AllTx
        <4>1. p \in Block \X TxIds /\ p[2] \in Selected(p[1])
          BY <1>0 DEF TypeOK, RanInv
        <4>2. p = <<p[1], p[2]>> /\ p[1] \in Block
          BY <4>1
        <4> QED BY <4>1, <4>2 DEF Seg!AllTx
      <3>4. ran = Seg!AllTx
        BY <3>2, <3>3
      <3>5. Seg!ReturnNil
        BY <2>1, <2>3, <3>4 DEF Seg!ReturnNil
      <3> QED BY <3>5 DEF Seg!SegNext
    <2>4. CASE ret = "err"
      <3>1. \E t \in Selected(retBlock) : <<retBlock, t>> \in MayFail
        BY <2>2, <2>4, <1>0 DEF ResultsTrue, Erred
      <3>2. Seg!ReturnErr
        BY <2>1, <2>2, <2>4, <3>1 DEF Seg!ReturnErr
      <3> QED BY <3>2 DEF Seg!SegNext
    <2> QED BY <2>2, <2>3, <2>4
  <1> QED
    BY <1>2, <1>3, <1>4, <1>5, <1>6 DEF Next, Main, Returned, Seg!SegNext

\* ExecuteSegment implements its contract: goroutines, channels and the
\* deferred clean-up are invisible to a caller, no task runs after the return,
\* a nil result means that all selected transactions have run.
THEOREM Refinement == Spec => ImplementsSegment
  <1>1. PoolInv /\ [Next]_vars => [Seg!SegNext]_(Seg!segVars)
    BY RefineStep
  <1> QED
    BY <1>1, RefineInit, PoolInvariant, PTL DEF Spec, ImplementsSegment, Seg!SegSpec
=============================================================================
