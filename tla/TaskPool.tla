------------------------------- MODULE TaskPool -------------------------------
(***************************************************************************)
(* SubstateTaskPool (research/substate_task.go): ExecuteSegment starts     *)
(* numWorkers workers and one work producer, counts finished blocks in     *)
(* order, and stops all goroutines in a deferred function.  The goroutines *)
(* share three buffered channels:                                          *)
(*   workChan  block numbers, producer -> workers;                         *)
(*   doneChan  finished blocks or errors, workers -> main;                 *)
(*   stopChan  stop tokens, main -> workers and producer.                  *)
(* A step of the model is one channel operation, one call of TaskFunc, or  *)
(* one iteration of the main loop.                                         *)
(***************************************************************************)
EXTENDS Integers, Sequences, FiniteSets

CONSTANTS
    Workers,        \* the worker goroutines; numWorkers is their number
    First, Last,    \* the block segment
    MaxUint64,      \* the largest block number (2^64 - 1 in the code)
    WorkCap,        \* capacity of workChan (numWorkers*1000 in the code)
    DoneCap,        \* capacity of doneChan (numWorkers*1000 in the code)
    TxIds,          \* transaction indexes that occur in the database
    Kind,           \* Kind[b][t]: what the substate at <<b, t>> looks like
    SkipKinds,      \* the --skip-*-txs flags that are set
    TxListEnabled, BlockSet, TxSet,     \* the --tx-list file
    MayFail         \* <<block, tx>> pairs whose TaskFunc can return an error

Block == First..Last
NumWorkers == Cardinality(Workers)

(***************************************************************************)
(* Kinds of a stored substate, as the skip rules of ExecuteBlock see them: *)
(* "transfer" (To is in InputAlloc without code), "call" (To is in         *)
(* InputAlloc with code), "absent" (To is set but not in InputAlloc),      *)
(* "create" (no To).  "none": the database holds no substate.              *)
(***************************************************************************)
Kinds == {"none", "transfer", "call", "absent", "create"}

ASSUME SegmentAssumption ==
    /\ First \in Nat /\ Last \in Nat /\ MaxUint64 \in Nat
    /\ First <= Last
    /\ Last < MaxUint64         \* block++ does not wrap around
ASSUME PoolAssumption ==
    /\ IsFiniteSet(Workers) /\ Workers # {}
    /\ WorkCap \in Nat \ {0} /\ DoneCap \in Nat \ {0}
ASSUME TaskAssumption ==
    /\ IsFiniteSet(TxIds)
    /\ Kind \in [Block -> [TxIds -> Kinds]]
    /\ SkipKinds \subseteq {"transfer", "call", "create"}
    /\ TxListEnabled \in BOOLEAN
    /\ MayFail \subseteq Block \X TxIds

VARIABLES
    work, done, stop,       \* the channels; stop counts the buffered tokens
    closed,                 \* workChan and doneChan have been closed
    wpc, wblk, wtodo, wnt, werr,    \* per worker: location and locals
    ppc, pblk,              \* producer: location and loop variable
    mpc, mblk, waitMap, sent,       \* main: location and locals
    ret, retBlock,          \* main's result: "none", "nil" or "err"
    totalNumTx, totalNumBlock,      \* the shared counters
    ran                     \* <<block, tx>> whose TaskFunc returned nil

chanVars == <<work, done, stop, closed>>
workerVars == <<wpc, wblk, wtodo, wnt, werr>>
prodVars == <<ppc, pblk>>
mainVars == <<mpc, mblk, waitMap, sent, ret, retBlock>>
totalVars == <<totalNumTx, totalNumBlock, ran>>
vars == <<chanVars, workerVars, prodVars, mainVars, totalVars>>

-----------------------------------------------------------------------------
(* Which transactions of a block TaskFunc is called for.                   *)

IsBlockListed(b) ==
    \/ ~TxListEnabled
    \/ b \in BlockSet
    \/ \E e \in TxSet : e[1] = b

IsTxListed(b, t) == ~TxListEnabled \/ b \in BlockSet \/ <<b, t>> \in TxSet

\* GetBlockSubstatesWithTxList: the substates ExecuteBlock iterates on.
BlockSubstates(b) ==
    {t \in TxIds : IsBlockListed(b) /\ Kind[b][t] # "none" /\ IsTxListed(b, t)}

Selected(b) == {t \in BlockSubstates(b) : Kind[b][t] \notin SkipKinds}

\* block++ on a uint64
Succ(b) == IF b = MaxUint64 THEN 0 ELSE b + 1

-----------------------------------------------------------------------------
Init ==
    /\ work = <<>> /\ done = <<>> /\ stop = 0 /\ closed = FALSE
    /\ wpc = [w \in Workers |-> "select"]
    /\ wblk = [w \in Workers |-> First]
    /\ wtodo = [w \in Workers |-> {}]
    /\ wnt = [w \in Workers |-> 0]
    /\ werr = [w \in Workers |-> FALSE]
    /\ ppc = "select" /\ pblk = First
    /\ mpc = "loop" /\ mblk = First /\ waitMap = {} /\ sent = 0
    /\ ret = "none" /\ retBlock = First
    /\ totalNumTx = 0 /\ totalNumBlock = 0
    /\ ran = {}

-----------------------------------------------------------------------------
(* Worker goroutine.                                                       *)

\* Mutant: the block stays in the channel.
WorkerTake_Peek(w) ==
    /\ wpc[w] = "select" /\ work # <<>>
    /\ wblk' = [wblk EXCEPT ![w] = Head(work)]
    /\ wtodo' = [wtodo EXCEPT ![w] = Selected(Head(work))]
    /\ wnt' = [wnt EXCEPT ![w] = 0]
    /\ werr' = [werr EXCEPT ![w] = FALSE]
    /\ wpc' = [wpc EXCEPT ![w] = "exec"]
    /\ UNCHANGED <<chanVars, prodVars, mainVars, totalVars>>

\* case block := <-workChan, and the start of ExecuteBlock(block)
WorkerTake(w) ==
    /\ wpc[w] = "select" /\ work # <<>>
    /\ work' = Tail(work)
    /\ wblk' = [wblk EXCEPT ![w] = Head(work)]
    /\ wtodo' = [wtodo EXCEPT ![w] = Selected(Head(work))]
    /\ wnt' = [wnt EXCEPT ![w] = 0]
    /\ werr' = [werr EXCEPT ![w] = FALSE]
    /\ wpc' = [wpc EXCEPT ![w] = "exec"]
    /\ UNCHANGED <<done, stop, closed, prodVars, mainVars, totalVars>>

\* TaskFunc returns nil for one of the remaining transactions: Go iterates
\* on the map of substates in any order.
WorkerTaskOk(w) ==
    /\ wpc[w] = "exec"
    /\ \E t \in wtodo[w] :
          /\ wtodo' = [wtodo EXCEPT ![w] = @ \ {t}]
          /\ ran' = ran \cup {<<wblk[w], t>>}
    /\ wnt' = [wnt EXCEPT ![w] = @ + 1]
    /\ UNCHANGED <<chanVars, wpc, wblk, werr, prodVars, mainVars,
                   totalNumTx, totalNumBlock>>

\* TaskFunc returns an error: ExecuteBlock gives up on the block.
WorkerTaskErr(w) ==
    /\ wpc[w] = "exec"
    /\ \E t \in wtodo[w] : <<wblk[w], t>> \in MayFail
    /\ werr' = [werr EXCEPT ![w] = TRUE]
    /\ wpc' = [wpc EXCEPT ![w] = "count"]
    /\ UNCHANGED <<chanVars, wblk, wtodo, wnt, prodVars, mainVars, totalVars>>

\* ExecuteBlock returns numTx, nil.
WorkerBlockEnd(w) ==
    /\ wpc[w] = "exec" /\ wtodo[w] = {}
    /\ wpc' = [wpc EXCEPT ![w] = "count"]
    /\ UNCHANGED <<chanVars, wblk, wtodo, wnt, werr, prodVars, mainVars,
                   totalVars>>

\* The two atomic additions: only the progress report reads between them.
WorkerCount(w) ==
    /\ wpc[w] = "count"
    /\ totalNumTx' = totalNumTx + wnt[w]
    /\ totalNumBlock' = totalNumBlock + 1
    /\ wpc' = [wpc EXCEPT ![w] = "send"]
    /\ UNCHANGED <<chanVars, wblk, wtodo, wnt, werr, prodVars, mainVars, ran>>

\* Mutant: the error of ExecuteBlock is ignored.
WorkerSend_NoErr(w) ==
    /\ wpc[w] = "send"
    /\ Len(done) < DoneCap
    /\ done' = Append(done, [block |-> wblk[w], err |-> FALSE])
    /\ wpc' = [wpc EXCEPT ![w] = "select"]
    /\ UNCHANGED <<work, stop, closed, wblk, wtodo, wnt, werr, prodVars,
                   mainVars, totalVars>>

\* Mutant: no else, the block is sent after the error.
WorkerSend_Both(w) ==
    /\ wpc[w] = "send"
    /\ Len(done) < DoneCap
    /\ done' = done \o (IF werr[w] THEN <<[block |-> wblk[w], err |-> TRUE]>>
                                   ELSE <<>>)
                     \o <<[block |-> wblk[w], err |-> FALSE]>>
    /\ wpc' = [wpc EXCEPT ![w] = "select"]
    /\ UNCHANGED <<work, stop, closed, wblk, wtodo, wnt, werr, prodVars,
                   mainVars, totalVars>>

\* doneChan <- err, or doneChan <- block: blocks while doneChan is full
WorkerSend(w) ==
    /\ wpc[w] = "send"
    /\ Len(done) < DoneCap
    /\ done' = Append(done, [block |-> wblk[w], err |-> werr[w]])
    /\ wpc' = [wpc EXCEPT ![w] = "select"]
    /\ UNCHANGED <<work, stop, closed, wblk, wtodo, wnt, werr, prodVars,
                   mainVars, totalVars>>

\* Mutant: a break that only leaves the select, not the goroutine.
WorkerStop_Break(w) ==
    /\ wpc[w] = "select" /\ stop > 0
    /\ stop' = stop - 1
    /\ UNCHANGED <<work, done, closed, workerVars, prodVars, mainVars,
                   totalVars>>

\* case <-stopChan
WorkerStop(w) ==
    /\ wpc[w] = "select" /\ stop > 0
    /\ stop' = stop - 1
    /\ wpc' = [wpc EXCEPT ![w] = "stopped"]
    /\ UNCHANGED <<work, done, closed, wblk, wtodo, wnt, werr, prodVars,
                   mainVars, totalVars>>

Worker(w) ==
    \/ WorkerTake(w) \/ WorkerTaskOk(w) \/ WorkerTaskErr(w)
    \/ WorkerBlockEnd(w) \/ WorkerCount(w) \/ WorkerSend(w) \/ WorkerStop(w)

-----------------------------------------------------------------------------
(* Work producer goroutine.                                                *)

\* Mutant: one block too many.
ProducerSend_OneMore ==
    /\ ppc = "select" /\ pblk <= Last + 1
    /\ Len(work) < WorkCap
    /\ work' = Append(work, pblk)
    /\ pblk' = Succ(pblk)
    /\ UNCHANGED <<done, stop, closed, workerVars, ppc, mainVars, totalVars>>

\* case workChan <- block: blocks while workChan is full
ProducerSend ==
    /\ ppc = "select" /\ pblk <= Last
    /\ Len(work) < WorkCap
    /\ work' = Append(work, pblk)
    /\ pblk' = Succ(pblk)
    /\ UNCHANGED <<done, stop, closed, workerVars, ppc, mainVars, totalVars>>

ProducerStop ==
    /\ ppc = "select" /\ pblk <= Last /\ stop > 0
    /\ stop' = stop - 1
    /\ ppc' = "stopped"
    /\ UNCHANGED <<work, done, closed, workerVars, pblk, mainVars, totalVars>>

\* The loop is over: the goroutine ends without taking a stop token.
ProducerEnd ==
    /\ ppc = "select" /\ ~(pblk <= Last)
    /\ ppc' = "stopped"
    /\ UNCHANGED <<chanVars, workerVars, pblk, mainVars, totalVars>>

Producer == ProducerSend \/ ProducerStop \/ ProducerEnd

-----------------------------------------------------------------------------
(* Main: count finished blocks in order, then stop the goroutines.         *)

\* The block that is due is in waitMap.
MainCount ==
    /\ mpc = "loop" /\ mblk <= Last /\ mblk \in waitMap
    /\ waitMap' = waitMap \ {mblk}
    /\ mblk' = Succ(mblk)
    /\ UNCHANGED <<chanVars, workerVars, prodVars, mpc, sent, ret, retBlock,
                   totalVars>>

\* Mutant: a block that finishes out of order is forgotten.
MainDone_InOrderOnly ==
    /\ mpc = "loop" /\ mblk <= Last /\ mblk \notin waitMap
    /\ done # <<>> /\ ~Head(done).err
    /\ waitMap' = waitMap \cup ({Head(done).block} \cap {mblk})
    /\ done' = Tail(done)
    /\ UNCHANGED <<work, stop, closed, workerVars, prodVars, mpc, mblk, sent,
                   ret, retBlock, totalVars>>

\* data := <-doneChan is a block number
MainDone ==
    /\ mpc = "loop" /\ mblk <= Last /\ mblk \notin waitMap
    /\ done # <<>> /\ ~Head(done).err
    /\ waitMap' = waitMap \cup {Head(done).block}
    /\ done' = Tail(done)
    /\ UNCHANGED <<work, stop, closed, workerVars, prodVars, mpc, mblk, sent,
                   ret, retBlock, totalVars>>

\* data := <-doneChan is an error: return err, which runs the deferred function
MainErr ==
    /\ mpc = "loop" /\ mblk <= Last /\ mblk \notin waitMap
    /\ done # <<>> /\ Head(done).err
    /\ done' = Tail(done)
    /\ ret' = "err" /\ retBlock' = Head(done).block
    /\ mpc' = "cleanup"
    /\ UNCHANGED <<work, stop, closed, workerVars, prodVars, mblk, waitMap,
                   sent, totalVars>>

\* The loop is over: return nil.
MainNil ==
    /\ mpc = "loop" /\ ~(mblk <= Last)
    /\ ret' = "nil"
    /\ mpc' = "cleanup"
    /\ UNCHANGED <<chanVars, workerVars, prodVars, mblk, waitMap, sent,
                   retBlock, totalVars>>

\* stopChan <- struct{}{}, numWorkers + 1 times, on a channel of capacity
\* numWorkers
MainSendStop ==
    /\ mpc = "cleanup" /\ sent < NumWorkers + 1
    /\ stop < NumWorkers
    /\ stop' = stop + 1
    /\ sent' = sent + 1
    /\ UNCHANGED <<work, done, closed, workerVars, prodVars, mpc, mblk,
                   waitMap, ret, retBlock, totalVars>>

\* Mutant: no wg.Wait().
MainReturn_NoWait ==
    /\ mpc = "cleanup" /\ sent = NumWorkers + 1
    /\ closed' = TRUE
    /\ mpc' = "returned"
    /\ UNCHANGED <<work, done, stop, workerVars, prodVars, mblk, waitMap,
                   sent, ret, retBlock, totalVars>>

\* wg.Wait() returns; close(workChan); close(doneChan)
MainReturn ==
    /\ mpc = "cleanup" /\ sent = NumWorkers + 1
    /\ ppc = "stopped" /\ \A w \in Workers : wpc[w] = "stopped"
    /\ closed' = TRUE
    /\ mpc' = "returned"
    /\ UNCHANGED <<work, done, stop, workerVars, prodVars, mblk, waitMap,
                   sent, ret, retBlock, totalVars>>

Main == MainCount \/ MainDone \/ MainErr \/ MainNil \/ MainSendStop \/ MainReturn

-----------------------------------------------------------------------------
\* ExecuteSegment has returned: nothing is left to do.
Returned == mpc = "returned" /\ UNCHANGED vars

Next == Main \/ Producer \/ (\E w \in Workers : Worker(w)) \/ Returned

Spec == Init /\ [][Next]_vars

(***************************************************************************)
(* The Go scheduler runs every goroutine that can run, and a TaskFunc      *)
(* returns.  No fairness among the cases of a select is needed: the        *)
(* segment is finite, so work runs out.                                    *)
(***************************************************************************)
FairSpec ==
    /\ Spec
    /\ WF_vars(Main)
    /\ WF_vars(Producer)
    /\ \A w \in Workers : WF_vars(Worker(w))

-----------------------------------------------------------------------------
(* Invariants.                                                             *)

Results == [block : Block, err : BOOLEAN]

TypeOK ==
    /\ work \in Seq(Block) /\ done \in Seq(Results)
    /\ stop \in Nat /\ closed \in BOOLEAN
    /\ wpc \in [Workers -> {"select", "exec", "count", "send", "stopped"}]
    /\ wblk \in [Workers -> Block]
    /\ wtodo \in [Workers -> SUBSET TxIds]
    /\ wnt \in [Workers -> Nat]
    /\ werr \in [Workers -> BOOLEAN]
    /\ ppc \in {"select", "stopped"} /\ pblk \in First..(Last + 1)
    /\ mpc \in {"loop", "cleanup", "returned"} /\ mblk \in First..(Last + 1)
    /\ waitMap \subseteq Block /\ sent \in 0..(NumWorkers + 1)
    /\ ret \in {"none", "nil", "err"} /\ retBlock \in Block
    /\ totalNumTx \in Nat /\ totalNumBlock \in Nat
    /\ ran \subseteq Block \X TxIds

\* The blocks below the frontier have left workChan.
Frontier == pblk - Len(work)

Holding(w) == wpc[w] \in {"exec", "count", "send"}

\* workChan holds the consecutive blocks that end just below the producer,
\* and main does not count what has not left it.
WorkContiguous ==
    /\ First <= Frontier /\ mblk <= Frontier
    /\ \A i \in 1..Len(work) : work[i] = Frontier + i - 1

\* Where a block can be once it has left workChan.
AtWorker(b) == \E w \in Workers : Holding(w) /\ wblk[w] = b
InDone(b) == \E i \in 1..Len(done) : done[i].block = b
Erred(b) == ret = "err" /\ retBlock = b

\* No block is lost: each one that left workChan is with a worker, in
\* doneChan, in waitMap, counted, or is the one main returns an error about.
NoBlockLost ==
    \A b \in First..(Frontier - 1) :
        AtWorker(b) \/ InDone(b) \/ b \in waitMap \/ b < mblk \/ Erred(b)

\* No block is processed twice: the places above exclude each other.
NoBlockTwice ==
    /\ \A w \in Workers : Holding(w) =>
          /\ First <= wblk[w] /\ wblk[w] < Frontier /\ mblk <= wblk[w]
          /\ wblk[w] \notin waitMap
          /\ ~InDone(wblk[w]) /\ ~Erred(wblk[w])
          /\ \A v \in Workers \ {w} : Holding(v) => wblk[v] # wblk[w]
    /\ \A i \in 1..Len(done) :
          /\ First <= done[i].block /\ done[i].block < Frontier
          /\ mblk <= done[i].block
          /\ done[i].block \notin waitMap /\ ~Erred(done[i].block)
          /\ \A j \in 1..Len(done) : j # i => done[j].block # done[i].block
    /\ \A b \in waitMap : mblk <= b /\ b < Frontier /\ ~Erred(b)
    /\ Erred(retBlock) => mblk <= retBlock /\ retBlock < Frontier

\* Every selected transaction of b has run successfully.
FullyRun(b) == \A t \in Selected(b) : <<b, t>> \in ran

\* TaskFunc's results reach main unaltered: what main counts, and what waits
\* to be counted, has run completely; an error stands for a failing task.
ResultsTrue ==
    /\ \A b \in Block : b \in waitMap \/ b < mblk => FullyRun(b)
    /\ \A i \in 1..Len(done) :
          IF done[i].err
          THEN \E t \in Selected(done[i].block) : <<done[i].block, t>> \in MayFail
          ELSE FullyRun(done[i].block)
    /\ \A b \in Block :
          Erred(b) => \E t \in Selected(b) : <<b, t>> \in MayFail

\* TaskFunc is not called again for a transaction that has run.
NoTaskTwice ==
    \A w \in Workers : wpc[w] = "exec" =>
        \A t \in wtodo[w] : <<wblk[w], t>> \notin ran

\* What a worker knows about the block it holds.
WorkerInv ==
    \A w \in Workers :
        /\ wpc[w] = "exec" =>
              /\ ~werr[w] /\ wtodo[w] \subseteq Selected(wblk[w])
              /\ \A t \in Selected(wblk[w]) :
                    t \in wtodo[w] <=> <<wblk[w], t>> \notin ran
        /\ wpc[w] \in {"count", "send"} =>
              IF werr[w]
              THEN \E t \in Selected(wblk[w]) : <<wblk[w], t>> \in MayFail
              ELSE FullyRun(wblk[w])

\* Only selected transactions run, and only of blocks that left workChan.
RanInv == \A p \in ran : p[1] < Frontier /\ p[2] \in Selected(p[1])

\* Main's result and its location.
MainInv ==
    /\ ret = "none" <=> mpc = "loop"
    /\ ret = "nil" => mblk = Last + 1
    /\ closed <=> mpc = "returned"
    /\ mpc = "returned" =>
          ppc = "stopped" /\ \A w \in Workers : wpc[w] = "stopped"

\* The worker that runs b has not yet added it to the totals.
Counting(w) == wpc[w] \in {"exec", "count"}
Uncounted(b) == \E w \in Workers : Counting(w) /\ wblk[w] = b
RanOf(b) == {p \in ran : p[1] = b}
CountedTxs == {p \in ran : ~Uncounted(p[1])}
CountedBlocks == {b \in First..(Frontier - 1) : ~Uncounted(b)}

\* While workers are still counting, the totals stand for the blocks they are
\* through with, and each local counter for what its worker has run.
TotalsInv ==
    /\ \A w \in Workers : Counting(w) => wnt[w] = Cardinality(RanOf(wblk[w]))
    /\ totalNumTx = Cardinality(CountedTxs)
    /\ totalNumBlock = Cardinality(CountedBlocks)

\* The inductive invariant.
PoolInv ==
    /\ TypeOK
    /\ WorkContiguous
    /\ NoBlockLost
    /\ NoBlockTwice
    /\ ResultsTrue
    /\ WorkerInv
    /\ RanInv
    /\ TotalsInv
    /\ MainInv

\* A nil result: all selected transactions of the segment have run, and the
\* totals that the deferred function prints are exact.  The totals are exact
\* after an error too: no worker is still counting.
TotalsExact ==
    mpc = "returned" =>
        /\ totalNumTx = Cardinality(ran)
        /\ ret = "nil" => /\ totalNumBlock = Last - First + 1
                          /\ \A b \in Block : FullyRun(b)

\* No goroutine can send on a closed channel (a panic in Go).
NoSendOnClosed ==
    closed => ppc = "stopped" /\ \A w \in Workers : wpc[w] = "stopped"

-----------------------------------------------------------------------------
(* Liveness: ExecuteSegment returns, and stops its goroutines ("stop all   *)
(* workers", substate_task.go:210).                                        *)
SegmentReturns == <>(mpc = "returned")

-----------------------------------------------------------------------------
(* ExecuteSegment implements Segment: the result is visible to the caller  *)
(* when the deferred functions are through.                                *)
Seg == INSTANCE Segment WITH
          ret <- IF mpc = "returned" THEN ret ELSE "none",
          retBlock <- IF mpc = "returned" /\ ret = "err" THEN retBlock ELSE First
ImplementsSegment == Seg!SegSpec
=============================================================================
