----------------------------- MODULE ValidateCmd -----------------------------
(***************************************************************************)
(* The validate-tac and detect-deviation-tac commands                      *)
(* (cmd/substate-cli/validate/tac.go): ExecuteSegment runs a task for      *)
(* every transaction (see Segment, which TaskPool implements), the task    *)
(* executes the transaction once for every call it isolates and sends the  *)
(* rows to statChan, and one goroutine writes them to the CSV file and     *)
(* counts them.  The command closes the channel when ExecuteSegment is     *)
(* back, waits for the goroutine and prints the counts.                    *)
(*                                                                         *)
(* A transaction is what validateTacSubstateWithTrace sees of it: whether  *)
(* it is given a trace to compare with (the detect-deviation commands      *)
(* always do), and for each call whether its account is on the allowlist   *)
(* and has code, and how the execution with that call isolated went.       *)
(***************************************************************************)
EXTENDS Segment, Integers, Sequences, FiniteSets

CONSTANTS
    Txs,                \* the transactions there may be
    RunOutOfGas, ContractIso, SkipInternalTxs, SkipSlowTxs,     \* flags
    IsoIndex,           \* --iso-index, -1 for all
    SlowTxCalls,        \* --slow-tx-calls
    ChanCap,            \* capacity of statChan, 1000000 in the code
    Workers             \* tasks that run at the same time

VARIABLES
    txs,        \* the transaction of every pair of the segment
    running,    \* tasks in TaskFunc
    at,         \* the call the task executes next
    rows,       \* valResults of the task
    failed,     \* tasks whose TaskFunc returned an error
    chan,       \* statChan: one batch of rows per transaction
    closed,     \* close(statChan) was called
    batch,      \* rows of the received batch still to be written
    buf,        \* rows in csvWriter's buffer
    file,       \* rows in the file
    total,      \* totalTx
    count,      \* statCount
    csv,        \* the CSV goroutine: "recv", "rows", "done"
    cmd         \* the command: "exec", "close", "wait", "done"

taskVars == <<txs, running, at, rows, failed>>
csvVars == <<batch, buf, file, total, count, csv>>
vars == <<segVars, taskVars, chan, closed, csvVars, cmd>>

GlobalErr == {"TACTimeout", "TACPanic"}
Cats == {"PASSED", "FAILED"} \cup GlobalErr
-------------------------------------------------------------------------------
\* How many executions: one, or one for each call of the trace.
Repeat(tx) == IF ContractIso /\ ~SkipInternalTxs THEN Len(tx.calls) ELSE 1

\* The calls that are executed in isolation: not one that --iso-index excludes,
\* nor one to an account that is not allowed, nor an internal one without code.
Executed(tx, i) ==
    /\ IsoIndex # -1 => i - 1 = IsoIndex
    /\ tx.calls[i].allowed
    /\ i > 1 => ~tx.calls[i].empty

Verdict_ResultOnly(c, deviationCheck) ==
    LET err == IF c.sub \in GlobalErr THEN c.sub ELSE c.apply
        resErr == IF c.apply # "none" THEN err ELSE c.res
    IN  IF resErr \in GlobalErr THEN resErr
        ELSE IF c.equal THEN "PASSED" ELSE "FAILED"

\* The error of one execution: Delta.SubstrateErr before what ApplyMessage
\* returned or panicked with.  It is the row at once, except with a deviation
\* check, where the result's own error and the outputs decide.  TACResultCategory
\* panics on an error it does not know; the ones of ApplyMessage itself come before
\* the code runs, when there is no SubstrateResult and hence no row (see CallRec).
Verdict(c, deviationCheck) ==
    LET err == IF c.sub \in GlobalErr THEN c.sub ELSE c.apply
        resErr == IF c.apply # "none" THEN err ELSE c.res
    IN  IF err # "none" /\ ~deviationCheck THEN err
        ELSE IF resErr \in GlobalErr THEN resErr
        ELSE IF c.equal THEN "PASSED" ELSE "FAILED"

\* The transactions without a row: no call of a contract, or left out by a flag.
Skipped(tx) ==
    \/ ~tx.toContract
    \/ RunOutOfGas /\ ~tx.outOfGas
    \/ Repeat(tx) >= SlowTxCalls /\ SkipSlowTxs

\* The executions of a transaction, and the ones with a row: an execution whose
\* SubstrateResult is empty has none.
Execs(tx) == IF Skipped(tx) THEN 0 ELSE Repeat(tx)
HasRow(tx, i) == Executed(tx, i) /\ tx.calls[i].row

RowOf(p, i) == [tx |-> p, idx |-> i - 1, cat |-> Verdict(txs[p].calls[i], txs[p].check)]

Init ==
    /\ SegInit
    /\ \E check \in BOOLEAN : txs \in [AllTx -> {tx \in Txs : tx.check = check}]
    /\ running = {} /\ at = [p \in AllTx |-> 1] /\ rows = [p \in AllTx |-> <<>>]
    /\ failed = {} /\ chan = <<>> /\ closed = FALSE
    /\ batch = <<>> /\ buf = <<>> /\ file = <<>>
    /\ total = 0 /\ count = [c \in Cats |-> 0]
    /\ csv = "recv" /\ cmd = "exec"
-------------------------------------------------------------------------------
\* A worker of the pool calls TaskFunc.
StartTask(p) ==
    /\ cmd = "exec" /\ ret = "none"
    /\ p \notin ran \cup running \cup failed /\ Cardinality(running) < Workers
    /\ running' = running \cup {p}
    /\ UNCHANGED <<segVars, txs, at, rows, failed, chan, closed, csvVars, cmd>>

\* One iteration of the loop over the calls: skipped, or executed, with its row.
Execute(p) ==
    /\ p \in running /\ at[p] <= Execs(txs[p])
    /\ rows' = IF HasRow(txs[p], at[p]) THEN [rows EXCEPT ![p] = Append(@, RowOf(p, at[p]))]
                                       ELSE rows
    /\ at' = [at EXCEPT ![p] = @ + 1]
    /\ UNCHANGED <<segVars, txs, running, failed, chan, closed, csvVars, cmd>>

HasRoom == Len(chan) < ChanCap

\* statChan <- tuples, when there are any and the channel has room; then
\* TaskFunc returns nil.
FinishTask(p) ==
    /\ p \in running /\ at[p] > Execs(txs[p])
    /\ rows[p] # <<>> => HasRoom
    /\ chan' = IF rows[p] = <<>> THEN chan ELSE Append(chan, rows[p])
    /\ running' = running \ {p} /\ rows' = [rows EXCEPT ![p] = <<>>]
    /\ RunTask /\ ran' = ran \cup {p}
    /\ UNCHANGED <<txs, at, failed, closed, csvVars, cmd>>

\* ReplayEVM of detect-deviation-tac fails: TaskFunc returns the error before
\* it validates.  The workers that are at work finish their tasks.
FailTask(p) ==
    /\ p \in running /\ at[p] = 1 /\ txs[p].check /\ txs[p].toContract /\ p \in MayFail
    /\ running' = running \ {p} /\ failed' = failed \cup {p}
    /\ UNCHANGED <<segVars, txs, at, rows, chan, closed, csvVars, cmd>>

Stopped_NoWait == TRUE

\* ExecuteSegment has waited for its workers.
Stopped == running = {}

ExecuteReturns ==
    /\ cmd = "exec" /\ Stopped
    /\ \/ ReturnNil
       \/ ReturnErr /\ \E p \in failed : retBlock' = p[1]
    /\ cmd' = "close"
    /\ UNCHANGED <<taskVars, chan, closed, csvVars>>

CloseChan_NilOnly ==
    /\ cmd = "close" /\ cmd' = "wait" /\ closed' = (ret = "nil")
    /\ UNCHANGED <<segVars, taskVars, chan, csvVars>>

CloseChan ==
    /\ cmd = "close" /\ cmd' = "wait" /\ closed' = TRUE
    /\ UNCHANGED <<segVars, taskVars, chan, csvVars>>

AwaitCsv_Empty == chan = <<>>

\* statWg.Wait()
AwaitCsv == csv = "done"

PrintCounts ==
    /\ cmd = "wait" /\ AwaitCsv /\ cmd' = "done"
    /\ UNCHANGED <<segVars, taskVars, chan, closed, csvVars>>
-------------------------------------------------------------------------------
\* for tuples := range statChan
Receive ==
    /\ csv = "recv" /\ chan # <<>>
    /\ batch' = Head(chan) /\ chan' = Tail(chan) /\ csv' = "rows"
    /\ UNCHANGED <<segVars, taskVars, closed, buf, file, total, count, cmd>>

Flushed_Drop(b) == file \o SubSeq(b, 2, Len(b))

Flushed(b) == file \o b

\* One row is written to csvWriter and counted.  The buffer is flushed after every
\* tenth row, and by bufio.Writer when it is full.
WriteRow ==
    /\ csv = "rows" /\ batch # <<>>
    /\ LET b == Append(buf, Head(batch))
       IN  \/ buf' = b /\ UNCHANGED file
           \/ file' = Flushed(b) /\ buf' = <<>>
    /\ batch' = Tail(batch)
    /\ total' = total + 1
    /\ count' = [count EXCEPT ![Head(batch).cat] = @ + 1]
    /\ UNCHANGED <<segVars, taskVars, chan, closed, csv, cmd>>

\* csvWriter.Flush() after the batch.
FlushBatch ==
    /\ csv = "rows" /\ batch = <<>>
    /\ file' = Flushed(buf) /\ buf' = <<>> /\ csv' = "recv"
    /\ UNCHANGED <<segVars, taskVars, chan, closed, batch, total, count, cmd>>

\* The channel is closed and empty: the deferred Flush and statWg.Done.
CsvDone ==
    /\ csv = "recv" /\ chan = <<>> /\ closed
    /\ file' = Flushed(buf) /\ buf' = <<>> /\ csv' = "done"
    /\ UNCHANGED <<segVars, taskVars, chan, closed, batch, total, count, cmd>>

Csv == Receive \/ WriteRow \/ FlushBatch \/ CsvDone
Pool == \/ \E p \in AllTx : StartTask(p) \/ Execute(p) \/ FinishTask(p) \/ FailTask(p)
        \/ ExecuteReturns
Command == CloseChan \/ PrintCounts

Next == Csv \/ Pool \/ Command

Spec == Init /\ [][Next]_vars

\* Goroutines are scheduled; ExecuteSegment goes on (TaskPool).
FairSpec == Spec /\ WF_vars(Csv) /\ WF_vars(Pool) /\ WF_vars(Command)
-------------------------------------------------------------------------------
\* A transaction as the trace and the executions give it: at least one call.
CallResult == {"none", "reverted"} \cup GlobalErr
CallRec == {c \in [allowed : BOOLEAN, empty : BOOLEAN, row : BOOLEAN,
                   apply : {"none", "TACPanic", "invalid"}, sub : {"none"} \cup GlobalErr,
                   res : CallResult, equal : BOOLEAN] :
                c.apply = "invalid" => ~c.row}
TxRec == [check : BOOLEAN, toContract : BOOLEAN, outOfGas : BOOLEAN, calls : Seq(CallRec) \ {<<>>}]

\* What the flags and the recorded transactions are assumed to be.
Configured ==
    /\ Txs \subseteq TxRec /\ IsoIndex \in Int /\ SlowTxCalls \in Int /\ ChanCap \in Nat
    /\ {RunOutOfGas, ContractIso, SkipInternalTxs, SkipSlowTxs} \subseteq BOOLEAN

Row == [tx : AllTx, idx : Nat, cat : Cats]

\* The state has the shape the declarations give it, and statChan never holds
\* more than its capacity.
TypeOK ==
    /\ txs \in [AllTx -> Txs] /\ running \subseteq AllTx /\ failed \subseteq AllTx
    /\ at \in [AllTx -> Nat \ {0}] /\ rows \in [AllTx -> Seq(Row)]
    /\ chan \in Seq(Seq(Row)) /\ Len(chan) <= ChanCap
    /\ closed \in BOOLEAN
    /\ batch \in Seq(Row) /\ buf \in Seq(Row) /\ file \in Seq(Row)
    /\ total \in Nat /\ count \in [Cats -> Nat]
    /\ csv \in {"recv", "rows", "done"} /\ cmd \in {"exec", "close", "wait", "done"}

\* No task sends on statChan once it is closed, also after an error.
NoSendAfterClose == closed => running = {}

\* The rows of one transaction are together and in the order of its calls.
Ordered(s) ==
    \A i, j \in 1..Len(s) :
        i < j /\ s[i].tx = s[j].tx =>
            s[i].idx < s[j].idx /\ \A k \in i..j : s[k].tx = s[i].tx

\* The calls of p that have a row.
Wanted(p) == {i \in 1..Execs(txs[p]) : HasRow(txs[p], i)}

Holds(s, p) == \A i \in Wanted(p) : \E n \in 1..Len(s) : s[n] = RowOf(p, i)
From(s, q) == \A n \in 1..Len(s) : \E p \in q : \E i \in Wanted(p) : s[n] = RowOf(p, i)

\* The file has the rows of every task that returned, each once and those of one
\* transaction together and in the order of the calls, and no other row.
RowsComplete ==
    cmd = "done" =>
        /\ Ordered(file)
        /\ \A p \in ran : Holds(file, p)
        /\ From(file, ran)

\* The printed counts are those of the rows in the file.
CountsMatchFile ==
    cmd = "done" =>
        /\ total = Len(file)
        /\ \A c \in Cats : count[c] = Cardinality({i \in 1..Len(file) : file[i].cat = c})

\* When the command prints its counts, the file has every row once, those of one
\* transaction together, and the counts are those of the file.
FileComplete == RowsComplete /\ CountsMatchFile

\* "Return any TAC related error": without a deviation check, a call whose
\* execution stored a TAC error in Delta.SubstrateErr is in the file under that
\* error, and a row that says PASSED is of an execution without any TAC error
\* and with the recorded outputs.
VerdictTrue ==
    \A n \in 1..Len(file) :
        LET tx == txs[file[n].tx]
            c == tx.calls[file[n].idx + 1]
        IN  ~tx.check =>
            /\ c.sub \in GlobalErr => file[n].cat = c.sub
            /\ file[n].cat = "PASSED" => c.equal /\ c.sub \notin GlobalErr /\ c.apply = "none"

\* "Return any TAC related error", of both commands: no row says PASSED of an
\* execution that stored a TAC error in Delta.SubstrateErr.
PassedWithoutError ==
    \A n \in 1..Len(file) :
        file[n].cat = "PASSED" => txs[file[n].tx].calls[file[n].idx + 1].sub \notin GlobalErr
-------------------------------------------------------------------------------
\* The invariant behind FileComplete and CountsMatchFile.  The rows that left
\* the channel are those in the file, in the buffer and still to be written.
Counted == file \o buf
Received == Counted \o batch

\* A task is one thing at a time, the rows of a running one are those of the
\* calls it is past, and no task runs when ExecuteSegment is back.
SoFar(p) ==
    /\ Ordered(rows[p]) /\ From(rows[p], {p})
    /\ \A n \in 1..Len(rows[p]) : rows[p][n].idx + 1 < at[p]
    /\ \A i \in Wanted(p) : i < at[p] => \E n \in 1..Len(rows[p]) : rows[p][n] = RowOf(p, i)

TaskInv ==
    /\ ran \subseteq AllTx /\ ran \cap running = {} /\ failed \cap running = {}
    /\ \A p \in running : SoFar(p)
    /\ \A p \in AllTx : p \notin ran \cup running \cup failed => rows[p] = <<>> /\ at[p] = 1
    /\ cmd = "exec" <=> ret = "none"
    /\ cmd # "exec" => running = {}
    /\ closed <=> cmd \in {"wait", "done"}

\* Each batch in the channel is all rows of one task that has returned, of
\* another task than those of the other batches and of the rows received.
ChanInv ==
    /\ \A k \in 1..Len(chan) :
        /\ chan[k] # <<>> /\ Ordered(chan[k])
        /\ \E p \in ran : From(chan[k], {p}) /\ Holds(chan[k], p)
        /\ \A n \in 1..Len(Received) : Received[n].tx # chan[k][1].tx
    /\ \A k, l \in 1..Len(chan) : k # l => chan[k][1].tx # chan[l][1].tx

\* Nothing is lost between the tasks and the file.
ReceivedInv ==
    /\ Ordered(Received) /\ From(Received, ran)
    /\ \A p \in ran : Holds(Received, p) \/ \E k \in 1..Len(chan) : Holds(chan[k], p)

CsvInv ==
    /\ csv # "rows" => batch = <<>> /\ buf = <<>>
    /\ csv = "done" => chan = <<>> /\ closed
    /\ cmd = "done" => csv = "done"

CountInv ==
    /\ total = Len(Counted)
    /\ \A c \in Cats : count[c] = Cardinality({n \in 1..Len(Counted) : Counted[n].cat = c})

CmdInv == TypeOK /\ TaskInv /\ ChanInv /\ ReceivedInv /\ CsvInv /\ CountInv
-------------------------------------------------------------------------------
\* The command ends, however small the channel is.
Terminates == <>(cmd = "done")
===============================================================================
