# TLA+ models of EtherVal

EtherVal (verovm/EtherVal) is a fork of go-ethereum 1.13.15. It adds a
record-replay infrastructure for transactions ("substates") and a validator
for decompiled contracts: a recorded transaction is executed again with one of
its calls interpreted by the decompiled program (TAC code, or "substrate"
source) instead of by the EVM, and the two outcomes are compared. This
directory holds TLA+ models of that code, the TLC configurations that check
them and TLAPS proofs about nine of them.

Paths below are relative to the root of the repository.

## 1. Inventory

| Part | Source | State it keeps | Operations | Used by |
|---|---|---|---|---|
| Task pool | `research/substate_task.go` | three channels, reorder map, counters | `ExecuteSegment`, `ExecuteBlock` | every `substate-cli` command |
| Flags | `research/substate_flags.go` | the parsed lists | `ParseBlockSegmentList`, `ParseTxListFile` | task pool |
| Recording StateDB | `core/state/{statedb,state_object,journal}.go` | objects, three storage maps per object, journal, `ResearchPreAlloc`, `ResearchPostAlloc`, `ResearchTouched` | reads and writes of accounts and slots, snapshots, `Finalise`, `SetTxContext`, `Copy`, `SaveSubstate`, `LoadSubstate` | block processing, replay, validation |
| EVM | `core/vm/{evm,instructions}.go` | call stack | `Call`, `create`, opcodes | block processing, replay, validation |
| Block processing | `core/state_processor.go`, `core/block_validator.go` | the StateDB of the block, replay goroutines | `Process`, `CheckReplay`, `ValidateState` | geth import |
| Substate database | `research/{substate_db,substate_utils,static_substate_db}.go` | codes, substates and traces in LevelDB | `PutSubstate`, `GetSubstate`, `PutCode`, `GetCode`, `Put/GetEVMTrace` | all of the above |
| Programs on databases | `cmd/substate-cli/db/db_clone.go`, `.../validate/{record_trace,db_clone_trace}.go` | source and destination database | one task per transaction | user |
| Equivalence | `cmd/substate-cli/validate/validation.go` | none | `EquivalentAlloc` and its parts | validate |
| validate | `cmd/substate-cli/validate/tac.go` | `statChan`, the CSV file and its counts | one task per transaction, one execution per isolated call, the CSV goroutine | user |
| Call isolation, tracing | `core/vm/evm.go`, `research/substate_trace.go` | current interpreter, `readOnly` of each, call traces | `run`, the call functions, `NextCallTrace` | record-trace, validate |
| TAC interpreter | `core/vm/tac_*.go`, `value.go`, `extended_memory.go` | registers, memory, private call stack, the goroutine of `Run` | `Run`, `execute_func`, phi, private calls, instructions | validate |
| Program cache | `core/vm/contract.go` | `tacLRU`, `tacProgCache` | `readTAC`, `safeTACProg` | TAC interpreter |
| Deviation tracking | `core/vm/{delta_semantics,track_deviation}.go` | recorded and current trace | checks of stores, logs, calls, hashes; `CheckOutOfGas` | TAC interpreter |
| TAC transformer | `tac_parser/transformer.go` | a function and its linear code | patches, visit order, jump resolution | TAC interpreter |
| Substrate interpreter | `core/vm/substrate_*.go`, `substrate_parser` | frames, terminate flags | `Run`, one function per node of the tree | validate |

What is hard about it:
- the pool runs workers, a producer and main on bounded channels with an error
  path that leaves the loop early, and the validate command puts one more
  channel and one more goroutine behind it;
- the recorder hooks sit inside a journalled, cached data structure and must
  agree with reverts, destruction and creation within one block, and the replay
  check runs concurrently with the block that produced its data;
- a substate is written in several database writes by programs that can stop
  at any point;
- the comparison of two runs must ignore what does not matter without
  accepting what does;
- the interpreter is switched from call to call while traces, read-only mode
  and errors are kept in single fields that deferred functions restore;
- a decompiled program may loop for ever: both interpreters run it in a
  goroutine, stop it with flags that the two sides share, and have to report
  what happened whichever side was faster;
- TAC has no gas, no stack and no code addresses: where the EVM ran out of gas,
  what memory an instruction may take, which definition of a variable counts,
  and where a jump leads are all reconstructed.

The `hazards` of `PROJECT.json` list these places line by line.

What makes each part correct:
- Task pool: every selected transaction runs exactly once, results reach the
  caller, and the call returns without leaving goroutines behind. Flags: the
  selected transactions are those that the user named.
- Recorder: the input is the state before the transaction, the output is its
  whole effect, and the input suffices to repeat it.
- Database: nothing stored refers to something missing, also after a crash,
  and what is read is what was recorded.
- Equivalence: accepts equal effects and only those.
- validate: every execution has its row in the file, the printed counts are
  those of the file, an error of the tool is never counted as a verdict about
  the program, and the command ends.
- Call isolation: exactly the chosen call is interpreted, the recorded
  operations belong to the call that did them, read-only mode survives calls.
- TAC and substrate interpreters: `Run` returns, and only after its goroutine;
  an error, a timeout or a cancelled callee is reported; phi nodes and private
  calls see the values the program means; memory and words are the EVM's; code
  goes where the control flow graph goes.
- Deviation tracking: an empty row means that the program's own effects are the
  recorded ones as far as they are compared and that nothing is missing or
  added, another row that there is a difference; the run stops where the EVM had
  stopped. (What is not compared, and a false alarm: end of section 4.)
- Program cache: a contract gets what the files of its own code give.

## 2. Modules

| Module | Models | Uses |
|---|---|---|
| `Segment` | abstract specification of `ExecuteSegment` as its callers see it | |
| `TaskPool` | `ExecuteSegment` and `ExecuteBlock`; implements `Segment` | `Segment` |
| `Flags` | segment and transaction lists, and the choice they make | |
| `StateDB` | `core/state`, as operators on a record that is the StateDB | |
| `EVMAccess` | what the EVM does to a StateDB | `StateDB` |
| `Recorder` | `Process`, `CheckReplay`, `IntermediateRoot` | `EVMAccess` |
| `Validation` | one validation run and `EquivalentAlloc` | `EVMAccess` |
| `SubstateDB` | the databases and the programs that fill them | |
| `ValidateCmd` | validate-tac and detect-deviation-tac: tasks, `statChan`, CSV goroutine | `Segment` |
| `IsoExec` | the calls of a transaction, traces, and who executes them | |
| `TACRun` | `TACInterpreter.Run`: goroutine, timer, errors, gas | |
| `TACExec` | `execute_func`: registers, phi, private calls, the ways to end | |
| `TACMemory` | TAC memory beside the EVM's | |
| `TACWords` | TAC arithmetic beside the EVM's | |
| `TACLayout` | from blocks to linear code, and where it goes | |
| `Deviation` | comparison with the recorded trace, recorded out of gas | |
| `ProgCache` | `readTAC`, `safeTACProg` and their caches | |
| `SubstrateRun` | `SubstrateInterpreter.Run` and its goroutine | |
| `TaskPoolProofs`, `SubstateDBProofs`, `ValidateCmdProofs`, `IsoExecProofs`, `DeviationProofs`, `ProgCacheProofs`, `RecorderProofs` | theorems about the module of that name | |
| `RunsProofs` | theorems about `TACRun` and `SubstrateRun` | |
| `MC*` | small instances for TLC | |

Two of the `MC` modules check several components at once. `MCParts` extends
`IsoExec`, `Deviation` and `ProgCache`, `MCRuns` extends `TACRun` and `SubstrateRun`; the
other parts are `INSTANCE`s. A variable `part` is chosen at the start and no
step changes it; a behaviour is a behaviour of the named part, and the variables
of the others stay where they are. The properties are those of the extended
modules, and operators that name the part they are about and the property of its
instance.

### TaskPool

Channels are sequences (`work`, `done`) or a counter (`stop`). A location per
goroutine names the channel operation it is at. `WorkerTake`, `WorkerTaskOk`,
`WorkerTaskErr`, `WorkerBlockEnd`, `WorkerCount`, `WorkerSend` and `WorkerStop`
are one worker iteration; `ProducerSend`, `ProducerStop` and `ProducerEnd` the
producer; `MainCount`, `MainDone`, `MainErr` and `MainNil` the loop of main;
`MainSendStop` and `MainReturn` its deferred function. `Selected` is the
selection by the skip flags and the transaction list, `Succ` is `block++` with
the wrap-around of `uint64`. The contents of the database are the constant
`Kind`, and which tasks may fail is the constant `MayFail`.

### Flags

The elements of `--block-segment-list` and the lines of the `--tx-list` file
are parsed one by one (`ParseBlockSegment`, `ReadLine`), `Configure` makes the
set of blocks that have a listed transaction, and `Runs` is the choice that
`ExecuteSegment` and `ExecuteBlock` make with them. Numbers are given, their
digits are not modelled; the units scale down with the width of the numbers.

### StateDB, EVMAccess, Recorder

A StateDB is a record; each method is an operator that maps the old record and
the arguments to the new one, so that the block's StateDB, the one of a replay
and the one of a comparison share one definition. An object has the fields
`origin`, `pend` and `dirty` (its three storage maps), `touched`
(`ResearchTouched`), `selfDestructed`, `deleted` and `created`. The journal is
the sequence of undo entries; `dirties` is derived from it. The field `eip158`
is the rule of the block about empty accounts.

A transaction is a sequence of accesses, chosen one by one when `Possible` from
the operations of the block's `fork` (a rule about empty accounts and a set of
operations, among them one of the two SELFDESTRUCTs). The EVM is deterministic:
it repeats its accesses as long as what they return is the same. `Recorder`
therefore keeps the script of a transaction with what every access returned,
and `Rerun` repeats the script on a StateDB loaded from the substate.
`FaithfulReplay` compares both what was returned and the output. `EndTx` is the
tail of `applyTransaction`, `SaveSubstate` and the start of the goroutine;
`CheckReplay(s)` is the goroutine, which runs at any later time;
`IntermediateRoot` is the second `Finalise` at the end of the block, which
writes to accounts that the last substate shares with `ResearchPreAlloc`.
Before Byzantium `applyTransaction` calls `IntermediateRoot` instead of
`Finalise`; the pending slots it moves to `originStorage` keep their values, so
that both are `Finalise` here.

`InputIsPreState` and `OutputIsEffect` are stated for blocks with EIP-158.
Before it a created contract begins with nonce 0, and a creation that cannot pay
for its code leaves an account without nonce and code, with the storage its init
code wrote. Another creation at that address resets the account: slots that no
access touched change, and no substate can list them. (On the chain the address
would have to be made twice from the same creator and nonce; the model does
not know where addresses come from.)

Abstracted: code is present or not, nonces and balances are small numbers, a
created contract writes one slot (the same one at every creation). `Create` is
about the new address; the creator's `SetNonce` (`evm.go:642`) and the transfer
of value are accesses to another account that already has its object, of the
kinds that other accesses make. `Called` has no precompiled contracts, which differ
only in that a call without value creates their account (`evm.go:327`). Refunds,
logs, the access list, transient storage, the ripemd exception, tries and
commits are left out.

### SubstateDB

A database is `disk` (what a crash of the machine leaves) and `log` (later
writes in their order). `Put` appends to the log, `Persist` moves its oldest
entry, `Crash` empties it, `Stop` ends the program at any point and loses the
workers' local state. `PutCode`, `PutSubstate` and `PutEVMTrace` are one
database write each. `HashMap`, `HashedCopy`, `HashKeys` and `UnhashedCopy` are
the conversions; `nil` and zero bytes are different values that hash alike and
that protobuf does not tell apart. A substate is abstracted to the fields that
are hashed: the code of an input and of an output account, and the data of the
message with or without `To`. Keccak, LevelDB and protobuf are external.

### Validation and ValidateCmd

In `Validation` the recorded run makes any accesses, its substate is `x`; the
validation loads `x.input` and makes any accesses again, since the decompiled
program may be wrong; its substate is `y`. `Compare` is the end of
`validateTacSubstateWithTrace`. `AcceptsEqualEffects` and `RejectsOtherEffects`
compare the verdict with the worlds the two runs really leave.

`ValidateCmd` is the command around it, with `Segment` as the pool: a
transaction is what the task sees of it, for each call whether the allowlist
and the code let it be executed and how that execution went (`sub` is
`Delta.SubstrateErr`, `apply` what `ApplyMessage` returned or panicked with,
`res` the error in its result, `equal` the verdict of the comparison). `check`
is `recordedTrace # nil`, which tells detect-deviation-tac from validate-tac.
`apply` may also be "invalid", an error of `ApplyMessage` itself: it comes before
any code runs, so that there is no TAC result and, with `IgnoreEmptyTACResult`
(`tac.go:224`), no row; the panic of `TACResultCategory` on other errors is
therefore not reached. `Skipped`, `Execs`, `HasRow` and `RowOf` are the early
exits, filters and verdicts of the task. A worker calls the task (`StartTask`), goes through its
calls one by one (`Execute`) and sends the rows (`FinishTask`), or the replay
before the loop fails (`FailTask`). `Receive`, `WriteRow`, `FlushBatch` and
`CsvDone` are the CSV goroutine, where a row may reach the file at once or stay
in the buffer; `ExecuteReturns`, `CloseChan` and `PrintCounts` the command.

### IsoExec

The call functions and `create` append a trace, make it the current one, and
restore the previous one when they are back. `Enter` is a call up to `Run`,
`Return` its end with the deferred functions, `Immediate` and `NotRun` are the
calls that come back before the interpreter runs. `ro` is `readOnly` of the
EVM and of the TAC interpreter, `interp` is `evm.interpreter`, which `run`
replaces per call with isolation. `Note` and `Log` record an instruction in the
trace that the code would record it in; the history fields `ops` and `parent`
say who executed it and who called. The world is the number of changes that
survive; a failed call returns to its snapshot.

### TACRun and SubstrateRun

`TACRun` has two actors: Run (`m`: the `select`, the three stores after a
timeout in their order, the wait, the end) and the goroutine (`g`: the head of
the loop of `execute_func`, the reads of the two abort flags as separate steps,
the instruction, EVM callees between jumps). `FuncReturns` is the end of a TAC
frame and passes errors to callers as the call and the create instructions do.
`gas` is that of the outermost contract: calls leave it alone, a creation adds
what the created contract returns and never took anything (`CalleeLeft`), and
`Creatable` is the limit `Delta.MaxGas` on what it may be given. A callee may
change the refund counter. `Settled` is about the deferred `UseGas` and
`AddRefund`, computed modulo `W`.

`SubstrateRun` has one frame per nested `Run`: the goroutine that walks the
tree (`go`), `Run` itself (`run`), the terminate flag, what `recover()` gives.
The flag that a timeout stores belongs to the innermost frame (`StoresTo`).

### TACExec, TACMemory, TACWords

`TACExec`: every `execute_func` on the Go stack is a context with its
registers, each with the cycle of its last definition, and the space for the
results of private calls. Instructions that only compute are one `Op` with a
chosen result; NOT, CONST, PHI, jumps, CALLPRIVATE, RETURNPRIVATE and the ways
to end are actions of their own. `Programs` are all programs of a few
instructions. `TACPhiPolicy` and `TACDenyAmbiJump` are constants of the source
(`tac_interpreter.go:37, 43`) that switch their error paths in phi nodes and
jumps off; these are not in the model.

`TACMemory` executes the same instruction on the EVM's memory (size, price,
resize, then execution) and on the TAC interpreter's (`Ext_Resize` in the
instruction), with all `uint64` and signed arithmetic modulo a small width.
`TACWords` has the operands once on a stack and once in registers and applies
the EVM's and the TAC instruction; the operations of uint256 are external.

### TACLayout

`Shift`, `AddMissingStop` and `AddMissingJump` are the patches of the
transformer, `Visit` is one step of `get_visit_order`, `Emit` and `Fill`
produce the linear code and the destinations; the interpreter then executes it
and `move` remembers the last change of block. Block names are an address and
a suffix; `HasPrefix` is the comparison of texts, where one address may be a
prefix of another.

### Deviation

The recorded effects of a transaction before, in and after the isolated call,
and those of the TAC program so far: a list for each of stores, logs and calls,
a set for hashes, as the code keeps them. `Effect` is one instruction of the
program, a store, log, call, creation or hash, with its check; a creation has
none. A call or a creation hands over to the EVM, whose stores, logs and nested
calls join the same lists without a check and without a test for out of gas
(`CalleeEffect`), until it returns (`CalleeReturns`). Of a call the check sees
the target (`v`) and not the input and value (`x`), and the trace holds the
caller instead of the target of a delegate call (`Recorded`). The history
variable `checked` has the places of the effects that were compared. `StopOutOfGas`,
`StopDeviated` and `End` are the ends of the run, `Report` the check of what
remains. Callees that are TAC programs themselves, as without isolation, are
not in this model: deviation is tracked for one isolated call.

### ProgCache

Every access to a cache is an action, nothing else is atomic. Eviction takes
any entry. A file is what was decompiled and whether it parses; `FileNames` are
the four names `readTAC` tries, the address first. `CodeHash` is what
`contract.CodeHash` holds: the hash of the code, and zero (`NoHash`) for init
code that CREATE runs and for an account that does not exist.

## 3. Runs

| Run | Bounds | Shows |
|---|---|---|
| `pool` | 3 workers, 4 blocks, 2 transactions per block, 2 of them may fail, `workChan` of 1, `doneChan` of 4 | no block lost or doubled, exact results and totals, no send on a closed channel, `ExecuteSegment` returns and implements `Segment` |
| `pool_hang` (violation) | 2 workers, 3 blocks, both channels of capacity 1 | finding 1 |
| `recorder` | 2 addresses, 1 slot, blocks of 2 transactions of 3 and 2 accesses, nested calls, four rule sets | faithful replay, input and output are pre-state and effect, reverts restore |
| `substate_db` | 2 transactions that share a code, 2 workers, 2 unsynced writes | nothing stored refers to something missing, through kills, crashes and clones |
| `val_deleted` (violation) | the `verdict` instance of `parts` | finding 2 |
| `parts` | see below | call isolation and tracing, TAC programs, deviation tracking, memory, words, layout, flags, the verdict of `EquivalentAlloc`, the program cache |
| `runs` | TAC call stacks of 3 frames, 4 instructions or a timer, gas of 130 modulo 512 with creations limited to 128; substrate with 1 and with 3 frames | both `Run` functions report what happened and return |
| `cmd` | 3 transactions in 2 blocks, 2 workers, `statChan` of 1; validate-tac, and detect-deviation-tac with failing tasks | the file has every row, the counts are the file's, PASSED is true, the command ends |
| `iso_static` (violation) | the `iso` instance of `parts` | finding 3 |
| `tacexec_phi` (violation) | the `swap` instance of `parts`: crossed phi nodes | finding 4 |
| `cmd_hidden` (violation) | the instance of `cmd` | finding 5 |
| `cache_shared` (violation) | two init codes of CREATE, a file for each | finding 6 |

The instances of `parts`: `evm`, `iso` and `tac` are transactions of at
most 4 calls (3 in `tac`, which has all six kinds) to depth 2; `control`,
`phi` and `swap` are all TAC programs of 3 or 4 instructions with a
private function of up to 2, executed to cycle 7; `deviation` and `validation`
(the same without a trace to compare with) are transactions with one recorded
effect of each kind before the isolated call, at most two in it and one after
it, and runs with at most two (three) effects of a kind; `memory` is three
instructions on words of two bytes with a `uint64` below 16; `words` is all
operands of four bits; `layout` and `shared` are all functions of three
blocks, without and with blocks that share an address; `flags` is two list
elements and two lines with 64 for 2^64 and units of 4 and 16; `verdict` is two
runs of at most three accesses to two addresses with two slots; `cache` is two
workers with five contracts (deployed, run by CREATE or CREATE2, absent), every
subset of four files with all kinds of names, one of which may be broken, and
caches of two programs and one text.

Why the bounds suffice for what they are to show.
- Pool: an out of order result needs two workers, a reorder map with two
  entries three blocks, and a race of an error with another worker a third.
- Recorder: the hard cases are pairs (revert and touched, destruct and cached
  slot, first and second transaction of a block): three accesses in the first
  transaction reach create-write-destruct and write-inside-reverted-call, two
  in the second reach what the first left behind.
- Database: two transactions that share a code and two workers give every order
  of the writes; `MaxLog` bounds how much a crash loses, and the proofs remove
  that bound.
- Isolation: a call before, around, below and after the isolated one takes
  four calls and two levels; the fields at stake are single ones that a return
  restores, so that deeper trees repeat the case.
- TAC programs: a loop, a definition in it, a phi and a call in one function
  take four instructions; a stale cycle or stale private data shows in the
  second round.
- Memory and words: the widths only move the boundaries; offsets, sizes and
  operands below, at and beyond each of them are included.
- Layout: broken fallthrough takes two blocks, an ambiguous address three.
- The `Run` functions: a frame below and one above another takes three.
- Verdict: two runs differ in one place or in two that cancel out; three accesses
  reach a write in a call that reverts, and a destruction after a write.
- Cache: a wrong entry takes two contracts with one key, an eviction a third.

`CHECK_DEADLOCK FALSE` is used where a behaviour ends: a block that is
complete, a comparison that is made, a call that has returned, a program that
has halted or reached the bound on its cycles, a command that is done; and in
`pool_hang`, whose question is the temporal one.

Fairness, weak in all cases. `TaskPool`: main, the producer and each worker,
since the Go scheduler runs every goroutine that can run, and a `TaskFunc`
returns. `TACRun` and `SubstrateRun`: the goroutine, `Run` and the timer; a
goroutine that spins still makes steps, and a timer expires. `ValidateCmd`: the
CSV goroutine, the pool and the command. Nothing is assumed about the choice
among ready cases of a `select`. The other modules state safety only.

Where the code is known to differ from the EVM or from its comments, the passing
property says in what. `SameAsEVM` has the value of SAR of zero by more than the
width, `MemoryAgrees` lets a read of no bytes fail, `RowExact` and `FallsWhenAhead`
name what they exempt (call data, callees and delegate calls; a successor that is
placed before its block), `VerdictTrue` and `OwnProgram` leave out what findings 5
and 6 are about. Two inputs are left out: the programs of `PhiPicksLatest` have
no NOT, and no segment wraps, since the repository does not say what such a
segment should select. `RowExact` covers isolated calls that are not the last one
as the code counts them: what remains is everything recorded up to the end of the
transaction. The half of `OutOfGasExact` that says
the run stops needs that nothing is stored or logged after the call.

## 4. Findings

1. `pool_hang`: once main has left its loop on an error nobody reads
   `doneChan`; a worker that finds it full blocks for ever and the deferred
   clean-up ("stop all workers") waits for it (`research/substate_task.go:236`).
   In the code the capacity is 1000 results per worker, so it takes a nearly
   full channel when the error is read.
2. `val_deleted`: "x and y must have same list of deleted accounts", but the
   loop compares values of `map[common.Address]struct{}`, which are always
   equal: only the number of deleted accounts counts (`validation.go:94`).
3. `iso_static`: "This makes also sure that the readOnly flag isn't removed for
   child calls", but with isolation `run` replaces the interpreter, and
   `readOnly` is a field of the interpreter (`core/vm/evm.go:84`).
4. `tacexec_phi`: "phi should be executed in parallel, so we copy the whole
   value array", but `copiedRegister := ctx.registers` copies a slice header
   (`core/vm/tac_interpreter.go:1400`).
5. `cmd_hidden`: "Return any TAC related error", but with a deviation check the
   row is made from the error of the outermost call alone: a TAC error that the
   EVM caller of the isolated call goes on after is counted PASSED
   (`cmd/substate-cli/validate/tac.go:288`).
6. `cache_shared`: "optimized with memoization technique", but the key of init
   code that CREATE runs is the zero hash, so that all creations share one entry
   of the caches (`core/vm/contract.go:302`). Contracts with the same code share
   an entry too when one of them has a file named by its address.

Observed while modelling; the models show the behaviour, no run claims it:
- `SaveSubstate` shares its accounts with `ResearchPreAlloc`, and the `Finalise`
  at the end of the block appends to them while the last `CheckReplay` may be
  reading (`core/state/statedb.go:902`). The values are the same ones, so that
  the replay is still faithful, and the copy in the database is not affected.
- `core/vm/tac_interpreter.go`: the data of a revert inside a private call is
  dropped (452); a creation hides a TAC error of its callee (1854, which tests
  `err`, not `suberr`) and adds gas that was never taken (1876, 1948); NOT does
  not set the cycle of its register, so that a phi may take an older definition
  (836); zero shifted right by more than 256 is minus one (1105).
- `core/vm/track_deviation.go`: an extra LOG or call indexes past the recorded
  ones (46, 90); what remains is counted over the whole transaction (156); what
  EVM callees do and what is created is only counted; input and value of a call
  are not compared (107). For CALLCODE and DELEGATECALL the trace holds the caller
  as the callee (`core/vm/evm.go:413`, 485) and the check gets the target, so that
  the recorded call itself is reported.
- `core/vm/extended_memory.go`: the memory limit is checked against the price of
  each growth, not of the whole (92); a read of no bytes grows memory up to its
  offset, or fails on the way, where the EVM does nothing (83).
- `tac_parser/transformer.go`: whether a block needs a jump to its successor is
  decided on the order of the file, the code is laid out in another (262);
  addresses are compared as prefixes of names (463); a variable jump looks blocks
  up by their address although names may have a suffix (500).
- `core/vm/substrate_interpreter.go:294`: the flag that the timeout of a caller
  sets is that of the innermost frame; nested `Run`s need not end.
- `research/substate_flags.go:106`: a unit may wrap the ends of a segment.

## 5. Proofs

All theorems hold for every value of the constants under the named assumptions
of the modules, or under the hypotheses that a theorem states itself. The
operators `Configured` (`DevConfigured` in `Deviation`) are such hypotheses: the
types of the constants, which the modules for TLC assume of their instances
(`IsoExecAssumption`, `CommandConfigured`, `DeviationAssumption`,
`SubstrateAssumption`). Every inductive invariant was first checked by TLC on
the instance of its run.

`TaskPoolProofs` (assumptions: `SegmentAssumption`: the segment is not empty
and does not end at the largest `uint64`; `PoolAssumption`: there are workers
and the channels are buffered; `TaskAssumption`: the types of the constants).
`PoolInv` is the inductive invariant. `NoBlockTwice` alone is not inductive: it
needs that `workChan` holds consecutive blocks that end before the producer's
next one (`WorkContiguous`), so that the block a worker takes is new; that
every block before `Frontier` has exactly one place (`NoBlockLost`,
`NoBlockTwice`); what a worker has run of its block (`WorkerInv`), so that a
result in `doneChan` is true (`ResultsTrue`); and what main's location says of
its result (`MainInv`). Each kind of step moves one block from one place to
the next, one lemma each (`TakePlaces`, `SendPlaces`, ...). `TotalsExact` is
about the end only; inductive is `TotalsInv`: the totals are the numbers of
blocks and transactions whose worker is past its atomic additions, and a worker
between the last task and the additions holds the number for its block.
Theorems: `TypeCorrect`, `PoolInvariant`, `ExactlyOnce`, `ResultsAreTrue`,
`ClosedIsQuiet`, `TotalsAreExact` and `Refinement`
(`Spec => ImplementsSegment`).

`SubstateDBProofs` (assumption `DBAssumption`). `CodesStored` is not inductive:
a crash cuts the log, so what is stored must be closed at every point of the
log. `DBInv` says that every entry of a log finds what it refers to among the
entries before it, that the disk is closed, and that a worker has put every
code that is no longer in its list and the substate of the trace it is about
to put. Theorems: `DBInvariant`, `TypeCorrect`, `Integrity`, `NeverMissing`
and `RoundTrip`.

`RunsProofs` (assumption `TACRunAssumption`: the flags are Booleans, the
bounds are numbers, gas values are below `W`, and `MaxGas`, like what a creation
returns, is far below it, as 2^64 is far above `EXT_DEFAULT_MAX_GAS`).
`ErrorReported` is not
inductive: between the return of the goroutine and the end of `Run` an error
is in `err` alone, and a cancelled callee says nothing about the reason.
`RunInv` adds that what cancels an EVM callee has stored its reason first, that
an error not yet stored is the one the goroutine has just handed over, that
after the timer the error of `Run` is the timeout until it is stored last, and
that `Run` is past its wait only when the goroutine is over. For `Settled` it adds
that the gas only grows until `Run` ends: a creation is given at most `MaxGas`,
which is all but a 64th part of the gas, so that the gas there is, and the sum,
stay below `W` (`NoWrap`), and taking all but the recorded rest is then exact
(`GasUsed`). Theorems: `TypeCorrect`,
`RunInvariant`, `NeverOverlap`, `ErrorsReported` and `GasSettled`, for every
timeout setting, instruction limit and depth.

`ProgCacheProofs`, for any workers, contracts, files and capacities.
`SharedByHash` is about a result; what is inductive is that every entry of both
caches, and every value a worker holds between two accesses, is what the files of
some contract with that key give (`CacheInv`). Theorems: `ResultsShared`, and
`MemoizationSound`, that a contract gets what its own files give. The latter is
about contracts with a hash of their own, of which none has a file named by its
address (`NoAddressFile`): two contracts of one hash then have one code and find
the same file (`OneFile`). Without the first condition it is false (finding 6),
without the second two deployed contracts of the same code share the program of
whichever ran first.

`ValidateCmdProofs`, for any segment, number of workers, channel capacity,
flags and transactions. `FileComplete` speaks of the end; its invariant
`CmdInv` follows the rows: those of a running task are those of the calls it is
past (`TaskInv`), a batch in `statChan` is all rows of one task that has
returned and of no other (`ChanInv`), and file, buffer and batch in hand
together (`Received`) hold, in order, the rows of all other returned tasks
(`ReceivedInv`); the counts are those of file and buffer (`CountInv`). Each step
moves rows along that line, so most of the work is in lemmas about
concatenated lists (`Ordered`, `Holds`, `From`). Theorems: `CmdInvariant`,
`NoSendOnClosed`, `FileIsComplete` (with `CountsMatchFile`), and
`VerdictsAreTrue`. The last one exempts the executions of detect-deviation-tac
(`check`): there it is false (finding 5).

`IsoExecProofs`, for any depth limit, interpreters and isolated call.
`TraceSound` speaks of finished transactions. `IsoInv` says of the calls that
are executing that their numbers increase along the stack, that each remembers
the trace of its caller, and that the current trace is the innermost call's
(`StackInv`); that place on the stack and recorded depth (`Level`) already give
the tree, and what began after an executing call is below it (`TreeInv`); and
that the row is final unless the isolated call is executing (`RowInv`).
Theorems: `IsoInvariant`, `TracesAreSound`, `RowsAreOfIsolated`, and
`StaticCallsAreStatic`, which holds until the TAC interpreter executes a call
(`ran = {}`), with `EVMInv`: one frame has set `readOnly`, the outermost static
call, and all snapshots since are of the present world. Beyond that the statement
is false (finding 3).

`DeviationProofs`, for any recorded transaction, any effects of the program and
any effects of what it calls. `DevInv`: without a deviation the program's own
effects agree, in the operands that are compared, with what was recorded at
their places from the isolated call on, whatever callees and creations did in
between; with one, an effect of that kind does not. `DeviatesExact` says that the
checks of stores, logs and calls find exactly the effect that does not agree with
the recorded one at the place it gets, `AgreementKept` that later effects do not
change that, and `Counts` what the comparisons of numbers in `Remaining` and
`OutOfGas` test. For hashes the equality of two finite sets is concluded from
inclusion and equal size. Theorems: `TypeCorrect`, `DevInvariant`, `RowIsExact`,
`NoEffectBeyond` and `OutOfGasIsExact`. `Tracing` says that a run is compared at
all. `RowIsExact` says what an empty row does and does not mean (numbers of all
effects, operands of the program's own ones, all hashes); that another row means
a difference needs `NoDelegates` (end of section 4). `NoEffectBeyond` is about the
program itself: in a callee nothing is tested.

`RunsProofs`, for any depth of nested `Run`s and any program.
`SubstrateResult` is about what `Run` returns and where its busy loop starts;
`SubInv` says of every frame that `Run` is past its wait only when the
goroutine has sent, and that only the innermost goroutine does not wait for a
callee. Of the outermost frame it says that without a timeout nothing is stored
over the flag of a recorded out of gas until the deferred function has made it
the result. Theorems: `SubInvariant` and `ResultReported`. That a timeout is in
the result is part of it only where no other `Run` was nested when it fired
(`inner`): else the message depends on the flag of another frame.

`RecorderProofs`, for any addresses, finite set of slots, values, blocks and
transactions. Assumptions: `StateDBAssumption` and `RecorderAssumption`, the
types of the constants, and `BareAssumption`: an account without nonce and code
has no storage where a contract may be created in a block with EIP-158. Accounts
that contradict it were left by creations that could not pay for their code,
before EIP-158; creating there again would take the same creator and nonce, or
a CREATE2, which is younger than EIP-158, with the same hash. Without it the two
properties of the substate fail as described in section 2.

The argument has three layers.
- What a StateDB shows of an address without its caches is its *shape*: nonce,
  balance, code, the marks, and per slot the committed and the current value
  (`ShapeAt`). Loading an object or a slot changes no shape (`LoadTx`,
  `CacheTx`). Every method that writes changes one shape and appends one journal
  entry, and `UndoShape` of that entry is the exact inverse on shapes.
- `RevertRestores` is not inductive in terms of the present state: after a
  revert, an outer one must work too, also over objects that were created,
  reset and self-destructed in between. `TxInv` says that there is a chain of
  shapes, one per journal entry, from the start of the transaction to the
  present, each the undo of the next, and that the worlds at the revisions are on it
  (`Chain`). At every point of the chain a changed slot is touched, and under
  EIP-158 committed slots are those of the world before the transaction and an
  account that existed still does (`Kept`); an address that no entry names is
  as it was (`Unchanged`). `RevertToSnapshot` undoes any number of entries; what
  it computes is proved by induction on that number (`Upward`, from the
  well-foundedness of the naturals), on sets and not on operators.
- Between transactions nothing is journaled and every slot is committed
  (`IdleOK`). `Finalise` and `SaveSubstate` are described per address
  (`FinaliseShape`, `EndRecords`). The storage of an account in a substate is a
  list; that it has each touched slot once and in order follows from the ranks
  of its keys (`Ranks`, `SortList`). From `TxInv` then come the two properties
  of the substate (`EndSubstate`).

Theorems: `ProcessInvariant`, `TypeCorrect` (with what `Finalise` relies on:
every recorded address has an object), `InputCorrect`, `OutputCorrect` and
`RevertCorrect`. The first attempt at `OutputCorrect` failed for blocks before
EIP-158, and TLC then found the case on two slots; the property is stated for
EIP-158 since.

Only model-checked:
- liveness (`SegmentReturns`, `AlwaysReturns`, `Terminates`): the prover does
  not reason about fairness and `ENABLED`;
- `FaithfulReplay` and the three properties of `Validation`: they compare two
  StateDBs that ran the same script from different worlds, one of them loaded by
  a fold over the substate, and the prover knows no facts about the folds of
  the library;
- `TACMemory`, `TACWords`, `TACLayout`, `TACExec` and `Flags`: the interest is
  in what a computation gives on all small inputs (bitwise operations, visit
  orders, the cycles of a program), which is recursion again;
- the parts of `PartsOK` that are types of these modules.

## 6. Not modelled, and the plan

- The meaning of each node of the substrate's syntax tree
  (`core/vm/substrate_act.go`, `substrate_unpack.go`) and the fuzzer: there is
  no second definition to compare it with.
- Lexing and parsing of TAC and substrate text, and the encoding of operands.
- TAC instructions that copy a field of the environment, the GAS instruction
  (it replays recorded numbers), coverage counters.
- `EVMCallTrace.Equal` (`research/substate_trace.go:116`) compares some lists
  with themselves; it has no caller.
- Conversion of messages, block environments and receipts: field by field,
  without state.
- replay, replay-fork, the statistics and dump commands and the legacy rr0.3
  format: input and output over the task pool.
- go-ethereum outside the parts above (networking, consensus, tries, the
  transaction pool, RPC, accounts): upstream code that this fork does not
  change. It is most of the lines of the repository.

Left to do: the composition of `Segment` with `SubstateDB` (after a clone that
returned nil the destination holds every selected substate of the segment), and
a proof of `FaithfulReplay` by a simulation between the StateDB that records and
the one that replays, on the shapes of `RecorderProofs`.
