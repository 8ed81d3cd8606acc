------------------------------ MODULE SubstateDB ------------------------------
(***************************************************************************)
(* The substate databases (research/substate_db.go, substate_utils.go,     *)
(* substate_trace.go) and the programs that fill them: geth with           *)
(* RecordSubstate, substate-cli record-trace, db-clone and db-clone-trace. *)
(*                                                                         *)
(* A substate is stored in pieces: the codes of its accounts (and its init *)
(* code) under their hashes, and the substate with hashes in their place   *)
(* under its block and transaction; an EVM trace is a third kind of item.  *)
(* Each backend.Put is atomic, PutSubstate is not, and a program may stop  *)
(* at any point.  LevelDB (external) does not sync its writes: disk holds  *)
(* what a crash of the machine leaves, log the writes after that in their  *)
(* order.  LevelDB locks a database: one program runs at a time, its       *)
(* workers concurrently.                                                   *)
(***************************************************************************)
EXTENDS Integers, Sequences, FiniteSets

CONSTANTS
    Txs,            \* the <<block, tx>> keys
    Code,           \* non-empty bytecodes
    Content,        \* Content[t]: the substate that recording t produces
    Workers,
    MaxLog          \* bound: writes that are not on disk yet

Nil == <<"nil">>        \* no bytes
Empty == <<"empty">>    \* zero bytes
Bytes == Code \cup {Nil, Empty}

\* Keccak256 (external) has no collisions; nil and zero bytes hash the same.
CodeHash(c) == <<"hash", IF c = Nil THEN Empty ELSE c>>
EmptyCodeHash == CodeHash(Nil)
Hashes == {CodeHash(c) : c \in Code \cup {Empty}}

\* What HashedCopy touches of a substate: the code of an input and of an
\* output account and the message: To (set or not) and Data.
Substates == [input : Bytes, output : Bytes, hasTo : BOOLEAN, data : Bytes]

ASSUME DBAssumption ==
    /\ Nil \notin Code /\ Empty \notin Code
    /\ Content \in [Txs -> Substates]
    /\ MaxLog \in Nat \ {0}

\* A field of a stored substate: bytes, or the hash of a code.
Plain(c) == [hashed |-> FALSE, value |-> c]
Hashed(h) == [hashed |-> TRUE, value |-> h]
Fields == [hashed : {FALSE}, value : Bytes]
          \cup [hashed : {TRUE}, value : Hashes]
Stored == [input : Fields, output : Fields, hasTo : BOOLEAN, data : Fields]

(***************************************************************************)
(* HashMap: the codes of a substate.  HashedCopy: its stored form, as the  *)
(* protobuf encoding returns it: nil bytes come back as zero bytes.        *)
(***************************************************************************)
Encode(c) == Plain(IF c = Nil THEN Empty ELSE c)
HashField(c) == IF c = Nil THEN Encode(c) ELSE Hashed(CodeHash(c))

HashMap_NoInit(s) == {c \in {s.input, s.output} : c # Nil}  \* mutant
HashMap(s) ==
    {c \in {s.input, s.output} \cup (IF s.hasTo THEN {} ELSE {s.data}) : c # Nil}

HashedCopy_WrongField(s) ==     \* mutant: the init code is the output's
    [input |-> HashField(s.input), output |-> HashField(s.output),
     hasTo |-> s.hasTo,
     data |-> IF s.hasTo THEN Encode(s.data) ELSE HashField(s.output)]
HashedCopy(s) ==
    [input |-> HashField(s.input), output |-> HashField(s.output),
     hasTo |-> s.hasTo,
     data |-> IF s.hasTo THEN Encode(s.data) ELSE HashField(s.data)]

(***************************************************************************)
(* HashKeys: the hashes GetSubstate looks up.  GetCode: the code that      *)
(* PutCode stored under h.  UnhashedCopy: the substate with the codes back *)
(* in place.                                                               *)
(***************************************************************************)
HashKeys(v) == {f.value : f \in {g \in {v.input, v.output, v.data} : g.hashed}}

GetCode(h) == IF h = EmptyCodeHash THEN Nil ELSE h[2]
UnhashField(f) == IF f.hashed THEN GetCode(f.value) ELSE f.value
UnhashedCopy(v) ==
    [input |-> UnhashField(v.input), output |-> UnhashField(v.output),
     hasTo |-> v.hasTo, data |-> UnhashField(v.data)]

-------------------------------------------------------------------------------
DBs == {"src", "dst"}
Programs == {"record", "record-trace", "db-clone", "db-clone-trace"}

CodeItem(h) == <<"code", h>>
SubstateItem(t, v) == <<"substate", t, v>>
TraceItem(t) == <<"trace", t>>
NoItem == <<"none">>
CodeItems == {"code"} \X Hashes
SubstateItems == {"substate"} \X Txs \X Stored
TraceItems == {"trace"} \X Txs
Items == CodeItems \cup SubstateItems \cup TraceItems

VARIABLES
    disk,       \* disk[d]: the items of database d a crash leaves
    log,        \* log[d]: the writes after them, oldest first
    prog,       \* the program that runs, or "none"
    pc, item, todo,     \* per worker: location, item to put, codes to put
    panicked    \* GetCode did not find a code

vars == <<disk, log, prog, pc, item, todo, panicked>>

LogItems(d) == {log[d][i] : i \in 1..Len(log[d])}
Data(d) == disk[d] \cup LogItems(d)         \* what backend.Get sees

Init ==
    /\ disk = [d \in DBs |-> {}] /\ log = [d \in DBs |-> <<>>]
    /\ prog = "none"
    /\ pc = [w \in Workers |-> "idle"]
    /\ item = [w \in Workers |-> NoItem]
    /\ todo = [w \in Workers |-> {}]
    /\ panicked = FALSE

Start(p) ==
    /\ prog = "none" /\ prog' = p
    /\ UNCHANGED <<disk, log, pc, item, todo, panicked>>

Halt_KeepLocations ==       \* mutant: the workers keep their place
    /\ prog' = "none" /\ panicked' = FALSE /\ UNCHANGED pc
    /\ item' = [w \in Workers |-> NoItem]
    /\ todo' = [w \in Workers |-> {}]

\* No program runs; what the workers of the last one held is gone.
Halt ==
    /\ prog' = "none" /\ panicked' = FALSE
    /\ pc' = [w \in Workers |-> "idle"]
    /\ item' = [w \in Workers |-> NoItem]
    /\ todo' = [w \in Workers |-> {}]

\* The program ends, is killed or panics, perhaps in the middle of a task.
Stop == prog # "none" /\ Halt /\ UNCHANGED <<disk, log>>

Target == IF prog \in {"db-clone", "db-clone-trace"} THEN "dst" ELSE "src"

Put(x) ==
    /\ Len(log[Target]) < MaxLog
    /\ log' = [log EXCEPT ![Target] = Append(@, x)]

Become(w, p, x) ==
    pc' = [pc EXCEPT ![w] = p] /\ item' = [item EXCEPT ![w] = x]

\* PutSubstate begins: HashMap and HashedCopy.
BeginPut(w, t, s) ==
    /\ Become(w, "codes", SubstateItem(t, HashedCopy(s)))
    /\ todo' = [todo EXCEPT ![w] = HashMap(s) \cap Code]

\* Process has run a transaction; blocks are imported one after the other.
Record(w, t) ==
    /\ prog = "record"
    /\ \A x \in Workers : pc[x] = "idle"
    /\ BeginPut(w, t, Content[t])
    /\ UNCHANGED <<disk, log, prog, panicked>>

(***************************************************************************)
(* ExecuteBlock has read a substate of src for a worker: GetCode panics if *)
(* one of its codes is missing, and then no worker goes on.                *)
(***************************************************************************)
CodesFound(v) ==
    \A h \in HashKeys(v) \ {EmptyCodeHash} : CodeItem(h) \in Data("src")

TraceTask(w, t) ==          \* recordTraceSubstateTask, up to PutEVMTrace
    /\ prog = "record-trace"
    /\ Become(w, "trace", TraceItem(t))
    /\ UNCHANGED todo

CloneTask_TraceOnly(w, t, s) ==     \* mutant: clones the trace alone
    /\ prog = "db-clone-trace" /\ TraceItem(t) \in Data("src")
    /\ Become(w, "trace", TraceItem(t))
    /\ UNCHANGED todo
CloneTask(w, t, s) ==       \* cloneTask of db-clone and of db-clone-trace
    /\ \/ prog = "db-clone"
       \/ prog = "db-clone-trace" /\ TraceItem(t) \in Data("src")
    /\ BeginPut(w, t, s)

SkipTask ==     \* no trace, not an out-of-gas trace, or the replay differs
    /\ prog \in {"record-trace", "db-clone-trace"}
    /\ UNCHANGED <<pc, item, todo>>

Read(w, t, v) ==
    /\ pc[w] = "idle" /\ ~panicked
    /\ \A x \in Workers : pc[x] # "idle" => item[x][2] # t     \* ExecuteSegment
    /\ prog \in Programs \ {"record"}
    /\ panicked' = ~CodesFound(v)
    /\ TraceTask(w, t) \/ CloneTask(w, t, UnhashedCopy(v)) \/ SkipTask
    /\ UNCHANGED <<disk, log, prog>>

PutCode(w, c) ==
    /\ ~panicked /\ pc[w] = "codes" /\ c \in todo[w]
    /\ Put(CodeItem(CodeHash(c)))
    /\ todo' = [todo EXCEPT ![w] = @ \ {c}]
    /\ UNCHANGED <<disk, prog, pc, item, panicked>>

\* The end of PutSubstate; db-clone-trace goes on with the trace.
AfterSubstate(w) ==
    IF prog = "db-clone-trace" THEN Become(w, "trace", TraceItem(item[w][2]))
                               ELSE Become(w, "idle", NoItem)

PutSubstate_Early(w) ==     \* mutant: does not wait for the codes
    /\ ~panicked /\ pc[w] = "codes"
    /\ Put(item[w]) /\ AfterSubstate(w)
    /\ UNCHANGED <<disk, prog, todo, panicked>>
PutSubstate(w) ==
    /\ ~panicked /\ pc[w] = "codes" /\ todo[w] = {}
    /\ Put(item[w]) /\ AfterSubstate(w)
    /\ UNCHANGED <<disk, prog, todo, panicked>>

PutEVMTrace(w) ==
    /\ ~panicked /\ pc[w] = "trace"
    /\ Put(item[w]) /\ Become(w, "idle", NoItem)
    /\ UNCHANGED <<disk, prog, todo, panicked>>

\* The oldest write that is not on disk reaches it.
Persist(d) ==
    /\ log[d] # <<>>
    /\ disk' = [disk EXCEPT ![d] = @ \cup {Head(log[d])}]
    /\ log' = [log EXCEPT ![d] = Tail(@)]
    /\ UNCHANGED <<prog, pc, item, todo, panicked>>

\* The machine stops: the program and the writes not on disk are gone.
Crash == log' = [d \in DBs |-> <<>>] /\ Halt /\ UNCHANGED disk

Next ==
    \/ \E p \in Programs : Start(p)
    \/ Stop
    \/ Crash
    \/ \E d \in DBs : Persist(d)
    \/ \E w \in Workers :
        \/ \E t \in Txs : Record(w, t)
        \/ \E x \in Data("src") : x[1] = "substate" /\ Read(w, x[2], x[3])
        \/ \E c \in Code : PutCode(w, c)
        \/ PutSubstate(w)
        \/ PutEVMTrace(w)

Spec == Init /\ [][Next]_vars

-------------------------------------------------------------------------------
(***************************************************************************)
(* Types of the databases and of the workers' state.                       *)
(***************************************************************************)
TypeOK ==
    /\ disk \in [DBs -> SUBSET Items]
    /\ log \in [DBs -> Seq(Items)]
    /\ prog \in Programs \cup {"none"}
    /\ pc \in [Workers -> {"idle", "codes", "trace"}]
    /\ item \in [Workers -> Items \cup {NoItem}]
    /\ todo \in [Workers -> SUBSET Code]
    /\ panicked \in BOOLEAN

\* The codes of item x, and the substate of item x, are in S.
CodesIn(x, S) ==
    x[1] = "substate" =>
        \A h \in HashKeys(x[3]) \ {EmptyCodeHash} : CodeItem(h) \in S
SubstateIn(x, S) ==
    x[1] = "trace" => \E y \in S : y[1] = "substate" /\ y[2] = x[2]

(***************************************************************************)
(* Referential integrity: at any moment, and after a crash at any moment,  *)
(* the codes of every stored substate are stored (PutSubstate puts them    *)
(* first).                                                                 *)
(***************************************************************************)
CodesStored ==
    \A d \in DBs : /\ \A x \in disk[d] : CodesIn(x, disk[d])
                   /\ \A x \in Data(d) : CodesIn(x, Data(d))

(***************************************************************************)
(* The substate of every stored trace is stored, also after a crash:       *)
(* record-trace reads it first and db-clone-trace puts it first.           *)
(***************************************************************************)
TracesHaveSubstate ==
    \A d \in DBs : /\ \A x \in disk[d] : SubstateIn(x, disk[d])
                   /\ \A x \in Data(d) : SubstateIn(x, Data(d))

(***************************************************************************)
(* No reader finds a substate without its codes, whatever was killed or    *)
(* crashed before (GetCode: "error getting code").                         *)
(***************************************************************************)
NoMissingCode == ~panicked

(***************************************************************************)
(* A stored substate reads back as it was recorded, also after it has been *)
(* cloned: codes, init code and data are the same bytes.  Nil and zero     *)
(* bytes count as equal, as they do for proto.Equal.                       *)
(***************************************************************************)
SameBytes(c, e) == c = e \/ {c, e} \subseteq {Nil, Empty}
SameSubstate(s, r) ==
    /\ SameBytes(s.input, r.input) /\ SameBytes(s.output, r.output)
    /\ s.hasTo = r.hasTo /\ SameBytes(s.data, r.data)
True(x) == x[1] = "substate" => SameSubstate(UnhashedCopy(x[3]), Content[x[2]])
ReadsBack == \A d \in DBs : \A x \in Data(d) : True(x)

-------------------------------------------------------------------------------
(***************************************************************************)
(* The inductive invariant.  Every write in a log finds what it refers to  *)
(* among the writes before it, so that every prefix of a log, and with it  *)
(* every disk a crash can leave, is closed; a worker has put the codes     *)
(* that are not in todo, and the substate of the trace it is about to put. *)
(***************************************************************************)
Supported(x, S) == CodesIn(x, S) /\ SubstateIn(x, S)
Before(d, i) == disk[d] \cup {log[d][j] : j \in 1..(i - 1)}

DiskClosed == \A d \in DBs : \A x \in disk[d] : Supported(x, disk[d])
LogClosed == \A d \in DBs : \A i \in 1..Len(log[d]) :
                Supported(log[d][i], Before(d, i))
WorkerInv(w) ==
    /\ prog = "none" => pc[w] = "idle"
    /\ pc[w] = "codes" =>
        /\ item[w] \in SubstateItems /\ True(item[w])
        /\ \A h \in HashKeys(item[w][3]) \ {EmptyCodeHash} :
                GetCode(h) \in todo[w] \/ CodeItem(h) \in Data(Target)
    /\ pc[w] = "trace" =>
        /\ item[w] \in TraceItems
        /\ \E y \in Data(Target) : y[1] = "substate" /\ y[2] = item[w][2]
DBInv ==
    /\ TypeOK /\ ~panicked /\ ReadsBack
    /\ DiskClosed /\ LogClosed
    /\ \A w \in Workers : WorkerInv(w)
===============================================================================
