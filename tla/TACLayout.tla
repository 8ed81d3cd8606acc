------------------------------ MODULE TACLayout ------------------------------
(***************************************************************************)
(* How a function of a TAC program becomes linear code                     *)
(* (tac_parser/transformer.go), and where that code goes when the          *)
(* interpreter executes it (exec_jump and its variants).                   *)
(*                                                                         *)
(* A block name is an address and a suffix: Gigahorse appends the suffix   *)
(* when blocks of several functions share an address; jumps name addresses *)
(* only.  A function is the sequence of its blocks in file order.  Of a    *)
(* statement its operation and, for jumps, its constant target count.      *)
(***************************************************************************)
EXTENDS Integers, Sequences, FiniteSets, SequencesExt

CONSTANTS
    Functions,      \* the functions to transform
    Longer          \* pairs <<a, b>>: the text of address b begins with that of a

NoName == [base |-> "none", sfx |-> ""]
Nowhere == -1

VARIABLES
    src,        \* the function as parsed
    fn,         \* the function as patched so far
    stage,      \* "shift", "stop", "jump", "visit", "emit", "fill", "run", "done"
    order,      \* indices of the blocks in the order of the linear code
    frames,     \* get_visit_order on the Go stack: block, next successor
    insts,      \* Insts, an element per statement
    addrs,      \* FallthroughJumpAddr, FallthroughStopAddr, FallthroughThrowAddr
    pc, blk,    \* interpreter: next instruction, the block it is in
    move        \* history: the last change of block, and how it came about

vars == <<src, fn, stage, order, frames, insts, addrs, pc, blk, move>>
-------------------------------------------------------------------------------
Base(name) == name.base
Aux(op, to) == [op |-> op, typ |-> "const", to |-> to, aux |-> TRUE]
LastOp(b) == IF b.stmts = <<>> THEN "none" ELSE Last(b.stmts).op
Halts == {"STOP", "RETURN", "REVERT", "SELFDESTRUCT", "THROW", "RETURNPRIVATE"}

\* get_block
BlockOf(f, name) == CHOOSE i \in 1..Len(f) : f[i].name = name

\* shiftVarDecls: CONST and PHI go to the start of the block.
IsDecl(s) == s.op \in {"CONST", "PHI"}
IsOther(s) == ~IsDecl(s)
Shifted(b) == [b EXCEPT !.stmts = SelectSeq(@, IsDecl) \o SelectSeq(@, IsOther)]

\* addMissingStop
Stopped(b) ==
    IF b.succ = <<>> /\ LastOp(b) \notin Halts
    THEN [b EXCEPT !.stmts = Append(@, Aux("STOP", "none"))] ELSE b

\* The block that follows in the file has this address.
FollowsInFile(f, i, addr) == i < Len(f) /\ Base(f[i + 1].name) = addr

\* The successor that a block falls through to: by observation the first, and
\* the other one if the first is the target.
FallIndex(b) == IF Last(b.stmts).to = Base(b.succ[1]) THEN 2 ELSE 1

WithJump(f, i, addr) ==
    IF FollowsInFile(f, i, addr) THEN f[i]
    ELSE [f[i] EXCEPT !.stmts = Append(@, Aux("JUMP", addr))]

Jumped_OnlyOne(f, i) ==
    IF Len(f[i].succ) = 1 /\ LastOp(f[i]) # "JUMP"
    THEN WithJump(f, i, Base(f[i].succ[1])) ELSE f[i]

\* addMissingJump for the block i
Jumped(f, i) ==
    LET b == f[i] IN
    IF Len(b.succ) = 1 /\ LastOp(b) # "JUMP" THEN WithJump(f, i, Base(b.succ[1]))
    ELSE IF Len(b.succ) # 2 THEN b
    ELSE IF LastOp(b) \notin {"JUMP", "JUMPI"}
         THEN [b EXCEPT !.stmts = Append(@, Aux("THROW", "none"))]
    ELSE IF Last(b.stmts).typ = "var" THEN b
    ELSE WithJump(f, i, Base(b.succ[FallIndex(b)]))

\* The patches before the transformation, each on all blocks.
Shift ==
    /\ stage = "shift" /\ stage' = "stop"
    /\ fn' = [i \in 1..Len(fn) |-> Shifted(fn[i])]
    /\ UNCHANGED <<src, order, frames, insts, addrs, pc, blk, move>>

AddMissingStop ==
    /\ stage = "stop" /\ stage' = "jump"
    /\ fn' = [i \in 1..Len(fn) |-> Stopped(fn[i])]
    /\ UNCHANGED <<src, order, frames, insts, addrs, pc, blk, move>>

\* visited[&astFunc.blocks[0]] = true
EntryVisited == {1}

AddMissingJump ==
    /\ stage = "jump" /\ stage' = "visit"
    /\ \A i \in 1..Len(fn) : Len(fn[i].succ) = 2 => fn[i].stmts # <<>>
    /\ fn' = [i \in 1..Len(fn) |-> Jumped(fn, i)]
    /\ order' = <<1>> /\ frames' = <<<<1, 1>>>>
    /\ UNCHANGED <<src, insts, addrs, pc, blk, move>>

\* statements[len-1] of an empty block with two successors is a Go panic.
PanicsEmpty ==
    /\ stage = "jump" /\ stage' = "done"
    /\ \E i \in 1..Len(fn) : Len(fn[i].succ) = 2 /\ fn[i].stmts = <<>>
    /\ UNCHANGED <<src, fn, order, frames, insts, addrs, pc, blk, move>>
-------------------------------------------------------------------------------
Visited(i) == i \in EntryVisited \/ \E k \in 2..Len(order) : order[k] = i

\* One iteration of the loop of get_visit_order, and its return.
Visit ==
    /\ stage = "visit" /\ frames # <<>>
    /\ LET b == Last(frames)[1]
           s == Last(frames)[2]
           rest == Append(Front(frames), <<b, s + 1>>)
       IN  IF s > Len(fn[b].succ) THEN frames' = Front(frames) /\ order' = order
           ELSE LET i == BlockOf(fn, fn[b].succ[s]) IN
                IF Visited(i) THEN frames' = rest /\ order' = order
                ELSE frames' = Append(rest, <<i, 1>>) /\ order' = Append(order, i)
    /\ UNCHANGED <<src, fn, stage, insts, addrs, pc, blk, move>>

Inst(op, b) == [op |-> op, typ |-> "const", to |-> "none", aux |-> FALSE,
                name |-> b.name, dest |-> Nowhere, unique |-> {}]

\* A numbered ILLPHI would become a PHI; CONST and PHI are emitted first.
Emitted(b) ==
    LET ds == SelectSeq(b.stmts, IsDecl)
        os == SelectSeq(b.stmts, IsOther)
        both == ds \o os
    IN  <<Inst("FLAG", b)>> \o [k \in 1..Len(both) |->
            [Inst(both[k].op, b) EXCEPT !.typ = both[k].typ, !.to = both[k].to,
                                        !.aux = both[k].aux]]

\* trans_stop and trans_throw mark what the patches added; trans_jump does not.
Marks(op) == op \in {"STOP", "THROW", "JUMPI"}

\* add_block for every block in visit order
Emit ==
    /\ stage = "visit" /\ frames = <<>> /\ stage' = "fill"
    /\ insts' = FlattenSeq([k \in 1..Len(order) |-> Emitted(fn[order[k]])])
    /\ addrs' = {k \in 1..Len(insts') : insts'[k].aux /\ Marks(insts'[k].op)}
    /\ UNCHANGED <<src, fn, order, frames, pc, blk, move>>
-------------------------------------------------------------------------------
\* BlockByName: the last block of that name that was emitted.
Starts == {k \in 1..Len(insts) : insts[k].op = "FLAG"}
StartsOf(addr) == {k \in Starts : Base(insts[k].name) = addr}
BlockByName(name) == CHOOSE k \in Starts :
    insts[k].name = name /\ \A j \in Starts : insts[j].name = name => j <= k
Names == {insts[k].name : k \in Starts}

\* UniqueBlockAddr
UniqueAddr(addr) == Cardinality({n \in Names : Base(n) = addr}) = 1
UniqueBlockAddr(addr) == BlockByName(CHOOSE n \in Names : Base(n) = addr)

\* strings.HasPrefix(name, addr)
HasPrefix(name, addr) == Base(name) = addr \/ <<addr, Base(name)>> \in Longer

Succ(name) == fn[BlockOf(fn, name)].succ

Dest_First(ins) ==
    IF StartsOf(ins.to) # {} THEN CHOOSE k \in StartsOf(ins.to) : TRUE ELSE Nowhere

\* The destination of a constant jump: by the successors, or by the address if
\* only one block of the function has it.
Dest(ins) ==
    LET ds == {k \in 1..Len(Succ(ins.name)) : HasPrefix(Succ(ins.name)[k], ins.to)}
    IN  IF Cardinality(ds) = 1
        THEN BlockByName(Succ(ins.name)[CHOOSE k \in ds : TRUE])
        ELSE IF UniqueAddr(ins.to) THEN UniqueBlockAddr(ins.to) ELSE Nowhere

\* UniqueJumpVarSucc: the addresses (not the names) that one successor has.
UniqueSucc(ins) ==
    {a \in {Base(Succ(ins.name)[k]) : k \in 1..Len(Succ(ins.name))} :
        Cardinality({k \in 1..Len(Succ(ins.name)) : Base(Succ(ins.name)[k]) = a}) = 1}

Fill ==
    /\ stage = "fill" /\ stage' = "run" /\ pc' = 1
    /\ insts' = [k \in 1..Len(insts) |->
        IF insts[k].op \notin {"JUMP", "JUMPI"} THEN insts[k]
        ELSE IF insts[k].typ = "const" THEN [insts[k] EXCEPT !.dest = Dest(insts[k])]
        ELSE [insts[k] EXCEPT !.unique = UniqueSucc(insts[k])]]
    /\ UNCHANGED <<src, fn, order, frames, addrs, blk, move>>
-------------------------------------------------------------------------------
Ins == insts[pc]
AtOp(ops) == stage = "run" /\ pc <= Len(insts) /\ Ins.op \in ops

\* BlockByName[name] of the Go map, with 0 for a name it does not have.
MapIndex(name) == IF name \in Names THEN BlockByName(name) ELSE 1

VarDest_NoCompare(ins, v) ==
    IF ins.unique # {} THEN MapIndex([base |-> CHOOSE a \in ins.unique : TRUE, sfx |-> ""])
    ELSE IF UniqueAddr(v) THEN UniqueBlockAddr(v) ELSE Nowhere

\* exec_jump_var, exec_jumpi_var for the value v of the register
VarDest(ins, v) ==
    IF v \in ins.unique THEN MapIndex([base |-> v, sfx |-> ""])
    ELSE IF UniqueAddr(v) THEN UniqueBlockAddr(v) ELSE Nowhere

\* The interpreter goes on at k, errInvalidJump or the end of the code included;
\* by is the address that the jump names.
Go(k, kind, by) ==
    LET ends == k = Nowhere \/ k > Len(insts) IN
    IF ends \/ insts[k].op = "FLAG"
    THEN /\ move' = [from |-> blk, to |-> IF ends THEN NoName ELSE insts[k].name,
                     kind |-> IF k = Nowhere THEN "invalid" ELSE kind, by |-> by]
         /\ stage' = IF ends THEN "done" ELSE stage
         /\ pc' = k + 1 /\ blk' = move'.to
    ELSE pc' = k /\ UNCHANGED <<blk, stage, move>>

Unmoved == UNCHANGED <<src, fn, order, frames, insts, addrs>>

Enter ==
    /\ AtOp({"FLAG"}) /\ blk = NoName
    /\ blk' = Ins.name /\ pc' = pc + 1
    /\ UNCHANGED <<stage, move>> /\ Unmoved

\* The flag was the only instruction of the block.
FallEmpty ==
    /\ stage = "run" /\ blk # NoName
    /\ pc <= Len(insts) => Ins.op = "FLAG"
    /\ Go(pc, "fall", "none") /\ Unmoved

Statement ==
    /\ AtOp({"CONST", "PHI", "OTHER"})
    /\ Go(pc + 1, "fall", "none") /\ Unmoved

Jump ==
    /\ AtOp({"JUMP"}) /\ Ins.typ = "const"
    /\ Go(Ins.dest, IF Ins.aux THEN "patched" ELSE "jump", Ins.to) /\ Unmoved

Jumpi ==
    /\ AtOp({"JUMPI"}) /\ Ins.typ = "const"
    /\ Go(Ins.dest, "jump", Ins.to) \/ Go(pc + 1, "fall", "none")
    /\ Unmoved

\* The register holds the address of a block that may follow.
JumpVar ==
    /\ AtOp({"JUMP", "JUMPI"}) /\ Ins.typ = "var"
    /\ \E k \in 1..Len(Succ(Ins.name)) :
        LET v == Base(Succ(Ins.name)[k]) IN
        (Ins.op = "JUMPI" => k > 1) /\ Go(VarDest(Ins, v), "var", v)
    /\ Unmoved

JumpiVarNot ==
    /\ AtOp({"JUMPI"}) /\ Ins.typ = "var"
    /\ Go(pc + 1, "fall", "none") /\ Unmoved

Halt ==
    /\ AtOp(Halts) /\ stage' = "done"
    /\ move' = [from |-> blk, to |-> NoName, kind |-> Ins.op, by |-> "none"]
    /\ UNCHANGED <<pc, blk>> /\ Unmoved
-------------------------------------------------------------------------------
Init ==
    /\ src \in Functions /\ fn = src /\ stage = "shift"
    /\ order = <<>> /\ frames = <<>> /\ insts = <<>> /\ addrs = {}
    /\ pc = 0 /\ blk = NoName
    /\ move = [from |-> NoName, to |-> NoName, kind |-> "none", by |-> "none"]

Next ==
    \/ Shift \/ AddMissingStop \/ AddMissingJump \/ PanicsEmpty \/ Visit \/ Emit \/ Fill
    \/ Enter \/ Statement \/ FallEmpty \/ Jump \/ Jumpi \/ JumpVar \/ JumpiVarNot \/ Halt

Spec == Init /\ [][Next]_vars
-------------------------------------------------------------------------------
\* The blocks that the entry reaches in the graph.
Reachable ==
    LET step(S) == S \cup {BlockOf(src, n) : n \in UNION {ToSet(src[i].succ) : i \in S}}
        R[n \in 0..Len(src)] == IF n = 0 THEN {1} ELSE step(R[n - 1])
    IN  R[Len(src)]

\* The code has every block that the entry reaches exactly once, in whatever
\* way the edges of the graph lead back (get_visit_order).
TypeOK ==
    /\ stage \in {"shift", "stop", "jump", "visit", "fill", "run", "done"}
    /\ ToSet(order) \subseteq 1..Len(src) /\ IsInjective(order)
    /\ stage = "run" => ToSet(order) = Reachable

From == src[BlockOf(src, move.from)]
Follows(name) == \E k \in 1..Len(From.succ) : From.succ[k] = name
Place(i) == CHOOSE k \in 1..Len(order) : order[k] = i

\* A jump with a constant target goes to the successor of its block at that
\* address, whatever other blocks of the function have the address; the jumps
\* that addMissingJump adds go to the block that was to be fallen through to.
JumpsFollowGraph ==
    /\ move.kind = "jump" => Follows(move.to) /\ Base(move.to) = move.by
    /\ move.kind = "patched" => move.to = From.succ[1]

\* A jump to the address in a register goes to the successor at that address.
VarJumpsFollowGraph ==
    move.kind = "var" => Follows(move.to) /\ Base(move.to) = move.by

\* "This transformer try to fix ... a broken fallthrough semantic": a block that
\* does not jump is left to its first successor, but for the blocks that precede
\* their first successor in the file and come after it in the code, and those
\* with a variable target, which addMissingJump leaves alone.
FallsWhenAhead ==
    move.kind = "fall" =>
        LET i == BlockOf(src, move.from) IN
        \/ move.to = From.succ[1]
        \/ \E k \in 1..Len(From.stmts) : From.stmts[k].typ = "var"
        \/ /\ FollowsInFile(src, i, Base(From.succ[1]))
           /\ Place(BlockOf(src, From.succ[1])) < Place(i)

===============================================================================
