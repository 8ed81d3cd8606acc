-------------------------------- MODULE StateDB --------------------------------
(***************************************************************************)
(* core/state: StateDB, its state objects and its journal, with the        *)
(* record-replay hooks (ResearchPreAlloc, ResearchPostAlloc and            *)
(* ResearchTouched).  A StateDB is a value, a record:                      *)
(*   trie      the accounts at the start of the block (Nil if absent);     *)
(*   obj       stateObjects, a function on the loaded addresses;           *)
(*   destruct  the domain of stateObjectsDestruct;                         *)
(*   journal   the undo entries of the transaction, oldest first;          *)
(*   revs      validRevisions: the journal length at each Snapshot;        *)
(*   pre, post ResearchPreAlloc and ResearchPostAlloc;                     *)
(*   eip158    the block's rules delete empty accounts, as Finalise and    *)
(*             the EVM are told at every use (never changes).              *)
(* The method of a StateDB is an operator from the old record (and its     *)
(* arguments) to the new one.  The same operators serve the StateDB that   *)
(* records a block (Recorder) and the one that replays a substate.         *)
(*                                                                         *)
(* Nonce, balance, code and slot values are small numbers; code is 0 (no   *)
(* code) or 1.  Refunds, logs, the access list and transient storage are   *)
(* left out.                                                               *)
(***************************************************************************)
EXTENDS Integers, Sequences, FiniteSets, SequencesExt, TLC

CONSTANTS
    Addr,       \* addresses
    Key,        \* storage keys, numbers
    Val         \* storage values, numbers, 0 included

ASSUME StateDBAssumption ==
    /\ Key \subseteq Int /\ IsFiniteSet(Key)
    /\ Val \subseteq Nat /\ 0 \in Val

Nil == [nil |-> TRUE]       \* no account; a recorded absence in pre
None == -1                  \* no entry in a storage map of an object
NoSlots == [k \in Key |-> None]

(***************************************************************************)
(* newObject: data from the trie, or an empty account marked as created.   *)
(***************************************************************************)
newObject(acct) ==
    [nonce |-> IF acct = Nil THEN 0 ELSE acct.nonce,
     bal   |-> IF acct = Nil THEN 0 ELSE acct.bal,
     code  |-> IF acct = Nil THEN 0 ELSE acct.code,
     origin |-> NoSlots, pend |-> NoSlots, dirty |-> NoSlots,
     selfDestructed |-> FALSE, deleted |-> FALSE, created |-> acct = Nil,
     touched |-> {}]

EmptyObj(o) == o.nonce = 0 /\ o.bal = 0 /\ o.code = 0

\* The account fields that are saved in a substate.
Account(o, storage) ==
    [nonce |-> o.nonce, bal |-> o.bal, code |-> o.code, storage |-> storage]

\* A StateDB opened on the trie world, in a block with or without EIP-158.
New(world, eip158) ==
    [eip158 |-> eip158, trie |-> world, obj |-> <<>>, destruct |-> {}, journal |-> <<>>,
     revs |-> <<>>, pre |-> <<>>, post |-> <<>>]

\* The map f when x is stored at a, and when the entries of g are.
Put(f, a, x) == [b \in DOMAIN f \cup {a} |-> IF b = a THEN x ELSE f[b]]
PutAll(f, g) == [b \in DOMAIN f \cup DOMAIN g |-> IF b \in DOMAIN g THEN g[b] ELSE f[b]]

setStateObject(db, a, o) == [db EXCEPT !.obj = Put(@, a, o)]
journalAppend(db, e) == [db EXCEPT !.journal = Append(@, e)]

\* getDeletedStateObject loads the object of a from the trie if need be.
getDeletedStateObject(db, a) ==
    IF a \in DOMAIN db.obj \/ db.trie[a] = Nil
    THEN db
    ELSE setStateObject(db, a, newObject(db.trie[a]))

\* The object of a is loaded and not deleted.
Live(db, a) == a \in DOMAIN db.obj /\ ~db.obj[a].deleted

(***************************************************************************)
(* getStateObject: the first access of a transaction to an address records *)
(* the account in pre, or Nil when there is none.                          *)
(***************************************************************************)
recordPre(db, a) ==
    IF a \in DOMAIN db.pre THEN db
    ELSE [db EXCEPT !.pre =
            Put(@, a, IF Live(db, a) THEN Account(db.obj[a], <<>>) ELSE Nil)]
getStateObject(db, a) == recordPre(getDeletedStateObject(db, a), a)

\* createObject overwrites what is there; the old object goes to the journal.
overwrite(db, a) ==
    IF a \notin DOMAIN db.obj
    THEN journalAppend(setStateObject(db, a, newObject(Nil)),
            [kind |-> "create", addr |-> a])
    ELSE journalAppend(
            [setStateObject(db, a, newObject(Nil)) EXCEPT !.destruct = @ \cup {a}],
            [kind |-> "reset", addr |-> a, prev |-> db.obj[a],
             prevdestruct |-> a \in db.destruct])
createObject(db, a) == overwrite(getDeletedStateObject(db, a), a)

createIfAbsent(db, a) == IF Live(db, a) THEN db ELSE createObject(db, a)
getOrNewStateObject(db, a) == createIfAbsent(getStateObject(db, a), a)

\* CreateAccount carries the balance of the old account over.
overwriteKeepBalance(db, a) ==
    IF Live(db, a) THEN [overwrite(db, a) EXCEPT !.obj[a].bal = db.obj[a].bal]
    ELSE overwrite(db, a)
CreateAccount(db, a) == overwriteKeepBalance(getDeletedStateObject(db, a), a)

-------------------------------------------------------------------------------
(***************************************************************************)
(* Storage.  committedState is what GetCommittedState returns; cacheKey    *)
(* its effect on originStorage: a value read from the trie stays cached,   *)
(* also when the account is destructed later.                              *)
(***************************************************************************)
committedState(db, a, k) ==
    LET o == db.obj[a] IN
    IF o.pend[k] # None THEN o.pend[k]
    ELSE IF o.origin[k] # None THEN o.origin[k]
    ELSE IF a \in db.destruct \/ db.trie[a] = Nil THEN 0
    ELSE db.trie[a].storage[k]

currentState(db, a, k) ==
    LET o == db.obj[a] IN
    IF o.dirty[k] # None THEN o.dirty[k] ELSE committedState(db, a, k)

cacheKey(db, a, k) ==
    IF db.obj[a].dirty[k] = None /\ db.obj[a].pend[k] = None /\ a \notin db.destruct
    THEN [db EXCEPT !.obj[a].origin[k] = committedState(db, a, k)]
    ELSE db

\* GetState marks the key as touched.
touchKey_Never(db, a, k) == cacheKey(db, a, k)      \* mutant: no mark
touchKey(db, a, k) ==
    [cacheKey(db, a, k) EXCEPT !.obj[a].touched = @ \cup {k}]

GetState(db, a, k) == touchKey(getStateObject(db, a), a, k)

setSlot(db, a, k, v) ==
    IF currentState(db, a, k) = v THEN db
    ELSE journalAppend([db EXCEPT !.obj[a].dirty[k] = v],
            [kind |-> "storage", addr |-> a, key |-> k,
             prev |-> currentState(db, a, k)])
SetState(db, a, k, v) ==
    setSlot(touchKey(getOrNewStateObject(db, a), a, k), a, k, v)

-------------------------------------------------------------------------------
(***************************************************************************)
(* Account fields.  The set... operators are the methods of the object,    *)
(* which is there: each change is journaled with the old value.            *)
(***************************************************************************)
setNonce(db, a, n) ==
    journalAppend([db EXCEPT !.obj[a].nonce = n],
        [kind |-> "nonce", addr |-> a, prev |-> db.obj[a].nonce])
setCode(db, a, c) ==
    journalAppend([db EXCEPT !.obj[a].code = c],
        [kind |-> "code", addr |-> a, prev |-> db.obj[a].code])
setBalance(db, a, n) ==
    journalAppend([db EXCEPT !.obj[a].bal = n],
        [kind |-> "balance", addr |-> a, prev |-> db.obj[a].bal])
addBalance(db, a, n) ==
    IF n # 0 THEN setBalance(db, a, db.obj[a].bal + n)
    ELSE IF EmptyObj(db.obj[a])
         THEN journalAppend(db, [kind |-> "touch", addr |-> a])
         ELSE db
subBalance(db, a, n) ==
    IF n = 0 THEN db ELSE setBalance(db, a, db.obj[a].bal - n)

SetNonce(db, a, n) == setNonce(getOrNewStateObject(db, a), a, n)
SetCode(db, a, c) == setCode(getOrNewStateObject(db, a), a, c)
SetBalance(db, a, n) == setBalance(getOrNewStateObject(db, a), a, n)
AddBalance(db, a, n) == addBalance(getOrNewStateObject(db, a), a, n)
SubBalance(db, a, n) == subBalance(getOrNewStateObject(db, a), a, n)

markSelfdestructed(db, a) ==
    IF ~Live(db, a) THEN db
    ELSE journalAppend(
            [db EXCEPT !.obj[a].selfDestructed = TRUE, !.obj[a].bal = 0],
            [kind |-> "selfdestruct", addr |-> a,
             prev |-> db.obj[a].selfDestructed, prevbalance |-> db.obj[a].bal])
SelfDestruct(db, a) == markSelfdestructed(getStateObject(db, a), a)

markIfCreated(db, a) ==
    IF Live(db, a) /\ db.obj[a].created THEN SelfDestruct(db, a) ELSE db
Selfdestruct6780(db, a) == markIfCreated(getStateObject(db, a), a)

-------------------------------------------------------------------------------
(***************************************************************************)
(* Snapshots.  RevertToSnapshot undoes the journal entries after the       *)
(* revision, newest first.  Neither pre nor touched are undone.            *)
(***************************************************************************)
Snapshot(db) == [db EXCEPT !.revs = Append(@, Len(db.journal))]

\* The undo function of one journal entry.
undoField(db, e, a) ==
    CASE e.kind = "nonce" -> [db EXCEPT !.obj[a].nonce = e.prev]
      [] e.kind = "code" -> [db EXCEPT !.obj[a].code = e.prev]
      [] e.kind = "balance" -> [db EXCEPT !.obj[a].bal = e.prev]
      [] e.kind = "storage" -> [db EXCEPT !.obj[a].dirty[e.key] = e.prev]
      [] e.kind = "selfdestruct" ->
            [db EXCEPT !.obj[a].selfDestructed = e.prev,
                       !.obj[a].bal = e.prevbalance]
revertEntry(db, e) ==
    CASE e.kind = "create" ->
            [db EXCEPT !.obj = [x \in DOMAIN @ \ {e.addr} |-> @[x]]]
      [] e.kind = "reset" ->
            [setStateObject(db, e.addr, e.prev) EXCEPT
                !.destruct = IF e.prevdestruct THEN @ ELSE @ \ {e.addr}]
      [] e.kind = "touch" -> db
      [] OTHER -> undoField(getStateObject(db, e.addr), e, e.addr)

RevertToSnapshot_Forward(db, id) ==     \* mutant: undoes the oldest entry first
    LET from == db.revs[id]
        undone == SubSeq(db.journal, from + 1, Len(db.journal))
        d == FoldLeft(revertEntry, db, undone)
    IN  [d EXCEPT !.journal = SubSeq(@, 1, from), !.revs = SubSeq(@, 1, id - 1)]

\* The StateDB when the n newest entries are undone.
Undone(db, n) ==
    LET undone[i \in 0..n] ==
            IF i = 0 THEN db
            ELSE revertEntry(undone[i - 1], db.journal[Len(db.journal) - i + 1])
    IN  undone[n]

RevertToSnapshot(db, id) ==
    [Undone(db, Len(db.journal) - db.revs[id]) EXCEPT
        !.journal = SubSeq(@, 1, db.revs[id]), !.revs = SubSeq(@, 1, id - 1)]

\* journal.dirties: an address is dirty while a journal entry names it.
Dirties(db) == {e.addr : e \in Range(db.journal)}

-------------------------------------------------------------------------------
(***************************************************************************)
(* Finalise.  First it completes pre with the values that the touched keys *)
(* had before the transaction and copies pre to post, then it deletes or   *)
(* finalises the dirty objects and writes them to post.  The map iteration *)
(* order of the entries is arbitrary (TLC reads it as descending, so that  *)
(* nothing is sorted by chance).                                           *)
(***************************************************************************)
Entries(keys, value) ==
    LET order == Reverse(SetToSeq(keys))
    IN  [i \in 1..Len(order) |-> <<order[i], value[order[i]]>>]

Recorded(db) == {a \in DOMAIN db.pre : db.pre[a] # Nil}

FinalisedPre(db) ==
    [a \in Recorded(db) |->
        [db.pre[a] EXCEPT !.storage = @ \o
            Entries(db.obj[a].touched, [k \in Key |-> committedState(db, a, k)])]]

Doomed(db, a, deleteEmpty) ==
    db.obj[a].selfDestructed \/ (deleteEmpty /\ EmptyObj(db.obj[a]))

FinalisedPost_Committed(db, deleteEmpty) == \* mutant: old values are written
    PutAll(db.post, FinalisedPre(db))
FinalisedPost(db, deleteEmpty) ==
    LET dirties == Dirties(db) \cap DOMAIN db.obj
        kept == {a \in dirties : ~Doomed(db, a, deleteEmpty)}
        copied == PutAll(db.post, FinalisedPre(db))
        written == [a \in kept |-> Account(db.obj[a],
                Entries(db.obj[a].touched, [k \in Key |-> currentState(db, a, k)]))]
    IN  [a \in (DOMAIN copied \ dirties) \cup kept |->
            IF a \in kept THEN written[a] ELSE copied[a]]

\* stateObject.finalise: dirty slots become pending, touched is cleared.
finalise(o) ==
    [o EXCEPT !.pend = [k \in Key |->
                          IF o.dirty[k] # None THEN o.dirty[k] ELSE o.pend[k]],
              !.dirty = NoSlots, !.touched = {}]

finaliseObject(db, a, deleteEmpty) ==
    IF a \notin Dirties(db) THEN db.obj[a]
    ELSE IF Doomed(db, a, deleteEmpty)
    THEN [db.obj[a] EXCEPT !.deleted = TRUE, !.created = FALSE]
    ELSE [finalise(db.obj[a]) EXCEPT !.created = FALSE]

clearJournal_KeepRevs(db) ==            \* mutant: validRevisions is kept
    [db EXCEPT !.journal = <<>>]
clearJournal(db) == [db EXCEPT !.journal = <<>>, !.revs = <<>>]

Finalise(db, deleteEmpty) ==
    clearJournal([db EXCEPT
        !.pre = FinalisedPre(db),
        !.post = FinalisedPost(db, deleteEmpty),
        !.obj = [a \in DOMAIN @ |-> finaliseObject(db, a, deleteEmpty)],
        !.destruct = @ \cup {a \in Dirties(db) \cap DOMAIN db.obj :
                                Doomed(db, a, deleteEmpty)}])

\* SetTxContext forgets what the previous transaction recorded.
SetTxContext_KeepPre(db) ==             \* mutant: the pre-state is kept
    [db EXCEPT !.post = <<>>]

SetTxContext(db) ==
    [db EXCEPT !.pre = <<>>, !.post = <<>>,
               !.obj = [a \in DOMAIN @ |-> [@[a] EXCEPT !.touched = {}]]]

-------------------------------------------------------------------------------
(***************************************************************************)
(* Substates.  An alloc is a function from addresses to accounts: the      *)
(* sorted list of AllocEntries; the storage of an account is a sequence of *)
(* <<key, value>> entries.                                                 *)
(***************************************************************************)
\* sort.Slice by key: the n-th entry has n - 1 before it.
Lower(s, i) ==
    {j \in 1..Len(s) : s[j][1] < s[i][1] \/ (s[j][1] = s[i][1] /\ j < i)}
SortStorage(s) ==
    [n \in 1..Len(s) |->
        s[CHOOSE i \in 1..Len(s) : Cardinality(Lower(s, i)) = n - 1]]

SaveAlloc(alloc) ==
    [a \in DOMAIN alloc |-> [alloc[a] EXCEPT !.storage = SortStorage(@)]]

\* SaveSubstate sorts in place: the accounts of pre and of the substate are
\* the same pointers.
SaveSubstate(db) == [db EXCEPT !.pre = SaveAlloc(@), !.post = SaveAlloc(@)]

LoadAccount(db, a, acct) ==
    LET d == SetBalance(SetNonce(SetCode(db, a, acct.code), a, acct.nonce),
                        a, acct.bal)
    IN  FoldLeft(LAMBDA acc, e : SetState(acc, a, e[1], e[2]), d, acct.storage)

LoadSubstate(db, alloc) ==
    Finalise(FoldSet(LAMBDA a, acc : LoadAccount(acc, a, alloc[a]),
                     db, DOMAIN alloc), FALSE)

-------------------------------------------------------------------------------
(***************************************************************************)
(* The world a StateDB shows: what its readers see, with all of storage.   *)
(***************************************************************************)
WorldAccount(db, a) ==
    IF a \in DOMAIN db.obj
    THEN IF db.obj[a].deleted THEN Nil
         ELSE Account(db.obj[a], [k \in Key |-> currentState(db, a, k)])
    ELSE db.trie[a]
World(db) == [a \in Addr |-> WorldAccount(db, a)]
===============================================================================
