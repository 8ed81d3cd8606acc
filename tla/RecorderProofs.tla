---------------------------- MODULE RecorderProofs ----------------------------
(***************************************************************************)
(* Theorems about Recorder, for every world, every block and every         *)
(* sequence of accesses: the recorded accounts have their state object,    *)
(* a revert brings back the world of its snapshot, InputAlloc is a part of *)
(* the world before the transaction and the substate is its whole effect.  *)
(*                                                                         *)
(* The state objects carry caches (origin, the order of loading, touched)  *)
(* that no revert undoes.  The argument is about what an object shows:     *)
(* Shape is one address of a StateDB without its caches, undo on shapes is *)
(* exact, and the journal is at all times a chain of shapes that leads     *)
(* from now back to the start of the transaction (TxInv).                  *)
(***************************************************************************)
EXTENDS Recorder, FiniteSetTheorems, SequenceTheorems, WellFoundedInduction, TLAPS

(***************************************************************************)
(* Induction over the natural numbers, from the well-foundedness of <.     *)
(***************************************************************************)
LEMMA Least ==
    ASSUME NEW T, T \subseteq Nat, T # {}
    PROVE  \E x \in T : \A y \in T : x <= y
PROOF
  <1> DEFINE R == OpToRel(<, Nat)
  <1>1. IsWellFoundedOn(R, Nat) BY NatLessThanWellFounded
  <1>2. \E x \in T : \A y \in T : ~(<<y, x>> \in R)
    <2> HIDE DEF R
    <2> QED BY <1>1, WFMin
  <1>3. PICK x \in T : \A y \in T : ~(<<y, x>> \in R) BY <1>2
  <1>4. \A y \in T : y \in Nat /\ x \in Nat OBVIOUS
  <1>5. \A y \in T : y < x => <<y, x>> \in R
    BY <1>4 DEF OpToRel
  <1>6. \A y \in T : ~(y < x) BY <1>3, <1>5
  <1> HIDE DEF R
  <1>7. \A y \in T : x <= y BY <1>4, <1>6
  <1> QED BY <1>7

LEMMA Upward ==
    ASSUME NEW S, 0 \in S, \A n \in Nat : n \in S => n + 1 \in S
    PROVE  \A n \in Nat : n \in S
PROOF
  <1> DEFINE T == {n \in Nat : n \notin S}
  <1> SUFFICES ASSUME T # {} PROVE FALSE OBVIOUS
  <1>1. PICK x \in T : \A y \in T : x <= y
    <2> T \subseteq Nat OBVIOUS
    <2> HIDE DEF T
    <2> QED BY Least
  <1>2. x \in Nat /\ x # 0 OBVIOUS
  <1>3. x - 1 \in Nat /\ x - 1 \notin T BY <1>1, <1>2
  <1>4. (x - 1) + 1 \in S BY <1>3
  <1>5. (x - 1) + 1 = x BY <1>2
  <1> QED BY <1>4, <1>5
-------------------------------------------------------------------------------
(***************************************************************************)
(* Types.                                                                  *)
(***************************************************************************)
Accounts == AccountType \cup {Nil}
Cache == [Key -> Val \cup {None}]
Object ==
    [nonce : 0..1, bal : 0..MaxBal, code : 0..1,
     origin : Cache, pend : Cache, dirty : Cache,
     selfDestructed : BOOLEAN, deleted : BOOLEAN, created : BOOLEAN,
     touched : SUBSET Key]
Saved == [nonce : 0..1, bal : 0..MaxBal, code : 0..1, storage : Seq(Key \X Val)]

Entry ==
    [kind : {"create", "touch"}, addr : Addr]
    \cup [kind : {"reset"}, addr : Addr, prev : Object, prevdestruct : BOOLEAN]
    \cup [kind : {"nonce", "code"}, addr : Addr, prev : 0..1]
    \cup [kind : {"balance"}, addr : Addr, prev : 0..MaxBal]
    \cup [kind : {"storage"}, addr : Addr, key : Key, prev : Val]
    \cup [kind : {"selfdestruct"}, addr : Addr, prev : BOOLEAN, prevbalance : 0..MaxBal]

\* A journal entry, by what its undo writes.
EntryOK(e) ==
    /\ e.addr \in Addr
    /\ \/ e.kind \in {"create", "touch"}
       \/ e.kind = "reset" /\ e.prev \in Object /\ e.prevdestruct \in BOOLEAN
       \/ e.kind \in {"nonce", "code"} /\ e.prev \in 0..1
       \/ e.kind = "balance" /\ e.prev \in 0..MaxBal
       \/ e.kind = "storage" /\ e.key \in Key /\ e.prev \in Val
       \/ e.kind = "selfdestruct" /\ e.prev \in BOOLEAN /\ e.prevbalance \in 0..MaxBal

Fields == {"eip158", "trie", "obj", "destruct", "journal", "revs", "pre", "post"}

DbOK(d) ==
    /\ DOMAIN d = Fields
    /\ d.eip158 \in BOOLEAN
    /\ d.trie \in [Addr -> Accounts]
    /\ DOMAIN d.obj \subseteq Addr /\ \A a \in DOMAIN d.obj : d.obj[a] \in Object
    /\ d.destruct \subseteq DOMAIN d.obj
    /\ DOMAIN d.pre \subseteq Addr
    /\ \A a \in DOMAIN d.pre : d.pre[a] = Nil \/ d.pre[a] \in Saved
    /\ \A a \in DOMAIN d.pre : d.pre[a] # Nil => a \in DOMAIN d.obj
    /\ DOMAIN d.post \subseteq Addr /\ \A a \in DOMAIN d.post : d.post[a] \in Saved

LEMMA EntryFields ==
    ASSUME NEW e \in Entry
    PROVE  EntryOK(e)
BY DEF Entry, EntryOK

LEMMA NilApart ==
    /\ \A x \in AccountType : x # Nil
    /\ \A x \in Saved : x # Nil
    /\ \A o, s : Account(o, s) # Nil
PROOF
  <1>1. DOMAIN Nil = {"nil"} BY DEF Nil
  <1>2. \A x \in AccountType : "nonce" \in DOMAIN x BY DEF AccountType
  <1>3. \A x \in Saved : "nonce" \in DOMAIN x BY DEF Saved
  <1>4. \A o, s : "nonce" \in DOMAIN Account(o, s) BY DEF Account
  <1> QED BY <1>1, <1>2, <1>3, <1>4

LEMMA NoneApart ==
    None \notin Val /\ 0 \in Val /\ Val \subseteq Nat
BY StateDBAssumption DEF None

LEMMA NewObjectOK ==
    ASSUME NEW x \in Accounts
    PROVE  newObject(x) \in Object
PROOF
  <1>1. NoSlots \in Cache BY DEF NoSlots, Cache
  <1>2. x # Nil => x \in AccountType BY DEF Accounts
  <1> QED BY <1>1, <1>2, RecorderAssumption DEF newObject, Object, AccountType
-------------------------------------------------------------------------------
(***************************************************************************)
(* What an object shows: o is the object, gone tells that its address is   *)
(* in stateObjectsDestruct and t is the account in the trie.               *)
(***************************************************************************)
Com(o, gone, t) ==
    [k \in Key |-> IF o.pend[k] # None THEN o.pend[k]
                   ELSE IF o.origin[k] # None THEN o.origin[k]
                   ELSE IF gone \/ t = Nil THEN 0 ELSE t.storage[k]]
Cur(o, gone, t) ==
    [k \in Key |-> IF o.dirty[k] # None THEN o.dirty[k] ELSE Com(o, gone, t)[k]]

Shape ==
    [there : {"yes", "no"}, nonce : 0..1, bal : 0..MaxBal, code : 0..1, dead : BOOLEAN,
     deleted : BOOLEAN, created : BOOLEAN, com : [Key -> Val], cur : [Key -> Val],
     gone : BOOLEAN]

Shown(o, gone, t) ==
    [there |-> "yes", nonce |-> o.nonce, bal |-> o.bal, code |-> o.code,
     dead |-> o.selfDestructed, deleted |-> o.deleted, created |-> o.created,
     com |-> Com(o, gone, t), cur |-> Cur(o, gone, t), gone |-> gone]
Absent(gone) ==
    [there |-> "no", nonce |-> 0, bal |-> 0, code |-> 0, dead |-> FALSE,
     deleted |-> FALSE, created |-> FALSE, com |-> [k \in Key |-> 0],
     cur |-> [k \in Key |-> 0], gone |-> gone]

\* An account that is not loaded shows what loading it would show.
ShapeAt(d, a) ==
    IF a \in DOMAIN d.obj THEN Shown(d.obj[a], a \in d.destruct, d.trie[a])
    ELSE IF d.trie[a] # Nil THEN Shown(newObject(d.trie[a]), a \in d.destruct, d.trie[a])
    ELSE Absent(a \in d.destruct)
TouchedAt(d, a) == IF a \in DOMAIN d.obj THEN d.obj[a].touched ELSE {}

There(g) == g.there = "yes"
Alive(g) == There(g) /\ ~g.deleted
ShowsAccount(g) ==
    IF Alive(g) THEN [nonce |-> g.nonce, bal |-> g.bal, code |-> g.code, storage |-> g.cur]
    ELSE Nil

LEMMA ComCur ==
    ASSUME NEW o \in Object, NEW gone \in BOOLEAN, NEW t \in Accounts
    PROVE  Com(o, gone, t) \in [Key -> Val] /\ Cur(o, gone, t) \in [Key -> Val]
PROOF
  <1>1. t # Nil => t \in AccountType /\ t.storage \in [Key -> Val]
    BY DEF Accounts, AccountType
  <1>2. Com(o, gone, t) \in [Key -> Val]
    BY <1>1, NoneApart DEF Com, Object, Cache
  <1> QED BY <1>2, NoneApart DEF Cur, Object, Cache

LEMMA ShownOK ==
    ASSUME NEW o \in Object, NEW gone \in BOOLEAN, NEW t \in Accounts
    PROVE  Shown(o, gone, t) \in Shape
BY ComCur DEF Shown, Shape, Object

LEMMA AbsentOK ==
    ASSUME NEW gone \in BOOLEAN
    PROVE  Absent(gone) \in Shape
BY NoneApart, RecorderAssumption DEF Absent, Shape

LEMMA ShapeAtOK ==
    ASSUME NEW d, DbOK(d), NEW a \in Addr
    PROVE  ShapeAt(d, a) \in Shape
PROOF
  <1>1. d.trie[a] \in Accounts /\ (a \in d.destruct) \in BOOLEAN BY DEF DbOK
  <1>2. a \in DOMAIN d.obj => d.obj[a] \in Object BY DEF DbOK
  <1>3. newObject(d.trie[a]) \in Object BY <1>1, NewObjectOK
  <1> QED BY <1>1, <1>2, <1>3, ShownOK, AbsentOK DEF ShapeAt

\* The readers of a StateDB see its shapes.
LEMMA SeesShape ==
    ASSUME NEW d, DbOK(d), NEW a \in Addr
    PROVE  /\ WorldAccount(d, a) = ShowsAccount(ShapeAt(d, a))
           /\ a \in DOMAIN d.obj => \A k \in Key :
                /\ currentState(d, a, k) = ShapeAt(d, a).cur[k]
                /\ committedState(d, a, k) = ShapeAt(d, a).com[k]
           /\ Live(d, a) <=> a \in DOMAIN d.obj /\ Alive(ShapeAt(d, a))
PROOF
  <1>1. CASE a \in DOMAIN d.obj
    <2>1. ShapeAt(d, a) = Shown(d.obj[a], a \in d.destruct, d.trie[a])
      BY <1>1 DEF ShapeAt
    <2>2. \A k \in Key : committedState(d, a, k) = ShapeAt(d, a).com[k]
      BY <2>1 DEF committedState, Shown, Com
    <2>3. \A k \in Key : currentState(d, a, k) = ShapeAt(d, a).cur[k]
      BY <2>1, <2>2 DEF currentState, Shown, Cur
    <2>4. ShapeAt(d, a).cur = [k \in Key |-> currentState(d, a, k)]
      <3>1. ShapeAt(d, a).cur = Cur(d.obj[a], a \in d.destruct, d.trie[a])
        BY <2>1 DEF Shown
      <3> QED BY <2>3, <3>1 DEF Cur
    <2>5. Live(d, a) <=> Alive(ShapeAt(d, a))
      BY <1>1, <2>1 DEF Live, Alive, There, Shown
    <2>6. WorldAccount(d, a) = ShowsAccount(ShapeAt(d, a))
      BY <1>1, <2>1, <2>4 DEF WorldAccount, ShowsAccount, Alive, There, Shown, Account
    <2> QED BY <1>1, <2>2, <2>3, <2>5, <2>6
  <1>2. CASE a \notin DOMAIN d.obj /\ d.trie[a] # Nil
    <2>1. a \notin d.destruct /\ d.trie[a] \in AccountType BY <1>2 DEF DbOK, Accounts
    <2> DEFINE t == d.trie[a]
               gone == a \in d.destruct
    <2>2. ShapeAt(d, a) = Shown(newObject(t), gone, t)
      BY <1>2 DEF ShapeAt
    <2>3. ShapeAt(d, a).cur = t.storage
      <3>1. t.storage \in [Key -> Val] BY <2>1 DEF AccountType
      <3>2. \A k \in Key : /\ newObject(t).dirty[k] = None /\ newObject(t).pend[k] = None
                          /\ newObject(t).origin[k] = None
        BY DEF newObject, NoSlots
      <3>3. Com(newObject(t), gone, t) = t.storage
        BY <1>2, <2>1, <3>1, <3>2 DEF Com
      <3>4. Cur(newObject(t), gone, t) = t.storage
        BY <3>1, <3>2, <3>3 DEF Cur
      <3> QED BY <2>2, <3>4 DEF Shown
    <2>4. t = [nonce |-> t.nonce, bal |-> t.bal, code |-> t.code, storage |-> t.storage]
      BY <2>1 DEF AccountType
    <2>5. /\ ShapeAt(d, a).nonce = t.nonce /\ ShapeAt(d, a).bal = t.bal
          /\ ShapeAt(d, a).code = t.code /\ Alive(ShapeAt(d, a))
      BY <1>2, <2>2 DEF Shown, newObject, Alive, There
    <2>6. WorldAccount(d, a) = t BY <1>2 DEF WorldAccount
    <2>7. ShowsAccount(ShapeAt(d, a)) = t
      <3> HIDE DEF t
      <3> QED BY <2>3, <2>4, <2>5 DEF ShowsAccount
    <2> QED BY <1>2, <2>6, <2>7 DEF Live
  <1>3. CASE a \notin DOMAIN d.obj /\ d.trie[a] = Nil
    BY <1>3 DEF WorldAccount, ShowsAccount, ShapeAt, Absent, Alive, There, Live
  <1> QED BY <1>1, <1>2, <1>3
-------------------------------------------------------------------------------
(***************************************************************************)
(* Changes of one address.                                                 *)
(***************************************************************************)
SameRest(d, e) ==
    /\ DOMAIN e = Fields /\ e.eip158 = d.eip158 /\ e.trie = d.trie
    /\ e.revs = d.revs /\ e.pre = d.pre /\ e.post = d.post
OnlyAt(d, e, a) ==
    /\ SameRest(d, e)
    /\ \A b : b # a => (b \in DOMAIN e.obj <=> b \in DOMAIN d.obj)
    /\ \A b \in DOMAIN d.obj : b # a => e.obj[b] = d.obj[b]
    /\ \A b : b # a => (b \in e.destruct <=> b \in d.destruct)

LEMMA Elsewhere ==
    ASSUME NEW d, NEW e, NEW a, OnlyAt(d, e, a), NEW b, b # a
    PROVE  ShapeAt(e, b) = ShapeAt(d, b) /\ TouchedAt(e, b) = TouchedAt(d, b)
PROOF
  <1>1. (b \in DOMAIN e.obj <=> b \in DOMAIN d.obj) /\ (b \in e.destruct <=> b \in d.destruct)
    BY DEF OnlyAt
  <1>2. e.trie = d.trie /\ (b \in DOMAIN d.obj => e.obj[b] = d.obj[b])
    BY DEF OnlyAt, SameRest
  <1>3. (b \in e.destruct) = (b \in d.destruct) BY <1>1
  <1>4. TouchedAt(e, b) = TouchedAt(d, b) BY <1>1, <1>2 DEF TouchedAt
  <1>5. ShapeAt(e, b) = ShapeAt(d, b) BY <1>1, <1>2, <1>3 DEF ShapeAt
  <1> QED BY <1>4, <1>5

LEMMA OnlyAtOK ==
    ASSUME NEW d, DbOK(d), NEW e, NEW a \in Addr, OnlyAt(d, e, a),
           a \in DOMAIN e.obj => e.obj[a] \in Object,
           a \in e.destruct => a \in DOMAIN e.obj,
           a \in DOMAIN d.pre /\ d.pre[a] # Nil => a \in DOMAIN e.obj
    PROVE  DbOK(e)
PROOF
  <1>1. DOMAIN e.obj \subseteq Addr /\ \A b \in DOMAIN e.obj : e.obj[b] \in Object
    BY DEF OnlyAt, DbOK
  <1>2. e.destruct \subseteq DOMAIN e.obj BY DEF OnlyAt, DbOK
  <1>3. \A b \in DOMAIN e.pre : e.pre[b] # Nil => b \in DOMAIN e.obj
    BY DEF OnlyAt, DbOK, SameRest
  <1> QED BY <1>1, <1>2, <1>3 DEF OnlyAt, SameRest, DbOK

\* The object of a is replaced by another one, or written for the first time.
LEMMA PutObject ==
    ASSUME NEW d, DbOK(d), NEW a \in Addr, NEW o \in Object,
           NEW e, SameRest(d, e), e.destruct = d.destruct,
           DOMAIN e.obj = DOMAIN d.obj \cup {a},
           e.obj[a] = o, \A b \in DOMAIN d.obj : b # a => e.obj[b] = d.obj[b]
    PROVE  /\ OnlyAt(d, e, a) /\ DbOK(e)
           /\ ShapeAt(e, a) = Shown(o, a \in d.destruct, d.trie[a])
           /\ TouchedAt(e, a) = o.touched
PROOF
  <1>1. OnlyAt(d, e, a) BY DEF OnlyAt
  <1>2. DbOK(e)
    <2>1. a \in e.destruct => a \in DOMAIN e.obj BY DEF DbOK
    <2> QED BY <1>1, <2>1, OnlyAtOK
  <1>3. a \in DOMAIN e.obj /\ e.trie = d.trie BY DEF SameRest
  <1> QED BY <1>1, <1>2, <1>3 DEF ShapeAt, TouchedAt

LEMMA ExceptObject ==
    ASSUME NEW d, DbOK(d), NEW a \in DOMAIN d.obj, NEW o
    PROVE  LET e == [d EXCEPT !.obj[a] = o] IN
           /\ SameRest(d, e) /\ e.destruct = d.destruct /\ e.journal = d.journal
           /\ DOMAIN e.obj = DOMAIN d.obj \cup {a} /\ e.obj[a] = o
           /\ \A b \in DOMAIN d.obj : b # a => e.obj[b] = d.obj[b]
BY DEF DbOK, SameRest, Fields

LEMMA ExceptShape ==
    ASSUME NEW d, DbOK(d), NEW a \in DOMAIN d.obj, NEW o \in Object
    PROVE  LET e == [d EXCEPT !.obj[a] = o] IN
           /\ OnlyAt(d, e, a) /\ DbOK(e) /\ e.journal = d.journal /\ a \in DOMAIN e.obj
           /\ ShapeAt(e, a) = Shown(o, a \in d.destruct, d.trie[a])
           /\ TouchedAt(e, a) = o.touched
PROOF
  <1> DEFINE e == [d EXCEPT !.obj[a] = o]
  <1>1. /\ SameRest(d, e) /\ e.destruct = d.destruct /\ e.journal = d.journal
        /\ DOMAIN e.obj = DOMAIN d.obj \cup {a} /\ e.obj[a] = o
        /\ \A b \in DOMAIN d.obj : b # a => e.obj[b] = d.obj[b]
    BY ExceptObject
  <1>2. a \in Addr BY DEF DbOK
  <1> HIDE DEF e
  <1>3. /\ OnlyAt(d, e, a) /\ DbOK(e)
        /\ ShapeAt(e, a) = Shown(o, a \in d.destruct, d.trie[a])
        /\ TouchedAt(e, a) = o.touched
    BY <1>1, <1>2, PutObject
  <1> QED BY <1>1, <1>3 DEF e

LEMMA SetObject ==
    ASSUME NEW d, DbOK(d), NEW a, NEW o
    PROVE  LET e == setStateObject(d, a, o) IN
           /\ SameRest(d, e) /\ e.destruct = d.destruct /\ e.journal = d.journal
           /\ DOMAIN e.obj = DOMAIN d.obj \cup {a} /\ e.obj[a] = o
           /\ \A b \in DOMAIN d.obj : b # a => e.obj[b] = d.obj[b]
PROOF
  <1> DEFINE f == Put(d.obj, a, o)
             e == [d EXCEPT !.obj = f]
  <1>1. DOMAIN f = DOMAIN d.obj \cup {a} /\ f[a] = o /\ \A b \in DOMAIN d.obj : b # a => f[b] = d.obj[b]
    BY DEF Put
  <1>2. setStateObject(d, a, o) = e BY DEF setStateObject
  <1> HIDE DEF f
  <1>3. /\ SameRest(d, e) /\ e.destruct = d.destruct /\ e.journal = d.journal /\ e.obj = f
    BY DEF DbOK, SameRest, Fields
  <1> QED BY <1>1, <1>2, <1>3

\* Loading an object changes no shape.
LEMMA LoadObject ==
    ASSUME NEW d, DbOK(d), NEW a \in Addr
    PROVE  LET e == getDeletedStateObject(d, a) IN
           /\ DbOK(e) /\ SameRest(d, e) /\ e.journal = d.journal /\ e.destruct = d.destruct
           /\ \A b \in Addr : ShapeAt(e, b) = ShapeAt(d, b) /\ TouchedAt(e, b) = TouchedAt(d, b)
           /\ a \in DOMAIN e.obj <=> There(ShapeAt(d, a))
           /\ a \notin DOMAIN e.obj => d.trie[a] = Nil
           /\ DOMAIN d.obj \subseteq DOMAIN e.obj
PROOF
  <1> DEFINE e == getDeletedStateObject(d, a)
  <1>1. CASE a \in DOMAIN d.obj
    BY <1>1 DEF getDeletedStateObject, ShapeAt, Shown, There, DbOK, SameRest
  <1>2. CASE a \notin DOMAIN d.obj /\ d.trie[a] = Nil
    BY <1>2 DEF getDeletedStateObject, ShapeAt, Absent, There, DbOK, SameRest
  <1>3. CASE a \notin DOMAIN d.obj /\ d.trie[a] # Nil
    <2> DEFINE o == newObject(d.trie[a])
    <2>1. e = setStateObject(d, a, o) BY <1>3 DEF getDeletedStateObject
    <2>2. d.trie[a] \in Accounts /\ o \in Object BY NewObjectOK DEF DbOK
    <2>3. o.touched = {} BY DEF newObject
    <2> HIDE DEF o, e
    <2>4. /\ SameRest(d, e) /\ e.destruct = d.destruct /\ e.journal = d.journal
          /\ DOMAIN e.obj = DOMAIN d.obj \cup {a} /\ e.obj[a] = o
          /\ \A b \in DOMAIN d.obj : b # a => e.obj[b] = d.obj[b]
      BY <2>1, SetObject
    <2>5. /\ OnlyAt(d, e, a) /\ DbOK(e)
          /\ ShapeAt(e, a) = Shown(o, a \in d.destruct, d.trie[a])
          /\ TouchedAt(e, a) = o.touched
      BY <2>2, <2>4, PutObject
    <2>6. ShapeAt(d, a) = Shown(o, a \in d.destruct, d.trie[a]) /\ TouchedAt(d, a) = {}
      BY <1>3 DEF ShapeAt, TouchedAt, o
    <2>7. There(ShapeAt(d, a)) BY <2>6 DEF Shown, There
    <2>8. \A b \in Addr : ShapeAt(e, b) = ShapeAt(d, b) /\ TouchedAt(e, b) = TouchedAt(d, b)
      BY <2>3, <2>5, <2>6, Elsewhere
    <2> QED BY <2>4, <2>5, <2>7, <2>8 DEF e
  <1> QED BY <1>1, <1>2, <1>3
-------------------------------------------------------------------------------
(***************************************************************************)
(* Undo on shapes.                                                         *)
(***************************************************************************)
With(g, nonce, bal, code, dead, cur) ==
    [there |-> g.there, nonce |-> nonce, bal |-> bal, code |-> code, dead |-> dead,
     deleted |-> g.deleted, created |-> g.created, com |-> g.com, cur |-> cur,
     gone |-> g.gone]
PutSlot(cur, k, v) == [l \in Key |-> IF l = k THEN v ELSE cur[l]]

UndoShape(g, e, a, t) ==
    IF e.addr # a \/ e.kind = "touch" THEN g
    ELSE CASE e.kind = "create" -> Absent(g.gone)
           [] e.kind = "reset" -> Shown(e.prev, e.prevdestruct /\ g.gone, t)
           [] e.kind = "nonce" -> With(g, e.prev, g.bal, g.code, g.dead, g.cur)
           [] e.kind = "code" -> With(g, g.nonce, g.bal, e.prev, g.dead, g.cur)
           [] e.kind = "balance" -> With(g, g.nonce, e.prev, g.code, g.dead, g.cur)
           [] e.kind = "storage" ->
                With(g, g.nonce, g.bal, g.code, g.dead, PutSlot(g.cur, e.key, e.prev))
           [] e.kind = "selfdestruct" ->
                With(g, g.nonce, e.prevbalance, g.code, e.prev, g.cur)
UndoTouched(T, e, a) ==
    IF e.addr # a THEN T
    ELSE CASE e.kind = "create" -> {}
           [] e.kind = "reset" -> e.prev.touched
           [] OTHER -> T

\* The object an undo writes to is there.
OnObject(e) == e.kind \in {"nonce", "code", "balance", "storage", "selfdestruct"}

SameSlots(o, p) == p.pend = o.pend /\ p.origin = o.origin /\ p.dirty = o.dirty

LEMMA SlotsShown ==
    ASSUME NEW o, NEW p, SameSlots(o, p), NEW gone, NEW t
    PROVE  Com(p, gone, t) = Com(o, gone, t) /\ Cur(p, gone, t) = Cur(o, gone, t)
PROOF
  <1>1. Com(p, gone, t) = Com(o, gone, t) BY DEF Com, SameSlots
  <1> QED BY <1>1 DEF Cur, SameSlots

\* What a change of the fields of an object changes in its shape.
LEMMA FieldsShape ==
    ASSUME NEW o, NEW p, SameSlots(o, p), p.deleted = o.deleted, p.created = o.created,
           NEW gone, NEW t
    PROVE  LET g == Shown(o, gone, t) IN
           Shown(p, gone, t) = With(g, p.nonce, p.bal, p.code, p.selfDestructed, g.cur)
PROOF
  <1>1. Com(p, gone, t) = Com(o, gone, t) /\ Cur(p, gone, t) = Cur(o, gone, t)
    BY SlotsShown
  <1> QED BY <1>1 DEF Shown, With

LEMMA SlotShape ==
    ASSUME NEW o, NEW p, p.deleted = o.deleted, p.created = o.created,
           p.nonce = o.nonce, p.bal = o.bal, p.code = o.code,
           p.selfDestructed = o.selfDestructed, p.pend = o.pend, p.origin = o.origin,
           NEW k, NEW v \in Val, \A l \in Key : p.dirty[l] = IF l = k THEN v ELSE o.dirty[l],
           NEW gone, NEW t
    PROVE  LET g == Shown(o, gone, t) IN
           Shown(p, gone, t) = With(g, g.nonce, g.bal, g.code, g.dead, PutSlot(g.cur, k, v))
PROOF
  <1>1. v # None BY NoneApart
  <1>2. Com(p, gone, t) = Com(o, gone, t) BY DEF Com
  <1>3. Cur(p, gone, t) = PutSlot(Cur(o, gone, t), k, v)
    BY <1>1, <1>2 DEF Cur, PutSlot
  <1> QED BY <1>2, <1>3 DEF Shown, With

\* The undo functions that write to a field.
LEMMA FieldUndone ==
    ASSUME NEW d, DbOK(d), NEW e, EntryOK(e), OnObject(e), e.addr \in DOMAIN d.obj
    PROVE  LET a == e.addr
               f == undoField(d, e, a)
           IN  /\ OnlyAt(d, f, a) /\ DbOK(f) /\ f.journal = d.journal
               /\ ShapeAt(f, a) = UndoShape(ShapeAt(d, a), e, a, d.trie[a])
               /\ TouchedAt(f, a) = TouchedAt(d, a)
PROOF
  <1> DEFINE a == e.addr
             o == d.obj[a]
             f == undoField(d, e, a)
             gone == a \in d.destruct
             t == d.trie[a]
             g == Shown(o, gone, t)
  <1>1. o \in Object /\ a \in Addr /\ gone \in BOOLEAN /\ t \in Accounts
    BY DEF DbOK, EntryOK
  <1>2. ShapeAt(d, a) = Shown(o, gone, t) /\ TouchedAt(d, a) = o.touched
    BY DEF ShapeAt, TouchedAt
  <1>3. \E p \in Object : /\ f = [d EXCEPT !.obj[a] = p] /\ p.touched = o.touched
                         /\ Shown(p, gone, t) = UndoShape(g, e, a, t)
    <2>1. CASE e.kind = "nonce"
      <3> DEFINE p == [o EXCEPT !.nonce = e.prev]
      <3>1. e.prev \in 0..1 BY <2>1 DEF EntryOK
      <3>2. p \in Object /\ p.touched = o.touched BY <1>1, <3>1 DEF Object, Cache
      <3>3. /\ SameSlots(o, p) /\ p.deleted = o.deleted /\ p.created = o.created
            /\ p.nonce = e.prev /\ p.bal = o.bal /\ p.code = o.code /\ p.selfDestructed = o.selfDestructed
        BY <1>1 DEF Object, SameSlots
      <3>4. f = [d EXCEPT !.obj[a] = p] BY <2>1 DEF undoField
      <3> HIDE DEF p, o, t, gone
      <3>5. Shown(p, gone, t)
              = With(g, p.nonce, p.bal, p.code, p.selfDestructed, g.cur)
        BY <3>3, FieldsShape DEF g
      <3>6. UndoShape(g, e, a, t) = With(g, e.prev, g.bal, g.code, g.dead, g.cur)
        BY <2>1 DEF UndoShape
      <3> QED BY <3>2, <3>3, <3>4, <3>5, <3>6 DEF g, Shown
    <2>2. CASE e.kind = "code"
      <3> DEFINE p == [o EXCEPT !.code = e.prev]
      <3>1. e.prev \in 0..1 BY <2>2 DEF EntryOK
      <3>2. p \in Object /\ p.touched = o.touched BY <1>1, <3>1 DEF Object, Cache
      <3>3. /\ SameSlots(o, p) /\ p.deleted = o.deleted /\ p.created = o.created
            /\ p.code = e.prev /\ p.bal = o.bal /\ p.nonce = o.nonce /\ p.selfDestructed = o.selfDestructed
        BY <1>1 DEF Object, SameSlots
      <3>4. f = [d EXCEPT !.obj[a] = p] BY <2>2 DEF undoField
      <3> HIDE DEF p, o, t, gone
      <3>5. Shown(p, gone, t)
              = With(g, p.nonce, p.bal, p.code, p.selfDestructed, g.cur)
        BY <3>3, FieldsShape DEF g
      <3>6. UndoShape(g, e, a, t) = With(g, g.nonce, g.bal, e.prev, g.dead, g.cur)
        BY <2>2 DEF UndoShape
      <3> QED BY <3>2, <3>3, <3>4, <3>5, <3>6 DEF g, Shown
    <2>3. CASE e.kind = "balance"
      <3> DEFINE p == [o EXCEPT !.bal = e.prev]
      <3>1. e.prev \in 0..MaxBal BY <2>3 DEF EntryOK
      <3>2. p \in Object /\ p.touched = o.touched BY <1>1, <3>1 DEF Object, Cache
      <3>3. /\ SameSlots(o, p) /\ p.deleted = o.deleted /\ p.created = o.created
            /\ p.bal = e.prev /\ p.code = o.code /\ p.nonce = o.nonce /\ p.selfDestructed = o.selfDestructed
        BY <1>1 DEF Object, SameSlots
      <3>4. f = [d EXCEPT !.obj[a] = p] BY <2>3 DEF undoField
      <3> HIDE DEF p, o, t, gone
      <3>5. Shown(p, gone, t)
              = With(g, p.nonce, p.bal, p.code, p.selfDestructed, g.cur)
        BY <3>3, FieldsShape DEF g
      <3>6. UndoShape(g, e, a, t) = With(g, g.nonce, e.prev, g.code, g.dead, g.cur)
        BY <2>3 DEF UndoShape
      <3> QED BY <3>2, <3>3, <3>4, <3>5, <3>6 DEF g, Shown
    <2>4. CASE e.kind = "storage"
      <3> DEFINE p == [o EXCEPT !.dirty[e.key] = e.prev]
      <3>1. e.key \in Key /\ e.prev \in Val BY <2>4 DEF EntryOK
      <3>2. p \in Object /\ p.touched = o.touched BY <1>1, <3>1 DEF Object, Cache
      <3>3. /\ p.deleted = o.deleted /\ p.created = o.created /\ p.nonce = o.nonce
            /\ p.bal = o.bal /\ p.code = o.code /\ p.selfDestructed = o.selfDestructed
            /\ p.pend = o.pend /\ p.origin = o.origin
            /\ \A l \in Key : p.dirty[l] = IF l = e.key THEN e.prev ELSE o.dirty[l]
        BY <1>1, <3>1 DEF Object, Cache
      <3>4. f = [d EXCEPT !.obj[a] = p] BY <2>4 DEF undoField
      <3> HIDE DEF p, o, t, gone
      <3>5. Shown(p, gone, t)
              = With(g, g.nonce, g.bal, g.code, g.dead, PutSlot(g.cur, e.key, e.prev))
        BY <3>1, <3>3, SlotShape DEF g
      <3>6. UndoShape(g, e, a, t)
              = With(g, g.nonce, g.bal, g.code, g.dead, PutSlot(g.cur, e.key, e.prev))
        BY <2>4 DEF UndoShape
      <3> QED BY <3>2, <3>4, <3>5, <3>6
    <2>5. CASE e.kind = "selfdestruct"
      <3> DEFINE p == [o EXCEPT !.selfDestructed = e.prev, !.bal = e.prevbalance]
      <3>1. e.prev \in BOOLEAN /\ e.prevbalance \in 0..MaxBal BY <2>5 DEF EntryOK
      <3>2. p \in Object /\ p.touched = o.touched BY <1>1, <3>1 DEF Object, Cache
      <3>3. /\ SameSlots(o, p) /\ p.deleted = o.deleted /\ p.created = o.created
            /\ p.bal = e.prevbalance /\ p.selfDestructed = e.prev /\ p.code = o.code /\ p.nonce = o.nonce
        BY <1>1 DEF Object, SameSlots
      <3>4. f = [d EXCEPT !.obj[a] = p] BY <2>5 DEF undoField
      <3> HIDE DEF p, o, t, gone
      <3>5. Shown(p, gone, t)
              = With(g, p.nonce, p.bal, p.code, p.selfDestructed, g.cur)
        BY <3>3, FieldsShape DEF g
      <3>6. UndoShape(g, e, a, t) = With(g, g.nonce, e.prevbalance, g.code, e.prev, g.cur)
        BY <2>5 DEF UndoShape
      <3> QED BY <3>2, <3>3, <3>4, <3>5, <3>6 DEF g, Shown
    <2> QED BY <2>1, <2>2, <2>3, <2>4, <2>5 DEF OnObject
  <1>4. PICK p \in Object : /\ f = [d EXCEPT !.obj[a] = p] /\ p.touched = o.touched
                            /\ Shown(p, gone, t) = UndoShape(g, e, a, t)
    BY <1>3
  <1> HIDE DEF o, f, t, gone, g
  <1>5. /\ SameRest(d, f) /\ f.destruct = d.destruct /\ f.journal = d.journal
        /\ DOMAIN f.obj = DOMAIN d.obj \cup {a} /\ f.obj[a] = p
        /\ \A b \in DOMAIN d.obj : b # a => f.obj[b] = d.obj[b]
    BY <1>4, ExceptObject
  <1>6. /\ OnlyAt(d, f, a) /\ DbOK(f)
        /\ ShapeAt(f, a) = Shown(p, gone, t) /\ TouchedAt(f, a) = p.touched
    BY <1>1, <1>5, PutObject DEF gone, t
  <1> QED BY <1>2, <1>4, <1>5, <1>6 DEF f, o, t, g, gone

(***************************************************************************)
(* revertEntry undoes exactly: on the shape of the entry's address it is   *)
(* UndoShape, and nothing else changes.                                    *)
(***************************************************************************)
Undoes(d, f, e) ==
    /\ DbOK(f) /\ SameRest(d, f) /\ f.journal = d.journal
    /\ \A a \in DOMAIN d.obj : d.trie[a] # Nil => a \in DOMAIN f.obj
    /\ \A a \in Addr : /\ ShapeAt(f, a) = UndoShape(ShapeAt(d, a), e, a, d.trie[a])
                       /\ TouchedAt(f, a) = UndoTouched(TouchedAt(d, a), e, a)

\* The object that an undo needs is there, and a creation is undone only where
\* nothing is in the trie or in pre.
CanUndo(d, e) ==
    /\ e.addr \in DOMAIN d.pre
    /\ OnObject(e) => There(ShapeAt(d, e.addr))
    /\ e.kind = "create" => /\ d.trie[e.addr] = Nil /\ e.addr \notin d.destruct
                            /\ d.pre[e.addr] = Nil

LEMMA RevertCreate ==
    ASSUME NEW d, DbOK(d), NEW e, EntryOK(e), CanUndo(d, e), e.kind = "create"
    PROVE  Undoes(d, revertEntry(d, e), e)
PROOF
  <1> DEFINE a == e.addr
             m == [x \in DOMAIN d.obj \ {a} |-> d.obj[x]]
             f == [d EXCEPT !.obj = m]
  <1>1. revertEntry(d, e) = f BY DEF revertEntry
  <1>2. /\ DOMAIN f = Fields /\ f.obj = m /\ f.eip158 = d.eip158 /\ f.trie = d.trie
        /\ f.revs = d.revs /\ f.pre = d.pre /\ f.post = d.post
        /\ f.destruct = d.destruct /\ f.journal = d.journal
    BY DEF DbOK, Fields
  <1>3. a \in Addr /\ d.trie[a] = Nil /\ a \notin d.destruct /\ d.pre[a] = Nil
    BY DEF EntryOK, CanUndo
  <1> HIDE DEF f
  <1>4. OnlyAt(d, f, a) BY <1>2 DEF OnlyAt, SameRest
  <1>5. DbOK(f) BY <1>2, <1>3, <1>4, OnlyAtOK
  <1>6. a \notin DOMAIN f.obj BY <1>2
  <1>7. /\ ShapeAt(f, a) = Absent(a \in d.destruct) /\ TouchedAt(f, a) = {}
    BY <1>2, <1>3, <1>6 DEF ShapeAt, TouchedAt
  <1>8. UndoShape(ShapeAt(d, a), e, a, d.trie[a]) = Absent(a \in d.destruct)
    <2>1. ShapeAt(d, a).gone = (a \in d.destruct)
      BY <1>3 DEF ShapeAt, Shown, Absent
    <2> QED BY <2>1 DEF UndoShape
  <1>9. UndoTouched(TouchedAt(d, a), e, a) = {} BY DEF UndoTouched
  <1>10. ASSUME NEW b \in Addr
         PROVE  /\ ShapeAt(f, b) = UndoShape(ShapeAt(d, b), e, b, d.trie[b])
                /\ TouchedAt(f, b) = UndoTouched(TouchedAt(d, b), e, b)
    <2>1. CASE b = a BY <2>1, <1>7, <1>8, <1>9
    <2>2. CASE b # a BY <2>2, <1>4, Elsewhere DEF UndoShape, UndoTouched
    <2> QED BY <2>1, <2>2
  <1>11. SameRest(d, f) BY <1>4 DEF OnlyAt
  <1>12. \A b \in DOMAIN d.obj : d.trie[b] # Nil => b \in DOMAIN f.obj BY <1>2, <1>3
  <1> QED BY <1>1, <1>2, <1>5, <1>10, <1>11, <1>12 DEF Undoes

LEMMA RevertReset ==
    ASSUME NEW d, DbOK(d), NEW e, EntryOK(e), e.kind = "reset"
    PROVE  Undoes(d, revertEntry(d, e), e)
PROOF
  <1> DEFINE a == e.addr
             c == setStateObject(d, a, e.prev)
             D == IF e.prevdestruct THEN d.destruct ELSE d.destruct \ {a}
             f == [c EXCEPT !.destruct = D]
  <1>1. /\ SameRest(d, c) /\ c.destruct = d.destruct /\ c.journal = d.journal
        /\ DOMAIN c.obj = DOMAIN d.obj \cup {a} /\ c.obj[a] = e.prev
        /\ \A b \in DOMAIN d.obj : b # a => c.obj[b] = d.obj[b]
    BY SetObject
  <1>2. revertEntry(d, e) = f
    <2> HIDE DEF c
    <2> QED BY <1>1 DEF revertEntry, c
  <1>3. a \in Addr /\ e.prev \in Object /\ e.prevdestruct \in BOOLEAN BY DEF EntryOK
  <1> HIDE DEF c
  <1>4. /\ SameRest(d, f) /\ f.destruct = D /\ f.journal = d.journal /\ f.obj = c.obj
    BY <1>1 DEF SameRest, Fields
  <1> HIDE DEF f
  <1>5. OnlyAt(d, f, a) BY <1>1, <1>4 DEF OnlyAt
  <1>6. DbOK(f)
    <2>1. a \in DOMAIN f.obj /\ f.obj[a] \in Object BY <1>1, <1>3, <1>4
    <2> QED BY <1>3, <1>5, <2>1, OnlyAtOK
  <1>7. ShapeAt(d, a).gone = (a \in d.destruct)
    BY DEF ShapeAt, Shown, Absent
  <1>8. (a \in f.destruct) = (e.prevdestruct /\ ShapeAt(d, a).gone)
    <2>1. (a \in f.destruct) <=> (e.prevdestruct /\ a \in d.destruct) BY <1>3, <1>4
    <2>2. ShapeAt(d, a).gone <=> a \in d.destruct BY <1>7
    <2> QED BY <2>1, <2>2
  <1>9. ShapeAt(f, a) = Shown(e.prev, a \in f.destruct, d.trie[a]) /\ TouchedAt(f, a) = e.prev.touched
    BY <1>1, <1>4 DEF ShapeAt, TouchedAt, SameRest
  <1>10. UndoShape(ShapeAt(d, a), e, a, d.trie[a])
            = Shown(e.prev, e.prevdestruct /\ ShapeAt(d, a).gone, d.trie[a])
    BY DEF UndoShape
  <1>11. UndoTouched(TouchedAt(d, a), e, a) = e.prev.touched BY DEF UndoTouched
  <1>12. ASSUME NEW b \in Addr
         PROVE  /\ ShapeAt(f, b) = UndoShape(ShapeAt(d, b), e, b, d.trie[b])
                /\ TouchedAt(f, b) = UndoTouched(TouchedAt(d, b), e, b)
    <2>1. CASE b = a BY <2>1, <1>8, <1>9, <1>10, <1>11
    <2>2. CASE b # a BY <2>2, <1>5, Elsewhere DEF UndoShape, UndoTouched
    <2> QED BY <2>1, <2>2
  <1>13. \A b \in DOMAIN d.obj : d.trie[b] # Nil => b \in DOMAIN f.obj BY <1>1, <1>4
  <1> QED BY <1>2, <1>4, <1>6, <1>12, <1>13 DEF Undoes

LEMMA RevertField ==
    ASSUME NEW d, DbOK(d), NEW e, EntryOK(e), CanUndo(d, e), OnObject(e)
    PROVE  Undoes(d, revertEntry(d, e), e)
PROOF
  <1> DEFINE a == e.addr
             c == getDeletedStateObject(d, a)
             f == undoField(c, e, a)
  <1>1. a \in Addr BY DEF EntryOK
  <1>2. /\ DbOK(c) /\ SameRest(d, c) /\ c.journal = d.journal /\ c.destruct = d.destruct
        /\ \A b \in Addr : ShapeAt(c, b) = ShapeAt(d, b) /\ TouchedAt(c, b) = TouchedAt(d, b)
        /\ a \in DOMAIN c.obj /\ DOMAIN d.obj \subseteq DOMAIN c.obj
    BY <1>1, LoadObject DEF CanUndo
  <1>3. revertEntry(d, e) = f
    <2>1. getStateObject(d, a) = c
      BY <1>2 DEF getStateObject, recordPre, CanUndo, SameRest
    <2> QED BY <2>1 DEF revertEntry, OnObject
  <1> HIDE DEF c, f
  <1>4. /\ OnlyAt(c, f, a) /\ DbOK(f) /\ f.journal = c.journal
        /\ ShapeAt(f, a) = UndoShape(ShapeAt(c, a), e, a, c.trie[a])
        /\ TouchedAt(f, a) = TouchedAt(c, a)
    BY <1>2, FieldUndone DEF f
  <1>5. c.trie = d.trie /\ SameRest(d, f) BY <1>2, <1>4 DEF OnlyAt, SameRest
  <1>6. ASSUME NEW b \in Addr
        PROVE  /\ ShapeAt(f, b) = UndoShape(ShapeAt(d, b), e, b, d.trie[b])
               /\ TouchedAt(f, b) = UndoTouched(TouchedAt(d, b), e, b)
    <2>1. CASE b = a
      BY <2>1, <1>1, <1>2, <1>4, <1>5 DEF UndoTouched, OnObject
    <2>2. CASE b # a BY <2>2, <1>2, <1>4, Elsewhere DEF UndoShape, UndoTouched
    <2> QED BY <2>1, <2>2
  <1>7. DOMAIN d.obj \subseteq DOMAIN f.obj
    <2>1. a \in DOMAIN f.obj
      BY <1>2, <1>4 DEF f, undoField, OnObject, DbOK, Fields
    <2> QED BY <1>2, <1>4, <2>1 DEF OnlyAt
  <1> QED BY <1>2, <1>3, <1>4, <1>5, <1>6, <1>7 DEF Undoes

LEMMA RevertOne ==
    ASSUME NEW d, DbOK(d), NEW e, EntryOK(e), CanUndo(d, e)
    PROVE  Undoes(d, revertEntry(d, e), e)
PROOF
  <1>1. CASE e.kind = "touch"
    <2>1. revertEntry(d, e) = d BY <1>1 DEF revertEntry
    <2>2. \A a \in Addr : /\ UndoShape(ShapeAt(d, a), e, a, d.trie[a]) = ShapeAt(d, a)
                          /\ UndoTouched(TouchedAt(d, a), e, a) = TouchedAt(d, a)
      BY <1>1 DEF UndoShape, UndoTouched
    <2>3. SameRest(d, d) BY DEF SameRest, DbOK
    <2> QED BY <2>1, <2>2, <2>3 DEF Undoes
  <1> QED BY <1>1, RevertCreate, RevertReset, RevertField DEF EntryOK, OnObject

-------------------------------------------------------------------------------
(***************************************************************************)
(* The recursion of RevertToSnapshot.                                      *)
(***************************************************************************)
LEMMA UndoneSteps ==
    ASSUME NEW d, NEW n \in Nat
    PROVE  \E f : /\ f[n] = Undone(d, n) /\ f[0] = d
                  /\ \A i \in 1..n :
                        f[i] = revertEntry(f[i - 1], d.journal[Len(d.journal) - i + 1])
PROOF
  <1> DEFINE J(i) == d.journal[Len(d.journal) - i + 1]
             Rec(f, m) == f = [i \in 0..m |-> IF i = 0 THEN d ELSE revertEntry(f[i - 1], J(i))]
             S == {m \in Nat : \E f : Rec(f, m)}
  <1>1. 0 \in S
    <2>1. Rec([i \in 0..0 |-> d], 0) OBVIOUS
    <2> QED BY <2>1
  <1>2. ASSUME NEW m \in Nat, m \in S
        PROVE  m + 1 \in S
    <2>1. PICK f : Rec(f, m) BY <1>2
    <2> DEFINE g == [i \in 0..(m + 1) |-> IF i <= m THEN f[i] ELSE revertEntry(f[m], J(m + 1))]
    <2>2. \A i \in 0..m : g[i] = f[i] /\ f[i] = IF i = 0 THEN d ELSE revertEntry(f[i - 1], J(i))
      <3> HIDE DEF J
      <3> QED BY <2>1
    <2>3. g[m + 1] = revertEntry(f[m], J(m + 1))
      <3> HIDE DEF J
      <3> QED OBVIOUS
    <2>4. DOMAIN g = 0..(m + 1) OBVIOUS
    <2>5. ASSUME NEW i \in 0..(m + 1)
          PROVE  g[i] = IF i = 0 THEN d ELSE revertEntry(g[i - 1], J(i))
      <3> HIDE DEF g, J
      <3>1. CASE i = 0 BY <3>1, <2>2
      <3>2. CASE i # 0 /\ i <= m
        <4>1. i \in 0..m /\ i - 1 \in 0..m BY <3>2
        <4> QED BY <3>2, <2>2, <4>1
      <3>3. CASE i = m + 1
        <4>1. m \in 0..m /\ i - 1 = m /\ i # 0 BY <3>3
        <4> QED BY <3>3, <2>2, <2>3, <4>1
      <3> QED BY <3>1, <3>2, <3>3
    <2>6. Rec(g, m + 1)
      <3>1. g = [i \in 0..(m + 1) |-> g[i]] OBVIOUS
      <3> HIDE DEF g, J
      <3> QED BY <2>4, <2>5, <3>1
    <2> QED
      <3> HIDE DEF g, J
      <3> QED BY <2>6
  <1>3. n \in S
    <2> HIDE DEF S
    <2> QED BY <1>1, <1>2, Upward
  <1>4. \E f : Rec(f, n) BY <1>3
  <1> DEFINE F == CHOOSE f : f = [i \in 0..n |->
                    IF i = 0 THEN d
                    ELSE revertEntry(f[i - 1], d.journal[Len(d.journal) - i + 1])]
  <1>5. Undone(d, n) = F[n] BY DEF Undone
  <1>6. Rec(F, n) BY <1>4
  <1> HIDE DEF F
  <1>7. F[0] = d BY <1>6
  <1>8. \A i \in 1..n : F[i] = revertEntry(F[i - 1], J(i))
    <2> HIDE DEF J
    <2>1. \A i \in 0..n : F[i] = IF i = 0 THEN d ELSE revertEntry(F[i - 1], J(i)) BY <1>6
    <2> QED BY <2>1
  <1> QED BY <1>5, <1>7, <1>8

-------------------------------------------------------------------------------
(***************************************************************************)
(* The invariant of a running transaction that began in the world w, with  *)
(* the worlds s at its revisions.  h[i] are the shapes after the first i   *)
(* journal entries, T[i] keys that were touched by then.                   *)
(***************************************************************************)
\* What holds of every address at every point of the journal: a changed slot is
\* touched, an account of w stays; with the rules of EIP-158 the committed slots
\* are those of w and an account without nonce and code has none, unless it had
\* leftover storage in w.
Kept(g, touched, x, rules) ==
    /\ g \in Shape
    /\ Alive(g) => \A k \in Key : g.cur[k] # g.com[k] => k \in touched
    /\ x # Nil => Alive(g)
    /\ ~There(g) => ~g.gone
    /\ rules /\ Alive(g) =>
        /\ \A k \in Key : g.com[k] = IF x = Nil THEN 0 ELSE x.storage[k]
        /\ Clean(x) /\ Bare(g) => \A k \in Key : g.cur[k] = 0
        /\ x # Nil /\ ~Bare(x) => ~Bare(g)

\* An address that the journal does not name is as it was.
Unchanged(g, x) == ShowsAccount(g) = x /\ (Alive(g) => g.cur = g.com)

Chain(d, w, s, h, T) ==
    LET n == Len(d.journal) IN
    /\ \A a \in Addr : h[n][a] = ShapeAt(d, a) /\ T[n][a] \subseteq TouchedAt(d, a)
    /\ \A i \in 1..n : \A a \in Addr :
        /\ h[i - 1][a] = UndoShape(h[i][a], d.journal[i], a, d.trie[a])
        /\ T[i - 1][a] \subseteq UndoTouched(T[i][a], d.journal[i], a)
    /\ \A i \in 0..n : \A j \in 1..i : Alive(h[i][d.journal[j].addr])
    /\ \A i \in 0..n : \A a \in Addr : Kept(h[i][a], T[i][a], w[a], d.eip158)
    /\ \A i \in 0..n : \A a \in Addr :
        (\A j \in 1..i : d.journal[j].addr # a) => Unchanged(h[i][a], w[a])
    /\ \A r \in 1..Len(d.revs) : \A a \in Addr : ShowsAccount(h[d.revs[r]][a]) = s[r][a]

WorldOK(w, rules) ==
    /\ w \in [Addr -> Accounts]
    /\ rules => \A a \in Made : Clean(w[a])

TxOK(d, w, s) ==
    /\ DbOK(d) /\ WorldOK(w, d.eip158)
    /\ d.journal \in Seq(Entry) /\ d.revs \in Seq(Nat)
    /\ s \in Seq([Addr -> Accounts]) /\ Len(s) = Len(d.revs)
    /\ \A i \in 1..Len(d.journal) :
        /\ d.journal[i].addr \in DOMAIN d.pre
        /\ d.journal[i].kind = "create" => d.trie[d.journal[i].addr] = Nil
    /\ \A r \in 1..Len(d.revs) : d.revs[r] \in 0..Len(d.journal)
    /\ \A q, r \in 1..Len(d.revs) : q <= r => d.revs[q] <= d.revs[r]
    /\ \A a \in DOMAIN d.pre : d.pre[a] = IF w[a] = Nil THEN Nil ELSE Account(w[a], <<>>)
    /\ \A a \in DOMAIN d.pre : d.trie[a] # Nil => a \in DOMAIN d.obj
    /\ DOMAIN d.post = {}

TxInv(d, w, s) == TxOK(d, w, s) /\ \E h, T : Chain(d, w, s, h, T)

\* Nothing but caches, pre and touched changes.
LEMMA KeepsTx ==
    ASSUME NEW d, NEW w, NEW s, TxInv(d, w, s), NEW e, TxOK(e, w, s),
           e.journal = d.journal, e.revs = d.revs, e.trie = d.trie, e.eip158 = d.eip158,
           \A a \in Addr : ShapeAt(e, a) = ShapeAt(d, a) /\ TouchedAt(d, a) \subseteq TouchedAt(e, a)
    PROVE  TxInv(e, w, s)
PROOF
  <1>1. PICK h, T : Chain(d, w, s, h, T) BY DEF TxInv
  <1>2. Chain(e, w, s, h, T) BY <1>1 DEF Chain
  <1> QED BY <1>2 DEF TxInv

\* A change at a that is journaled by an entry for a.
LEMMA ExtendsTx ==
    ASSUME NEW d, NEW w, NEW s, TxInv(d, w, s),
           NEW a \in Addr, a \in DOMAIN d.pre, NEW x \in Entry, x.addr = a,
           x.kind = "create" => d.trie[a] = Nil,
           NEW e, DbOK(e), OnlyAt(d, e, a), e.journal = Append(d.journal, x),
           UndoShape(ShapeAt(e, a), x, a, d.trie[a]) = ShapeAt(d, a),
           TouchedAt(d, a) \subseteq UndoTouched(TouchedAt(e, a), x, a),
           a \in DOMAIN e.obj, Alive(ShapeAt(e, a)),
           Kept(ShapeAt(e, a), TouchedAt(e, a), w[a], d.eip158)
    PROVE  TxInv(e, w, s)
PROOF
  <1> DEFINE n == Len(d.journal)
  <1>1. PICK h, T : Chain(d, w, s, h, T) BY DEF TxInv
  <1>2. TxOK(d, w, s) BY DEF TxInv
  <1>3. d.journal \in Seq(Entry) /\ n \in Nat BY <1>2 DEF TxOK
  <1>4. Len(e.journal) = n + 1 /\ e.journal \in Seq(Entry) BY <1>3
  <1>5. /\ \A i \in 1..n : e.journal[i] = d.journal[i]
        /\ e.journal[n + 1] = x
    BY <1>3
  <1>6. e.eip158 = d.eip158 /\ e.trie = d.trie /\ e.revs = d.revs /\ e.pre = d.pre /\ e.post = d.post
    BY DEF OnlyAt, SameRest
  <1>17. \A i \in 1..n : \A b \in Addr :
            /\ h[i - 1][b] = UndoShape(h[i][b], d.journal[i], b, d.trie[b])
            /\ T[i - 1][b] \subseteq UndoTouched(T[i][b], d.journal[i], b)
    BY <1>1 DEF Chain
  <1> HIDE DEF n
  <1>18. \A i \in 1..(n + 1) : i \in 1..n \/ i = n + 1 BY <1>3
  <1>19. \A i \in 0..(n + 1) : i \in 0..n \/ i = n + 1 BY <1>3
  <1>7. TxOK(e, w, s)
    <2>1. \A i \in 1..(n + 1) :
            /\ e.journal[i].addr \in DOMAIN e.pre
            /\ e.journal[i].kind = "create" => e.trie[e.journal[i].addr] = Nil
      <3> SUFFICES ASSUME NEW i \in 1..(n + 1)
                   PROVE  /\ e.journal[i].addr \in DOMAIN e.pre
                          /\ e.journal[i].kind = "create" => e.trie[e.journal[i].addr] = Nil
        OBVIOUS
      <3>1. CASE i = n + 1 BY <3>1, <1>5, <1>6
      <3>2. CASE i \in 1..n BY <3>2, <1>2, <1>5, <1>6 DEF TxOK, n
      <3> QED BY <1>18, <3>1, <3>2
    <2>2. \A r \in 1..Len(e.revs) : e.revs[r] \in 0..(n + 1)
      BY <1>2, <1>3, <1>6 DEF TxOK, n
    <2>3. \A b \in DOMAIN e.pre : e.trie[b] # Nil => b \in DOMAIN e.obj
      BY <1>2, <1>6 DEF TxOK, OnlyAt
    <2> QED BY <1>2, <1>4, <1>6, <2>1, <2>2, <2>3 DEF TxOK
  <1> DEFINE g == [i \in 0..(n + 1) |-> IF i <= n THEN h[i] ELSE [b \in Addr |-> ShapeAt(e, b)]]
             U == [i \in 0..(n + 1) |-> IF i <= n THEN T[i] ELSE [b \in Addr |-> TouchedAt(e, b)]]
  <1>8. /\ \A i \in 0..n : g[i] = h[i] /\ U[i] = T[i]
        /\ \A b \in Addr : g[n + 1][b] = ShapeAt(e, b) /\ U[n + 1][b] = TouchedAt(e, b)
    BY <1>3
  <1>9. \A b \in Addr : b # a => ShapeAt(e, b) = ShapeAt(d, b) /\ TouchedAt(e, b) = TouchedAt(d, b)
    BY Elsewhere
  <1>10. \A b \in Addr : h[n][b] = ShapeAt(d, b) /\ T[n][b] \subseteq TouchedAt(d, b)
    BY <1>1 DEF Chain, n
  <1> HIDE DEF g, U
  <1>11. ASSUME NEW i \in 1..(n + 1), NEW b \in Addr
         PROVE  /\ g[i - 1][b] = UndoShape(g[i][b], e.journal[i], b, e.trie[b])
                /\ U[i - 1][b] \subseteq UndoTouched(U[i][b], e.journal[i], b)
    <2>1. CASE i \in 1..n
      <3>1. i - 1 \in 0..n /\ i \in 0..n BY <1>3, <2>1
      <3> QED BY <1>5, <1>6, <1>8, <1>17, <2>1, <3>1, ZenonT(30)
    <2>2. CASE i = n + 1
      <3>1. n \in 0..n /\ i - 1 = n BY <1>3, <2>2
      <3>2. g[i - 1][b] = ShapeAt(d, b) /\ U[i - 1][b] \subseteq TouchedAt(d, b)
        BY <1>8, <1>10, <3>1
      <3>3. CASE b = a BY <1>5, <1>6, <1>8, <2>2, <3>2, <3>3
      <3>4. CASE b # a
        BY <1>5, <1>8, <1>9, <2>2, <3>2, <3>4 DEF UndoShape, UndoTouched
      <3> QED BY <3>3, <3>4
    <2> QED BY <1>18, <2>1, <2>2
  <1>12. ASSUME NEW i \in 0..(n + 1), NEW j \in 1..i
         PROVE  Alive(g[i][e.journal[j].addr])
    <2>1. CASE i \in 0..n
      <3>1. j \in 1..n BY <1>3, <2>1
      <3> QED BY <1>1, <1>5, <1>8, <2>1, <3>1 DEF Chain, n
    <2>2. CASE i = n + 1
      <3>1. j \in 1..(n + 1) BY <2>2
      <3>2. CASE j \in 1..n
        <4> DEFINE b == d.journal[j].addr
        <4>1. e.journal[j].addr = b BY <1>5, <3>2
        <4>2. Alive(h[n][b])
          <5>1. n \in 0..n BY <1>3
          <5> QED BY <1>1, <3>2, <5>1 DEF Chain, n
        <4>3. b \in Addr
          <5>1. b \in DOMAIN d.pre BY <1>2, <3>2 DEF TxOK, n
          <5> QED BY <1>2, <5>1 DEF TxOK, DbOK
        <4> HIDE DEF b
        <4>4. Alive(ShapeAt(e, b)) BY <1>9, <1>10, <4>2, <4>3
        <4>5. g[n + 1][b] = ShapeAt(e, b) BY <1>8, <4>3
        <4> QED BY <2>2, <4>1, <4>4, <4>5
      <3>3. CASE j = n + 1 BY <1>5, <1>8, <2>2, <3>3
      <3> QED BY <1>18, <3>1, <3>2, <3>3
    <2> QED BY <1>19, <2>1, <2>2
  <1>13. ASSUME NEW i \in 0..(n + 1), NEW b \in Addr
         PROVE  Kept(g[i][b], U[i][b], w[b], e.eip158)
    <2>1. CASE i \in 0..n BY <1>1, <1>6, <1>8, <2>1 DEF Chain, n
    <2>2. CASE i = n + 1 /\ b = a BY <1>6, <1>8, <2>2
    <2>3. CASE i = n + 1 /\ b # a
      <3>1. n \in 0..n BY <1>3
      <3>2. Kept(h[n][b], T[n][b], w[b], d.eip158) BY <1>1, <3>1 DEF Chain, n
      <3> QED BY <1>6, <1>8, <1>9, <1>10, <2>3, <3>2 DEF Kept
    <2> QED BY <1>19, <2>1, <2>2, <2>3
  <1>14. ASSUME NEW i \in 0..(n + 1), NEW b \in Addr, \A j \in 1..i : e.journal[j].addr # b
         PROVE  Unchanged(g[i][b], w[b])
    <2>1. CASE i \in 0..n
      <3>1. \A j \in 1..i : j \in 1..n BY <1>3, <2>1
      <3>2. \A j \in 1..i : d.journal[j].addr # b BY <1>5, <1>14, <3>1
      <3> QED BY <1>1, <1>8, <2>1, <3>2 DEF Chain, n
    <2>2. CASE i = n + 1
      <3>1. b # a /\ n \in 0..n /\ \A j \in 1..n : j \in 1..i
        BY <1>3, <1>5, <1>14, <2>2
      <3>2. \A j \in 1..n : d.journal[j].addr # b BY <1>5, <1>14, <3>1
      <3>3. Unchanged(h[n][b], w[b]) BY <1>1, <3>1, <3>2 DEF Chain, n
      <3> QED BY <1>8, <1>9, <1>10, <2>2, <3>1, <3>3
    <2> QED BY <1>19, <2>1, <2>2
  <1>15. \A r \in 1..Len(e.revs) : \A b \in Addr : ShowsAccount(g[e.revs[r]][b]) = s[r][b]
    <2>1. \A r \in 1..Len(e.revs) : e.revs[r] \in 0..n BY <1>2, <1>6 DEF TxOK, n
    <2> QED BY <1>1, <1>6, <1>8, <2>1 DEF Chain
  <1>16. Chain(e, w, s, g, U)
    BY <1>4, <1>8, <1>11, <1>12, <1>13, <1>14, <1>15 DEF Chain
  <1> QED BY <1>7, <1>16 DEF TxInv


LEMMA ShowsAccountOK ==
    ASSUME NEW g \in Shape
    PROVE  ShowsAccount(g) \in Accounts
BY DEF ShowsAccount, Shape, Accounts, AccountType

LEMMA WorldTyped ==
    ASSUME NEW d, DbOK(d)
    PROVE  /\ World(d) \in [Addr -> Accounts]
           /\ \A a \in Addr : World(d)[a] = ShowsAccount(ShapeAt(d, a))
PROOF
  <1>1. \A a \in Addr : World(d)[a] = ShowsAccount(ShapeAt(d, a)) BY SeesShape DEF World
  <1>2. \A a \in Addr : World(d)[a] \in Accounts BY <1>1, ShapeAtOK, ShowsAccountOK
  <1>3. World(d) = [a \in Addr |-> World(d)[a]] BY DEF World
  <1> QED BY <1>1, <1>2, <1>3

LEMMA SnapshotTx ==
    ASSUME NEW d, NEW w, NEW s, TxInv(d, w, s)
    PROVE  /\ TxInv(Snapshot(d), w, Append(s, World(d)))
           /\ Len(Snapshot(d).revs) = Len(d.revs) + 1
           /\ DOMAIN Snapshot(d).pre = DOMAIN d.pre /\ Snapshot(d).eip158 = d.eip158
           /\ \A a \in Addr : ShapeAt(Snapshot(d), a) = ShapeAt(d, a)
PROOF
  <1> DEFINE e == Snapshot(d)
             z == Append(s, World(d))
             n == Len(d.journal)
             m == Len(d.revs)
  <1>1. PICK h, T : Chain(d, w, s, h, T) BY DEF TxInv
  <1>2. TxOK(d, w, s) /\ DbOK(d) BY DEF TxInv, TxOK
  <1>3. n \in Nat /\ m \in Nat /\ Len(s) = m /\ s \in Seq([Addr -> Accounts]) /\ d.revs \in Seq(Nat)
    BY <1>2 DEF TxOK
  <1>4. /\ DOMAIN e = Fields /\ e.obj = d.obj /\ e.eip158 = d.eip158 /\ e.trie = d.trie
        /\ e.revs = Append(d.revs, n) /\ e.pre = d.pre /\ e.post = d.post
        /\ e.destruct = d.destruct /\ e.journal = d.journal
    BY <1>2 DEF DbOK, Fields, Snapshot
  <1> HIDE DEF e
  <1>5. DbOK(e) BY <1>2, <1>4 DEF DbOK
  <1>6. \A a : ShapeAt(e, a) = ShapeAt(d, a) /\ TouchedAt(e, a) = TouchedAt(d, a)
    BY <1>4 DEF ShapeAt, TouchedAt
  <1>7. World(d) \in [Addr -> Accounts] BY <1>2, WorldTyped
  <1>8. /\ z \in Seq([Addr -> Accounts]) /\ Len(z) = m + 1 /\ z[m + 1] = World(d)
        /\ \A r \in 1..m : z[r] = s[r]
    BY <1>3, <1>7
  <1>9. /\ e.revs \in Seq(Nat) /\ Len(e.revs) = m + 1 /\ e.revs[m + 1] = n
        /\ \A r \in 1..m : e.revs[r] = d.revs[r]
    BY <1>3, <1>4
  <1> HIDE DEF z, n, m
  <1>10. \A r \in 1..(m + 1) : r \in 1..m \/ r = m + 1 BY <1>3
  <1>11. \A r \in 1..m : d.revs[r] \in 0..n BY <1>2 DEF TxOK, n, m
  <1>12. n \in 0..n /\ \A i \in 0..n : i <= n BY <1>3
  <1>13. \A q, r \in 1..(m + 1) : q <= r => e.revs[q] <= e.revs[r]
    <2> SUFFICES ASSUME NEW q \in 1..(m + 1), NEW r \in 1..(m + 1), q <= r
                 PROVE  e.revs[q] <= e.revs[r]
      OBVIOUS
    <2>1. CASE r \in 1..m
      <3>1. q \in 1..m BY <1>3, <2>1
      <3> QED BY <1>2, <1>9, <2>1, <3>1 DEF TxOK, m
    <2>2. CASE r = m + 1 BY <1>9, <1>10, <1>11, <1>12, <2>2
    <2> QED BY <1>10, <2>1, <2>2
  <1>14. TxOK(e, w, z)
    <2>1. \A r \in 1..(m + 1) : e.revs[r] \in 0..n BY <1>9, <1>10, <1>11, <1>12
    <2> QED BY <1>2, <1>4, <1>5, <1>8, <1>9, <1>13, <2>1 DEF TxOK, n
  <1>15. \A a \in Addr : ShowsAccount(h[n][a]) = World(d)[a]
    BY <1>1, <1>2, WorldTyped DEF Chain, n
  <1>16. \A r \in 1..(m + 1) : \A a \in Addr : ShowsAccount(h[e.revs[r]][a]) = z[r][a]
    <2>1. \A r \in 1..m : \A a \in Addr : ShowsAccount(h[d.revs[r]][a]) = s[r][a]
      BY <1>1 DEF Chain, m
    <2> QED BY <1>8, <1>9, <1>10, <1>15, <2>1
  <1>17. Chain(e, w, z, h, T) BY <1>1, <1>4, <1>6, <1>9, <1>16 DEF Chain
  <1>18. Snapshot(d) = e /\ Append(s, World(d)) = z BY DEF e, z
  <1> QED BY <1>4, <1>6, <1>9, <1>14, <1>17, <1>18 DEF TxInv, m

\* The undo of the n newest entries leads to h[Len - n].
LEMMA UndoneTx ==
    ASSUME NEW d, NEW w, NEW s, TxOK(d, w, s), NEW h, NEW T, Chain(d, w, s, h, T),
           NEW n \in 0..Len(d.journal)
    PROVE  LET u == Undone(d, n)
               i == Len(d.journal) - n
           IN  /\ DbOK(u) /\ SameRest(d, u) /\ u.journal = d.journal
               /\ \A a \in DOMAIN d.obj : d.trie[a] # Nil => a \in DOMAIN u.obj
               /\ \A a \in Addr : ShapeAt(u, a) = h[i][a] /\ T[i][a] \subseteq TouchedAt(u, a)
PROOF
  <1> DEFINE L == Len(d.journal)
             Good(u, i) == /\ DbOK(u) /\ SameRest(d, u) /\ u.journal = d.journal
                           /\ \A a \in DOMAIN d.obj : d.trie[a] # Nil => a \in DOMAIN u.obj
                           /\ \A a \in Addr : ShapeAt(u, a) = h[i][a] /\ T[i][a] \subseteq TouchedAt(u, a)
  <1>1. L \in Nat /\ d.journal \in Seq(Entry) /\ n \in Nat /\ n <= L BY DEF TxOK
  <1>2. PICK f : /\ f[n] = Undone(d, n) /\ f[0] = d
                 /\ \A m \in 1..n : f[m] = revertEntry(f[m - 1], d.journal[L - m + 1])
    BY <1>1, UndoneSteps
  <1> DEFINE S == {m \in Nat : m <= n => Good(f[m], L - m)}
  <1>3. 0 \in S
    <2>1. SameRest(d, d) /\ DbOK(d) BY DEF SameRest, TxOK, DbOK
    <2>2. Good(d, L) BY <2>1 DEF Chain
    <2>3. L - 0 = L BY <1>1
    <2> HIDE DEF Good
    <2> QED BY <1>2, <2>2, <2>3
  <1>4. ASSUME NEW m \in Nat, m \in S
        PROVE  m + 1 \in S
    <2> SUFFICES ASSUME m + 1 <= n PROVE Good(f[m + 1], L - (m + 1))
      BY <1>4
    <2> DEFINE u == f[m]
               i == L - m
               e == d.journal[i]
    <2>1. /\ i \in 1..L /\ i \in 0..L /\ i - 1 \in 0..L /\ m + 1 \in 1..n
          /\ L - (m + 1) = i - 1 /\ L - (m + 1) + 1 = i /\ (m + 1) - 1 = m /\ m <= n
      BY <1>1
    <2>2. Good(u, i) BY <1>4, <2>1
    <2>3. f[m + 1] = revertEntry(u, e) BY <1>2, <2>1
    <2>4. e \in Entry /\ EntryOK(e)
      <3>1. \A j \in 1..L : d.journal[j] \in Entry BY <1>1
      <3>2. e \in Entry BY <2>1, <3>1
      <3> HIDE DEF e
      <3> QED BY <3>2, EntryFields
    <2> HIDE DEF u, i, e
    <2>5. e.addr \in Addr /\ e.addr \in DOMAIN d.pre /\ (e.kind = "create" => d.trie[e.addr] = Nil)
      BY <2>1, <2>4 DEF TxOK, e, EntryOK
    <2>6. CanUndo(u, e)
      <3>1. u.pre = d.pre /\ u.trie = d.trie BY <2>2 DEF SameRest
      <3>2. There(ShapeAt(u, e.addr))
        <4>1. i \in 1..i BY <2>1
        <4>2. Alive(h[i][e.addr]) BY <2>1, <4>1 DEF Chain, e
        <4> QED BY <2>2, <2>5, <4>2 DEF Alive
      <3>3. ASSUME e.kind = "create"
            PROVE  e.addr \notin u.destruct /\ u.pre[e.addr] = Nil
        <4> DEFINE a == e.addr
        <4>1. h[i - 1][a] = UndoShape(h[i][a], e, a, d.trie[a])
          BY <2>1, <2>5 DEF Chain, e
        <4>2. h[i - 1][a] = Absent(h[i][a].gone) BY <3>3, <4>1 DEF UndoShape
        <4>3. Kept(h[i - 1][a], T[i - 1][a], w[a], d.eip158) BY <2>1, <2>5 DEF Chain
        <4>4. ~There(h[i - 1][a]) /\ (h[i - 1][a].gone <=> h[i][a].gone)
          BY <4>2 DEF Absent, There
        <4>5. ~h[i][a].gone /\ w[a] = Nil BY <4>3, <4>4 DEF Kept, Alive
        <4>6. ShapeAt(u, a).gone <=> a \in u.destruct BY DEF ShapeAt, Shown, Absent
        <4>7. ShapeAt(u, a) = h[i][a] BY <2>2, <2>5
        <4>8. d.pre[a] = Nil BY <2>5, <4>5 DEF TxOK
        <4> QED BY <3>1, <4>5, <4>6, <4>7, <4>8
      <3> QED BY <2>5, <3>1, <3>2, <3>3 DEF CanUndo
    <2>7. Undoes(u, f[m + 1], e) BY <2>2, <2>3, <2>4, <2>6, RevertOne
    <2>8. /\ DbOK(f[m + 1]) /\ SameRest(d, f[m + 1]) /\ f[m + 1].journal = d.journal
          /\ \A a \in DOMAIN d.obj : d.trie[a] # Nil => a \in DOMAIN f[m + 1].obj
      BY <2>2, <2>7 DEF Undoes, SameRest
    <2>9. ASSUME NEW a \in Addr
          PROVE  ShapeAt(f[m + 1], a) = h[i - 1][a] /\ T[i - 1][a] \subseteq TouchedAt(f[m + 1], a)
      <3>1. /\ h[i - 1][a] = UndoShape(h[i][a], e, a, d.trie[a])
            /\ T[i - 1][a] \subseteq UndoTouched(T[i][a], e, a)
        BY <2>1 DEF Chain, e
      <3>2. ShapeAt(u, a) = h[i][a] /\ T[i][a] \subseteq TouchedAt(u, a) /\ u.trie = d.trie
        BY <2>2 DEF SameRest
      <3>3. /\ ShapeAt(f[m + 1], a) = UndoShape(ShapeAt(u, a), e, a, u.trie[a])
            /\ TouchedAt(f[m + 1], a) = UndoTouched(TouchedAt(u, a), e, a)
        BY <2>7 DEF Undoes
      <3>4. UndoTouched(T[i][a], e, a) \subseteq UndoTouched(TouchedAt(u, a), e, a)
        BY <3>2 DEF UndoTouched
      <3> QED BY <3>1, <3>2, <3>3, <3>4
    <2> QED BY <2>1, <2>8, <2>9
  <1>5. n \in S
    <2> HIDE DEF S
    <2> QED BY <1>1, <1>3, <1>4, Upward
  <1>6. Good(f[n], L - n) BY <1>1, <1>5
  <1> QED BY <1>2, <1>6

LEMMA Prefix ==
    ASSUME NEW S, NEW q \in Seq(S), NEW n \in 0..Len(q)
    PROVE  /\ SubSeq(q, 1, n) \in Seq(S) /\ Len(SubSeq(q, 1, n)) = n
           /\ \A i \in 1..n : SubSeq(q, 1, n)[i] = q[i]
OBVIOUS

(***************************************************************************)
(* RevertToSnapshot brings back the world of the snapshot, and the         *)
(* invariant with it.                                                      *)
(***************************************************************************)
LEMMA RevertTx ==
    ASSUME NEW d, NEW w, NEW s, TxInv(d, w, s), NEW id \in 1..Len(d.revs)
    PROVE  LET e == RevertToSnapshot(d, id) IN
           /\ TxInv(e, w, SubSeq(s, 1, id - 1)) /\ Len(e.revs) = id - 1
           /\ e.pre = d.pre /\ e.eip158 = d.eip158
           /\ \A a \in Addr : ShowsAccount(ShapeAt(e, a)) = s[id][a]
PROOF
  <1> DEFINE L == Len(d.journal)
             from == d.revs[id]
             n == L - from
             u == Undone(d, n)
             e == RevertToSnapshot(d, id)
             z == SubSeq(s, 1, id - 1)
  <1>1. PICK h, T : Chain(d, w, s, h, T) BY DEF TxInv
  <1>2. TxOK(d, w, s) /\ DbOK(d) BY DEF TxInv, TxOK
  <1>3. /\ d.journal \in Seq(Entry) /\ L \in Nat /\ d.revs \in Seq(Nat) /\ Len(d.revs) \in Nat
        /\ s \in Seq([Addr -> Accounts]) /\ Len(s) = Len(d.revs)
    BY <1>2 DEF TxOK
  <1>4. from \in 0..L BY <1>2 DEF TxOK
  <1>5. n \in 0..L /\ L - n = from BY <1>3, <1>4, SMTT(30)
  <1>6. /\ DbOK(u) /\ SameRest(d, u) /\ u.journal = d.journal
        /\ \A a \in DOMAIN d.obj : d.trie[a] # Nil => a \in DOMAIN u.obj
        /\ \A a \in Addr : ShapeAt(u, a) = h[from][a] /\ T[from][a] \subseteq TouchedAt(u, a)
    <2> HIDE DEF u
    <2> QED BY <1>1, <1>2, <1>5, UndoneTx DEF u
  <1>7. e = [[u EXCEPT !.journal = SubSeq(d.journal, 1, from)] EXCEPT !.revs = SubSeq(d.revs, 1, id - 1)]
    <2>1. e = [u EXCEPT !.journal = SubSeq(@, 1, d.revs[id]), !.revs = SubSeq(@, 1, id - 1)]
      BY DEF RevertToSnapshot
    <2> HIDE DEF u, e
    <2> QED BY <1>6, <2>1 DEF SameRest, Fields
  <1> HIDE DEF u, e, n
  <1>8. /\ DOMAIN e = Fields /\ e.obj = u.obj /\ e.destruct = u.destruct /\ e.trie = d.trie
        /\ e.eip158 = d.eip158 /\ e.pre = d.pre /\ e.post = d.post
        /\ e.journal = SubSeq(d.journal, 1, from) /\ e.revs = SubSeq(d.revs, 1, id - 1)
    <2>1. /\ DOMAIN u = Fields /\ u.eip158 = d.eip158 /\ u.trie = d.trie
          /\ u.pre = d.pre /\ u.post = d.post
      BY <1>6 DEF SameRest
    <2> QED BY <1>7, <2>1 DEF Fields
  <1>9. /\ e.journal \in Seq(Entry) /\ Len(e.journal) = from
        /\ \A i \in 1..from : e.journal[i] = d.journal[i] /\ i \in 1..L
    <2>1. \A i \in 1..from : i \in 1..L BY <1>3, <1>4
    <2> HIDE DEF from
    <2> QED BY <1>3, <1>4, <1>8, <2>1, Prefix
  <1>10. /\ e.revs \in Seq(Nat) /\ Len(e.revs) = id - 1
         /\ \A r \in 1..(id - 1) : e.revs[r] = d.revs[r] /\ r \in 1..Len(d.revs) /\ r <= id
    BY <1>3, <1>8
  <1>11. /\ z \in Seq([Addr -> Accounts]) /\ Len(z) = id - 1
         /\ \A r \in 1..(id - 1) : z[r] = s[r]
    BY <1>3
  <1> HIDE DEF z
  <1>12. u.trie = d.trie /\ u.eip158 = d.eip158 /\ u.pre = d.pre /\ u.post = d.post BY <1>6 DEF SameRest
  <1>13. DbOK(e) BY <1>6, <1>8, <1>12 DEF DbOK
  <1>14. \A a : ShapeAt(e, a) = ShapeAt(u, a) /\ TouchedAt(e, a) = TouchedAt(u, a)
    BY <1>8, <1>12 DEF ShapeAt, TouchedAt
  <1>15. \A r \in 1..(id - 1) : e.revs[r] \in 0..from
    <2>1. \A r \in 1..(id - 1) : d.revs[r] <= d.revs[id] /\ d.revs[r] \in 0..L
      BY <1>2, <1>10 DEF TxOK
    <2> QED BY <1>4, <1>10, <2>1
  <1> HIDE DEF from, L
  <1>16. TxOK(e, w, z)
    <2>1. \A i \in 1..from :
            /\ d.journal[i].addr \in DOMAIN d.pre
            /\ d.journal[i].kind = "create" => d.trie[d.journal[i].addr] = Nil
      BY <1>2, <1>9 DEF TxOK, L
    <2>2. \A q, r \in 1..(id - 1) : q <= r => e.revs[q] <= e.revs[r]
      BY <1>2, <1>10 DEF TxOK
    <2>3. \A a \in DOMAIN e.pre : e.trie[a] # Nil => a \in DOMAIN e.obj
      BY <1>2, <1>6, <1>8 DEF TxOK
    <2>4. /\ WorldOK(w, e.eip158) /\ DOMAIN e.post = {}
          /\ \A a \in DOMAIN e.pre : e.pre[a] = IF w[a] = Nil THEN Nil ELSE Account(w[a], <<>>)
      BY <1>2, <1>8 DEF TxOK
    <2>5. \A i \in 1..Len(e.journal) :
            /\ e.journal[i].addr \in DOMAIN e.pre
            /\ e.journal[i].kind = "create" => e.trie[e.journal[i].addr] = Nil
      BY <1>8, <1>9, <2>1
    <2> QED BY <1>9, <1>10, <1>11, <1>13, <1>15, <2>2, <2>3, <2>4, <2>5 DEF TxOK
  <1>17. \A i \in 0..from : i \in 0..L /\ \A j \in 1..i : j \in 1..from BY <1>3, <1>4
  <1>18. ASSUME NEW i \in 1..from, NEW a \in Addr
         PROVE  /\ h[i - 1][a] = UndoShape(h[i][a], e.journal[i], a, e.trie[a])
                /\ T[i - 1][a] \subseteq UndoTouched(T[i][a], e.journal[i], a)
    BY <1>1, <1>8, <1>9 DEF Chain, L
  <1>19. \A i \in 0..from : \A j \in 1..i : Alive(h[i][e.journal[j].addr])
    BY <1>1, <1>9, <1>17 DEF Chain, L
  <1>20. \A i \in 0..from : \A a \in Addr : Kept(h[i][a], T[i][a], w[a], e.eip158)
    BY <1>1, <1>8, <1>17 DEF Chain, L
  <1>21. ASSUME NEW i \in 0..from, NEW a \in Addr, \A j \in 1..i : e.journal[j].addr # a
         PROVE  Unchanged(h[i][a], w[a])
    <2>1. \A j \in 1..i : d.journal[j].addr # a BY <1>9, <1>17, <1>21
    <2> QED BY <1>1, <1>17, <2>1 DEF Chain, L
  <1>22. \A r \in 1..(id - 1) : \A a \in Addr : ShowsAccount(h[e.revs[r]][a]) = z[r][a]
    BY <1>1, <1>10, <1>11 DEF Chain
  <1>23. Chain(e, w, z, h, T)
    BY <1>6, <1>9, <1>10, <1>14, <1>18, <1>19, <1>20, <1>21, <1>22 DEF Chain
  <1>24. \A a \in Addr : ShowsAccount(h[from][a]) = s[id][a] BY <1>1 DEF Chain, from
  <1> QED BY <1>6, <1>8, <1>10, <1>14, <1>16, <1>23, <1>24 DEF TxInv, e, z

-------------------------------------------------------------------------------
(***************************************************************************)
(* The methods of StateDB keep the invariant of the transaction.           *)
(***************************************************************************)
\* e follows d in the transaction, and only a is another.
Moves(d, e, w, s, a) ==
    /\ TxInv(e, w, s) /\ e.revs = d.revs /\ e.eip158 = d.eip158
    /\ DOMAIN d.pre \subseteq DOMAIN e.pre
    /\ \A b \in Addr : b # a => ShapeAt(e, b) = ShapeAt(d, b)

LEMMA MovesOn ==
    ASSUME NEW d, NEW e, NEW f, NEW w, NEW s, NEW a, Moves(d, e, w, s, a), Moves(e, f, w, s, a)
    PROVE  Moves(d, f, w, s, a)
BY DEF Moves

LEMMA TxNow ==
    ASSUME NEW d, NEW w, NEW s, TxInv(d, w, s)
    PROVE  /\ DbOK(d) /\ TxOK(d, w, s)
           /\ \A a \in Addr : Kept(ShapeAt(d, a), TouchedAt(d, a), w[a], d.eip158)
           /\ \A a \in Addr : a \notin DOMAIN d.pre => Unchanged(ShapeAt(d, a), w[a])
PROOF
  <1> DEFINE n == Len(d.journal)
  <1>1. PICK h, T : Chain(d, w, s, h, T) BY DEF TxInv
  <1>2. TxOK(d, w, s) /\ DbOK(d) BY DEF TxInv, TxOK
  <1>3. n \in 0..n /\ n \in Nat BY <1>2 DEF TxOK
  <1>4. \A a \in Addr : h[n][a] = ShapeAt(d, a) /\ T[n][a] \subseteq TouchedAt(d, a)
    BY <1>1 DEF Chain
  <1>5. \A a \in Addr : Kept(h[n][a], T[n][a], w[a], d.eip158) BY <1>1, <1>3 DEF Chain
  <1>6. \A a \in Addr : Kept(ShapeAt(d, a), TouchedAt(d, a), w[a], d.eip158)
    BY <1>4, <1>5 DEF Kept
  <1>7. \A a \in Addr : a \notin DOMAIN d.pre => \A j \in 1..n : d.journal[j].addr # a
    BY <1>2 DEF TxOK
  <1>8. \A a \in Addr : a \notin DOMAIN d.pre => Unchanged(h[n][a], w[a])
    BY <1>1, <1>3, <1>7 DEF Chain
  <1> QED BY <1>2, <1>4, <1>6, <1>8

LEMMA LoadTx ==
    ASSUME NEW d, NEW w, NEW s, TxInv(d, w, s), NEW a \in Addr
    PROVE  LET e == getDeletedStateObject(d, a) IN
           /\ Moves(d, e, w, s, a) /\ ShapeAt(e, a) = ShapeAt(d, a) /\ e.pre = d.pre
           /\ a \in DOMAIN e.obj <=> There(ShapeAt(d, a))
           /\ a \notin DOMAIN e.obj => e.trie[a] = Nil
PROOF
  <1> DEFINE e == getDeletedStateObject(d, a)
  <1>1. DbOK(d) /\ TxOK(d, w, s) BY TxNow
  <1> HIDE DEF e
  <1>2. /\ DbOK(e) /\ SameRest(d, e) /\ e.journal = d.journal /\ e.destruct = d.destruct
        /\ \A b \in Addr : ShapeAt(e, b) = ShapeAt(d, b) /\ TouchedAt(e, b) = TouchedAt(d, b)
        /\ a \in DOMAIN e.obj <=> There(ShapeAt(d, a))
        /\ a \notin DOMAIN e.obj => d.trie[a] = Nil
        /\ DOMAIN d.obj \subseteq DOMAIN e.obj
    BY <1>1, LoadObject DEF e
  <1>3. /\ e.trie = d.trie /\ e.revs = d.revs /\ e.eip158 = d.eip158 /\ e.pre = d.pre
        /\ e.post = d.post
    BY <1>2 DEF SameRest
  <1>4. TxOK(e, w, s) BY <1>1, <1>2, <1>3 DEF TxOK
  <1>5. TxInv(e, w, s) BY <1>2, <1>3, <1>4, KeepsTx
  <1>6. Moves(d, e, w, s, a) BY <1>2, <1>3, <1>5 DEF Moves
  <1> QED BY <1>2, <1>3, <1>6 DEF e

\* The first access records the account as it was before the transaction.
LEMMA RecordTx ==
    ASSUME NEW d, NEW w, NEW s, TxInv(d, w, s), NEW a \in Addr,
           a \in DOMAIN d.obj <=> There(ShapeAt(d, a))
    PROVE  LET e == recordPre(d, a) IN
           /\ Moves(d, e, w, s, a) /\ ShapeAt(e, a) = ShapeAt(d, a) /\ a \in DOMAIN e.pre
           /\ e.obj = d.obj /\ e.trie = d.trie
PROOF
  <1> DEFINE e == recordPre(d, a)
             x == IF Live(d, a) THEN Account(d.obj[a], <<>>) ELSE Nil
             f == Put(d.pre, a, x)
  <1>1. DbOK(d) /\ TxOK(d, w, s) BY TxNow
  <1>2. CASE a \in DOMAIN d.pre
    <2>1. e = d BY <1>2 DEF recordPre
    <2> HIDE DEF e
    <2> QED BY <1>2, <2>1 DEF Moves, e
  <1>3. CASE a \notin DOMAIN d.pre
    <2>1. e = [d EXCEPT !.pre = f] BY <1>3 DEF recordPre
    <2>2. DOMAIN f = DOMAIN d.pre \cup {a} /\ f[a] = x /\ \A b \in DOMAIN d.pre : b # a => f[b] = d.pre[b]
      BY DEF Put
    <2>3. ShowsAccount(ShapeAt(d, a)) = w[a] BY <1>3, TxNow DEF Unchanged
    <2>4. x = IF w[a] = Nil THEN Nil ELSE Account(w[a], <<>>)
      <3>1. CASE Live(d, a)
        <4>1. Alive(ShapeAt(d, a)) /\ a \in DOMAIN d.obj BY <3>1, <1>1, SeesShape
        <4>2. ShapeAt(d, a) = Shown(d.obj[a], a \in d.destruct, d.trie[a]) BY <4>1 DEF ShapeAt
        <4>3. w[a] = Account(d.obj[a], ShapeAt(d, a).cur)
          BY <2>3, <4>1, <4>2 DEF ShowsAccount, Shown, Account
        <4>4. w[a] # Nil BY <4>3, NilApart
        <4>5. Account(w[a], <<>>) = Account(d.obj[a], <<>>) BY <4>3 DEF Account
        <4> QED BY <3>1, <4>4, <4>5
      <3>2. CASE ~Live(d, a)
        <4>1. ~Alive(ShapeAt(d, a)) BY <3>2, <1>1, SeesShape DEF Alive
        <4> QED BY <2>3, <3>2, <4>1 DEF ShowsAccount
      <3> QED BY <3>1, <3>2
    <2>5. x = Nil \/ (x \in Saved /\ a \in DOMAIN d.obj)
      <3>1. Live(d, a) => d.obj[a] \in Object /\ a \in DOMAIN d.obj BY <1>1 DEF Live, DbOK
      <3>2. <<>> \in Seq(Key \X Val) OBVIOUS
      <3> QED BY <3>1, <3>2 DEF Saved, Account, Object
    <2> HIDE DEF x, f, e
    <2>6. /\ DOMAIN e = Fields /\ e.pre = f /\ e.obj = d.obj /\ e.trie = d.trie
          /\ e.eip158 = d.eip158 /\ e.destruct = d.destruct /\ e.journal = d.journal
          /\ e.revs = d.revs /\ e.post = d.post
      BY <1>1, <2>1 DEF DbOK, Fields
    <2>7. DbOK(e) BY <1>1, <2>2, <2>5, <2>6 DEF DbOK
    <2>8. \A b \in DOMAIN e.pre : e.pre[b] = IF w[b] = Nil THEN Nil ELSE Account(w[b], <<>>)
      BY <1>1, <2>2, <2>4, <2>6 DEF TxOK
    <2>12. d.trie[a] # Nil => a \in DOMAIN d.obj BY DEF ShapeAt, Shown, There
    <2>13. \A b \in DOMAIN e.pre : e.trie[b] # Nil => b \in DOMAIN e.obj
      BY <1>1, <2>2, <2>6, <2>12 DEF TxOK
    <2>9. TxOK(e, w, s) BY <1>1, <2>2, <2>6, <2>7, <2>8, <2>13 DEF TxOK
    <2>10. \A b : ShapeAt(e, b) = ShapeAt(d, b) /\ TouchedAt(e, b) = TouchedAt(d, b)
      BY <2>6 DEF ShapeAt, TouchedAt
    <2>11. TxInv(e, w, s) BY <2>6, <2>9, <2>10, KeepsTx
    <2> QED BY <2>2, <2>6, <2>10, <2>11 DEF Moves, e
  <1> QED BY <1>2, <1>3

LEMMA GetTx ==
    ASSUME NEW d, NEW w, NEW s, TxInv(d, w, s), NEW a \in Addr
    PROVE  LET e == getStateObject(d, a) IN
           /\ Moves(d, e, w, s, a) /\ ShapeAt(e, a) = ShapeAt(d, a) /\ a \in DOMAIN e.pre
           /\ a \in DOMAIN e.obj <=> There(ShapeAt(d, a))
           /\ a \notin DOMAIN e.obj => e.trie[a] = Nil
PROOF
  <1> DEFINE c == getDeletedStateObject(d, a)
             e == recordPre(c, a)
  <1>1. getStateObject(d, a) = e BY DEF getStateObject
  <1> HIDE DEF c, e
  <1>2. /\ Moves(d, c, w, s, a) /\ ShapeAt(c, a) = ShapeAt(d, a)
        /\ a \in DOMAIN c.obj <=> There(ShapeAt(d, a))
        /\ a \notin DOMAIN c.obj => c.trie[a] = Nil
    BY LoadTx DEF c
  <1>3. TxInv(c, w, s) BY <1>2 DEF Moves
  <1>4. /\ Moves(c, e, w, s, a) /\ ShapeAt(e, a) = ShapeAt(c, a) /\ a \in DOMAIN e.pre
        /\ e.obj = c.obj /\ e.trie = c.trie
    BY <1>2, <1>3, RecordTx DEF e
  <1>5. Moves(d, e, w, s, a) BY <1>2, <1>4, MovesOn
  <1> QED BY <1>1, <1>2, <1>4, <1>5

LEMMA AppendEntry ==
    ASSUME NEW d, DOMAIN d = Fields, NEW x
    PROVE  LET e == journalAppend(d, x) IN
           /\ SameRest(d, e) /\ e.obj = d.obj /\ e.destruct = d.destruct
           /\ e.journal = Append(d.journal, x)
BY DEF journalAppend, SameRest, Fields

\* An object is changed, and the entry tells how to undo it.
LEMMA WriteTx ==
    ASSUME NEW d, NEW w, NEW s, TxInv(d, w, s), NEW a \in Addr, a \in DOMAIN d.pre,
           a \in DOMAIN d.obj, NEW p \in Object, p.touched = d.obj[a].touched,
           NEW x \in Entry, x.addr = a, OnObject(x),
           NEW g, g = Shown(p, a \in d.destruct, d.trie[a]),
           UndoShape(g, x, a, d.trie[a]) = ShapeAt(d, a),
           Kept(g, p.touched, w[a], d.eip158), Alive(g),
           NEW e, e = journalAppend([d EXCEPT !.obj[a] = p], x)
    PROVE  /\ Moves(d, e, w, s, a) /\ ShapeAt(e, a) = g /\ a \in DOMAIN e.obj
           /\ TouchedAt(e, a) = TouchedAt(d, a)
PROOF
  <1> DEFINE c == [d EXCEPT !.obj[a] = p]
  <1>1. DbOK(d) /\ TxOK(d, w, s) BY TxNow
  <1>2. /\ SameRest(d, c) /\ c.destruct = d.destruct /\ c.journal = d.journal
        /\ DOMAIN c.obj = DOMAIN d.obj \cup {a} /\ c.obj[a] = p
        /\ \A b \in DOMAIN d.obj : b # a => c.obj[b] = d.obj[b]
    BY <1>1, ExceptObject, SMTT(30)
  <1>3. e = journalAppend(c, x) OBVIOUS
  <1> HIDE DEF c
  <1>4. DOMAIN c = Fields BY <1>2 DEF SameRest
  <1>5. /\ SameRest(c, e) /\ e.obj = c.obj /\ e.destruct = c.destruct
        /\ e.journal = Append(c.journal, x)
    <2> DEFINE q == journalAppend(c, x)
    <2>1. /\ SameRest(c, q) /\ q.obj = c.obj /\ q.destruct = c.destruct
          /\ q.journal = Append(c.journal, x)
      BY <1>4, AppendEntry
    <2> HIDE DEF q
    <2>2. e = q BY <1>3 DEF q
    <2> QED BY <2>1, <2>2
  <1>6. SameRest(d, e) BY <1>2, <1>5 DEF SameRest
  <1>7. /\ OnlyAt(d, e, a) /\ DbOK(e) /\ ShapeAt(e, a) = g /\ TouchedAt(e, a) = p.touched
    BY <1>1, <1>2, <1>5, <1>6, PutObject
  <1>8. TouchedAt(d, a) = p.touched /\ e.journal = Append(d.journal, x)
    BY <1>2, <1>5 DEF TouchedAt
  <1>9. UndoTouched(TouchedAt(e, a), x, a) = TouchedAt(e, a)
    BY DEF UndoTouched, OnObject
  <1>11. x.kind # "create" BY DEF OnObject
  <1>14. a \in DOMAIN e.obj BY <1>2, <1>5
  <1>12. TxInv(e, w, s) BY <1>7, <1>8, <1>9, <1>11, <1>14, ExtendsTx
  <1>13. Moves(d, e, w, s, a) BY <1>6, <1>7, <1>12, Elsewhere DEF Moves, SameRest
  <1> QED BY <1>7, <1>8, <1>13, <1>14

LEMMA WithSame ==
    ASSUME NEW g \in Shape
    PROVE  g = With(g, g.nonce, g.bal, g.code, g.dead, g.cur)
BY DEF Shape, With

LEMMA WithShape ==
    ASSUME NEW g \in Shape, NEW nonce \in 0..1, NEW bal \in 0..MaxBal, NEW code \in 0..1,
           NEW dead \in BOOLEAN, NEW cur \in [Key -> Val]
    PROVE  With(g, nonce, bal, code, dead, cur) \in Shape
BY DEF Shape, With

\* Nonce, balance, code and the mark of SELFDESTRUCT are set.
LEMMA WriteFields ==
    ASSUME NEW d, NEW w, NEW s, TxInv(d, w, s), NEW a \in Addr, a \in DOMAIN d.pre,
           Live(d, a), NEW p \in Object, p.touched = d.obj[a].touched,
           SameSlots(d.obj[a], p), p.deleted = d.obj[a].deleted, p.created = d.obj[a].created,
           d.eip158 => ~Bare(p) \/ (Bare(d.obj[a]) /\ Bare(p)),
           NEW x \in Entry, x.addr = a, OnObject(x),
           LET g == ShapeAt(d, a) IN
           UndoShape(With(g, p.nonce, p.bal, p.code, p.selfDestructed, g.cur), x, a, d.trie[a]) = g,
           NEW e, e = journalAppend([d EXCEPT !.obj[a] = p], x)
    PROVE  /\ Moves(d, e, w, s, a) /\ a \in DOMAIN e.obj
           /\ ShapeAt(e, a) = With(ShapeAt(d, a), p.nonce, p.bal, p.code, p.selfDestructed,
                                   ShapeAt(d, a).cur)
           /\ TouchedAt(e, a) = TouchedAt(d, a)
PROOF
  <1> DEFINE g == ShapeAt(d, a)
             G == With(g, p.nonce, p.bal, p.code, p.selfDestructed, g.cur)
             o == d.obj[a]
  <1>1. DbOK(d) /\ Kept(g, TouchedAt(d, a), w[a], d.eip158) BY TxNow
  <1>2. a \in DOMAIN d.obj /\ Alive(g) /\ o \in Object
    BY <1>1, SeesShape DEF DbOK
  <1>3. g = Shown(o, a \in d.destruct, d.trie[a]) /\ TouchedAt(d, a) = p.touched
    BY <1>2 DEF ShapeAt, TouchedAt
  <1>4. Shown(p, a \in d.destruct, d.trie[a]) = G
    <2> HIDE DEF o, g
    <2> QED BY <1>3, FieldsShape DEF o
  <1>5. /\ G.com = g.com /\ G.cur = g.cur /\ G.nonce = p.nonce /\ G.code = p.code
        /\ Alive(G) <=> Alive(g)
        /\ There(G)
    BY <1>2 DEF With, Alive, There
  <1>6. G \in Shape
    <2>1. (a \in d.destruct) \in BOOLEAN /\ d.trie[a] \in Accounts BY <1>1 DEF DbOK
    <2> QED BY <1>4, <2>1, ShownOK
  <1>7. g.nonce = o.nonce /\ g.code = o.code BY <1>3 DEF Shown
  <1> HIDE DEF g, G
  <1>8. Kept(G, p.touched, w[a], d.eip158)
    BY <1>1, <1>2, <1>3, <1>5, <1>6, <1>7, SMTT(30) DEF Kept, Bare
  <1>9. UndoShape(G, x, a, d.trie[a]) = ShapeAt(d, a) BY DEF G, g
  <1>10. /\ Moves(d, e, w, s, a) /\ ShapeAt(e, a) = G /\ a \in DOMAIN e.obj
         /\ TouchedAt(e, a) = TouchedAt(d, a)
    BY <1>2, <1>4, <1>5, <1>8, <1>9, WriteTx
  <1> QED BY <1>10 DEF G, g

\* a is recorded and has a live object; it shows g when e follows d.
Ready(d, a) == a \in DOMAIN d.pre /\ Live(d, a)
Sets(d, e, w, s, a, g) == Moves(d, e, w, s, a) /\ Ready(e, a) /\ ShapeAt(e, a) = g

LEMMA ReadyObject ==
    ASSUME NEW d, NEW w, NEW s, TxInv(d, w, s), NEW a \in Addr, Ready(d, a)
    PROVE  /\ a \in DOMAIN d.obj /\ a \in DOMAIN d.pre /\ d.obj[a] \in Object
           /\ ShapeAt(d, a) \in Shape /\ Alive(ShapeAt(d, a))
           /\ ShapeAt(d, a).nonce = d.obj[a].nonce /\ ShapeAt(d, a).bal = d.obj[a].bal
           /\ ShapeAt(d, a).code = d.obj[a].code /\ ShapeAt(d, a).dead = d.obj[a].selfDestructed
           /\ ShapeAt(d, a).created = d.obj[a].created
           /\ TouchedAt(d, a) = d.obj[a].touched
PROOF
  <1>1. DbOK(d) BY TxNow
  <1>2. a \in DOMAIN d.obj /\ a \in DOMAIN d.pre /\ d.obj[a] \in Object
    BY <1>1 DEF Ready, Live, DbOK
  <1>3. ShapeAt(d, a) \in Shape /\ Alive(ShapeAt(d, a)) BY <1>1, ShapeAtOK, SeesShape DEF Ready
  <1> QED BY <1>2, <1>3 DEF ShapeAt, Shown, TouchedAt

LEMMA IsReady ==
    ASSUME NEW d, NEW e, NEW w, NEW s, NEW a \in Addr, Moves(d, e, w, s, a),
           a \in DOMAIN e.pre, a \in DOMAIN e.obj, Alive(ShapeAt(e, a))
    PROVE  Ready(e, a)
PROOF
  <1>1. DbOK(e) BY TxNow DEF Moves
  <1> QED BY <1>1, SeesShape DEF Ready

LEMMA SetNonceTx ==
    ASSUME NEW d, NEW w, NEW s, TxInv(d, w, s), NEW a \in Addr, Ready(d, a)
    PROVE  LET g == ShapeAt(d, a) IN
           Sets(d, setNonce(d, a, 1), w, s, a, With(g, 1, g.bal, g.code, g.dead, g.cur))
PROOF
  <1> DEFINE o == d.obj[a]
             p == [o EXCEPT !.nonce = 1]
             x == [kind |-> "nonce", addr |-> a, prev |-> o.nonce]
             e == setNonce(d, a, 1)
             g == ShapeAt(d, a)
             G == With(g, p.nonce, p.bal, p.code, p.selfDestructed, g.cur)
  <1>1. /\ a \in DOMAIN d.obj /\ a \in DOMAIN d.pre /\ o \in Object /\ g \in Shape /\ Alive(g)
        /\ g.nonce = o.nonce /\ g.bal = o.bal /\ g.code = o.code /\ g.dead = o.selfDestructed
    BY ReadyObject
  <1>2. p \in Object /\ p.touched = o.touched BY <1>1 DEF Object, Cache
  <1>3. /\ SameSlots(o, p) /\ p.deleted = o.deleted /\ p.created = o.created
        /\ p.nonce = 1 /\ p.bal = o.bal /\ p.code = o.code /\ p.selfDestructed = o.selfDestructed
    BY <1>1 DEF Object, SameSlots
  <1>4. x \in Entry /\ x.addr = a /\ OnObject(x) BY <1>1 DEF Entry, Object, OnObject
  <1>5. e = journalAppend([d EXCEPT !.obj[a] = p], x) BY DEF setNonce
  <1>6. x.kind = "nonce" /\ x.prev = g.nonce BY <1>1
  <1> HIDE DEF p, x, e, o, g
  <1>7. UndoShape(G, x, a, d.trie[a]) = g
    <2>1. UndoShape(G, x, a, d.trie[a]) = With(G, x.prev, G.bal, G.code, G.dead, G.cur)
      BY <1>4, <1>6 DEF UndoShape
    <2>2. With(G, x.prev, G.bal, G.code, G.dead, G.cur) = With(g, g.nonce, g.bal, g.code, g.dead, g.cur)
      BY <1>1, <1>3, <1>6 DEF With
    <2> QED BY <1>1, <2>1, <2>2, WithSame
  <1>8. ~Bare(p) BY <1>3 DEF Bare
  <1>9. Moves(d, e, w, s, a) /\ a \in DOMAIN e.obj /\ ShapeAt(e, a) = G
    BY <1>1, <1>2, <1>3, <1>4, <1>5, <1>7, <1>8, WriteFields DEF Ready, o, g
  <1>10. G = With(g, 1, g.bal, g.code, g.dead, g.cur) BY <1>1, <1>3
  <1>11. Alive(G) BY <1>1 DEF Alive, There, With
  <1>12. Ready(e, a) BY <1>1, <1>9, <1>11, IsReady DEF Moves
  <1> QED BY <1>9, <1>10, <1>12 DEF Sets, e, g

LEMMA SetCodeTx ==
    ASSUME NEW d, NEW w, NEW s, TxInv(d, w, s), NEW a \in Addr, Ready(d, a)
    PROVE  LET g == ShapeAt(d, a) IN
           Sets(d, setCode(d, a, 1), w, s, a, With(g, g.nonce, g.bal, 1, g.dead, g.cur))
PROOF
  <1> DEFINE o == d.obj[a]
             p == [o EXCEPT !.code = 1]
             x == [kind |-> "code", addr |-> a, prev |-> o.code]
             e == setCode(d, a, 1)
             g == ShapeAt(d, a)
             G == With(g, p.nonce, p.bal, p.code, p.selfDestructed, g.cur)
  <1>1. /\ a \in DOMAIN d.obj /\ a \in DOMAIN d.pre /\ o \in Object /\ g \in Shape /\ Alive(g)
        /\ g.nonce = o.nonce /\ g.bal = o.bal /\ g.code = o.code /\ g.dead = o.selfDestructed
    BY ReadyObject
  <1>2. p \in Object /\ p.touched = o.touched BY <1>1 DEF Object, Cache
  <1>3. /\ SameSlots(o, p) /\ p.deleted = o.deleted /\ p.created = o.created
        /\ p.code = 1 /\ p.bal = o.bal /\ p.nonce = o.nonce /\ p.selfDestructed = o.selfDestructed
    BY <1>1 DEF Object, SameSlots
  <1>4. x \in Entry /\ x.addr = a /\ OnObject(x) BY <1>1 DEF Entry, Object, OnObject
  <1>5. e = journalAppend([d EXCEPT !.obj[a] = p], x) BY DEF setCode
  <1>6. x.kind = "code" /\ x.prev = g.code BY <1>1
  <1> HIDE DEF p, x, e, o, g
  <1>7. UndoShape(G, x, a, d.trie[a]) = g
    <2>1. UndoShape(G, x, a, d.trie[a]) = With(G, G.nonce, G.bal, x.prev, G.dead, G.cur)
      BY <1>4, <1>6 DEF UndoShape
    <2>2. With(G, G.nonce, G.bal, x.prev, G.dead, G.cur) = With(g, g.nonce, g.bal, g.code, g.dead, g.cur)
      BY <1>1, <1>3, <1>6 DEF With
    <2> QED BY <1>1, <2>1, <2>2, WithSame
  <1>8. ~Bare(p) BY <1>3 DEF Bare
  <1>9. Moves(d, e, w, s, a) /\ a \in DOMAIN e.obj /\ ShapeAt(e, a) = G
    BY <1>1, <1>2, <1>3, <1>4, <1>5, <1>7, <1>8, WriteFields DEF Ready, o, g
  <1>10. G = With(g, g.nonce, g.bal, 1, g.dead, g.cur) BY <1>1, <1>3
  <1>11. Alive(G) BY <1>1 DEF Alive, There, With
  <1>12. Ready(e, a) BY <1>1, <1>9, <1>11, IsReady DEF Moves
  <1> QED BY <1>9, <1>10, <1>12 DEF Sets, e, g

LEMMA SetBalanceTx ==
    ASSUME NEW d, NEW w, NEW s, TxInv(d, w, s), NEW a \in Addr, Ready(d, a), NEW n \in 0..MaxBal
    PROVE  LET g == ShapeAt(d, a) IN
           Sets(d, setBalance(d, a, n), w, s, a, With(g, g.nonce, n, g.code, g.dead, g.cur))
PROOF
  <1> DEFINE o == d.obj[a]
             p == [o EXCEPT !.bal = n]
             x == [kind |-> "balance", addr |-> a, prev |-> o.bal]
             e == setBalance(d, a, n)
             g == ShapeAt(d, a)
             G == With(g, p.nonce, p.bal, p.code, p.selfDestructed, g.cur)
  <1>1. /\ a \in DOMAIN d.obj /\ a \in DOMAIN d.pre /\ o \in Object /\ g \in Shape /\ Alive(g)
        /\ g.nonce = o.nonce /\ g.bal = o.bal /\ g.code = o.code /\ g.dead = o.selfDestructed
    BY ReadyObject
  <1>2. p \in Object /\ p.touched = o.touched BY <1>1 DEF Object, Cache
  <1>3. /\ SameSlots(o, p) /\ p.deleted = o.deleted /\ p.created = o.created
        /\ p.bal = n /\ p.code = o.code /\ p.nonce = o.nonce /\ p.selfDestructed = o.selfDestructed
    BY <1>1 DEF Object, SameSlots
  <1>4. x \in Entry /\ x.addr = a /\ OnObject(x) BY <1>1 DEF Entry, Object, OnObject
  <1>5. e = journalAppend([d EXCEPT !.obj[a] = p], x) BY DEF setBalance
  <1>6. x.kind = "balance" /\ x.prev = g.bal BY <1>1
  <1> HIDE DEF p, x, e, o, g
  <1>7. UndoShape(G, x, a, d.trie[a]) = g
    <2>1. UndoShape(G, x, a, d.trie[a]) = With(G, G.nonce, x.prev, G.code, G.dead, G.cur)
      BY <1>4, <1>6 DEF UndoShape
    <2>2. With(G, G.nonce, x.prev, G.code, G.dead, G.cur) = With(g, g.nonce, g.bal, g.code, g.dead, g.cur)
      BY <1>1, <1>3, <1>6 DEF With
    <2> QED BY <1>1, <2>1, <2>2, WithSame
  <1>8. ~Bare(p) \/ (Bare(o) /\ Bare(p)) BY <1>3 DEF Bare
  <1>9. Moves(d, e, w, s, a) /\ a \in DOMAIN e.obj /\ ShapeAt(e, a) = G
    BY <1>1, <1>2, <1>3, <1>4, <1>5, <1>7, <1>8, WriteFields DEF Ready, o, g
  <1>10. G = With(g, g.nonce, n, g.code, g.dead, g.cur) BY <1>1, <1>3
  <1>11. Alive(G) BY <1>1 DEF Alive, There, With
  <1>12. Ready(e, a) BY <1>1, <1>9, <1>11, IsReady DEF Moves
  <1> QED BY <1>9, <1>10, <1>12 DEF Sets, e, g

LEMMA MarkTx ==
    ASSUME NEW d, NEW w, NEW s, TxInv(d, w, s), NEW a \in Addr, Ready(d, a)
    PROVE  LET g == ShapeAt(d, a) IN
           Sets(d, markSelfdestructed(d, a), w, s, a, With(g, g.nonce, 0, g.code, TRUE, g.cur))
PROOF
  <1> DEFINE o == d.obj[a]
             yes == TRUE
             p == [o EXCEPT !.selfDestructed = yes, !.bal = 0]
             x == [kind |-> "selfdestruct", addr |-> a, prev |-> o.selfDestructed,
                   prevbalance |-> o.bal]
             e == markSelfdestructed(d, a)
             g == ShapeAt(d, a)
             G == With(g, p.nonce, p.bal, p.code, p.selfDestructed, g.cur)
  <1>1. /\ a \in DOMAIN d.obj /\ a \in DOMAIN d.pre /\ o \in Object /\ g \in Shape /\ Alive(g)
        /\ g.nonce = o.nonce /\ g.bal = o.bal /\ g.code = o.code /\ g.dead = o.selfDestructed
    BY ReadyObject
  <1>13. yes \in BOOLEAN /\ 0 \in 0..MaxBal BY RecorderAssumption
  <1>2. p \in Object /\ p.touched = o.touched
    <2> HIDE DEF yes
    <2> QED BY <1>1, <1>13 DEF Object, Cache
  <1>3. /\ SameSlots(o, p) /\ p.deleted = o.deleted /\ p.created = o.created
        /\ p.bal = 0 /\ p.code = o.code /\ p.nonce = o.nonce /\ p.selfDestructed = TRUE
    <2>1. /\ SameSlots(o, p) /\ p.deleted = o.deleted /\ p.created = o.created
          /\ p.bal = 0 /\ p.code = o.code /\ p.nonce = o.nonce /\ p.selfDestructed = yes
      <3> HIDE DEF yes
      <3> QED BY <1>1 DEF Object, SameSlots
    <2> QED BY <2>1
  <1>4. x \in Entry /\ x.addr = a /\ OnObject(x) BY <1>1 DEF Entry, Object, OnObject
  <1>5. e = journalAppend([d EXCEPT !.obj[a] = p], x)
    <2>1. [d EXCEPT !.obj[a].selfDestructed = yes, !.obj[a].bal = 0] = [d EXCEPT !.obj[a] = p]
      <3> HIDE DEF yes
      <3> QED BY <1>1, TxNow DEF DbOK, Fields, Object
    <2> QED BY <2>1 DEF markSelfdestructed, Ready
  <1>6. x.kind = "selfdestruct" /\ x.prev = g.dead /\ x.prevbalance = g.bal BY <1>1
  <1> HIDE DEF p, x, e, o, g
  <1>7. UndoShape(G, x, a, d.trie[a]) = g
    <2>1. UndoShape(G, x, a, d.trie[a]) = With(G, G.nonce, x.prevbalance, G.code, x.prev, G.cur)
      BY <1>4, <1>6 DEF UndoShape
    <2>2. With(G, G.nonce, x.prevbalance, G.code, x.prev, G.cur) = With(g, g.nonce, g.bal, g.code, g.dead, g.cur)
      BY <1>1, <1>3, <1>6 DEF With
    <2> QED BY <1>1, <2>1, <2>2, WithSame
  <1>8. ~Bare(p) \/ (Bare(o) /\ Bare(p)) BY <1>3 DEF Bare
  <1>9. Moves(d, e, w, s, a) /\ a \in DOMAIN e.obj /\ ShapeAt(e, a) = G
    BY <1>1, <1>2, <1>3, <1>4, <1>5, <1>7, <1>8, WriteFields DEF Ready, o, g
  <1>10. G = With(g, g.nonce, 0, g.code, TRUE, g.cur) BY <1>1, <1>3
  <1>11. Alive(G) BY <1>1 DEF Alive, There, With
  <1>12. Ready(e, a) BY <1>1, <1>9, <1>11, IsReady DEF Moves
  <1> QED BY <1>9, <1>10, <1>12 DEF Sets, e, g

\* A touch entry is undone by nothing.
LEMMA TouchEntryTx ==
    ASSUME NEW d, NEW w, NEW s, TxInv(d, w, s), NEW a \in Addr, Ready(d, a)
    PROVE  Sets(d, journalAppend(d, [kind |-> "touch", addr |-> a]), w, s, a, ShapeAt(d, a))
PROOF
  <1> DEFINE x == [kind |-> "touch", addr |-> a]
             e == journalAppend(d, x)
  <1>1. DbOK(d) /\ Kept(ShapeAt(d, a), TouchedAt(d, a), w[a], d.eip158) BY TxNow
  <1>2. /\ a \in DOMAIN d.obj /\ a \in DOMAIN d.pre /\ Alive(ShapeAt(d, a)) BY ReadyObject
  <1>3. x \in Entry /\ x.addr = a /\ x.kind = "touch" BY DEF Entry
  <1>4. DOMAIN d = Fields BY <1>1 DEF DbOK
  <1> HIDE DEF x
  <1>5. /\ SameRest(d, e) /\ e.obj = d.obj /\ e.destruct = d.destruct
        /\ e.journal = Append(d.journal, x)
    BY <1>4, AppendEntry
  <1> HIDE DEF e
  <1>6. OnlyAt(d, e, a) BY <1>5 DEF OnlyAt
  <1>7. DbOK(e) BY <1>1, <1>5 DEF DbOK, SameRest
  <1>8. \A b : ShapeAt(e, b) = ShapeAt(d, b) /\ TouchedAt(e, b) = TouchedAt(d, b)
    BY <1>5 DEF ShapeAt, TouchedAt, SameRest
  <1>9. /\ UndoShape(ShapeAt(e, a), x, a, d.trie[a]) = ShapeAt(d, a)
        /\ TouchedAt(d, a) \subseteq UndoTouched(TouchedAt(e, a), x, a)
    BY <1>3, <1>8 DEF UndoShape, UndoTouched
  <1>10. x.kind # "create" /\ a \in DOMAIN e.obj /\ Alive(ShapeAt(e, a)) BY <1>2, <1>3, <1>5, <1>8
  <1>11. Kept(ShapeAt(e, a), TouchedAt(e, a), w[a], d.eip158) BY <1>1, <1>8
  <1>12. TxInv(e, w, s)
    BY <1>2, <1>3, <1>5, <1>6, <1>7, <1>9, <1>10, <1>11, ExtendsTx
  <1>13. Moves(d, e, w, s, a) /\ e.pre = d.pre BY <1>5, <1>8, <1>12 DEF Moves, SameRest
  <1>14. Ready(e, a) BY <1>2, <1>5, <1>8, <1>13, IsReady
  <1> QED BY <1>8, <1>13, <1>14 DEF Sets, e, x

\* The object of a gets other caches: nothing is journaled, no shape changes.
LEMMA CacheTx ==
    ASSUME NEW d, NEW w, NEW s, TxInv(d, w, s), NEW a \in Addr, Ready(d, a),
           NEW p \in Object, d.obj[a].touched \subseteq p.touched,
           Shown(p, a \in d.destruct, d.trie[a]) = ShapeAt(d, a),
           NEW e, e = [d EXCEPT !.obj[a] = p]
    PROVE  Sets(d, e, w, s, a, ShapeAt(d, a)) /\ TouchedAt(e, a) = p.touched
PROOF
  <1>1. DbOK(d) /\ TxOK(d, w, s) BY TxNow
  <1>2. /\ a \in DOMAIN d.obj /\ a \in DOMAIN d.pre /\ Alive(ShapeAt(d, a)) BY ReadyObject
  <1>4. /\ OnlyAt(d, e, a) /\ DbOK(e) /\ e.journal = d.journal /\ a \in DOMAIN e.obj
        /\ ShapeAt(e, a) = ShapeAt(d, a) /\ TouchedAt(e, a) = p.touched
    BY <1>1, <1>2, ExceptShape
  <1>3. SameRest(d, e) BY <1>4 DEF OnlyAt
  <1>5. \A b \in Addr : ShapeAt(e, b) = ShapeAt(d, b) /\ TouchedAt(d, b) \subseteq TouchedAt(e, b)
    BY <1>2, <1>4, Elsewhere DEF TouchedAt
  <1>6. /\ e.trie = d.trie /\ e.revs = d.revs /\ e.eip158 = d.eip158 /\ e.pre = d.pre
        /\ e.post = d.post
    BY <1>3 DEF SameRest
  <1>11. DOMAIN d.obj \subseteq DOMAIN e.obj BY <1>4 DEF OnlyAt
  <1>7. TxOK(e, w, s) BY <1>1, <1>4, <1>6, <1>11 DEF TxOK
  <1>8. TxInv(e, w, s) BY <1>4, <1>5, <1>6, <1>7, KeepsTx
  <1>9. Moves(d, e, w, s, a)
    <2>1. /\ e.revs = d.revs /\ e.eip158 = d.eip158 /\ DOMAIN d.pre \subseteq DOMAIN e.pre
          /\ \A b \in Addr : b # a => ShapeAt(e, b) = ShapeAt(d, b)
      BY <1>5, <1>6
    <2> QED BY <1>8, <2>1 DEF Moves
  <1>10. Ready(e, a) BY <1>2, <1>4, <1>6, <1>9, IsReady
  <1> QED BY <1>4, <1>9, <1>10 DEF Sets

LEMMA CacheKeyTx ==
    ASSUME NEW d, NEW w, NEW s, TxInv(d, w, s), NEW a \in Addr, Ready(d, a), NEW k \in Key
    PROVE  Sets(d, cacheKey(d, a, k), w, s, a, ShapeAt(d, a))
PROOF
  <1> DEFINE o == d.obj[a]
             gone == a \in d.destruct
             t == d.trie[a]
             e == cacheKey(d, a, k)
             v == committedState(d, a, k)
  <1>1. /\ a \in DOMAIN d.obj /\ o \in Object /\ DbOK(d) BY ReadyObject, TxNow
  <1>2. ShapeAt(d, a) = Shown(o, gone, t) BY <1>1 DEF ShapeAt
  <1>3. v = Com(o, gone, t)[k] BY <1>1 DEF committedState, Com
  <1>4. gone \in BOOLEAN /\ t \in Accounts BY <1>1 DEF DbOK
  <1>5. v \in Val
    <2> HIDE DEF o, gone, t, v
    <2> QED BY <1>1, <1>3, <1>4, ComCur
  <1>6. CASE o.dirty[k] = None /\ o.pend[k] = None /\ ~gone
    <2> DEFINE p == [o EXCEPT !.origin[k] = v]
    <2>1. e = [d EXCEPT !.obj[a] = p]
      <3> HIDE DEF v
      <3> QED BY <1>6 DEF cacheKey, v
    <2> HIDE DEF v, gone, t, o
    <2>2. p \in Object /\ p.touched = o.touched BY <1>1, <1>5 DEF Object, Cache
    <2>3. /\ p.pend = o.pend /\ p.dirty = o.dirty /\ p.nonce = o.nonce /\ p.bal = o.bal
          /\ p.code = o.code /\ p.selfDestructed = o.selfDestructed /\ p.deleted = o.deleted
          /\ p.created = o.created
          /\ \A l \in Key : p.origin[l] = IF l = k THEN v ELSE o.origin[l]
      BY <1>1 DEF Object, Cache
    <2>4. Com(p, gone, t) = Com(o, gone, t)
      <3>1. \A l \in Key : Com(p, gone, t)[l] = Com(o, gone, t)[l]
        BY <1>3, <1>5, <1>6, <2>3, NoneApart DEF Com
      <3> QED BY <3>1 DEF Com
    <2>5. Cur(p, gone, t) = Cur(o, gone, t) BY <2>3, <2>4 DEF Cur
    <2>6. Shown(p, gone, t) = Shown(o, gone, t) BY <2>3, <2>4, <2>5 DEF Shown
    <2> HIDE DEF p, e
    <2> QED BY <1>2, <2>1, <2>2, <2>6, CacheTx DEF gone, t, o, e
  <1>7. CASE ~(o.dirty[k] = None /\ o.pend[k] = None /\ ~gone)
    <2>1. e = d BY <1>7 DEF cacheKey
    <2> HIDE DEF e
    <2> QED BY <2>1 DEF Sets, Moves, e
  <1> QED BY <1>6, <1>7

LEMMA TouchKeyTx ==
    ASSUME NEW d, NEW w, NEW s, TxInv(d, w, s), NEW a \in Addr, Ready(d, a), NEW k \in Key
    PROVE  /\ Sets(d, touchKey(d, a, k), w, s, a, ShapeAt(d, a))
           /\ k \in TouchedAt(touchKey(d, a, k), a)
PROOF
  <1> DEFINE c == cacheKey(d, a, k)
             o == c.obj[a]
             p == [o EXCEPT !.touched = @ \cup {k}]
             e == [c EXCEPT !.obj[a] = p]
  <1>1. touchKey(d, a, k) = e
    <2> HIDE DEF c
    <2> QED BY DEF touchKey, c
  <1> HIDE DEF c
  <1>2. Sets(d, c, w, s, a, ShapeAt(d, a)) BY CacheKeyTx DEF c
  <1>3. TxInv(c, w, s) /\ Ready(c, a) BY <1>2 DEF Sets, Moves
  <1>4. a \in DOMAIN c.obj /\ o \in Object BY <1>3, ReadyObject
  <1>5. p \in Object /\ p.touched = o.touched \cup {k} BY <1>4 DEF Object, Cache
  <1>6. /\ SameSlots(o, p) /\ p.deleted = o.deleted /\ p.created = o.created
        /\ p.bal = o.bal /\ p.code = o.code /\ p.nonce = o.nonce /\ p.selfDestructed = o.selfDestructed
    BY <1>4 DEF Object, SameSlots
  <1>7. ShapeAt(c, a) = Shown(o, a \in c.destruct, c.trie[a]) BY <1>4 DEF ShapeAt
  <1> HIDE DEF p, o
  <1>8. Shown(p, a \in c.destruct, c.trie[a]) = Shown(o, a \in c.destruct, c.trie[a])
    <2>1. /\ Com(p, a \in c.destruct, c.trie[a]) = Com(o, a \in c.destruct, c.trie[a])
          /\ Cur(p, a \in c.destruct, c.trie[a]) = Cur(o, a \in c.destruct, c.trie[a])
      BY <1>6, SlotsShown
    <2> QED BY <1>6, <2>1 DEF Shown
  <1> HIDE DEF e
  <1>9. Sets(c, e, w, s, a, ShapeAt(c, a)) /\ TouchedAt(e, a) = p.touched
    BY <1>3, <1>5, <1>7, <1>8, CacheTx DEF e, o
  <1>10. Sets(d, e, w, s, a, ShapeAt(d, a))
    BY <1>2, <1>9, MovesOn DEF Sets
  <1> QED BY <1>1, <1>5, <1>9, <1>10

\* A touched slot is written.
LEMMA SetSlotTx ==
    ASSUME NEW d, NEW w, NEW s, TxInv(d, w, s), NEW a \in Addr, Ready(d, a),
           NEW k \in Key, NEW v \in Val, k \in TouchedAt(d, a),
           d.eip158 => ~Bare(ShapeAt(d, a))
    PROVE  LET g == ShapeAt(d, a) IN
           Sets(d, setSlot(d, a, k, v), w, s, a,
                With(g, g.nonce, g.bal, g.code, g.dead, PutSlot(g.cur, k, v)))
PROOF
  <1> DEFINE o == d.obj[a]
             g == ShapeAt(d, a)
             old == g.cur[k]
             e == setSlot(d, a, k, v)
             p == [o EXCEPT !.dirty[k] = v]
             x == [kind |-> "storage", addr |-> a, key |-> k, prev |-> old]
             G == With(g, g.nonce, g.bal, g.code, g.dead, PutSlot(g.cur, k, v))
  <1>1. /\ a \in DOMAIN d.obj /\ a \in DOMAIN d.pre /\ o \in Object /\ g \in Shape /\ Alive(g)
        /\ TouchedAt(d, a) = o.touched
    BY ReadyObject
  <1>2. DbOK(d) /\ Kept(g, TouchedAt(d, a), w[a], d.eip158) BY TxNow
  <1>3. currentState(d, a, k) = old BY <1>1, <1>2, SeesShape
  <1>4. g.cur \in [Key -> Val] /\ old \in Val BY <1>1 DEF Shape
  <1>5. CASE old = v
    <2>1. e = d BY <1>3, <1>5 DEF setSlot
    <2>2. PutSlot(g.cur, k, v) = g.cur BY <1>4, <1>5 DEF PutSlot
    <2>3. G = g BY <1>1, <2>2, WithSame
    <2> HIDE DEF G, e, g
    <2> QED BY <2>1, <2>3 DEF Sets, Moves, G, g, e
  <1>6. CASE old # v
    <2>1. e = journalAppend([d EXCEPT !.obj[a] = p], x) BY <1>3, <1>6 DEF setSlot
    <2>2. x \in Entry /\ x.addr = a /\ OnObject(x) BY <1>4 DEF Entry, OnObject
    <2>3. p \in Object /\ p.touched = o.touched BY <1>1 DEF Object, Cache
    <2>4. /\ p.deleted = o.deleted /\ p.created = o.created /\ p.nonce = o.nonce
          /\ p.bal = o.bal /\ p.code = o.code /\ p.selfDestructed = o.selfDestructed
          /\ p.pend = o.pend /\ p.origin = o.origin
          /\ \A l \in Key : p.dirty[l] = IF l = k THEN v ELSE o.dirty[l]
      BY <1>1 DEF Object, Cache
    <2>5. g = Shown(o, a \in d.destruct, d.trie[a]) BY <1>1 DEF ShapeAt
    <2>6. x.kind = "storage" /\ x.key = k /\ x.prev = old OBVIOUS
    <2> HIDE DEF p, o, x, e, g
    <2>7. G = Shown(p, a \in d.destruct, d.trie[a]) BY <2>4, <2>5, SlotShape
    <2>8. UndoShape(G, x, a, d.trie[a]) = g
      <3>1. UndoShape(G, x, a, d.trie[a])
              = With(G, G.nonce, G.bal, G.code, G.dead, PutSlot(G.cur, k, old))
        BY <2>2, <2>6 DEF UndoShape
      <3>2. PutSlot(PutSlot(g.cur, k, v), k, old) = g.cur BY <1>4 DEF PutSlot
      <3>3. With(G, G.nonce, G.bal, G.code, G.dead, PutSlot(G.cur, k, old))
              = With(g, g.nonce, g.bal, g.code, g.dead, g.cur)
        BY <3>2 DEF With
      <3> QED BY <1>1, <3>1, <3>3, WithSame
    <2>9. PutSlot(g.cur, k, v) \in [Key -> Val] BY <1>4 DEF PutSlot
    <2>10. G \in Shape
      BY <1>1, <2>9, WithShape DEF Shape
    <2>11. /\ G.com = g.com /\ G.nonce = g.nonce /\ G.code = g.code
           /\ Alive(G) /\ There(G)
           /\ \A l \in Key : l # k => G.cur[l] = g.cur[l]
      BY <1>1 DEF With, Alive, There, PutSlot
    <2> HIDE DEF G
    <2>12. Kept(G, p.touched, w[a], d.eip158)
      BY <1>1, <1>2, <2>3, <2>10, <2>11 DEF Kept, Bare, g
    <2>13. Moves(d, e, w, s, a) /\ ShapeAt(e, a) = G /\ a \in DOMAIN e.obj
      BY <1>1, <2>1, <2>2, <2>3, <2>7, <2>8, <2>11, <2>12, WriteTx DEF o, g
    <2>14. Ready(e, a) BY <1>1, <2>11, <2>13, IsReady DEF Moves
    <2> QED BY <2>13, <2>14 DEF Sets, e, G, g
  <1> QED BY <1>5, <1>6

\* The object that an overwrite writes, with balance b.
Fresh(p, b) ==
    /\ p \in Object /\ p.nonce = 0 /\ p.code = 0 /\ p.bal = b
    /\ p.pend = NoSlots /\ p.origin = NoSlots /\ p.dirty = NoSlots
    /\ ~p.deleted /\ ~p.selfDestructed /\ p.created /\ p.touched = {}

LEMMA FreshNew == Fresh(newObject(Nil), 0)
PROOF
  <1>1. newObject(Nil) \in Object BY NewObjectOK DEF Accounts
  <1> QED BY <1>1 DEF Fresh, newObject

LEMMA FreshBalance ==
    ASSUME NEW o, NEW c, Fresh(o, c), NEW b \in 0..MaxBal
    PROVE  Fresh([o EXCEPT !.bal = b], b)
PROOF
  <1> DEFINE p == [o EXCEPT !.bal = b]
  <1>1. o \in Object BY DEF Fresh
  <1>2. p \in Object BY <1>1 DEF Object, Cache
  <1>3. /\ p.nonce = o.nonce /\ p.code = o.code /\ p.bal = b /\ p.pend = o.pend
        /\ p.origin = o.origin /\ p.dirty = o.dirty /\ p.touched = o.touched
        /\ p.deleted = o.deleted /\ p.selfDestructed = o.selfDestructed /\ p.created = o.created
    BY <1>1 DEF Object
  <1> HIDE DEF p
  <1> QED BY <1>2, <1>3 DEF Fresh, p

FreshShape(g, b) ==
    /\ g \in Shape /\ Alive(g) /\ g.nonce = 0 /\ g.code = 0 /\ g.bal = b
    /\ g.created /\ ~g.dead
    /\ \A k \in Key : g.com[k] = 0 /\ g.cur[k] = 0

LEMMA FreshShown ==
    ASSUME NEW p, NEW b, Fresh(p, b), NEW gone \in BOOLEAN, NEW t \in Accounts, gone \/ t = Nil
    PROVE  FreshShape(Shown(p, gone, t), b)
PROOF
  <1>1. Shown(p, gone, t) \in Shape BY ShownOK DEF Fresh
  <1>2. \A k \in Key : Com(p, gone, t)[k] = 0 /\ Cur(p, gone, t)[k] = 0
    BY DEF Com, Cur, Fresh, NoSlots
  <1> QED BY <1>1, <1>2 DEF FreshShape, Shown, Alive, There, Fresh

\* What createObject and CreateAccount do to the StateDB.
Overwritten(d, e, a, b) ==
    /\ SameRest(d, e) /\ DOMAIN e.obj = DOMAIN d.obj \cup {a} /\ Fresh(e.obj[a], b)
    /\ \A c \in DOMAIN d.obj : c # a => e.obj[c] = d.obj[c]
    /\ e.destruct = IF a \in DOMAIN d.obj THEN d.destruct \cup {a} ELSE d.destruct
    /\ e.journal = Append(d.journal,
            IF a \notin DOMAIN d.obj THEN [kind |-> "create", addr |-> a]
            ELSE [kind |-> "reset", addr |-> a, prev |-> d.obj[a],
                  prevdestruct |-> a \in d.destruct])

LEMMA OverwriteFields ==
    ASSUME NEW d, DbOK(d), NEW a \in Addr
    PROVE  Overwritten(d, overwrite(d, a), a, 0)
PROOF
  <1> DEFINE o == newObject(Nil)
             c == setStateObject(d, a, o)
             e == overwrite(d, a)
  <1>1. Fresh(o, 0) BY FreshNew
  <1> HIDE DEF o
  <1>2. /\ SameRest(d, c) /\ c.destruct = d.destruct /\ c.journal = d.journal
        /\ DOMAIN c.obj = DOMAIN d.obj \cup {a} /\ c.obj[a] = o
        /\ \A b \in DOMAIN d.obj : b # a => c.obj[b] = d.obj[b]
    BY SetObject
  <1>3. CASE a \notin DOMAIN d.obj
    <2> DEFINE x == [kind |-> "create", addr |-> a]
    <2>1. e = journalAppend(c, x) BY <1>3 DEF overwrite, o
    <2> HIDE DEF c, e, x
    <2>2. DOMAIN c = Fields BY <1>2 DEF SameRest
    <2>3. /\ SameRest(c, e) /\ e.obj = c.obj /\ e.destruct = c.destruct
          /\ e.journal = Append(c.journal, x)
      BY <2>1, <2>2, AppendEntry
    <2>4. SameRest(d, e) BY <1>2, <2>3 DEF SameRest
    <2> QED BY <1>1, <1>2, <1>3, <2>3, <2>4 DEF Overwritten, e, x
  <1>4. CASE a \in DOMAIN d.obj
    <2> DEFINE x == [kind |-> "reset", addr |-> a, prev |-> d.obj[a],
                     prevdestruct |-> a \in d.destruct]
               f == [c EXCEPT !.destruct = c.destruct \cup {a}]
    <2>1. e = journalAppend(f, x) BY <1>4 DEF overwrite, o
    <2> HIDE DEF c, e, x
    <2>2. DOMAIN c = Fields BY <1>2 DEF SameRest
    <2>3. SameRest(c, f) /\ f.obj = c.obj /\ f.destruct = c.destruct \cup {a} /\ f.journal = c.journal
      BY <2>2 DEF SameRest, Fields
    <2> HIDE DEF f
    <2>4. DOMAIN f = Fields BY <2>3 DEF SameRest
    <2>5. /\ SameRest(f, e) /\ e.obj = f.obj /\ e.destruct = f.destruct
          /\ e.journal = Append(f.journal, x)
      BY <2>1, <2>4, AppendEntry
    <2>6. SameRest(d, e) BY <1>2, <2>3, <2>5 DEF SameRest
    <2>7. Fresh(e.obj[a], 0) BY <1>1, <1>2, <2>3, <2>5
    <2> QED BY <1>2, <1>4, <2>3, <2>5, <2>6, <2>7 DEF Overwritten, e, x
  <1> QED BY <1>3, <1>4

LEMMA KeepBalanceFields ==
    ASSUME NEW d, DbOK(d), NEW a \in Addr
    PROVE  Overwritten(d, overwriteKeepBalance(d, a), a, IF Live(d, a) THEN d.obj[a].bal ELSE 0)
PROOF
  <1> DEFINE c == overwrite(d, a)
             e == overwriteKeepBalance(d, a)
  <1>1. Overwritten(d, c, a, 0) BY OverwriteFields
  <1>2. CASE ~Live(d, a) BY <1>1, <1>2 DEF overwriteKeepBalance
  <1>3. CASE Live(d, a)
    <2> DEFINE b == d.obj[a].bal
               p == [c.obj[a] EXCEPT !.bal = b]
               f == [c EXCEPT !.obj[a] = p]
    <2>1. b \in 0..MaxBal BY <1>3 DEF Live, DbOK, Object
    <2>2. e = f
      <3> HIDE DEF c
      <3> QED BY <1>3 DEF overwriteKeepBalance, c
    <2> HIDE DEF c, b
    <2>3. DOMAIN c = Fields /\ a \in DOMAIN c.obj /\ Fresh(c.obj[a], 0)
      BY <1>1 DEF Overwritten, SameRest
    <2>4. Fresh(p, b) BY <2>1, <2>3, FreshBalance
    <2> HIDE DEF p
    <2>5. /\ SameRest(c, f) /\ f.destruct = c.destruct /\ f.journal = c.journal
          /\ DOMAIN f.obj = DOMAIN c.obj /\ f.obj[a] = p
          /\ \A x \in DOMAIN c.obj : x # a => f.obj[x] = c.obj[x]
      BY <2>3 DEF SameRest, Fields
    <2> HIDE DEF f
    <2>6. SameRest(d, f) BY <1>1, <2>5 DEF SameRest, Overwritten
    <2>7. Overwritten(d, f, a, b) BY <1>1, <2>4, <2>5, <2>6 DEF Overwritten
    <2> QED BY <1>3, <2>2, <2>7 DEF b
  <1> QED BY <1>2, <1>3

LEMMA OverwriteTx ==
    ASSUME NEW d, NEW w, NEW s, TxInv(d, w, s), NEW a \in Addr, a \in DOMAIN d.pre,
           a \notin DOMAIN d.obj => d.trie[a] = Nil,
           d.eip158 /\ Live(d, a) => Bare(ShapeAt(d, a)) /\ Clean(w[a]),
           NEW e, NEW b, Overwritten(d, e, a, b)
    PROVE  Moves(d, e, w, s, a) /\ Ready(e, a) /\ FreshShape(ShapeAt(e, a), b)
PROOF
  <1> DEFINE p == e.obj[a]
             G == Shown(p, a \in e.destruct, d.trie[a])
  <1>1. /\ DbOK(d) /\ TxOK(d, w, s) /\ WorldOK(w, d.eip158)
        /\ Kept(ShapeAt(d, a), TouchedAt(d, a), w[a], d.eip158)
    BY TxNow DEF TxOK
  <1>2. SameRest(d, e) /\ a \in DOMAIN e.obj /\ Fresh(p, b) /\ p \in Object
    BY DEF Overwritten, Fresh
  <1>3. OnlyAt(d, e, a) BY <1>2 DEF OnlyAt, Overwritten
  <1>4. DbOK(e) BY <1>1, <1>2, <1>3, OnlyAtOK
  <1>5. ShapeAt(e, a) = G /\ TouchedAt(e, a) = {}
    BY <1>2 DEF ShapeAt, TouchedAt, SameRest, Fresh
  <1>6. (a \in e.destruct) \in BOOLEAN /\ d.trie[a] \in Accounts BY <1>1 DEF DbOK
  <1>7. a \in e.destruct \/ d.trie[a] = Nil BY DEF Overwritten
  <1>8. FreshShape(G, b)
    <2> HIDE DEF p
    <2> QED BY <1>2, <1>6, <1>7, FreshShown
  <1> HIDE DEF G, p
  <1>9. Kept(G, {}, w[a], d.eip158)
    <2>1. /\ G \in Shape /\ Alive(G) /\ There(G) /\ Bare(G)
          /\ \A k \in Key : G.cur[k] = 0 /\ G.com[k] = 0
      BY <1>8 DEF FreshShape, Alive, Bare
    <2>2. ASSUME w[a] # Nil, d.eip158
          PROVE  Bare(w[a]) /\ \A k \in Key : w[a].storage[k] = 0
      <3>1. Alive(ShapeAt(d, a)) BY <1>1, <2>2 DEF Kept
      <3>2. a \in DOMAIN d.obj BY <3>1 DEF Alive, There, ShapeAt, Absent
      <3>3. Bare(ShapeAt(d, a)) BY <1>1, <2>2, <3>1, <3>2, SeesShape
      <3>4. Bare(w[a]) BY <1>1, <2>2, <3>1, <3>3 DEF Kept
      <3>5. Clean(w[a]) BY <1>1, <2>2, <3>1, <3>2, SeesShape
      <3> QED BY <2>2, <3>4, <3>5 DEF Clean
    <2> QED BY <2>1, <2>2 DEF Kept
  <1>10. TxInv(e, w, s)
    <2>1. CASE a \notin DOMAIN d.obj
      <3> DEFINE x == [kind |-> "create", addr |-> a]
      <3>1. x \in Entry /\ x.addr = a /\ x.kind = "create" BY DEF Entry
      <3>2. e.journal = Append(d.journal, x) /\ e.destruct = d.destruct
        BY <2>1 DEF Overwritten
      <3> HIDE DEF x
      <3>3. (a \in e.destruct) = (a \in d.destruct) BY <3>2
      <3>4. ShapeAt(d, a) = Absent(a \in d.destruct) BY <2>1 DEF ShapeAt
      <3>5. G.gone = (a \in d.destruct) BY <3>3 DEF G, Shown
      <3>6. UndoShape(G, x, a, d.trie[a]) = ShapeAt(d, a)
        BY <3>1, <3>4, <3>5 DEF UndoShape
      <3>7. TouchedAt(d, a) = {} BY <2>1 DEF TouchedAt
      <3>8. a \in DOMAIN e.obj /\ Alive(ShapeAt(e, a)) BY <1>2, <1>5, <1>8 DEF FreshShape
      <3> QED BY <1>3, <1>4, <1>5, <1>9, <2>1, <3>1, <3>2, <3>6, <3>7, <3>8, ExtendsTx
    <2>2. CASE a \in DOMAIN d.obj
      <3> DEFINE x == [kind |-> "reset", addr |-> a, prev |-> d.obj[a],
                       prevdestruct |-> a \in d.destruct]
      <3>1. d.obj[a] \in Object BY <1>1, <2>2 DEF DbOK
      <3>2. x \in Entry /\ x.addr = a /\ x.kind = "reset" /\ x.prev = d.obj[a]
        BY <3>1 DEF Entry
      <3>3. x.prevdestruct = (a \in d.destruct) OBVIOUS
      <3>4. e.journal = Append(d.journal, x) /\ a \in e.destruct
        BY <2>2 DEF Overwritten
      <3> HIDE DEF x
      <3>5. G.gone <=> TRUE BY <3>4 DEF G, Shown
      <3>6. (x.prevdestruct /\ G.gone) = (a \in d.destruct)
        <4>1. x.prevdestruct <=> a \in d.destruct BY <3>3
        <4> QED BY <3>5, <4>1
      <3>7. UndoShape(G, x, a, d.trie[a]) = Shown(d.obj[a], a \in d.destruct, d.trie[a])
        BY <3>2, <3>6 DEF UndoShape
      <3>8. UndoShape(G, x, a, d.trie[a]) = ShapeAt(d, a)
        BY <2>2, <3>7 DEF ShapeAt
      <3>9. UndoTouched({}, x, a) = TouchedAt(d, a) BY <2>2, <3>2 DEF TouchedAt, UndoTouched
      <3>10. x.kind # "create" /\ a \in DOMAIN e.obj /\ Alive(ShapeAt(e, a))
        BY <1>2, <1>5, <1>8, <3>2 DEF FreshShape
      <3> QED BY <1>3, <1>4, <1>5, <1>9, <3>2, <3>4, <3>8, <3>9, <3>10, ExtendsTx
    <2> QED BY <2>1, <2>2
  <1>11. Moves(d, e, w, s, a)
    <2>1. e.revs = d.revs /\ e.eip158 = d.eip158 /\ e.pre = d.pre BY <1>2 DEF SameRest
    <2>2. \A c \in Addr : c # a => ShapeAt(e, c) = ShapeAt(d, c) BY <1>3, Elsewhere
    <2> QED BY <1>10, <2>1, <2>2 DEF Moves
  <1>12. Ready(e, a) BY <1>2, <1>5, <1>8, <1>11, IsReady DEF FreshShape, Moves
  <1> QED BY <1>5, <1>8, <1>11, <1>12

-------------------------------------------------------------------------------
(***************************************************************************)
(* The methods the EVM calls.                                              *)
(***************************************************************************)
Bal(g) == IF Alive(g) THEN g.bal ELSE 0

LEMMA CreateAccountTx ==
    ASSUME NEW d, NEW w, NEW s, TxInv(d, w, s), NEW a \in Addr, a \in DOMAIN d.pre,
           d.eip158 /\ Alive(ShapeAt(d, a)) => Bare(ShapeAt(d, a)) /\ Clean(w[a])
    PROVE  LET e == CreateAccount(d, a) IN
           Moves(d, e, w, s, a) /\ Ready(e, a) /\ FreshShape(ShapeAt(e, a), Bal(ShapeAt(d, a)))
PROOF
  <1> DEFINE c == getDeletedStateObject(d, a)
             e == overwriteKeepBalance(c, a)
             b == IF Live(c, a) THEN c.obj[a].bal ELSE 0
  <1>1. CreateAccount(d, a) = e BY DEF CreateAccount
  <1> HIDE DEF c, e, b
  <1>2. /\ Moves(d, c, w, s, a) /\ ShapeAt(c, a) = ShapeAt(d, a) /\ c.pre = d.pre
        /\ a \in DOMAIN c.obj <=> There(ShapeAt(d, a))
        /\ a \notin DOMAIN c.obj => c.trie[a] = Nil
    BY LoadTx DEF c
  <1>3. TxInv(c, w, s) /\ c.eip158 = d.eip158 BY <1>2 DEF Moves
  <1>4. DbOK(c) BY <1>3, TxNow
  <1>5. Live(c, a) <=> Alive(ShapeAt(d, a)) BY <1>2, <1>4, SeesShape DEF Alive
  <1>6. Overwritten(c, e, a, b) BY <1>4, KeepBalanceFields DEF e, b
  <1>7. b = Bal(ShapeAt(d, a))
    BY <1>2, <1>5 DEF b, Bal, ShapeAt, Shown, Live
  <1>8. Moves(c, e, w, s, a) /\ Ready(e, a) /\ FreshShape(ShapeAt(e, a), b)
    BY <1>2, <1>3, <1>5, <1>6, OverwriteTx
  <1>9. Moves(d, e, w, s, a) BY <1>2, <1>8, MovesOn
  <1> QED BY <1>1, <1>7, <1>8, <1>9

LEMMA GetOrNewTx ==
    ASSUME NEW d, NEW w, NEW s, TxInv(d, w, s), NEW a \in Addr
    PROVE  LET e == getOrNewStateObject(d, a) IN
           /\ Moves(d, e, w, s, a) /\ Ready(e, a)
           /\ Alive(ShapeAt(d, a)) => ShapeAt(e, a) = ShapeAt(d, a)
           /\ ~Alive(ShapeAt(d, a)) => FreshShape(ShapeAt(e, a), 0)
PROOF
  <1> DEFINE c == getStateObject(d, a)
             e == createIfAbsent(c, a)
  <1>1. getOrNewStateObject(d, a) = e BY DEF getOrNewStateObject
  <1> HIDE DEF c, e
  <1>2. /\ Moves(d, c, w, s, a) /\ ShapeAt(c, a) = ShapeAt(d, a) /\ a \in DOMAIN c.pre
        /\ a \in DOMAIN c.obj <=> There(ShapeAt(d, a))
        /\ a \notin DOMAIN c.obj => c.trie[a] = Nil
    BY GetTx DEF c
  <1>3. TxInv(c, w, s) BY <1>2 DEF Moves
  <1>4. DbOK(c) BY <1>3, TxNow
  <1>5. Live(c, a) <=> Alive(ShapeAt(d, a)) BY <1>2, <1>4, SeesShape DEF Alive
  <1>6. CASE Live(c, a)
    <2>1. e = c BY <1>6 DEF e, createIfAbsent
    <2> QED BY <1>1, <1>2, <1>5, <1>6, <2>1 DEF Ready
  <1>7. CASE ~Live(c, a)
    <2>1. getDeletedStateObject(c, a) = c BY <1>2 DEF getDeletedStateObject
    <2>2. e = overwrite(c, a) BY <1>7, <2>1 DEF e, createIfAbsent, createObject
    <2>3. Overwritten(c, e, a, 0) BY <1>4, <2>2, OverwriteFields
    <2>4. Moves(c, e, w, s, a) /\ Ready(e, a) /\ FreshShape(ShapeAt(e, a), 0)
      BY <1>2, <1>3, <1>7, <2>3, OverwriteTx
    <2> QED BY <1>1, <1>2, <1>5, <1>7, <2>4, MovesOn
  <1> QED BY <1>6, <1>7

LEMMA SetsOn ==
    ASSUME NEW d, NEW e, NEW f, NEW w, NEW s, NEW a, NEW g, Moves(d, e, w, s, a), Sets(e, f, w, s, a, g)
    PROVE  Moves(d, f, w, s, a) /\ Ready(f, a) /\ ShapeAt(f, a) = g /\ TxInv(f, w, s)
BY MovesOn DEF Sets, Moves

LEMMA NonceAndCodeTx ==
    ASSUME NEW d, NEW w, NEW s, TxInv(d, w, s), NEW a \in Addr
    PROVE  /\ Moves(d, SetNonce(d, a, 1), w, s, a) /\ Ready(SetNonce(d, a, 1), a)
           /\ ~Bare(ShapeAt(SetNonce(d, a, 1), a))
           /\ Moves(d, SetCode(d, a, 1), w, s, a) /\ Ready(SetCode(d, a, 1), a)
PROOF
  <1> DEFINE c == getOrNewStateObject(d, a)
             g == ShapeAt(c, a)
  <1>1. SetNonce(d, a, 1) = setNonce(c, a, 1) /\ SetCode(d, a, 1) = setCode(c, a, 1)
    BY DEF SetNonce, SetCode
  <1>2. Moves(d, c, w, s, a) /\ Ready(c, a) BY GetOrNewTx
  <1> HIDE DEF c, g
  <1>3. TxInv(c, w, s) BY <1>2 DEF Moves
  <1>4. Sets(c, setNonce(c, a, 1), w, s, a, With(g, 1, g.bal, g.code, g.dead, g.cur))
    BY <1>2, <1>3, SetNonceTx DEF g
  <1>5. Sets(c, setCode(c, a, 1), w, s, a, With(g, g.nonce, g.bal, 1, g.dead, g.cur))
    BY <1>2, <1>3, SetCodeTx DEF g
  <1>6. ~Bare(With(g, 1, g.bal, g.code, g.dead, g.cur)) BY DEF Bare, With
  <1> QED BY <1>1, <1>2, <1>4, <1>5, <1>6, SetsOn

\* n is paid to a.
LEMMA AddBalanceTx ==
    ASSUME NEW d, NEW w, NEW s, TxInv(d, w, s), NEW a \in Addr, NEW n \in Nat,
           Bal(ShapeAt(d, a)) + n <= MaxBal
    PROVE  LET e == AddBalance(d, a, n)
               g == ShapeAt(d, a)
           IN  /\ Moves(d, e, w, s, a) /\ Ready(e, a)
               /\ Bal(ShapeAt(e, a)) = Bal(g) + n
               /\ Alive(g) => /\ ShapeAt(e, a).nonce = g.nonce
                              /\ ShapeAt(e, a).code = g.code
PROOF
  <1> DEFINE c == getOrNewStateObject(d, a)
             e == addBalance(c, a, n)
             g == ShapeAt(d, a)
             q == ShapeAt(c, a)
  <1>1. AddBalance(d, a, n) = e BY DEF AddBalance
  <1>2. /\ Moves(d, c, w, s, a) /\ Ready(c, a)
        /\ Alive(g) => q = g
        /\ ~Alive(g) => FreshShape(q, 0)
    BY GetOrNewTx
  <1> HIDE DEF c, e, g, q
  <1>3. TxInv(c, w, s) BY <1>2 DEF Moves
  <1>4. q \in Shape /\ Alive(q) /\ q.bal = c.obj[a].bal BY <1>2, <1>3, ReadyObject DEF q
  <1>5. q.bal \in Nat /\ q.bal = Bal(g) BY <1>2, <1>4 DEF Bal, FreshShape, Shape
  <1>6. CASE n # 0
    <2>1. e = setBalance(c, a, q.bal + n) BY <1>4, <1>6 DEF e, addBalance
    <2>2. q.bal + n \in 0..MaxBal BY <1>5, RecorderAssumption DEF g
    <2>3. Sets(c, e, w, s, a, With(q, q.nonce, q.bal + n, q.code, q.dead, q.cur))
      BY <1>2, <1>3, <2>1, <2>2, SetBalanceTx DEF q
    <2> DEFINE G == With(q, q.nonce, q.bal + n, q.code, q.dead, q.cur)
    <2>4. Alive(G) /\ G.bal = Bal(g) + n /\ G.nonce = q.nonce /\ G.code = q.code
      BY <1>4, <1>5 DEF Alive, There, With
    <2> HIDE DEF G
    <2>5. Moves(d, e, w, s, a) /\ Ready(e, a) /\ ShapeAt(e, a) = G
      BY <1>2, <2>3, SetsOn DEF G
    <2> QED BY <1>1, <1>2, <2>4, <2>5 DEF g, Bal
  <1>7. CASE n = 0
    <2>1. Sets(c, e, w, s, a, q)
      <3>1. CASE EmptyObj(c.obj[a])
        <4>1. e = journalAppend(c, [kind |-> "touch", addr |-> a]) BY <1>7, <3>1 DEF e, addBalance
        <4> QED BY <1>2, <1>3, <4>1, TouchEntryTx DEF q
      <3>2. CASE ~EmptyObj(c.obj[a])
        <4>1. e = c BY <1>7, <3>2 DEF e, addBalance
        <4> QED BY <1>2, <1>3, <4>1 DEF Sets, Moves, q
      <3> QED BY <3>1, <3>2
    <2>2. Moves(d, e, w, s, a) /\ Ready(e, a) /\ ShapeAt(e, a) = q
      BY <1>2, <2>1, SetsOn
    <2>3. Bal(q) = Bal(g) + n BY <1>4, <1>5, <1>7 DEF Bal
    <2> QED BY <1>1, <1>2, <2>2, <2>3 DEF g
  <1> QED BY <1>6, <1>7

LEMMA SubBalanceTx ==
    ASSUME NEW d, NEW w, NEW s, TxInv(d, w, s), NEW a \in Addr, NEW n \in Nat,
           n <= Bal(ShapeAt(d, a))
    PROVE  LET e == SubBalance(d, a, n) IN
           /\ Moves(d, e, w, s, a)
           /\ Bal(ShapeAt(e, a)) = Bal(ShapeAt(d, a)) - n
PROOF
  <1> DEFINE c == getOrNewStateObject(d, a)
             e == subBalance(c, a, n)
             g == ShapeAt(d, a)
             q == ShapeAt(c, a)
  <1>1. SubBalance(d, a, n) = e BY DEF SubBalance
  <1>2. /\ Moves(d, c, w, s, a) /\ Ready(c, a)
        /\ Alive(g) => q = g
        /\ ~Alive(g) => FreshShape(q, 0)
    BY GetOrNewTx
  <1> HIDE DEF c, e, g, q
  <1>3. TxInv(c, w, s) BY <1>2 DEF Moves
  <1>4. q \in Shape /\ Alive(q) /\ q.bal = c.obj[a].bal BY <1>2, <1>3, ReadyObject DEF q
  <1>5. q.bal \in 0..MaxBal /\ q.bal = Bal(g) BY <1>2, <1>4 DEF Bal, FreshShape, Shape
  <1>6. CASE n # 0
    <2>1. e = setBalance(c, a, q.bal - n) BY <1>4, <1>6 DEF e, subBalance
    <2>2. q.bal - n \in 0..MaxBal BY <1>5, RecorderAssumption DEF g
    <2>3. Sets(c, e, w, s, a, With(q, q.nonce, q.bal - n, q.code, q.dead, q.cur))
      BY <1>2, <1>3, <2>1, <2>2, SetBalanceTx DEF q
    <2> DEFINE G == With(q, q.nonce, q.bal - n, q.code, q.dead, q.cur)
    <2>4. Alive(G) /\ G.bal = Bal(g) - n
      BY <1>4, <1>5 DEF Alive, There, With
    <2> HIDE DEF G
    <2>5. Moves(d, e, w, s, a) /\ Ready(e, a) /\ ShapeAt(e, a) = G
      BY <1>2, <2>3, SetsOn DEF G
    <2> QED BY <1>1, <2>4, <2>5 DEF g, Bal
  <1>7. CASE n = 0
    <2>1. e = c BY <1>7 DEF e, subBalance
    <2>2. Bal(q) = Bal(g) - n BY <1>4, <1>5, <1>7 DEF Bal
    <2> QED BY <1>1, <1>2, <2>1, <2>2 DEF g, q
  <1> QED BY <1>6, <1>7

LEMMA GetStateTx ==
    ASSUME NEW d, NEW w, NEW s, TxInv(d, w, s), NEW a \in Addr, Alive(ShapeAt(d, a)), NEW k \in Key
    PROVE  LET e == GetState(d, a, k) IN
           Moves(d, e, w, s, a) /\ Ready(e, a) /\ ShapeAt(e, a) = ShapeAt(d, a)
PROOF
  <1> DEFINE c == getStateObject(d, a)
             e == touchKey(c, a, k)
  <1>1. GetState(d, a, k) = e BY DEF GetState
  <1> HIDE DEF c, e
  <1>2. /\ Moves(d, c, w, s, a) /\ ShapeAt(c, a) = ShapeAt(d, a) /\ a \in DOMAIN c.pre
        /\ a \in DOMAIN c.obj
    BY GetTx DEF c, Alive
  <1>3. TxInv(c, w, s) /\ Ready(c, a) BY <1>2, IsReady DEF Moves
  <1>4. Sets(c, e, w, s, a, ShapeAt(c, a)) BY <1>3, TouchKeyTx DEF e
  <1> QED BY <1>1, <1>2, <1>4, SetsOn

LEMMA SetStateTx ==
    ASSUME NEW d, NEW w, NEW s, TxInv(d, w, s), NEW a \in Addr, NEW k \in Key, NEW v \in Val,
           d.eip158 => Alive(ShapeAt(d, a)) /\ ~Bare(ShapeAt(d, a))
    PROVE  LET e == SetState(d, a, k, v) IN Moves(d, e, w, s, a) /\ Ready(e, a)
PROOF
  <1> DEFINE c == getOrNewStateObject(d, a)
             f == touchKey(c, a, k)
             e == setSlot(f, a, k, v)
             g == ShapeAt(c, a)
             G == With(g, g.nonce, g.bal, g.code, g.dead, PutSlot(g.cur, k, v))
  <1>1. SetState(d, a, k, v) = e BY DEF SetState
  <1> HIDE DEF c, f, e, g, G
  <1>2. /\ Moves(d, c, w, s, a) /\ Ready(c, a)
        /\ Alive(ShapeAt(d, a)) => g = ShapeAt(d, a)
    BY GetOrNewTx DEF c, g
  <1>3. TxInv(c, w, s) /\ c.eip158 = d.eip158 BY <1>2 DEF Moves
  <1>4. Sets(c, f, w, s, a, g) /\ k \in TouchedAt(f, a) BY <1>2, <1>3, TouchKeyTx DEF f, g
  <1>5. Moves(d, f, w, s, a) /\ Ready(f, a) /\ ShapeAt(f, a) = g /\ TxInv(f, w, s)
    BY <1>2, <1>4, SetsOn
  <1>6. f.eip158 = d.eip158 BY <1>5 DEF Moves
  <1>7. f.eip158 => ~Bare(ShapeAt(f, a)) BY <1>2, <1>5, <1>6
  <1>8. Sets(f, e, w, s, a, G) BY <1>4, <1>5, <1>7, SetSlotTx DEF e, G
  <1> QED BY <1>1, <1>5, <1>8, SetsOn

LEMMA SelfDestructTx ==
    ASSUME NEW d, NEW w, NEW s, TxInv(d, w, s), NEW a \in Addr
    PROVE  /\ Moves(d, SelfDestruct(d, a), w, s, a)
           /\ Moves(d, Selfdestruct6780(d, a), w, s, a)
PROOF
  <1>1. ASSUME NEW f, TxInv(f, w, s)
        PROVE  Moves(f, SelfDestruct(f, a), w, s, a)
    <2> DEFINE c == getStateObject(f, a)
               e == markSelfdestructed(c, a)
               g == ShapeAt(c, a)
    <2>1. SelfDestruct(f, a) = e BY DEF SelfDestruct
    <2> HIDE DEF c, e, g
    <2>2. Moves(f, c, w, s, a) /\ a \in DOMAIN c.pre BY <1>1, GetTx DEF c
    <2>3. TxInv(c, w, s) BY <2>2 DEF Moves
    <2>4. CASE Live(c, a)
      <3>1. Sets(c, e, w, s, a, With(g, g.nonce, 0, g.code, TRUE, g.cur))
        BY <2>2, <2>3, <2>4, MarkTx DEF e, g, Ready
      <3> QED BY <2>1, <2>2, <3>1, MovesOn DEF Sets
    <2>5. CASE ~Live(c, a)
      BY <2>1, <2>2, <2>5 DEF e, markSelfdestructed
    <2> QED BY <2>4, <2>5
  <1> DEFINE c == getStateObject(d, a)
             e == markIfCreated(c, a)
  <1>2. Selfdestruct6780(d, a) = e BY DEF Selfdestruct6780
  <1> HIDE DEF c, e
  <1>3. Moves(d, c, w, s, a) BY GetTx DEF c
  <1>4. TxInv(c, w, s) BY <1>3 DEF Moves
  <1>5. e = c \/ e = SelfDestruct(c, a) BY DEF e, markIfCreated
  <1>6. Moves(c, SelfDestruct(c, a), w, s, a) BY <1>1, <1>4
  <1>7. Moves(d, e, w, s, a) BY <1>3, <1>5, <1>6, MovesOn
  <1> QED BY <1>1, <1>2, <1>7

-------------------------------------------------------------------------------
(***************************************************************************)
(* One access of the EVM keeps the invariant of the transaction.           *)
(***************************************************************************)
\* An access, by the fields its kind has.
OpOK(op) ==
    \/ op.kind = "read" /\ op.a \in Addr
    \/ op.kind = "sload" /\ op.a \in Addr /\ op.k \in Key
    \/ op.kind = "sstore" /\ op.a \in Addr /\ op.k \in Key /\ op.v \in Val
    \/ op.kind \in {"call", "credit", "debit"} /\ op.a \in Addr /\ op.n \in Nat
    \/ /\ op.kind = "create" /\ op.a \in Addr /\ op.k \in Key /\ op.v \in Val
       /\ op.out \in {"stored", "reverted", "unpaid"}
    \/ op.kind \in {"kill", "kill6780"} /\ op.a \in Addr /\ op.b \in Addr
    \/ op.kind = "snapshot"
    \/ op.kind = "revert" /\ op.id \in Nat

LEMMA OpFields ==
    ASSUME NEW op \in AccessType
    PROVE  OpOK(op)
BY DEF AccessType, OpOK

\* e follows d with the same revisions.
Steps(d, e, w, s) == TxInv(e, w, s) /\ e.revs = d.revs /\ e.eip158 = d.eip158

LEMMA StepsOn ==
    ASSUME NEW d, NEW e, NEW f, NEW w, NEW s, NEW a, Steps(d, e, w, s), Moves(e, f, w, s, a)
    PROVE  Steps(d, f, w, s)
BY DEF Steps, Moves

LEMMA SeesBalance ==
    ASSUME NEW d, DbOK(d), NEW a \in Addr
    PROVE  /\ BalanceOf(d, a) = Bal(ShapeAt(d, a))
           /\ HasCode(d, a) => Alive(ShapeAt(d, a)) /\ ~Bare(ShapeAt(d, a))
PROOF
  <1>1. World(d)[a] = ShowsAccount(ShapeAt(d, a)) BY WorldTyped
  <1>2. CASE Alive(ShapeAt(d, a))
    <2>1. /\ World(d)[a].bal = ShapeAt(d, a).bal /\ World(d)[a].code = ShapeAt(d, a).code
          /\ "nonce" \in DOMAIN World(d)[a]
      BY <1>1, <1>2 DEF ShowsAccount
    <2>2. World(d)[a] # Nil BY <2>1 DEF Nil
    <2> QED BY <1>2, <2>1, <2>2 DEF BalanceOf, HasCode, Bal, Bare
  <1>3. CASE ~Alive(ShapeAt(d, a))
    BY <1>1, <1>3 DEF ShowsAccount, BalanceOf, HasCode, Bal
  <1> QED BY <1>2, <1>3

LEMMA ReadStep ==
    ASSUME NEW d, NEW w, NEW s, TxInv(d, w, s), NEW a \in Addr
    PROVE  Steps(d, Read(d, a).db, w, s)
PROOF
  <1>1. Read(d, a).db = getStateObject(d, a) BY DEF Read, Seen
  <1> QED BY <1>1, GetTx DEF Moves, Steps

LEMMA SloadStep ==
    ASSUME NEW d, NEW w, NEW s, TxInv(d, w, s), NEW a \in Addr, NEW k \in Key, HasCode(d, a)
    PROVE  Steps(d, Sload(d, a, k).db, w, s)
PROOF
  <1>1. Sload(d, a, k).db = GetState(d, a, k) BY DEF Sload, SlotSeen
  <1>2. Alive(ShapeAt(d, a)) BY TxNow, SeesBalance
  <1> QED BY <1>1, <1>2, GetStateTx DEF Moves, Steps

LEMMA SstoreStep ==
    ASSUME NEW d, NEW w, NEW s, TxInv(d, w, s), NEW a \in Addr, NEW k \in Key, NEW v \in Val,
           HasCode(d, a)
    PROVE  Steps(d, Sstore(d, a, k, v).db, w, s)
PROOF
  <1> DEFINE c == GetState(d, a, k)
  <1>1. Sstore(d, a, k, v).db = SetState(c, a, k, v) BY DEF Sstore, SlotSet
  <1>2. Alive(ShapeAt(d, a)) /\ ~Bare(ShapeAt(d, a)) BY TxNow, SeesBalance
  <1>3. Moves(d, c, w, s, a) /\ ShapeAt(c, a) = ShapeAt(d, a) BY <1>2, GetStateTx
  <1> HIDE DEF c
  <1>4. TxInv(c, w, s) /\ Steps(d, c, w, s) BY <1>3 DEF Moves, Steps
  <1>5. Moves(c, SetState(c, a, k, v), w, s, a) BY <1>2, <1>3, <1>4, SetStateTx
  <1> QED BY <1>1, <1>4, <1>5, StepsOn

LEMMA CallStep ==
    ASSUME NEW d, NEW w, NEW s, TxInv(d, w, s), NEW a \in Addr, NEW n \in Nat,
           BalanceOf(d, a) + n <= MaxBal
    PROVE  Steps(d, Call(d, a, n).db, w, s)
PROOF
  <1> DEFINE c == getStateObject(d, a)
             f == CreateAccount(c, a)
             e == Call(d, a, n).db
  <1>1. e = IF Live(c, a) THEN AddBalance(c, a, n)
            ELSE IF c.eip158 /\ n = 0 THEN c ELSE AddBalance(f, a, n)
    BY DEF Call, Called
  <1>2. /\ Moves(d, c, w, s, a) /\ ShapeAt(c, a) = ShapeAt(d, a) /\ a \in DOMAIN c.pre
        /\ a \in DOMAIN c.obj <=> There(ShapeAt(d, a))
    BY GetTx
  <1> HIDE DEF c, e, f
  <1>3. TxInv(c, w, s) /\ Steps(d, c, w, s) BY <1>2 DEF Moves, Steps
  <1>4. DbOK(c) BY <1>3, TxNow
  <1>5. Bal(ShapeAt(c, a)) + n <= MaxBal BY <1>2, TxNow, SeesBalance
  <1>6. CASE Live(c, a)
    <2>1. Moves(c, e, w, s, a) BY <1>1, <1>3, <1>5, <1>6, AddBalanceTx
    <2> QED BY <1>3, <2>1, StepsOn DEF e
  <1>7. CASE ~Live(c, a)
    <2>1. ~Alive(ShapeAt(c, a)) BY <1>2, <1>4, <1>7, SeesShape DEF Alive
    <2>2. /\ Moves(c, f, w, s, a) /\ FreshShape(ShapeAt(f, a), Bal(ShapeAt(c, a)))
      BY <1>2, <1>3, <2>1, CreateAccountTx DEF f
    <2>3. Bal(ShapeAt(f, a)) = Bal(ShapeAt(c, a)) BY <2>2 DEF FreshShape, Bal
    <2>4. TxInv(f, w, s) BY <2>2 DEF Moves
    <2>5. Moves(f, AddBalance(f, a, n), w, s, a) BY <1>5, <2>3, <2>4, AddBalanceTx
    <2>6. Steps(d, f, w, s) BY <1>3, <2>2, StepsOn
    <2>7. Steps(d, AddBalance(f, a, n), w, s) BY <2>5, <2>6, StepsOn
    <2> QED BY <1>1, <1>3, <1>7, <2>7 DEF e
  <1> QED BY <1>6, <1>7

LEMMA TransferStep ==
    ASSUME NEW d, NEW w, NEW s, TxInv(d, w, s), NEW a \in Addr, NEW n \in Nat
    PROVE  /\ BalanceOf(d, a) + n <= MaxBal => Steps(d, AddBalance(d, a, n), w, s)
           /\ BalanceOf(d, a) >= n => Steps(d, SubBalance(d, a, n), w, s)
PROOF
  <1>1. BalanceOf(d, a) = Bal(ShapeAt(d, a)) BY TxNow, SeesBalance
  <1>2. Bal(ShapeAt(d, a)) \in Nat
    BY TxNow, ShapeAtOK DEF Bal, Shape
  <1>3. BalanceOf(d, a) + n <= MaxBal => Moves(d, AddBalance(d, a, n), w, s, a)
    BY <1>1, AddBalanceTx
  <1>4. BalanceOf(d, a) >= n => n <= Bal(ShapeAt(d, a)) BY <1>1, <1>2
  <1>5. BalanceOf(d, a) >= n => Moves(d, SubBalance(d, a, n), w, s, a)
    BY <1>4, SubBalanceTx
  <1> QED BY <1>3, <1>5 DEF Moves, Steps

LEMMA KillStep ==
    ASSUME NEW d, NEW w, NEW s, TxInv(d, w, s), NEW a \in Addr, NEW b \in Addr,
           HasCode(d, a), BalanceOf(d, a) + BalanceOf(d, b) <= MaxBal
    PROVE  /\ Steps(d, Kill(d, a, b).db, w, s)
           /\ Steps(d, Kill6780(d, a, b).db, w, s)
PROOF
  <1> DEFINE c == getStateObject(d, a)
             n == c.obj[a].bal
             f == AddBalance(c, b, n)
             p == SubBalance(c, a, n)
             q == AddBalance(p, b, n)
  <1>1. Kill(d, a, b).db = SelfDestruct(f, a) BY DEF Kill, Killed
  <1>2. Kill6780(d, a, b).db = Selfdestruct6780(q, a) BY DEF Kill6780, Killed6780
  <1>3. /\ Moves(d, c, w, s, a) /\ ShapeAt(c, a) = ShapeAt(d, a) /\ a \in DOMAIN c.pre
        /\ a \in DOMAIN c.obj <=> There(ShapeAt(d, a))
    BY GetTx
  <1> HIDE DEF c, n, f, p, q
  <1>4. DbOK(d) /\ Alive(ShapeAt(d, a)) BY TxNow, SeesBalance
  <1>5. TxInv(c, w, s) /\ Steps(d, c, w, s) /\ Ready(c, a)
    BY <1>3, <1>4, IsReady DEF Moves, Steps, Alive
  <1>6. n \in Nat /\ n = Bal(ShapeAt(c, a))
    <2>1. ShapeAt(c, a) \in Shape /\ Alive(ShapeAt(c, a)) /\ ShapeAt(c, a).bal = n
      BY <1>5, ReadyObject DEF n
    <2> QED BY <2>1 DEF Shape, Bal
  <1>7. ShapeAt(c, b) = ShapeAt(d, b) BY <1>3 DEF Moves
  <1>8. Bal(ShapeAt(c, b)) + n <= MaxBal /\ Bal(ShapeAt(c, b)) \in Nat
    <2>1. Bal(ShapeAt(c, b)) \in Nat BY <1>4, <1>7, ShapeAtOK DEF Bal, Shape
    <2> QED BY <1>3, <1>4, <1>6, <1>7, <2>1, SeesBalance
  <1>9. Steps(d, SelfDestruct(f, a), w, s)
    <2>1. Moves(c, f, w, s, b) BY <1>5, <1>6, <1>8, AddBalanceTx DEF f
    <2>2. Steps(d, f, w, s) /\ TxInv(f, w, s) BY <1>5, <2>1, StepsOn DEF Moves
    <2>3. Moves(f, SelfDestruct(f, a), w, s, a) BY <2>2, SelfDestructTx
    <2> QED BY <2>2, <2>3, StepsOn
  <1>10. Steps(d, Selfdestruct6780(q, a), w, s)
    <2>1. /\ Moves(c, p, w, s, a) /\ Bal(ShapeAt(p, a)) = Bal(ShapeAt(c, a)) - n
      BY <1>5, <1>6, SubBalanceTx DEF p
    <2>2. Steps(d, p, w, s) /\ TxInv(p, w, s) BY <1>5, <2>1, StepsOn DEF Moves
    <2>3. Bal(ShapeAt(p, b)) <= Bal(ShapeAt(c, b)) /\ Bal(ShapeAt(p, b)) \in Nat
      <3>1. CASE b = a BY <3>1, <1>6, <2>1
      <3>2. CASE b # a BY <3>2, <1>8, <2>1 DEF Moves
      <3> QED BY <3>1, <3>2
    <2>4. Bal(ShapeAt(p, b)) + n <= MaxBal BY <1>6, <1>8, <2>3, RecorderAssumption
    <2>5. Moves(p, q, w, s, b) BY <1>6, <2>2, <2>4, AddBalanceTx DEF q
    <2>6. Steps(d, q, w, s) /\ TxInv(q, w, s) BY <2>2, <2>5, StepsOn DEF Moves
    <2>7. Moves(q, Selfdestruct6780(q, a), w, s, a) BY <2>6, SelfDestructTx
    <2> QED BY <2>6, <2>7, StepsOn
  <1> QED BY <1>1, <1>2, <1>9, <1>10

\* The world is what the shapes show.
LEMMA SameWorld ==
    ASSUME NEW d, NEW e, DbOK(d), DbOK(e),
           \A a \in Addr : ShowsAccount(ShapeAt(e, a)) = ShowsAccount(ShapeAt(d, a))
    PROVE  World(e) = World(d)
PROOF
  <1>1. \A a \in Addr : World(e)[a] = World(d)[a] BY WorldTyped
  <1> QED BY <1>1 DEF World

(***************************************************************************)
(* A contract creation: it ends with the revision of its snapshot, or      *)
(* without it and in the world before it.                                  *)
(***************************************************************************)
LEMMA NewContractTx ==
    ASSUME NEW d, NEW w, NEW s, TxInv(d, w, s), NEW a \in Addr, NEW k \in Key, NEW v \in Val,
           a \in DOMAIN d.pre, NEW out \in {"stored", "reverted", "unpaid"},
           d.eip158 /\ Alive(ShapeAt(d, a)) => Bare(ShapeAt(d, a)) /\ Clean(w[a])
    PROVE  LET e == NewContract(d, a, k, v, out) IN
           /\ e.eip158 = d.eip158
           /\ out = "reverted" => TxInv(e, w, s) /\ Len(e.revs) = Len(d.revs) /\ World(e) = World(d)
           /\ out # "reverted" => /\ TxInv(e, w, Append(s, World(d)))
                                  /\ Len(e.revs) = Len(d.revs) + 1
PROOF
  <1> DEFINE z == Append(s, World(d))
             b == Snapshot(d)
             c == CreateAccount(b, a)
             f == FirstNonce(c, a)
             p == AddBalance(f, a, 0)
             q == SetState(p, a, k, v)
             m == Len(d.revs)
             e == NewContract(d, a, k, v, out)
  <1>1. e = CASE out = "stored" -> SetCode(q, a, 1)
              [] out = "reverted" -> RevertToSnapshot(q, m + 1)
              [] out = "unpaid" -> q
    BY DEF NewContract, RunInit
  <1>2. /\ TxInv(b, w, z) /\ Len(b.revs) = m + 1
        /\ DOMAIN b.pre = DOMAIN d.pre /\ b.eip158 = d.eip158
        /\ ShapeAt(b, a) = ShapeAt(d, a)
    BY SnapshotTx
  <1> HIDE DEF z, b, c, f, p, q, e
  <1>3. Moves(b, c, w, z, a) /\ Ready(c, a) /\ FreshShape(ShapeAt(c, a), Bal(ShapeAt(b, a)))
    BY <1>2, CreateAccountTx DEF c
  <1>4. TxInv(c, w, z) /\ c.eip158 = d.eip158 BY <1>2, <1>3 DEF Moves
  <1>5. /\ Moves(c, f, w, z, a) /\ Ready(f, a)
        /\ d.eip158 => ~Bare(ShapeAt(f, a))
    BY <1>3, <1>4, NonceAndCodeTx DEF f, FirstNonce, Moves
  <1>6. TxInv(f, w, z) /\ f.eip158 = d.eip158 BY <1>4, <1>5 DEF Moves
  <1>7. Bal(ShapeAt(f, a)) + 0 <= MaxBal /\ Alive(ShapeAt(f, a))
    <2>1. ShapeAt(f, a) \in Shape /\ Alive(ShapeAt(f, a)) BY <1>5, <1>6, ReadyObject
    <2> QED BY <2>1, RecorderAssumption DEF Bal, Shape
  <1>8. /\ Moves(f, p, w, z, a) /\ Ready(p, a)
        /\ ShapeAt(p, a).nonce = ShapeAt(f, a).nonce /\ ShapeAt(p, a).code = ShapeAt(f, a).code
    BY <1>6, <1>7, AddBalanceTx DEF p
  <1>9. TxInv(p, w, z) /\ p.eip158 = d.eip158 BY <1>6, <1>8 DEF Moves
  <1>10. Alive(ShapeAt(p, a)) BY <1>8, <1>9, ReadyObject
  <1>11. d.eip158 => ~Bare(ShapeAt(p, a)) BY <1>5, <1>8 DEF Bare
  <1>12. Moves(p, q, w, z, a) BY <1>9, <1>10, <1>11, SetStateTx DEF q
  <1>13. /\ TxInv(q, w, z) /\ q.eip158 = d.eip158 /\ Len(q.revs) = m + 1
    <2>1. q.revs = b.revs BY <1>3, <1>5, <1>8, <1>12 DEF Moves
    <2> QED BY <1>2, <1>9, <1>12, <2>1 DEF Moves
  <1>14. CASE out = "stored"
    <2>1. Moves(q, SetCode(q, a, 1), w, z, a) BY <1>13, NonceAndCodeTx
    <2> QED BY <1>1, <1>13, <1>14, <2>1 DEF Moves, e, z
  <1>15. CASE out = "unpaid" BY <1>1, <1>13, <1>15 DEF e, z
  <1>16. CASE out = "reverted"
    <2>1. e = RevertToSnapshot(q, m + 1) BY <1>1, <1>16
    <2>2. TxOK(d, w, s) /\ DbOK(d) BY TxNow
    <2>3. m \in Nat /\ Len(s) = m /\ s \in Seq([Addr -> Accounts]) BY <2>2 DEF TxOK
    <2>4. m + 1 \in 1..Len(q.revs) /\ (m + 1) - 1 = m BY <1>13, <2>3
    <2>5. World(d) \in [Addr -> Accounts] BY <2>2, WorldTyped
    <2>6. SubSeq(z, 1, m) = s /\ z[m + 1] = World(d) BY <2>3, <2>5 DEF z
    <2> HIDE DEF m
    <2>7. /\ TxInv(e, w, SubSeq(z, 1, m)) /\ Len(e.revs) = m /\ e.eip158 = q.eip158
          /\ \A x \in Addr : ShowsAccount(ShapeAt(e, x)) = z[m + 1][x]
      <3> DEFINE id == m + 1
      <3>1. id - 1 = m /\ id \in 1..Len(q.revs) /\ e = RevertToSnapshot(q, id)
        BY <2>1, <2>4
      <3> HIDE DEF id
      <3>2. /\ TxInv(e, w, SubSeq(z, 1, id - 1)) /\ Len(e.revs) = id - 1 /\ e.eip158 = q.eip158
            /\ \A x \in Addr : ShowsAccount(ShapeAt(e, x)) = z[id][x]
        BY <1>13, <3>1, RevertTx, SMTT(30)
      <3> QED BY <3>1, <3>2 DEF id
    <2>8. \A x \in Addr : ShowsAccount(ShapeAt(e, x)) = ShowsAccount(ShapeAt(d, x))
      BY <2>2, <2>6, <2>7, WorldTyped
    <2>9. TxInv(e, w, s) BY <2>6, <2>7
    <2>10. World(e) = World(d) BY <2>2, <2>8, <2>9, SameWorld, TxNow
    <2> QED BY <1>13, <1>16, <2>7, <2>9, <2>10 DEF e, m
  <1> QED BY <1>14, <1>15, <1>16

\* The worlds at the revisions after an access that leaves n of them.
NextSnaps(s, n, x) == [i \in 1..n |-> IF i <= Len(s) THEN s[i] ELSE x]

LEMMA NextSnapsIs ==
    ASSUME NEW S, NEW s \in Seq(S), NEW x \in S
    PROVE  /\ NextSnaps(s, Len(s), x) = s
           /\ NextSnaps(s, Len(s) + 1, x) = Append(s, x)
           /\ \A n \in 0..Len(s) : NextSnaps(s, n, x) = SubSeq(s, 1, n)
PROOF
  <1>1. Len(s) \in Nat /\ s = [i \in 1..Len(s) |-> s[i]] OBVIOUS
  <1>2. NextSnaps(s, Len(s), x) = s BY <1>1 DEF NextSnaps
  <1>3. NextSnaps(s, Len(s) + 1, x) = Append(s, x)
    <2> DEFINE p == NextSnaps(s, Len(s) + 1, x)
    <2>1. p \in Seq(S) /\ Len(p) = Len(s) + 1 BY <1>1 DEF NextSnaps
    <2>2. \A i \in 1..(Len(s) + 1) : p[i] = Append(s, x)[i] BY <1>1 DEF NextSnaps
    <2>3. Append(s, x) \in Seq(S) /\ Len(Append(s, x)) = Len(s) + 1 OBVIOUS
    <2> HIDE DEF p
    <2>4. p = Append(s, x) BY <2>1, <2>2, <2>3, SeqEqual
    <2> QED BY <2>4 DEF p
  <1>4. ASSUME NEW n \in 0..Len(s)
        PROVE  NextSnaps(s, n, x) = SubSeq(s, 1, n)
    BY <1>1 DEF NextSnaps
  <1> QED BY <1>2, <1>3, <1>4

LEMMA CreateStep ==
    ASSUME NEW d, NEW w, NEW s, TxInv(d, w, s), NEW a \in Addr, NEW k \in Key, NEW v \in Val,
           NEW out \in {"stored", "reverted", "unpaid"}, d.eip158 => Clean(w[a])
    PROVE  LET e == Create(d, a, k, v, out).db IN
           /\ e.eip158 = d.eip158
           /\ \/ TxInv(e, w, s) /\ Len(e.revs) = Len(d.revs)
              \/ TxInv(e, w, Append(s, World(d))) /\ Len(e.revs) = Len(d.revs) + 1
           /\ out = "reverted" => World(e) = World(d)
PROOF
  <1> DEFINE c == getStateObject(d, a)
             e == Create(d, a, k, v, out).db
  <1>1. e = IF Collision(c, a) THEN c ELSE NewContract(c, a, k, v, out)
    BY DEF Create, Created
  <1>2. /\ Moves(d, c, w, s, a) /\ ShapeAt(c, a) = ShapeAt(d, a) /\ a \in DOMAIN c.pre
        /\ a \in DOMAIN c.obj <=> There(ShapeAt(d, a))
    BY GetTx
  <1> HIDE DEF c, e
  <1>3. TxInv(c, w, s) /\ c.revs = d.revs /\ c.eip158 = d.eip158 BY <1>2 DEF Moves
  <1>4. DbOK(c) /\ DbOK(d) BY <1>3, TxNow
  <1>5. World(c) = World(d) BY <1>2, <1>4, SameWorld DEF Moves
  <1>6. CASE Collision(c, a) BY <1>1, <1>3, <1>5, <1>6 DEF e
  <1>7. CASE ~Collision(c, a)
    <2>1. Alive(ShapeAt(c, a)) => Bare(ShapeAt(c, a))
      <3> SUFFICES ASSUME Alive(ShapeAt(c, a)) PROVE Bare(ShapeAt(c, a))
        OBVIOUS
      <3>1. Ready(c, a) BY <1>2, <1>4, SeesShape DEF Ready, Alive
      <3>2. ShapeAt(c, a).nonce = c.obj[a].nonce /\ ShapeAt(c, a).code = c.obj[a].code
        BY <1>3, <3>1, ReadyObject
      <3> QED BY <1>7, <3>1, <3>2 DEF Collision, Ready, Bare
    <2>2. /\ e.eip158 = c.eip158
          /\ out = "reverted" => TxInv(e, w, s) /\ Len(e.revs) = Len(c.revs) /\ World(e) = World(c)
          /\ out # "reverted" => /\ TxInv(e, w, Append(s, World(c)))
                                 /\ Len(e.revs) = Len(c.revs) + 1
      BY <1>1, <1>2, <1>3, <1>7, <2>1, NewContractTx
    <2> QED BY <1>3, <1>5, <2>2 DEF e
  <1> QED BY <1>6, <1>7

\* What is shown of one access: e follows d.
StepOK(d, e, w, s, op) ==
    /\ e.eip158 = d.eip158
    /\ TxInv(e, w, NextSnaps(s, Len(e.revs), World(d)))
    /\ op.kind = "snapshot" => Len(e.revs) = Len(d.revs) + 1
    /\ op.kind = "revert" => Len(e.revs) = op.id - 1 /\ World(e) = s[op.id]
    /\ op.kind # "revert" => Len(e.revs) >= Len(d.revs)
    /\ op.kind = "create" /\ op.out = "reverted" => World(e) = World(d)

(***************************************************************************)
(* Every access keeps the invariant, a revert and a reverted creation      *)
(* restore the world.                                                      *)
(***************************************************************************)
LEMMA StepTx ==
    ASSUME NEW d, NEW w, NEW s, TxInv(d, w, s), NEW op, OpOK(op), NEW fr,
           Possible(d, op, fr), op.kind = "revert" => op.id \in 1..Len(d.revs),
           d.eip158 /\ op.kind = "create" => Clean(w[op.a])
    PROVE  StepOK(d, Step(d, op).db, w, s, op)
PROOF
  <1> DEFINE e == Step(d, op).db
             m == Len(d.revs)
  <1>1. TxOK(d, w, s) /\ DbOK(d) BY TxNow
  <1>2. m \in Nat /\ Len(s) = m /\ s \in Seq([Addr -> Accounts]) BY <1>1 DEF TxOK
  <1>3. World(d) \in [Addr -> Accounts] BY <1>1, WorldTyped
  <1>4. /\ NextSnaps(s, m, World(d)) = s
        /\ NextSnaps(s, m + 1, World(d)) = Append(s, World(d))
        /\ \A n \in 0..m : NextSnaps(s, n, World(d)) = SubSeq(s, 1, n)
    <2> HIDE DEF m
    <2> QED BY <1>2, <1>3, NextSnapsIs
  <1>5. ASSUME Steps(d, e, w, s), op.kind \notin {"snapshot", "revert", "create"}
        PROVE  StepOK(d, e, w, s, op)
    <2>1. /\ e.eip158 = d.eip158 /\ e.revs = d.revs /\ TxInv(e, w, s) BY <1>5 DEF Steps
    <2>2. Len(e.revs) = m /\ m >= m BY <1>2, <2>1
    <2> HIDE DEF e
    <2> QED BY <1>4, <1>5, <2>1, <2>2 DEF StepOK
  <1>6. CASE op.kind = "read"
    <2>1. e = Read(d, op.a).db /\ op.a \in Addr BY <1>6 DEF Step, OpOK
    <2> HIDE DEF e
    <2>2. Steps(d, e, w, s) BY <2>1, ReadStep
    <2> QED BY <1>5, <1>6, <2>2 DEF e
  <1>7. CASE op.kind = "sload"
    <2>1. e = Sload(d, op.a, op.k).db /\ op.a \in Addr /\ op.k \in Key BY <1>7 DEF Step, OpOK
    <2>2. HasCode(d, op.a) BY <1>7 DEF Possible
    <2> HIDE DEF e
    <2>3. Steps(d, e, w, s) BY <2>1, <2>2, SloadStep
    <2> QED BY <1>5, <1>7, <2>3 DEF e
  <1>8. CASE op.kind = "sstore"
    <2>1. /\ e = Sstore(d, op.a, op.k, op.v).db /\ op.a \in Addr /\ op.k \in Key /\ op.v \in Val
      BY <1>8 DEF Step, OpOK
    <2>2. HasCode(d, op.a) BY <1>8 DEF Possible
    <2> HIDE DEF e
    <2>3. Steps(d, e, w, s) BY <2>1, <2>2, SstoreStep
    <2> QED BY <1>5, <1>8, <2>3 DEF e
  <1>9. CASE op.kind = "call"
    <2>1. /\ e = Call(d, op.a, op.n).db /\ op.a \in Addr /\ op.n \in Nat BY <1>9 DEF Step, OpOK
    <2>2. BalanceOf(d, op.a) + op.n <= MaxBal BY <1>9 DEF Possible
    <2> HIDE DEF e
    <2>3. Steps(d, e, w, s) BY <2>1, <2>2, CallStep
    <2> QED BY <1>5, <1>9, <2>3 DEF e
  <1>10. CASE op.kind = "credit"
    <2>1. /\ e = AddBalance(d, op.a, op.n) /\ op.a \in Addr /\ op.n \in Nat BY <1>10 DEF Step, OpOK
    <2>2. BalanceOf(d, op.a) + op.n <= MaxBal BY <1>10 DEF Possible
    <2> HIDE DEF e
    <2>3. Steps(d, e, w, s) BY <2>1, <2>2, TransferStep
    <2> QED BY <1>5, <1>10, <2>3 DEF e
  <1>11. CASE op.kind = "debit"
    <2>1. /\ e = SubBalance(d, op.a, op.n) /\ op.a \in Addr /\ op.n \in Nat BY <1>11 DEF Step, OpOK
    <2>2. BalanceOf(d, op.a) >= op.n BY <1>11 DEF Possible
    <2> HIDE DEF e
    <2>3. Steps(d, e, w, s) BY <2>1, <2>2, TransferStep
    <2> QED BY <1>5, <1>11, <2>3 DEF e
  <1>12. CASE op.kind \in {"kill", "kill6780"}
    <2>1. /\ e = Kill(d, op.a, op.b).db \/ e = Kill6780(d, op.a, op.b).db
          /\ op.a \in Addr /\ op.b \in Addr
      BY <1>12 DEF Step, OpOK
    <2>2. HasCode(d, op.a) /\ BalanceOf(d, op.a) + BalanceOf(d, op.b) <= MaxBal BY <1>12 DEF Possible
    <2> HIDE DEF e
    <2>3. Steps(d, e, w, s) BY <2>1, <2>2, KillStep
    <2> QED BY <1>5, <1>12, <2>3 DEF e
  <1>13. CASE op.kind = "snapshot"
    <2>1. e = Snapshot(d) BY <1>13 DEF Step
    <2> HIDE DEF e
    <2>2. TxInv(e, w, Append(s, World(d))) /\ Len(e.revs) = m + 1 /\ e.eip158 = d.eip158
      BY <2>1, SnapshotTx
    <2>3. m + 1 >= m BY <1>2
    <2>4. TxInv(e, w, NextSnaps(s, Len(e.revs), World(d))) BY <1>4, <2>2
    <2>5. StepOK(d, e, w, s, op) BY <1>13, <2>2, <2>3, <2>4 DEF StepOK
    <2> QED BY <2>5 DEF e
  <1>14. CASE op.kind = "revert"
    <2>1. e = RevertToSnapshot(d, op.id) /\ op.id \in 1..m BY <1>14 DEF Step
    <2> HIDE DEF e
    <2>2. /\ TxInv(e, w, SubSeq(s, 1, op.id - 1)) /\ Len(e.revs) = op.id - 1
          /\ e.eip158 = d.eip158
          /\ \A a \in Addr : ShowsAccount(ShapeAt(e, a)) = s[op.id][a]
      BY <2>1, RevertTx
    <2>3. op.id - 1 \in 0..m BY <1>2, <2>1
    <2>4. DbOK(e) BY <2>2, TxNow
    <2>5. World(e) = s[op.id]
      <3>1. s[op.id] \in [Addr -> Accounts] BY <1>2, <2>1
      <3>2. World(e) \in [Addr -> Accounts] /\ \A a \in Addr : World(e)[a] = s[op.id][a]
        BY <2>2, <2>4, WorldTyped
      <3> QED BY <3>1, <3>2
    <2>6. TxInv(e, w, NextSnaps(s, Len(e.revs), World(d))) BY <1>4, <2>2, <2>3
    <2>7. StepOK(d, e, w, s, op) BY <1>14, <2>2, <2>5, <2>6 DEF StepOK
    <2> QED BY <2>7 DEF e
  <1>15. CASE op.kind = "create"
    <2>1. /\ e = Create(d, op.a, op.k, op.v, op.out).db /\ op.a \in Addr /\ op.k \in Key
          /\ op.v \in Val /\ op.out \in {"stored", "reverted", "unpaid"}
      BY <1>15 DEF Step, OpOK
    <2> HIDE DEF e
    <2>2. /\ e.eip158 = d.eip158
          /\ \/ TxInv(e, w, s) /\ Len(e.revs) = m
             \/ TxInv(e, w, Append(s, World(d))) /\ Len(e.revs) = m + 1
          /\ op.out = "reverted" => World(e) = World(d)
      BY <1>15, <2>1, CreateStep
    <2>3. m + 1 >= m /\ m >= m BY <1>2
    <2>4. TxInv(e, w, NextSnaps(s, Len(e.revs), World(d))) /\ Len(e.revs) >= m
      BY <1>4, <2>2, <2>3
    <2>5. StepOK(d, e, w, s, op) BY <1>15, <2>2, <2>4 DEF StepOK
    <2> QED BY <2>5 DEF e
  <1> QED
    <2> HIDE DEF e
    <2> QED BY <1>6, <1>7, <1>8, <1>9, <1>10, <1>11, <1>12, <1>13, <1>14, <1>15 DEF OpOK, e

-------------------------------------------------------------------------------
(***************************************************************************)
(* The storage of a recorded account: the touched keys, each one once,     *)
(* with their values; SaveSubstate sorts it.                               *)
(***************************************************************************)
Lists(q, S, v) ==
    /\ q \in Seq(Key \X Val)
    /\ \A i \in 1..Len(q) : q[i][1] \in S /\ q[i][2] = v[q[i][1]]
    /\ \A k \in S : \E i \in 1..Len(q) : q[i][1] = k
    /\ \A i, j \in 1..Len(q) : q[i][1] = q[j][1] => i = j

\* The numbers up to n are n.
LEMMA UpTo ==
    ASSUME NEW n \in Nat
    PROVE  IsFiniteSet(1..n) /\ Cardinality(1..n) = n
PROOF
  <1>1. 1 \in Int /\ n \in Int OBVIOUS
  <1>2. IsFiniteSet(1..n) /\ Cardinality(1..n) = IF 1 > n THEN 0 ELSE n-1+1
    BY <1>1, FS_Interval, SMTT(30)
  <1> QED BY <1>2

LEMMA ListOfSet ==
    ASSUME NEW S, IsFiniteSet(S)
    PROVE  /\ SetToSeq(S) \in [1..Cardinality(S) -> S] /\ Cardinality(S) \in Nat
           /\ \A i, j \in 1..Cardinality(S) : SetToSeq(S)[i] = SetToSeq(S)[j] => i = j
           /\ \A k \in S : \E i \in 1..Cardinality(S) : SetToSeq(S)[i] = k
PROOF
  <1> DEFINE n == Cardinality(S)
             f == SetToSeq(S)
  <1>1. n \in Nat /\ ExistsBijection(1..n, S) BY FS_CardinalityType
  <1>2. \E g \in [1..n -> S] : IsInjective(g)
    BY <1>1 DEF ExistsBijection, Bijection, Injection
  <1>3. f \in [1..n -> S] /\ IsInjective(f) BY <1>2 DEF SetToSeq
  <1> HIDE DEF f
  <1>4. f \in Injection(1..n, S) BY <1>3 DEF Injection
  <1>5. Cardinality(1..n) = n BY <1>1, UpTo
  <1>6. f \in Surjection(1..n, S) BY <1>4, <1>5, FS_Injection
  <1> HIDE DEF n
  <1>7. \A i, j \in 1..n : f[i] = f[j] => i = j BY <1>3 DEF IsInjective
  <1>8. \A k \in S : \E i \in 1..n : f[i] = k BY <1>6 DEF Surjection
  <1> QED BY <1>1, <1>3, <1>7, <1>8 DEF f, n

LEMMA EntriesList ==
    ASSUME NEW S \in SUBSET Key, NEW v \in [Key -> Val]
    PROVE  Lists(Entries(S, v), S, v)
PROOF
  <1> DEFINE n == Cardinality(S)
             f == SetToSeq(S)
             r == Reverse(f)
             q == Entries(S, v)
  <1>1. IsFiniteSet(S) BY StateDBAssumption, FS_Subset
  <1>2. /\ f \in [1..n -> S] /\ n \in Nat
        /\ \A i, j \in 1..n : f[i] = f[j] => i = j
        /\ \A k \in S : \E i \in 1..n : f[i] = k
    BY <1>1, ListOfSet
  <1>3. q = [i \in 1..Len(r) |-> <<r[i], v[r[i]]>>] BY DEF Entries
  <1> HIDE DEF n, f, q
  <1>4. Len(f) = n BY <1>2
  <1>5. r = [i \in 1..n |-> f[(n - i) + 1]] BY <1>4 DEF Reverse
  <1>6. Len(r) = n BY <1>2, <1>5
  <1>7. \A i \in 1..n : r[i] = f[(n - i) + 1] /\ (n - i) + 1 \in 1..n BY <1>2, <1>5
  <1> HIDE DEF r
  <1>8. \A i \in 1..n : r[i] \in S BY <1>2, <1>7
  <1>9. q = [i \in 1..n |-> <<r[i], v[r[i]]>>] BY <1>3, <1>6
  <1>10. q \in Seq(Key \X Val) /\ Len(q) = n
    <2>1. \A i \in 1..n : <<r[i], v[r[i]]>> \in Key \X Val BY <1>8
    <2>2. q \in [1..n -> Key \X Val] BY <1>9, <2>1
    <2> QED BY <1>2, <2>2
  <1>11. \A i \in 1..n : q[i][1] = r[i] /\ q[i][2] = v[r[i]] BY <1>9
  <1>12. \A i, j \in 1..n : q[i][1] = q[j][1] => i = j
    <2> SUFFICES ASSUME NEW i \in 1..n, NEW j \in 1..n, q[i][1] = q[j][1] PROVE i = j
      OBVIOUS
    <2>1. (n - i) + 1 = (n - j) + 1 BY <1>2, <1>7, <1>11
    <2> QED BY <1>2, <2>1
  <1>13. ASSUME NEW k \in S PROVE \E i \in 1..n : q[i][1] = k
    <2>1. PICK j \in 1..n : f[j] = k BY <1>2
    <2>2. (n - j) + 1 \in 1..n /\ (n - ((n - j) + 1)) + 1 = j BY <1>2
    <2>3. q[(n - j) + 1][1] = k BY <1>7, <1>11, <2>1, <2>2
    <2> QED BY <2>2, <2>3
  <1>14. Lists(q, S, v) BY <1>8, <1>10, <1>11, <1>12, <1>13 DEF Lists
  <1> QED BY <1>14 DEF q

\* Each rank below the length is taken once, and a lower rank is a lower key.
LEMMA Ranks ==
    ASSUME NEW q, NEW S, NEW v, Lists(q, S, v), S \subseteq Key
    PROVE  /\ \A n \in 1..Len(q) : \E i \in 1..Len(q) : Cardinality(Lower(q, i)) = n - 1
           /\ \A i \in 1..Len(q) : Cardinality(Lower(q, i)) \in 0..(Len(q) - 1)
           /\ \A i, j \in 1..Len(q) :
                /\ Cardinality(Lower(q, i)) < Cardinality(Lower(q, j)) => q[i][1] < q[j][1]
                /\ Cardinality(Lower(q, i)) = Cardinality(Lower(q, j)) => i = j
PROOF
  <1> DEFINE L == Len(q)
             K(i) == q[i][1]
             R(i) == Cardinality(Lower(q, i))
             f == [i \in 1..L |-> R(i)]
  <1>1. L \in Nat BY DEF Lists
  <1>2. \A i \in 1..L : K(i) \in Int BY StateDBAssumption DEF Lists
  <1>3. \A i, j \in 1..L : K(i) = K(j) => i = j BY DEF Lists
  <1>4. \A i \in 1..L : Lower(q, i) = {j \in 1..L : K(j) < K(i)}
    BY <1>1, <1>2, <1>3, SMTT(30) DEF Lower
  <1>5. IsFiniteSet(1..L) /\ Cardinality(1..L) = L BY <1>1, UpTo
  <1>6. \A i \in 1..L : IsFiniteSet(Lower(q, i)) /\ R(i) \in Nat /\ R(i) <= L
    <2> SUFFICES ASSUME NEW i \in 1..L PROVE IsFiniteSet(Lower(q, i)) /\ R(i) \in Nat /\ R(i) <= L
      OBVIOUS
    <2>1. Lower(q, i) \in SUBSET (1..L) BY <1>4
    <2>2. IsFiniteSet(Lower(q, i)) /\ R(i) <= L BY <1>5, <2>1, FS_Subset
    <2> QED BY <2>2, FS_CardinalityType
  <1>7. ASSUME NEW i \in 1..L PROVE R(i) \in 0..(L - 1)
    <2>1. Lower(q, i) \in SUBSET (1..L) /\ i \notin Lower(q, i) BY <1>2, <1>4
    <2>2. R(i) # L BY <1>5, <2>1, FS_Subset
    <2> QED BY <1>1, <1>6, <2>2
  <1>8. ASSUME NEW i \in 1..L, NEW j \in 1..L, K(i) < K(j)
        PROVE  R(i) < R(j)
    <2>1. Lower(q, i) \in SUBSET Lower(q, j) /\ i \in Lower(q, j) /\ i \notin Lower(q, i)
      BY <1>2, <1>4, <1>8
    <2>2. R(i) <= R(j) /\ R(i) # R(j) BY <1>6, <2>1, FS_Subset
    <2> QED BY <1>6, <2>2
  <1> HIDE DEF R, K, L
  <1>9. ASSUME NEW i \in 1..L, NEW j \in 1..L, R(i) < R(j)
        PROVE  K(i) < K(j)
    <2>1. ~(K(j) < K(i)) BY <1>6, <1>8, <1>9
    <2>2. K(i) # K(j) BY <1>3, <1>6, <1>9
    <2> QED BY <1>2, <2>1, <2>2
  <1>10. \A i, j \in 1..L : R(i) = R(j) => i = j
    <2> SUFFICES ASSUME NEW i \in 1..L, NEW j \in 1..L, R(i) = R(j) PROVE i = j
      OBVIOUS
    <2>1. ~(K(j) < K(i)) /\ ~(K(i) < K(j)) BY <1>6, <1>8
    <2>2. K(i) = K(j) BY <1>2, <2>1
    <2> QED BY <1>3, <2>2
  <1>11. f \in Injection(1..L, 0..(L - 1))
    BY <1>7, <1>10 DEF Injection, IsInjective
  <1>12. IsFiniteSet(0..(L - 1)) /\ Cardinality(0..(L - 1)) = L
    <2>1. L - 1 \in Int /\ (0 > L - 1 => L = 0) /\ (L - 1) - 0 + 1 = L BY <1>1
    <2> QED BY <2>1, FS_Interval
  <1>13. f \in Surjection(1..L, 0..(L - 1))
    <2> HIDE DEF f
    <2> QED BY <1>5, <1>11, <1>12, FS_Injection
  <1>14. ASSUME NEW n \in 1..L PROVE \E i \in 1..L : R(i) = n - 1
    <2>1. n - 1 \in 0..(L - 1) BY <1>1
    <2>2. PICK i \in 1..L : f[i] = n - 1 BY <1>13, <2>1 DEF Surjection
    <2> QED BY <2>2
  <1> QED BY <1>7, <1>9, <1>10, <1>14 DEF R, K, L


LEMMA SortList ==
    ASSUME NEW q, NEW S, NEW v, Lists(q, S, v), S \subseteq Key
    PROVE  Lists(SortStorage(q), S, v) /\ StrictlySorted(SortStorage(q))
PROOF
  <1> DEFINE L == Len(q)
             R(i) == Cardinality(Lower(q, i))
             at == [n \in 1..L |-> CHOOSE i \in 1..L : R(i) = n - 1]
             p == SortStorage(q)
  <1>1. L \in Nat /\ q \in [1..L -> Key \X Val] BY DEF Lists
  <1>2. /\ \A n \in 1..L : \E i \in 1..L : R(i) = n - 1
        /\ \A i \in 1..L : R(i) \in 0..(L - 1)
        /\ \A i, j \in 1..L : R(i) < R(j) => q[i][1] < q[j][1]
        /\ \A i, j \in 1..L : R(i) = R(j) => i = j
    BY Ranks
  <1>3. p = [n \in 1..L |-> q[at[n]]] BY DEF SortStorage
  <1>4. /\ \A i \in 1..L : q[i][1] \in S /\ q[i][2] = v[q[i][1]]
        /\ \A k \in S : \E i \in 1..L : q[i][1] = k
        /\ \A i, j \in 1..L : q[i][1] = q[j][1] => i = j
    BY DEF Lists
  <1> HIDE DEF R, p, L
  <1>5. \A n \in 1..L : at[n] \in 1..L /\ R(at[n]) = n - 1 BY <1>2
  <1> HIDE DEF at
  <1>6. p \in [1..L -> Key \X Val] BY <1>1, <1>3, <1>5
  <1>7. p \in Seq(Key \X Val) /\ Len(p) = L /\ DOMAIN p = 1..L BY <1>1, <1>6
  <1>8. \A n \in 1..L : p[n] = q[at[n]] BY <1>3
  <1>9. ASSUME NEW k \in S PROVE \E n \in 1..L : p[n][1] = k
    <2>1. PICK i \in 1..L : q[i][1] = k BY <1>4
    <2>2. PICK n \in 1..L : n = R(i) + 1 BY <1>1, <1>2
    <2>3. R(at[n]) = R(i) BY <1>2, <1>5, <2>2
    <2>4. at[n] = i BY <1>2, <1>5, <2>3
    <2> QED BY <1>8, <2>1, <2>4
  <1>10. ASSUME NEW m \in 1..L, NEW n \in 1..L, m < n PROVE p[m][1] < p[n][1]
    <2>1. R(at[m]) < R(at[n]) BY <1>5, <1>10
    <2> QED BY <1>2, <1>5, <1>8, <2>1, SMTT(30)
  <1>11. ASSUME NEW m \in 1..L, NEW n \in 1..L, p[m][1] = p[n][1] PROVE m = n
    <2>1. at[m] = at[n] BY <1>4, <1>5, <1>8, <1>11
    <2>2. m - 1 = n - 1 BY <1>5, <2>1
    <2> QED BY <2>2
  <1>12. \A n \in 1..L : p[n][1] \in S /\ p[n][2] = v[p[n][1]] BY <1>4, <1>5, <1>8
  <1>13. Lists(p, S, v) BY <1>7, <1>9, <1>11, <1>12 DEF Lists
  <1>14. StrictlySorted(p) BY <1>7, <1>10 DEF StrictlySorted
  <1> QED BY <1>13, <1>14 DEF p

\* The reader of a saved account finds the listed keys with their values.
LEMMA SlotsList ==
    ASSUME NEW x, NEW S, NEW v, Lists(x.storage, S, v)
    PROVE  Slots(x) = S /\ \A k \in S : Slot(x, k) = v[k]
PROOF
  <1> DEFINE q == x.storage
  <1>1. q \in Seq(Key \X Val) /\ DOMAIN q = 1..Len(q) BY DEF Lists
  <1>2. Slots(x) = S BY <1>1 DEF Slots, Lists
  <1>3. ASSUME NEW k \in S PROVE Slot(x, k) = v[k]
    <2> DEFINE i == CHOOSE j \in DOMAIN q : q[j][1] = k
    <2>1. i \in DOMAIN q /\ q[i][1] = k BY <1>1 DEF Lists
    <2>2. Slot(x, k) = q[i][2] BY DEF Slot
    <2> HIDE DEF i
    <2> QED BY <1>1, <2>1, <2>2 DEF Lists
  <1> QED BY <1>2, <1>3

\* SaveSubstate sorts what Finalise listed.
LEMMA SavedList ==
    ASSUME NEW S \in SUBSET Key, NEW v \in [Key -> Val]
    PROVE  LET q == SortStorage(<<>> \o Entries(S, v))
               p == SortStorage(Entries(S, v))
           IN  /\ Lists(q, S, v) /\ StrictlySorted(q)
               /\ Lists(p, S, v) /\ StrictlySorted(p)
PROOF
  <1> DEFINE u == Entries(S, v)
  <1>1. Lists(u, S, v) BY EntriesList
  <1> HIDE DEF u
  <1>2. u \in Seq(Key \X Val) BY <1>1 DEF Lists
  <1>3. <<>> \o u = u BY <1>2
  <1>4. Lists(SortStorage(u), S, v) /\ StrictlySorted(SortStorage(u)) BY <1>1, SortList
  <1> QED BY <1>3, <1>4 DEF u

-------------------------------------------------------------------------------
(***************************************************************************)
(* The end of the transaction.                                             *)
(***************************************************************************)
LEMMA DirtyNow ==
    ASSUME NEW d, NEW w, NEW s, TxInv(d, w, s)
    PROVE  /\ \A a \in Dirties(d) : /\ a \in Addr /\ a \in DOMAIN d.obj /\ a \in DOMAIN d.pre
                                    /\ Alive(ShapeAt(d, a))
           /\ \A a \in Addr : a \notin Dirties(d) => Unchanged(ShapeAt(d, a), w[a])
PROOF
  <1> DEFINE n == Len(d.journal)
  <1>1. PICK h, T : Chain(d, w, s, h, T) BY DEF TxInv
  <1>2. TxOK(d, w, s) /\ DbOK(d) BY DEF TxInv, TxOK
  <1>3. n \in 0..n /\ n \in Nat /\ DOMAIN d.journal = 1..n BY <1>2 DEF TxOK
  <1>4. \A a \in Addr : h[n][a] = ShapeAt(d, a) BY <1>1 DEF Chain
  <1>5. Dirties(d) = {d.journal[j].addr : j \in 1..n} BY <1>3 DEF Dirties, Range
  <1>6. \A j \in 1..n : Alive(h[n][d.journal[j].addr]) BY <1>1, <1>3 DEF Chain
  <1>7. \A j \in 1..n : d.journal[j].addr \in DOMAIN d.pre BY <1>2 DEF TxOK
  <1>8. ASSUME NEW a \in Dirties(d)
        PROVE  a \in Addr /\ a \in DOMAIN d.obj /\ a \in DOMAIN d.pre /\ Alive(ShapeAt(d, a))
    <2>1. PICK j \in 1..n : a = d.journal[j].addr BY <1>5
    <2>2. a \in DOMAIN d.pre /\ a \in Addr BY <1>2, <1>7, <2>1 DEF DbOK
    <2>3. Alive(ShapeAt(d, a)) BY <1>4, <1>6, <2>1, <2>2
    <2>4. d.trie[a] # Nil => a \in DOMAIN d.obj BY <1>2, <2>2 DEF TxOK
    <2>5. a \in DOMAIN d.obj BY <2>3, <2>4 DEF ShapeAt, Absent, Alive, There
    <2> QED BY <2>2, <2>3, <2>5
  <1>9. ASSUME NEW a \in Addr, a \notin Dirties(d) PROVE Unchanged(ShapeAt(d, a), w[a])
    <2>1. \A j \in 1..n : d.journal[j].addr # a BY <1>5, <1>9
    <2>2. Unchanged(h[n][a], w[a]) BY <1>1, <1>3, <2>1 DEF Chain
    <2> QED BY <1>4, <2>2
  <1> QED BY <1>8, <1>9


LEMMA FinalisedSlots ==
    ASSUME NEW o \in Object
    PROVE  LET p == finalise(o) IN
           /\ p \in Object /\ p.nonce = o.nonce /\ p.bal = o.bal /\ p.code = o.code
           /\ p.deleted = o.deleted /\ p.touched = {}
           /\ \A gone, t : Com(p, gone, t) = Cur(o, gone, t) /\ Cur(p, gone, t) = Cur(o, gone, t)
PROOF
  <1> DEFINE f == [k \in Key |-> IF o.dirty[k] # None THEN o.dirty[k] ELSE o.pend[k]]
             z == NoSlots
             p == [o EXCEPT !.pend = f, !.dirty = z, !.touched = {}]
  <1>1. finalise(o) = p BY DEF finalise
  <1>2. f \in Cache /\ z \in Cache /\ \A k \in Key : z[k] = None
    BY DEF Object, Cache, NoSlots
  <1>3. \A k \in Key : f[k] = IF o.dirty[k] # None THEN o.dirty[k] ELSE o.pend[k] OBVIOUS
  <1> HIDE DEF f, z
  <1>4. /\ p.nonce = o.nonce /\ p.bal = o.bal /\ p.code = o.code /\ p.deleted = o.deleted
        /\ p.touched = {} /\ p.pend = f /\ p.dirty = z /\ p.origin = o.origin
    BY DEF Object
  <1>5. p \in Object BY <1>2 DEF Object
  <1> HIDE DEF p
  <1>6. ASSUME NEW gone, NEW t
        PROVE  Com(p, gone, t) = Cur(o, gone, t) /\ Cur(p, gone, t) = Cur(o, gone, t)
    <2>1. \A k \in Key : Com(p, gone, t)[k] = Cur(o, gone, t)[k]
      BY <1>3, <1>4 DEF Com, Cur
    <2>2. Com(p, gone, t) = Cur(o, gone, t) BY <2>1 DEF Com, Cur
    <2>3. \A k \in Key : Cur(p, gone, t)[k] = Com(p, gone, t)[k]
      BY <1>2, <1>4 DEF Cur
    <2>4. Cur(p, gone, t) = Com(p, gone, t) BY <2>3 DEF Com, Cur
    <2> QED BY <2>2, <2>4
  <1> QED BY <1>1, <1>4, <1>5, <1>6

LEMMA FinalisedObject ==
    ASSUME NEW d, DbOK(d), NEW a \in DOMAIN d.obj, NEW r
    PROVE  LET o == d.obj[a]
               p == finaliseObject(d, a, r)
           IN  /\ p \in Object
               /\ a \notin Dirties(d) => p = o
               /\ a \in Dirties(d) /\ Doomed(d, a, r) => p.deleted
               /\ a \in Dirties(d) /\ ~Doomed(d, a, r) =>
                    /\ p.nonce = o.nonce /\ p.bal = o.bal /\ p.code = o.code
                    /\ p.deleted = o.deleted
                    /\ \A gone, t : /\ Com(p, gone, t) = Cur(o, gone, t)
                                    /\ Cur(p, gone, t) = Cur(o, gone, t)
PROOF
  <1> DEFINE o == d.obj[a]
             p == finaliseObject(d, a, r)
             no == FALSE
             yes == TRUE
  <1>1. o \in Object BY DEF DbOK
  <1>2. no \in BOOLEAN /\ yes \in BOOLEAN OBVIOUS
  <1>3. CASE a \notin Dirties(d) BY <1>1, <1>3 DEF finaliseObject
  <1>4. CASE a \in Dirties(d) /\ Doomed(d, a, r)
    <2> DEFINE q == [o EXCEPT !.deleted = yes, !.created = no]
    <2>1. p = q BY <1>4 DEF finaliseObject
    <2>2. q \in Object /\ q.deleted = yes
      <3> HIDE DEF yes, no, o
      <3> QED BY <1>1, <1>2 DEF Object
    <2>3. q \in Object /\ q.deleted BY <2>2
    <2> HIDE DEF q
    <2>4. p \in Object /\ p.deleted BY <2>1, <2>3
    <2> QED BY <1>4, <2>4
  <1>5. CASE a \in Dirties(d) /\ ~Doomed(d, a, r)
    <2> DEFINE f == finalise(o)
               q == [f EXCEPT !.created = no]
    <2>1. p = q BY <1>5 DEF finaliseObject
    <2>2. /\ f \in Object /\ f.nonce = o.nonce /\ f.bal = o.bal /\ f.code = o.code
          /\ f.deleted = o.deleted
          /\ \A gone, t : Com(f, gone, t) = Cur(o, gone, t) /\ Cur(f, gone, t) = Cur(o, gone, t)
      BY <1>1, FinalisedSlots
    <2> HIDE DEF f
    <2>3. /\ q \in Object /\ q.nonce = f.nonce /\ q.bal = f.bal /\ q.code = f.code
          /\ q.deleted = f.deleted /\ SameSlots(f, q)
      <3> HIDE DEF no
      <3> QED BY <1>2, <2>2 DEF Object, SameSlots
    <2> HIDE DEF q
    <2>4. \A gone, t : Com(q, gone, t) = Cur(o, gone, t) /\ Cur(q, gone, t) = Cur(o, gone, t)
      BY <2>2, <2>3, SlotsShown
    <2> HIDE DEF p, o
    <2>5. /\ p \in Object /\ p.nonce = o.nonce /\ p.bal = o.bal /\ p.code = o.code
          /\ p.deleted = o.deleted
          /\ \A gone, t : Com(p, gone, t) = Cur(o, gone, t) /\ Cur(p, gone, t) = Cur(o, gone, t)
      BY <2>1, <2>2, <2>3, <2>4
    <2> QED BY <1>5, <2>5 DEF p, o
  <1> QED BY <1>3, <1>4, <1>5

LEMMA FinaliseFields ==
    ASSUME NEW d, DOMAIN d = Fields, NEW r
    PROVE  LET e == Finalise(d, r) IN
           /\ DOMAIN e = Fields /\ e.eip158 = d.eip158 /\ e.trie = d.trie
           /\ e.journal = <<>> /\ e.revs = <<>>
           /\ e.pre = FinalisedPre(d) /\ e.post = FinalisedPost(d, r)
           /\ e.obj = [a \in DOMAIN d.obj |-> finaliseObject(d, a, r)]
           /\ e.destruct = d.destruct \cup {a \in Dirties(d) \cap DOMAIN d.obj : Doomed(d, a, r)}
PROOF
  <1> DEFINE p == FinalisedPre(d)
             q == FinalisedPost(d, r)
             f == [a \in DOMAIN d.obj |-> finaliseObject(d, a, r)]
             x == d.destruct \cup {a \in Dirties(d) \cap DOMAIN d.obj : Doomed(d, a, r)}
             c == [d EXCEPT !.pre = p, !.post = q, !.obj = f, !.destruct = x]
             e == [c EXCEPT !.journal = <<>>, !.revs = <<>>]
  <1>1. Finalise(d, r) = e BY DEF Finalise, clearJournal
  <1> HIDE DEF p, q, f, x
  <1>2. /\ DOMAIN c = Fields /\ c.eip158 = d.eip158 /\ c.trie = d.trie
        /\ c.pre = p /\ c.post = q /\ c.obj = f /\ c.destruct = x
    BY DEF Fields
  <1> HIDE DEF c
  <1>3. /\ DOMAIN e = Fields /\ e.eip158 = c.eip158 /\ e.trie = c.trie
        /\ e.pre = c.pre /\ e.post = c.post /\ e.obj = c.obj /\ e.destruct = c.destruct
        /\ e.journal = <<>> /\ e.revs = <<>>
    BY <1>2 DEF Fields
  <1> QED BY <1>1, <1>2, <1>3 DEF p, q, f, x


LEMMA SeesSlots ==
    ASSUME NEW d, DbOK(d), NEW a \in DOMAIN d.obj
    PROVE  /\ [k \in Key |-> committedState(d, a, k)] = ShapeAt(d, a).com
           /\ [k \in Key |-> currentState(d, a, k)] = ShapeAt(d, a).cur
           /\ ShapeAt(d, a).com \in [Key -> Val] /\ ShapeAt(d, a).cur \in [Key -> Val]
           /\ d.obj[a].touched = TouchedAt(d, a) /\ TouchedAt(d, a) \in SUBSET Key
PROOF
  <1> DEFINE g == ShapeAt(d, a)
  <1>1. a \in Addr /\ d.obj[a] \in Object BY DEF DbOK
  <1>2. g \in Shape BY <1>1, ShapeAtOK
  <1> HIDE DEF g
  <1>3. g.com \in [Key -> Val] /\ g.cur \in [Key -> Val] BY <1>2 DEF Shape
  <1>4. \A k \in Key : currentState(d, a, k) = g.cur[k] /\ committedState(d, a, k) = g.com[k]
    BY <1>1, SeesShape DEF g
  <1>5. [k \in Key |-> committedState(d, a, k)] = g.com BY <1>3, <1>4
  <1>6. [k \in Key |-> currentState(d, a, k)] = g.cur BY <1>3, <1>4
  <1>7. d.obj[a].touched = TouchedAt(d, a) /\ TouchedAt(d, a) \in SUBSET Key
    BY <1>1 DEF TouchedAt, Object
  <1> QED BY <1>3, <1>5, <1>6, <1>7 DEF g

LEMMA SavedWith ==
    ASSUME NEW x \in Saved, NEW q \in Seq(Key \X Val)
    PROVE  LET y == [x EXCEPT !.storage = q] IN
           y \in Saved /\ y.storage = q /\ Account(y, <<>>) = Account(x, <<>>)
PROOF
  <1> DEFINE y == [x EXCEPT !.storage = q]
             z == Seq(Key \X Val)
  <1>1. q \in z /\ x \in [nonce : 0..1, bal : 0..MaxBal, code : 0..1, storage : z] BY DEF Saved
  <1>2. /\ y \in [nonce : 0..1, bal : 0..MaxBal, code : 0..1, storage : z]
        /\ y.storage = q /\ y.nonce = x.nonce /\ y.bal = x.bal /\ y.code = x.code
    <2> HIDE DEF z
    <2> QED BY <1>1
  <1> HIDE DEF y
  <1>3. y \in Saved BY <1>2 DEF Saved
  <1>4. Account(y, <<>>) = Account(x, <<>>) BY <1>2 DEF Account
  <1> QED BY <1>2, <1>3, <1>4 DEF y

LEMMA AccountSaved ==
    ASSUME NEW o \in Object, NEW q \in Seq(Key \X Val)
    PROVE  Account(o, q) \in Saved /\ Account(o, q).storage = q
BY DEF Account, Object, Saved

\* What Finalise writes to pre.
LEMMA PreFields ==
    ASSUME NEW d, DbOK(d)
    PROVE  /\ DOMAIN FinalisedPre(d) = Recorded(d)
           /\ \A a \in Recorded(d) : LET y == FinalisedPre(d)[a] IN
                /\ y \in Saved /\ Account(y, <<>>) = Account(d.pre[a], <<>>)
                /\ y.storage = d.pre[a].storage \o Entries(TouchedAt(d, a), ShapeAt(d, a).com)
PROOF
  <1>1. DOMAIN FinalisedPre(d) = Recorded(d) BY DEF FinalisedPre
  <1>2. ASSUME NEW a \in Recorded(d)
        PROVE  LET y == FinalisedPre(d)[a] IN
                /\ y \in Saved /\ Account(y, <<>>) = Account(d.pre[a], <<>>)
                /\ y.storage = d.pre[a].storage \o Entries(TouchedAt(d, a), ShapeAt(d, a).com)
    <2> DEFINE x == d.pre[a]
               u == Entries(TouchedAt(d, a), ShapeAt(d, a).com)
               q == x.storage \o u
               y == [x EXCEPT !.storage = q]
    <2>1. a \in DOMAIN d.obj /\ x \in Saved BY DEF Recorded, DbOK
    <2>2. /\ [k \in Key |-> committedState(d, a, k)] = ShapeAt(d, a).com
          /\ d.obj[a].touched = TouchedAt(d, a) /\ TouchedAt(d, a) \in SUBSET Key
          /\ ShapeAt(d, a).com \in [Key -> Val]
      BY <2>1, SeesSlots
    <2>3. FinalisedPre(d)[a] = y BY <2>2 DEF FinalisedPre
    <2>4. u \in Seq(Key \X Val) BY <2>2, EntriesList DEF Lists
    <2> HIDE DEF u
    <2>5. q \in Seq(Key \X Val)
      <3>1. x.storage \in Seq(Key \X Val) BY <2>1 DEF Saved
      <3> QED BY <2>4, <3>1
    <2> HIDE DEF q, x
    <2>6. y \in Saved /\ y.storage = q /\ Account(y, <<>>) = Account(x, <<>>)
      BY <2>1, <2>5, SavedWith
    <2> QED BY <2>3, <2>6 DEF q, u, x
  <1> QED BY <1>1, <1>2

\* What Finalise writes to post.
LEMMA PostFields ==
    ASSUME NEW d, DbOK(d), NEW r
    PROVE  LET q == FinalisedPost(d, r)
               dirties == Dirties(d) \cap DOMAIN d.obj
               copied == DOMAIN d.post \cup Recorded(d)
               kept == {a \in dirties : ~Doomed(d, a, r)}
           IN  /\ DOMAIN q = (copied \ dirties) \cup kept
               /\ \A a \in kept : LET u == Entries(TouchedAt(d, a), ShapeAt(d, a).cur) IN
                    q[a] = Account(d.obj[a], u) /\ q[a] \in Saved /\ q[a].storage = u
               /\ \A a \in copied \ dirties :
                    q[a] = IF a \in Recorded(d) THEN FinalisedPre(d)[a] ELSE d.post[a]
               /\ \A a \in DOMAIN q : q[a] \in Saved /\ a \in Addr
PROOF
  <1> DEFINE q == FinalisedPost(d, r)
             dirties == Dirties(d) \cap DOMAIN d.obj
             kept == {a \in dirties : ~Doomed(d, a, r)}
             copied == PutAll(d.post, FinalisedPre(d))
  <1>1. DOMAIN FinalisedPre(d) = Recorded(d) BY PreFields
  <1>2. /\ DOMAIN copied = DOMAIN d.post \cup Recorded(d)
        /\ \A a \in DOMAIN copied :
            copied[a] = IF a \in Recorded(d) THEN FinalisedPre(d)[a] ELSE d.post[a]
    BY <1>1 DEF PutAll
  <1>3. DOMAIN q = (DOMAIN copied \ dirties) \cup kept BY DEF FinalisedPost
  <1>4. \A a \in DOMAIN copied \ dirties : q[a] = copied[a] BY DEF FinalisedPost
  <1>5. ASSUME NEW a \in kept
        PROVE  LET u == Entries(TouchedAt(d, a), ShapeAt(d, a).cur) IN
               q[a] = Account(d.obj[a], u) /\ q[a] \in Saved /\ q[a].storage = u
    <2> DEFINE u == Entries(TouchedAt(d, a), ShapeAt(d, a).cur)
    <2>1. a \in DOMAIN d.obj /\ d.obj[a] \in Object BY DEF DbOK
    <2>2. /\ [k \in Key |-> currentState(d, a, k)] = ShapeAt(d, a).cur
          /\ d.obj[a].touched = TouchedAt(d, a) /\ TouchedAt(d, a) \in SUBSET Key
          /\ ShapeAt(d, a).cur \in [Key -> Val]
      BY <2>1, SeesSlots
    <2>3. q[a] = Account(d.obj[a], u) BY <2>2 DEF FinalisedPost
    <2>4. u \in Seq(Key \X Val) BY <2>2, EntriesList DEF Lists
    <2> HIDE DEF u, q
    <2>5. Account(d.obj[a], u) \in Saved /\ Account(d.obj[a], u).storage = u
      BY <2>1, <2>4, AccountSaved
    <2> QED BY <2>3, <2>5 DEF u
  <1> HIDE DEF q, copied
  <1>6. ASSUME NEW a \in DOMAIN q PROVE q[a] \in Saved /\ a \in Addr
    <2>1. CASE a \in kept BY <1>5, <2>1 DEF DbOK
    <2>2. CASE a \in DOMAIN copied \ dirties
      <3>1. a \in Recorded(d) => FinalisedPre(d)[a] \in Saved /\ a \in Addr
        BY PreFields DEF Recorded, DbOK
      <3>2. a \in DOMAIN d.post => d.post[a] \in Saved /\ a \in Addr BY DEF DbOK
      <3> QED BY <1>2, <1>4, <2>2, <3>1, <3>2
    <2> QED BY <1>3, <2>1, <2>2
  <1>7. DOMAIN q = ((DOMAIN d.post \cup Recorded(d)) \ dirties) \cup kept BY <1>2, <1>3
  <1>8. \A a \in (DOMAIN d.post \cup Recorded(d)) \ dirties :
            q[a] = IF a \in Recorded(d) THEN FinalisedPre(d)[a] ELSE d.post[a]
    BY <1>2, <1>4
  <1> QED BY <1>5, <1>6, <1>7, <1>8 DEF q

LEMMA FinaliseDb ==
    ASSUME NEW d, DbOK(d), NEW r
    PROVE  DbOK(Finalise(d, r))
PROOF
  <1> DEFINE e == Finalise(d, r)
  <1>1. DOMAIN d = Fields BY DEF DbOK
  <1>2. /\ DOMAIN e = Fields /\ e.eip158 = d.eip158 /\ e.trie = d.trie
        /\ e.pre = FinalisedPre(d) /\ e.post = FinalisedPost(d, r)
        /\ e.obj = [a \in DOMAIN d.obj |-> finaliseObject(d, a, r)]
        /\ e.destruct = d.destruct \cup {a \in Dirties(d) \cap DOMAIN d.obj : Doomed(d, a, r)}
    BY <1>1, FinaliseFields
  <1> HIDE DEF e
  <1>3. DOMAIN e.obj = DOMAIN d.obj /\ \A a \in DOMAIN e.obj : e.obj[a] \in Object
    BY <1>2, FinalisedObject
  <1>4. e.destruct \subseteq DOMAIN e.obj BY <1>2, <1>3 DEF DbOK
  <1>5. DOMAIN e.pre = Recorded(d) /\ \A a \in DOMAIN e.pre : e.pre[a] \in Saved
    BY <1>2, PreFields
  <1>6. Recorded(d) \subseteq DOMAIN d.obj /\ Recorded(d) \subseteq Addr BY DEF Recorded, DbOK
  <1>7. \A a \in DOMAIN e.post : e.post[a] \in Saved /\ a \in Addr
    <2> DEFINE q == FinalisedPost(d, r)
               dirties == Dirties(d) \cap DOMAIN d.obj
               copied == DOMAIN d.post \cup Recorded(d)
               kept == {a \in dirties : ~Doomed(d, a, r)}
    <2>1. /\ DOMAIN q = (copied \ dirties) \cup kept
          /\ \A a \in kept : LET u == Entries(TouchedAt(d, a), ShapeAt(d, a).cur) IN
               q[a] = Account(d.obj[a], u) /\ q[a] \in Saved /\ q[a].storage = u
          /\ \A a \in copied \ dirties :
               q[a] = IF a \in Recorded(d) THEN FinalisedPre(d)[a] ELSE d.post[a]
          /\ \A a \in DOMAIN q : q[a] \in Saved /\ a \in Addr
      BY PostFields
    <2> HIDE DEF q, dirties, copied, kept
    <2>2. \A a \in DOMAIN q : q[a] \in Saved /\ a \in Addr BY <2>1
    <2> QED BY <1>2, <2>2 DEF q
  <1>8. DbOK(e) BY <1>2, <1>3, <1>4, <1>5, <1>6, <1>7 DEF DbOK
  <1> QED BY <1>8 DEF e


\* Finalise empties the slots of the dirty objects and deletes the doomed ones.
LEMMA FinaliseShape ==
    ASSUME NEW d, DbOK(d), NEW r, NEW a \in Addr
    PROVE  LET g == ShapeAt(d, a)
               h == ShapeAt(Finalise(d, r), a)
               dirty == a \in Dirties(d) \cap DOMAIN d.obj
           IN  /\ ~dirty => h = g
               /\ dirty /\ Doomed(d, a, r) => ~Alive(h)
               /\ dirty /\ ~Doomed(d, a, r) =>
                    /\ Alive(h) <=> Alive(g)
                    /\ h.nonce = g.nonce /\ h.bal = g.bal /\ h.code = g.code
                    /\ h.com = g.cur /\ h.cur = g.cur
PROOF
  <1> DEFINE e == Finalise(d, r)
             t == d.trie[a]
             g == ShapeAt(d, a)
             h == ShapeAt(e, a)
             o == d.obj[a]
             p == finaliseObject(d, a, r)
  <1>1. DOMAIN d = Fields BY DEF DbOK
  <1>2. /\ e.trie = d.trie
        /\ e.obj = [b \in DOMAIN d.obj |-> finaliseObject(d, b, r)]
        /\ e.destruct = d.destruct \cup {b \in Dirties(d) \cap DOMAIN d.obj : Doomed(d, b, r)}
    BY <1>1, FinaliseFields
  <1> HIDE DEF e
  <1>3. CASE a \notin DOMAIN d.obj
    <2>1. a \notin DOMAIN e.obj /\ (a \in e.destruct <=> a \in d.destruct) BY <1>2, <1>3
    <2>2. (a \in e.destruct) = (a \in d.destruct) BY <2>1
    <2>3. h = g BY <1>2, <1>3, <2>1, <2>2 DEF ShapeAt
    <2> QED BY <1>3, <2>3 DEF e
  <1>4. CASE a \in DOMAIN d.obj
    <2>1. /\ p \in Object
          /\ a \notin Dirties(d) => p = o
          /\ a \in Dirties(d) /\ Doomed(d, a, r) => p.deleted
          /\ a \in Dirties(d) /\ ~Doomed(d, a, r) =>
               /\ p.nonce = o.nonce /\ p.bal = o.bal /\ p.code = o.code
               /\ p.deleted = o.deleted
               /\ \A gone, x : Com(p, gone, x) = Cur(o, gone, x) /\ Cur(p, gone, x) = Cur(o, gone, x)
      BY <1>4, FinalisedObject
    <2>2. a \in DOMAIN e.obj /\ e.obj[a] = p BY <1>2, <1>4
    <2> HIDE DEF p
    <2>3. h = Shown(p, a \in e.destruct, t) BY <1>2, <2>2 DEF ShapeAt
    <2>4. g = Shown(o, a \in d.destruct, t) BY <1>4 DEF ShapeAt
    <2>5. ~(a \in Dirties(d) /\ Doomed(d, a, r)) => (a \in e.destruct) = (a \in d.destruct)
      BY <1>2
    <2> HIDE DEF h, g, o, t
    <2>6. a \notin Dirties(d) => h = g BY <2>1, <2>3, <2>4, <2>5
    <2>7. a \in Dirties(d) /\ Doomed(d, a, r) => ~Alive(h)
      BY <2>1, <2>3 DEF Alive, Shown
    <2>8. ASSUME a \in Dirties(d), ~Doomed(d, a, r)
          PROVE  /\ Alive(h) <=> Alive(g)
                 /\ h.nonce = g.nonce /\ h.bal = g.bal /\ h.code = g.code
                 /\ h.com = g.cur /\ h.cur = g.cur
      <3>1. h = Shown(p, a \in d.destruct, t) BY <2>3, <2>5, <2>8
      <3>2. /\ p.nonce = o.nonce /\ p.bal = o.bal /\ p.code = o.code /\ p.deleted = o.deleted
            /\ \A gone, x : Com(p, gone, x) = Cur(o, gone, x) /\ Cur(p, gone, x) = Cur(o, gone, x)
        BY <2>1, <2>8
      <3>3. /\ h.there = "yes" /\ h.nonce = p.nonce /\ h.bal = p.bal /\ h.code = p.code
            /\ h.deleted = p.deleted /\ h.com = Com(p, a \in d.destruct, t)
            /\ h.cur = Cur(p, a \in d.destruct, t)
        BY <3>1 DEF Shown
      <3>4. /\ g.there = "yes" /\ g.nonce = o.nonce /\ g.bal = o.bal /\ g.code = o.code
            /\ g.deleted = o.deleted /\ g.cur = Cur(o, a \in d.destruct, t)
        BY <2>4 DEF Shown
      <3> QED BY <3>2, <3>3, <3>4 DEF Alive, There
    <2> QED BY <1>4, <2>6, <2>7, <2>8 DEF e, g, h
  <1> QED BY <1>3, <1>4

LEMMA SaveFields ==
    ASSUME NEW d, DOMAIN d = Fields
    PROVE  LET e == SaveSubstate(d) IN
           /\ DOMAIN e = Fields /\ e.eip158 = d.eip158 /\ e.trie = d.trie
           /\ e.journal = d.journal /\ e.revs = d.revs /\ e.obj = d.obj
           /\ e.destruct = d.destruct
           /\ e.pre = SaveAlloc(d.pre) /\ e.post = SaveAlloc(d.post)
PROOF
  <1> DEFINE p == SaveAlloc(d.pre)
             q == SaveAlloc(d.post)
             e == [d EXCEPT !.pre = p, !.post = q]
  <1>1. SaveSubstate(d) = e BY DEF SaveSubstate
  <1> HIDE DEF p, q
  <1>2. /\ DOMAIN e = Fields /\ e.eip158 = d.eip158 /\ e.trie = d.trie
        /\ e.journal = d.journal /\ e.revs = d.revs /\ e.obj = d.obj
        /\ e.destruct = d.destruct /\ e.pre = p /\ e.post = q
    BY DEF Fields
  <1> QED BY <1>1, <1>2 DEF p, q

LEMMA SaveAllocAt ==
    ASSUME NEW m, NEW a \in DOMAIN m, m[a] \in Saved, NEW S, NEW v, S \subseteq Key,
           Lists(m[a].storage, S, v)
    PROVE  LET x == SaveAlloc(m)[a] IN
           /\ x \in Saved /\ Account(x, <<>>) = Account(m[a], <<>>)
           /\ Lists(x.storage, S, v) /\ StrictlySorted(x.storage)
PROOF
  <1> DEFINE q == SortStorage(m[a].storage)
             y == m[a]
  <1>1. SaveAlloc(m)[a] = [y EXCEPT !.storage = q] BY DEF SaveAlloc
  <1>2. Lists(q, S, v) /\ StrictlySorted(q) BY SortList
  <1> HIDE DEF q, y
  <1>3. q \in Seq(Key \X Val) /\ y \in Saved BY <1>2 DEF Lists, y
  <1> DEFINE x == [y EXCEPT !.storage = q]
  <1>4. x \in Saved /\ x.storage = q /\ Account(x, <<>>) = Account(y, <<>>)
    BY <1>3, SavedWith
  <1> HIDE DEF x
  <1>5. SaveAlloc(m)[a] = x BY <1>1 DEF x
  <1> QED BY <1>2, <1>4, <1>5 DEF y

\* A recorded account x that lists S with the values v of the account y.
Records(x, y, S, v) ==
    /\ x \in Saved /\ Account(x, <<>>) = Account(y, <<>>)
    /\ Lists(x.storage, S, v) /\ StrictlySorted(x.storage)

\* Finalise keeps the object of a.
Survives(d, a) == a \in Dirties(d) /\ ~Doomed(d, a, d.eip158)

(***************************************************************************)
(* What applyTransaction and SaveSubstate record at the end of the         *)
(* transaction that began in w.                                            *)
(***************************************************************************)
LEMMA EndRecords ==
    ASSUME NEW d, NEW w, NEW s, TxInv(d, w, s)
    PROVE  LET e == SaveSubstate(Finalise(d, d.eip158)) IN
           /\ DOMAIN e.pre = Recorded(d)
           /\ \A a \in Recorded(d) :
                w[a] # Nil /\ Records(e.pre[a], w[a], TouchedAt(d, a), ShapeAt(d, a).com)
           /\ DOMAIN e.post = (Recorded(d) \ Dirties(d)) \cup {a \in Dirties(d) : Survives(d, a)}
           /\ \A a \in Recorded(d) \ Dirties(d) :
                Records(e.post[a], w[a], TouchedAt(d, a), ShapeAt(d, a).com)
           /\ \A a \in Dirties(d) : Survives(d, a) =>
                Records(e.post[a], d.obj[a], TouchedAt(d, a), ShapeAt(d, a).cur)
PROOF
  <1> DEFINE r == d.eip158
             c == Finalise(d, r)
             e == SaveSubstate(c)
  <1>1. DbOK(d) /\ TxOK(d, w, s) BY TxNow
  <1>2. DOMAIN d = Fields BY <1>1 DEF DbOK
  <1>3. DOMAIN c = Fields /\ c.pre = FinalisedPre(d) /\ c.post = FinalisedPost(d, r)
    BY <1>2, FinaliseFields
  <1> HIDE DEF c, r
  <1>4. e.pre = SaveAlloc(c.pre) /\ e.post = SaveAlloc(c.post) BY <1>3, SaveFields
  <1> HIDE DEF e
  <1>5. Dirties(d) \subseteq DOMAIN d.obj BY DirtyNow
  <1>6. DOMAIN e.pre = Recorded(d) BY <1>1, <1>3, <1>4, PreFields DEF SaveAlloc
  <1>7. DOMAIN d.post = {} BY <1>1 DEF TxOK
  <1>8. ASSUME NEW a \in Recorded(d)
        PROVE  /\ w[a] # Nil /\ c.pre[a] \in Saved /\ Account(c.pre[a], <<>>) = Account(w[a], <<>>)
               /\ TouchedAt(d, a) \in SUBSET Key
               /\ Lists(c.pre[a].storage, TouchedAt(d, a), ShapeAt(d, a).com)
    <2> DEFINE u == Entries(TouchedAt(d, a), ShapeAt(d, a).com)
    <2>1. a \in DOMAIN d.pre /\ d.pre[a] # Nil BY DEF Recorded
    <2>2. w[a] # Nil /\ d.pre[a] = Account(w[a], <<>>) BY <1>1, <2>1 DEF TxOK
    <2>3. d.pre[a].storage = <<>> /\ Account(d.pre[a], <<>>) = Account(w[a], <<>>)
      BY <2>2 DEF Account
    <2>4. a \in DOMAIN d.obj BY <1>1, <2>1 DEF DbOK
    <2>5. TouchedAt(d, a) \in SUBSET Key /\ ShapeAt(d, a).com \in [Key -> Val]
      BY <1>1, <2>4, SeesSlots
    <2>6. Lists(u, TouchedAt(d, a), ShapeAt(d, a).com) BY <2>5, EntriesList
    <2>7. /\ c.pre[a] \in Saved /\ Account(c.pre[a], <<>>) = Account(d.pre[a], <<>>)
          /\ c.pre[a].storage = d.pre[a].storage \o u
      BY <1>1, <1>3, PreFields
    <2> HIDE DEF u
    <2>8. u \in Seq(Key \X Val) BY <2>6 DEF Lists
    <2>9. <<>> \o u = u BY <2>8
    <2> QED BY <2>2, <2>3, <2>5, <2>6, <2>7, <2>9
  <1>9. DOMAIN c.pre = Recorded(d) BY <1>1, <1>3, PreFields
  <1>10. ASSUME NEW a \in Recorded(d)
         PROVE  w[a] # Nil /\ Records(e.pre[a], w[a], TouchedAt(d, a), ShapeAt(d, a).com)
    BY <1>4, <1>8, <1>9, SaveAllocAt DEF Records
  <1> DEFINE kept == {a \in Dirties(d) : Survives(d, a)}
  <1>11. /\ DOMAIN c.post = (Recorded(d) \ Dirties(d)) \cup kept
         /\ \A a \in kept : LET u == Entries(TouchedAt(d, a), ShapeAt(d, a).cur) IN
              c.post[a] = Account(d.obj[a], u) /\ c.post[a] \in Saved /\ c.post[a].storage = u
         /\ \A a \in Recorded(d) \ Dirties(d) : c.post[a] = c.pre[a]
    <2> DEFINE X == Dirties(d) \cap DOMAIN d.obj
               Y == DOMAIN d.post \cup Recorded(d)
               Z == {a \in X : ~Doomed(d, a, r)}
               f == FinalisedPost(d, r)
    <2>1. /\ DOMAIN f = (Y \ X) \cup Z
          /\ \A a \in Z : LET u == Entries(TouchedAt(d, a), ShapeAt(d, a).cur) IN
               f[a] = Account(d.obj[a], u) /\ f[a] \in Saved /\ f[a].storage = u
          /\ \A a \in Y \ X :
               f[a] = IF a \in Recorded(d) THEN FinalisedPre(d)[a] ELSE d.post[a]
      BY <1>1, PostFields
    <2>4. f = c.post BY <1>3
    <2>2. X = Dirties(d) /\ Y = Recorded(d) BY <1>5, <1>7
    <2>3. Z = kept BY <2>2 DEF Survives, r
    <2> HIDE DEF X, Y, Z, f, kept
    <2> QED BY <1>3, <2>1, <2>2, <2>3, <2>4
  <1>12. DOMAIN e.post = (Recorded(d) \ Dirties(d)) \cup kept BY <1>4, <1>11 DEF SaveAlloc
  <1>13. ASSUME NEW a \in Recorded(d) \ Dirties(d)
         PROVE  Records(e.post[a], w[a], TouchedAt(d, a), ShapeAt(d, a).com)
    <2>1. a \in DOMAIN c.post /\ c.post[a] = c.pre[a] /\ a \in Recorded(d) BY <1>11
    <2> QED BY <1>4, <1>8, <2>1, SaveAllocAt DEF Records
  <1>14. ASSUME NEW a \in kept
         PROVE  Records(e.post[a], d.obj[a], TouchedAt(d, a), ShapeAt(d, a).cur)
    <2> DEFINE u == Entries(TouchedAt(d, a), ShapeAt(d, a).cur)
    <2>1. a \in DOMAIN c.post /\ c.post[a] = Account(d.obj[a], u) /\ c.post[a] \in Saved
          /\ c.post[a].storage = u
      BY <1>11
    <2>2. a \in DOMAIN d.obj BY <1>5
    <2>3. TouchedAt(d, a) \in SUBSET Key /\ ShapeAt(d, a).cur \in [Key -> Val]
      BY <1>1, <2>2, SeesSlots
    <2>4. Lists(u, TouchedAt(d, a), ShapeAt(d, a).cur) BY <2>3, EntriesList
    <2> HIDE DEF u
    <2>5. Account(c.post[a], <<>>) = Account(d.obj[a], <<>>) BY <2>1 DEF Account
    <2> QED BY <1>4, <2>1, <2>3, <2>4, <2>5, SaveAllocAt DEF Records
  <1> QED BY <1>6, <1>10, <1>12, <1>13, <1>14 DEF e, c, r


(***************************************************************************)
(* Between two transactions: nothing is journaled, every slot is           *)
(* committed, and in a block with EIP-158 an account without nonce and     *)
(* code where a contract may be created has no storage.                    *)
(***************************************************************************)
IdleOK(d) ==
    /\ DbOK(d) /\ d.journal = <<>> /\ d.revs = <<>>
    /\ \A a \in Addr : LET g == ShapeAt(d, a) IN
        Alive(g) => /\ g.cur = g.com
                    /\ d.eip158 /\ Bare(g) /\ a \in Made => \A k \in Key : g.cur[k] = 0

\* The two properties of the substate of a transaction that began in w.
InputOK(input, w) ==
    \A a \in DOMAIN input :
        LET x == input[a] IN
        /\ w[a] # Nil
        /\ Account(x, <<>>) = Account(w[a], <<>>)
        /\ \A k \in Slots(x) : Slot(x, k) = w[a].storage[k]
        /\ StrictlySorted(x.storage)
WrittenOver(x, old, new) ==
    /\ new # Nil
    /\ Account(x, <<>>) = Account(new, <<>>)
    /\ \A k \in Key : new.storage[k] =
            IF k \in Slots(x) THEN Slot(x, k)
            ELSE IF old = Nil THEN 0 ELSE old.storage[k]
OutputOK(input, output, w, after) ==
    \A a \in Addr :
        IF a \in DOMAIN output THEN WrittenOver(output[a], w[a], after[a])
        ELSE after[a] = IF a \in DOMAIN input THEN Nil ELSE w[a]

LEMMA BeginTxInv ==
    ASSUME NEW d, IdleOK(d)
    PROVE  /\ TxInv(SetTxContext(d), World(d), <<>>)
           /\ SetTxContext(d).eip158 = d.eip158 /\ SetTxContext(d).revs = <<>>
PROOF
  <1> DEFINE e == SetTxContext(d)
             w == World(d)
             f == [a \in DOMAIN d.obj |-> [d.obj[a] EXCEPT !.touched = {}]]
  <1>1. DbOK(d) /\ DOMAIN d = Fields BY DEF IdleOK, DbOK
  <1>2. e = [d EXCEPT !.pre = <<>>, !.post = <<>>, !.obj = f] BY DEF SetTxContext
  <1>3. DOMAIN f = DOMAIN d.obj OBVIOUS
  <1>4. ASSUME NEW a \in DOMAIN d.obj
        PROVE  /\ f[a] \in Object /\ f[a].touched = {}
               /\ \A gone, t : Shown(f[a], gone, t) = Shown(d.obj[a], gone, t)
    <2> DEFINE o == d.obj[a]
               p == [o EXCEPT !.touched = {}]
    <2>1. o \in Object BY <1>1 DEF DbOK
    <2>2. f[a] = p OBVIOUS
    <2> HIDE DEF o
    <2>3. /\ p \in Object /\ p.touched = {} /\ SameSlots(o, p) /\ p.nonce = o.nonce
          /\ p.bal = o.bal /\ p.code = o.code /\ p.selfDestructed = o.selfDestructed
          /\ p.deleted = o.deleted /\ p.created = o.created
      BY <2>1 DEF Object, SameSlots
    <2> HIDE DEF p
    <2>4. \A gone, t : Shown(p, gone, t) = Shown(o, gone, t)
      BY <2>3, SlotsShown DEF Shown
    <2> QED BY <2>2, <2>3, <2>4 DEF o
  <1> HIDE DEF f, e
  <1>5. /\ DOMAIN e = Fields /\ e.pre = <<>> /\ e.post = <<>> /\ e.obj = f
        /\ e.trie = d.trie /\ e.eip158 = d.eip158 /\ e.destruct = d.destruct
        /\ e.journal = d.journal /\ e.revs = d.revs
    BY <1>1, <1>2 DEF Fields
  <1>6. DOMAIN e.pre = {} /\ DOMAIN e.post = {} BY <1>5
  <1>7. DbOK(e) BY <1>1, <1>3, <1>4, <1>5, <1>6 DEF DbOK
  <1>8. \A a \in Addr : ShapeAt(e, a) = ShapeAt(d, a)
    BY <1>3, <1>4, <1>5 DEF ShapeAt
  <1>9. e.journal = <<>> /\ e.revs = <<>> /\ Len(e.journal) = 0 /\ Len(e.revs) = 0
    BY <1>5 DEF IdleOK
  <1>10. w \in [Addr -> Accounts] /\ \A a \in Addr : w[a] = ShowsAccount(ShapeAt(d, a))
    BY <1>1, WorldTyped
  <1> HIDE DEF w
  <1>11. ASSUME NEW a \in Addr
         PROVE  LET g == ShapeAt(d, a) IN
                /\ g \in Shape
                /\ Alive(g) => /\ g.cur = g.com /\ w[a] # Nil
                               /\ w[a].nonce = g.nonce /\ w[a].code = g.code
                               /\ w[a].storage = g.cur
                               /\ d.eip158 /\ Bare(g) /\ a \in Made => \A k \in Key : g.cur[k] = 0
                /\ ~Alive(g) => w[a] = Nil
                /\ ~There(g) => ~g.gone
    <2> DEFINE g == ShapeAt(d, a)
    <2>1. g \in Shape BY <1>1, ShapeAtOK
    <2>2. ~There(g) => ~g.gone
      <3>1. a \in d.destruct => a \in DOMAIN d.obj BY <1>1 DEF DbOK
      <3>2. CASE a \in DOMAIN d.obj BY <3>2 DEF ShapeAt, Shown, There
      <3>3. CASE a \notin DOMAIN d.obj /\ d.trie[a] # Nil BY <3>3 DEF ShapeAt, Shown, There
      <3>4. CASE a \notin DOMAIN d.obj /\ d.trie[a] = Nil
        BY <3>1, <3>4 DEF ShapeAt, Absent, There
      <3> QED BY <3>2, <3>3, <3>4
    <2>3. Alive(g) => g.cur = g.com /\ (d.eip158 /\ Bare(g) /\ a \in Made => \A k \in Key : g.cur[k] = 0)
      BY DEF IdleOK
    <2> HIDE DEF g
    <2>4. w[a] = ShowsAccount(g) BY <1>10 DEF g
    <2>5. Alive(g) => /\ w[a].nonce = g.nonce /\ w[a].code = g.code /\ w[a].storage = g.cur
                      /\ "nonce" \in DOMAIN w[a]
      BY <2>4 DEF ShowsAccount
    <2>6. Alive(g) => w[a] # Nil BY <2>5 DEF Nil
    <2>7. ~Alive(g) => w[a] = Nil BY <2>4 DEF ShowsAccount
    <2> QED BY <2>1, <2>2, <2>3, <2>5, <2>6, <2>7 DEF g
  <1>12. WorldOK(w, d.eip158)
    <2> SUFFICES ASSUME d.eip158, NEW a \in Made, w[a] # Nil, Bare(w[a]), NEW k \in Key
                 PROVE  w[a].storage[k] = 0
      BY <1>10 DEF WorldOK, Clean
    <2>3. a \in Addr BY DEF Made
    <2> DEFINE g == ShapeAt(d, a)
    <2>1. Alive(g) BY <1>11, <2>3
    <2>2. Bare(g) BY <1>11, <2>1, <2>3 DEF Bare
    <2> QED BY <1>11, <2>1, <2>2, <2>3
  <1>13. TxOK(e, w, <<>>)
    <2>1. <<>> \in Seq([Addr -> Accounts]) /\ <<>> \in Seq(Entry) /\ <<>> \in Seq(Nat) /\ Len(<<>>) = 0
      OBVIOUS
    <2>2. \A i \in 1..0 : FALSE OBVIOUS
    <2> QED BY <1>5, <1>6, <1>7, <1>9, <1>12, <2>1, <2>2 DEF TxOK
  <1> DEFINE h == [i \in 0..0 |-> [a \in Addr |-> ShapeAt(d, a)]]
             T == [i \in 0..0 |-> [a \in Addr |-> {}]]
  <1>14. \A i \in 0..0 : i = 0 OBVIOUS
  <1>15. \A a \in Addr : h[0][a] = ShapeAt(d, a) /\ T[0][a] = {} OBVIOUS
  <1> HIDE DEF h, T
  <1>16. ASSUME NEW a \in Addr PROVE Kept(h[0][a], T[0][a], w[a], e.eip158)
    <2> DEFINE g == ShapeAt(d, a)
    <2>1. /\ g \in Shape
          /\ Alive(g) => /\ g.cur = g.com /\ w[a] # Nil
                         /\ w[a].nonce = g.nonce /\ w[a].code = g.code
                         /\ w[a].storage = g.cur
                         /\ d.eip158 /\ Bare(g) /\ a \in Made => \A k \in Key : g.cur[k] = 0
          /\ ~Alive(g) => w[a] = Nil
          /\ ~There(g) => ~g.gone
      BY <1>11
    <2> HIDE DEF g
    <2>2. Alive(g) => (Bare(w[a]) <=> Bare(g)) BY <2>1 DEF Bare
    <2>3. Kept(g, {}, w[a], d.eip158) BY <2>1, <2>2 DEF Kept, Clean
    <2> QED BY <1>5, <1>15, <2>3 DEF g
  <1>17. ASSUME NEW a \in Addr PROVE Unchanged(h[0][a], w[a])
    BY <1>10, <1>11, <1>15 DEF Unchanged
  <1>18. Chain(e, w, <<>>, h, T)
    BY <1>8, <1>9, <1>14, <1>15, <1>16, <1>17 DEF Chain
  <1> QED BY <1>5, <1>9, <1>13, <1>18 DEF TxInv, e, w

LEMMA NewIdle ==
    ASSUME NEW w \in Worlds, NEW r \in BOOLEAN
    PROVE  IdleOK(New(w, r)) /\ New(w, r).eip158 = r
PROOF
  <1> DEFINE d == New(w, r)
  <1>1. /\ DOMAIN d = Fields /\ d.eip158 = r /\ d.trie = w /\ d.obj = <<>> /\ d.destruct = {}
        /\ d.journal = <<>> /\ d.revs = <<>> /\ d.pre = <<>> /\ d.post = <<>>
    BY DEF New, Fields
  <1> HIDE DEF d
  <1>2. w \in [Addr -> Accounts] BY RecorderAssumption DEF Accounts
  <1>3. DOMAIN d.obj = {} /\ DOMAIN d.pre = {} /\ DOMAIN d.post = {} BY <1>1
  <1>4. DbOK(d) BY <1>1, <1>2, <1>3 DEF DbOK
  <1>5. ASSUME NEW a \in Addr, Alive(ShapeAt(d, a))
        PROVE  /\ ShapeAt(d, a).cur = ShapeAt(d, a).com
               /\ Bare(ShapeAt(d, a)) /\ a \in Made => \A k \in Key : ShapeAt(d, a).cur[k] = 0
    <2> DEFINE t == w[a]
               o == newObject(t)
               g == ShapeAt(d, a)
               no == a \in d.destruct
    <2>1. t # Nil BY <1>1, <1>3, <1>5 DEF ShapeAt, Absent, Alive, There
    <2>2. g = Shown(o, no, t) BY <1>1, <1>3, <2>1 DEF ShapeAt
    <2>3. \A k \in Key : o.dirty[k] = None /\ o.pend[k] = None /\ o.origin[k] = None
      BY DEF newObject, NoSlots
    <2>4. o.nonce = t.nonce /\ o.code = t.code BY <2>1 DEF newObject
    <2>8. ~no BY <1>1
    <2> HIDE DEF o, t, no
    <2>5. \A k \in Key : Com(o, no, t)[k] = t.storage[k] /\ Cur(o, no, t)[k] = t.storage[k]
      BY <2>1, <2>3, <2>8 DEF Com, Cur
    <2>6. Cur(o, no, t) = Com(o, no, t) BY <2>5 DEF Com, Cur
    <2>7. /\ g.cur = Cur(o, no, t) /\ g.com = Com(o, no, t)
          /\ g.nonce = t.nonce /\ g.code = t.code
      BY <2>2, <2>4 DEF Shown
    <2> HIDE DEF g
    <2>9. Bare(t) /\ a \in Made => \A k \in Key : t.storage[k] = 0
      BY <2>1, BareAssumption DEF t, Clean
    <2>10. Bare(g) => Bare(t) BY <2>7 DEF Bare
    <2> QED BY <2>5, <2>6, <2>7, <2>9, <2>10 DEF g
  <1>6. IdleOK(d) BY <1>1, <1>4, <1>5 DEF IdleOK
  <1> QED BY <1>1, <1>6 DEF d


\* The shapes when the transaction has ended.
LEMMA EndShapes ==
    ASSUME NEW d, NEW w, NEW s, TxInv(d, w, s)
    PROVE  LET e == SaveSubstate(Finalise(d, d.eip158)) IN
           /\ DbOK(e) /\ e.journal = <<>> /\ e.revs = <<>> /\ e.eip158 = d.eip158
           /\ \A a \in Addr : LET g == ShapeAt(d, a)
                                  h == ShapeAt(e, a)
                              IN
                /\ a \notin Dirties(d) => h = g
                /\ a \in Dirties(d) /\ ~Survives(d, a) => ~Alive(h)
                /\ a \in Dirties(d) /\ Survives(d, a) =>
                    /\ Alive(h) /\ h.nonce = g.nonce /\ h.bal = g.bal /\ h.code = g.code
                    /\ h.com = g.cur /\ h.cur = g.cur
PROOF
  <1> DEFINE r == d.eip158
             c == Finalise(d, r)
             e == SaveSubstate(c)
  <1>1. DbOK(d) /\ TxOK(d, w, s) /\ DOMAIN d = Fields BY TxNow DEF DbOK
  <1>2. /\ DOMAIN c = Fields /\ c.journal = <<>> /\ c.revs = <<>> /\ c.eip158 = d.eip158
        /\ DbOK(c)
    BY <1>1, FinaliseFields, FinaliseDb, ZenonT(30)
  <1>3. \A a \in Addr : LET g == ShapeAt(d, a)
                            h == ShapeAt(c, a)
                            dirty == a \in Dirties(d) \cap DOMAIN d.obj
                        IN
               /\ ~dirty => h = g
               /\ dirty /\ Doomed(d, a, r) => ~Alive(h)
               /\ dirty /\ ~Doomed(d, a, r) =>
                    /\ Alive(h) <=> Alive(g)
                    /\ h.nonce = g.nonce /\ h.bal = g.bal /\ h.code = g.code
                    /\ h.com = g.cur /\ h.cur = g.cur
    BY <1>1, FinaliseShape
  <1> HIDE DEF c
  <1>4. /\ DOMAIN e = Fields /\ e.eip158 = c.eip158 /\ e.trie = c.trie
        /\ e.journal = c.journal /\ e.revs = c.revs /\ e.obj = c.obj /\ e.destruct = c.destruct
    BY <1>2, SaveFields
  <1>5. /\ DOMAIN e.pre = Recorded(d)
        /\ \A a \in Recorded(d) : e.pre[a] \in Saved
        /\ DOMAIN e.post = (Recorded(d) \ Dirties(d)) \cup {a \in Dirties(d) : Survives(d, a)}
        /\ \A a \in Recorded(d) \ Dirties(d) : e.post[a] \in Saved
        /\ \A a \in Dirties(d) : Survives(d, a) => e.post[a] \in Saved
    BY EndRecords DEF Records, c
  <1> HIDE DEF e
  <1>6. DbOK(e)
    <2>1. Recorded(d) \subseteq Addr /\ Recorded(d) \subseteq DOMAIN d.obj
      BY <1>1 DEF Recorded, DbOK
    <2>2. c.obj = [a \in DOMAIN d.obj |-> finaliseObject(d, a, r)] BY <1>1, FinaliseFields DEF c
    <2>6. DOMAIN c.obj = DOMAIN d.obj BY <2>2
    <2>3. \A a \in Dirties(d) : a \in Addr BY DirtyNow
    <2>4. DOMAIN e.post \subseteq Addr /\ \A a \in DOMAIN e.post : e.post[a] \in Saved
      BY <1>5, <2>1, <2>3
    <2>5. \A a \in DOMAIN e.pre : a \in Addr /\ e.pre[a] \in Saved /\ a \in DOMAIN e.obj
      BY <1>4, <1>5, <2>1, <2>6
    <2> QED BY <1>2, <1>4, <2>4, <2>5 DEF DbOK
  <1>7. \A a \in Addr : ShapeAt(e, a) = ShapeAt(c, a) BY <1>4 DEF ShapeAt
  <1>8. ASSUME NEW a \in Addr
        PROVE  LET g == ShapeAt(d, a)
                   h == ShapeAt(e, a)
               IN
                /\ a \notin Dirties(d) => h = g
                /\ a \in Dirties(d) /\ ~Survives(d, a) => ~Alive(h)
                /\ a \in Dirties(d) /\ Survives(d, a) =>
                    /\ Alive(h) /\ h.nonce = g.nonce /\ h.bal = g.bal /\ h.code = g.code
                    /\ h.com = g.cur /\ h.cur = g.cur
    <2>1. a \in Dirties(d) => a \in DOMAIN d.obj /\ Alive(ShapeAt(d, a)) BY DirtyNow
    <2>2. a \in Dirties(d) => (Survives(d, a) <=> ~Doomed(d, a, r)) BY DEF Survives
    <2> HIDE DEF r
    <2> QED BY <1>3, <1>7, <2>1, <2>2
  <1> QED BY <1>2, <1>4, <1>6, <1>8 DEF e, c

LEMMA EndIdle ==
    ASSUME NEW d, NEW w, NEW s, TxInv(d, w, s)
    PROVE  IdleOK(SaveSubstate(Finalise(d, d.eip158)))
PROOF
  <1> DEFINE e == SaveSubstate(Finalise(d, d.eip158))
  <1>1. /\ DbOK(e) /\ e.journal = <<>> /\ e.revs = <<>> /\ e.eip158 = d.eip158
        /\ \A a \in Addr : LET g == ShapeAt(d, a)
                               h == ShapeAt(e, a)
                           IN
             /\ a \notin Dirties(d) => h = g
             /\ a \in Dirties(d) /\ ~Survives(d, a) => ~Alive(h)
             /\ a \in Dirties(d) /\ Survives(d, a) =>
                 /\ Alive(h) /\ h.nonce = g.nonce /\ h.bal = g.bal /\ h.code = g.code
                 /\ h.com = g.cur /\ h.cur = g.cur
    BY EndShapes
  <1> HIDE DEF e
  <1>2. ASSUME NEW a \in Addr, Alive(ShapeAt(e, a))
        PROVE  LET h == ShapeAt(e, a) IN
               h.cur = h.com /\ (e.eip158 /\ Bare(h) /\ a \in Made => \A k \in Key : h.cur[k] = 0)
    <2> DEFINE g == ShapeAt(d, a)
               h == ShapeAt(e, a)
    <2>1. d.eip158 /\ Alive(g) /\ Bare(g) /\ a \in Made => \A k \in Key : g.cur[k] = 0
      <3>1. TxOK(d, w, s) /\ Kept(g, TouchedAt(d, a), w[a], d.eip158) BY TxNow
      <3>2. d.eip158 /\ a \in Made => Clean(w[a]) BY <3>1 DEF TxOK, WorldOK
      <3> QED BY <3>1, <3>2 DEF Kept
    <2>2. CASE a \notin Dirties(d)
      <3>1. h = g BY <1>1, <2>2
      <3>2. g.cur = g.com BY <1>2, <2>2, <3>1, DirtyNow DEF Unchanged
      <3> QED BY <1>1, <1>2, <2>1, <3>1, <3>2
    <2>3. CASE a \in Dirties(d)
      <3>1. /\ h.nonce = g.nonce /\ h.code = g.code /\ h.com = g.cur /\ h.cur = g.cur
        BY <1>1, <1>2, <2>3
      <3>2. Alive(g) BY <2>3, DirtyNow
      <3> HIDE DEF g, h
      <3>3. Bare(h) => Bare(g) BY <3>1 DEF Bare
      <3>4. h.cur = h.com /\ (e.eip158 /\ Bare(h) /\ a \in Made => \A k \in Key : h.cur[k] = 0)
        BY <1>1, <2>1, <3>1, <3>2, <3>3
      <3> QED BY <3>4 DEF h
    <2> QED BY <2>2, <2>3
  <1>3. IdleOK(e) BY <1>1, <1>2 DEF IdleOK
  <1> QED BY <1>3 DEF e

\* The substate of a transaction in a block with EIP-158.
LEMMA EndSubstate ==
    ASSUME NEW d, NEW w, NEW s, TxInv(d, w, s), d.eip158
    PROVE  LET e == SaveSubstate(Finalise(d, d.eip158)) IN
           InputOK(e.pre, w) /\ OutputOK(e.pre, e.post, w, World(e))
PROOF
  <1> DEFINE e == SaveSubstate(Finalise(d, d.eip158))
             after == World(e)
  <1>1. DbOK(d) /\ TxOK(d, w, s) BY TxNow
  <1>2. /\ DbOK(e)
        /\ \A a \in Addr : LET g == ShapeAt(d, a)
                               h == ShapeAt(e, a)
                           IN
             /\ a \notin Dirties(d) => h = g
             /\ a \in Dirties(d) /\ ~Survives(d, a) => ~Alive(h)
             /\ a \in Dirties(d) /\ Survives(d, a) =>
                 /\ Alive(h) /\ h.nonce = g.nonce /\ h.bal = g.bal /\ h.code = g.code
                 /\ h.com = g.cur /\ h.cur = g.cur
    BY EndShapes
  <1>3. /\ DOMAIN e.pre = Recorded(d)
        /\ \A a \in Recorded(d) :
             w[a] # Nil /\ Records(e.pre[a], w[a], TouchedAt(d, a), ShapeAt(d, a).com)
        /\ DOMAIN e.post = (Recorded(d) \ Dirties(d)) \cup {a \in Dirties(d) : Survives(d, a)}
        /\ \A a \in Recorded(d) \ Dirties(d) :
             Records(e.post[a], w[a], TouchedAt(d, a), ShapeAt(d, a).com)
        /\ \A a \in Dirties(d) : Survives(d, a) =>
             Records(e.post[a], d.obj[a], TouchedAt(d, a), ShapeAt(d, a).cur)
    BY EndRecords
  <1> HIDE DEF e
  <1>4. \A a \in Addr : after[a] = ShowsAccount(ShapeAt(e, a)) BY <1>2, WorldTyped
  <1> HIDE DEF after
  <1>5. \A a \in Addr : Kept(ShapeAt(d, a), TouchedAt(d, a), w[a], d.eip158) BY TxNow
  <1>6. Recorded(d) \subseteq Addr /\ Recorded(d) \subseteq DOMAIN d.obj BY <1>1 DEF Recorded, DbOK
  <1>7. ASSUME NEW a \in Recorded(d), NEW x, Records(x, w[a], TouchedAt(d, a), ShapeAt(d, a).com)
        PROVE  /\ Slots(x) \subseteq Key
               /\ \A k \in Slots(x) : Slot(x, k) = w[a].storage[k]
    <2>1. Slots(x) = TouchedAt(d, a) /\ \A k \in Slots(x) : Slot(x, k) = ShapeAt(d, a).com[k]
      BY <1>7, SlotsList DEF Records
    <2>2. TouchedAt(d, a) \subseteq Key BY <1>1, <1>6, SeesSlots
    <2>3. w[a] # Nil /\ a \in Addr BY <1>3, <1>6
    <2>4. \A k \in Key : ShapeAt(d, a).com[k] = w[a].storage[k] BY <1>5, <2>3 DEF Kept
    <2> QED BY <2>1, <2>2, <2>4
  <1>8. InputOK(e.pre, w) BY <1>3, <1>7 DEF InputOK, Records
  <1>9. ASSUME NEW a \in Addr
        PROVE  IF a \in DOMAIN e.post THEN WrittenOver(e.post[a], w[a], after[a])
               ELSE after[a] = IF a \in DOMAIN e.pre THEN Nil ELSE w[a]
    <2> DEFINE g == ShapeAt(d, a)
               h == ShapeAt(e, a)
               x == e.post[a]
    <2>1. CASE a \in Dirties(d) /\ Survives(d, a)
      <3>1. a \in DOMAIN e.post BY <1>3, <2>1
      <3>2. Records(x, d.obj[a], TouchedAt(d, a), g.cur) BY <1>3, <2>1
      <3>3. Slots(x) = TouchedAt(d, a) /\ \A k \in Slots(x) : Slot(x, k) = g.cur[k]
        BY <3>2, SlotsList DEF Records
      <3>4. Account(x, <<>>) = Account(d.obj[a], <<>>) BY <3>2 DEF Records
      <3>5. a \in DOMAIN d.obj /\ Alive(g) BY <2>1, DirtyNow
      <3>6. g.nonce = d.obj[a].nonce /\ g.bal = d.obj[a].bal /\ g.code = d.obj[a].code
        BY <3>5 DEF ShapeAt, Shown
      <3>7. /\ Alive(h) /\ h.nonce = g.nonce /\ h.bal = g.bal /\ h.code = g.code /\ h.cur = g.cur
        BY <1>2, <2>1
      <3>8. Kept(g, TouchedAt(d, a), w[a], d.eip158) /\ after[a] = ShowsAccount(h) BY <1>4, <1>5
      <3> HIDE DEF g, h, x
      <3>9. /\ after[a].nonce = g.nonce /\ after[a].bal = g.bal /\ after[a].code = g.code
            /\ after[a].storage = g.cur /\ "nonce" \in DOMAIN after[a]
        BY <3>7, <3>8 DEF ShowsAccount
      <3>10. after[a] # Nil BY <3>9 DEF Nil
      <3>11. Account(x, <<>>) = Account(after[a], <<>>) BY <3>4, <3>6, <3>9 DEF Account
      <3>12. \A k \in Key : k \notin TouchedAt(d, a) =>
                g.cur[k] = IF w[a] = Nil THEN 0 ELSE w[a].storage[k]
        BY <3>5, <3>8 DEF Kept
      <3>13. WrittenOver(x, w[a], after[a])
        BY <3>3, <3>9, <3>10, <3>11, <3>12 DEF WrittenOver
      <3> QED BY <3>1, <3>13 DEF x
    <2>2. CASE a \in Dirties(d) /\ ~Survives(d, a)
      <3>1. a \notin DOMAIN e.post BY <1>3, <2>2
      <3>2. after[a] = Nil BY <1>2, <1>4, <2>2 DEF ShowsAccount
      <3>3. a \in DOMAIN d.pre BY <2>2, DirtyNow
      <3>4. a \notin Recorded(d) => d.pre[a] = Nil BY <3>3 DEF Recorded
      <3>5. a \notin Recorded(d) => w[a] = Nil BY <1>1, <3>3, <3>4, NilApart DEF TxOK
      <3> QED BY <1>3, <3>1, <3>2, <3>5
    <2>3. CASE a \notin Dirties(d) /\ a \in Recorded(d)
      <3>1. a \in DOMAIN e.post /\ Records(x, w[a], TouchedAt(d, a), g.com) BY <1>3, <2>3
      <3>2. h = g /\ Unchanged(g, w[a]) BY <1>2, <2>3, DirtyNow
      <3>3. after[a] = w[a] BY <1>4, <3>2 DEF Unchanged
      <3>4. w[a] # Nil BY <1>3, <2>3
      <3>5. \A k \in Slots(x) : Slot(x, k) = w[a].storage[k] BY <1>7, <2>3, <3>1
      <3>6. Account(x, <<>>) = Account(w[a], <<>>) BY <3>1 DEF Records
      <3>7. WrittenOver(x, w[a], after[a]) BY <3>3, <3>4, <3>5, <3>6 DEF WrittenOver
      <3> QED BY <3>1, <3>7
    <2>4. CASE a \notin Dirties(d) /\ a \notin Recorded(d)
      <3>1. a \notin DOMAIN e.post /\ a \notin DOMAIN e.pre BY <1>3, <2>4
      <3>2. h = g /\ Unchanged(g, w[a]) BY <1>2, <2>4, DirtyNow
      <3>3. after[a] = w[a] BY <1>4, <3>2 DEF Unchanged
      <3> QED BY <3>1, <3>3
    <2> QED BY <2>1, <2>2, <2>3, <2>4
  <1>10. OutputOK(e.pre, e.post, w, after) BY <1>9 DEF OutputOK
  <1> QED BY <1>8, <1>10 DEF e, after


-------------------------------------------------------------------------------
(***************************************************************************)
(* The reward, paid outside of a transaction: pre still holds what the     *)
(* last transaction recorded, so only the types are kept.                  *)
(***************************************************************************)
LEMMA RecordDb ==
    ASSUME NEW d, DbOK(d), NEW a \in Addr
    PROVE  LET e == recordPre(d, a) IN
           /\ DbOK(e) /\ e.obj = d.obj /\ e.trie = d.trie /\ e.destruct = d.destruct
           /\ e.revs = d.revs /\ e.eip158 = d.eip158
PROOF
  <1> DEFINE e == recordPre(d, a)
             x == IF Live(d, a) THEN Account(d.obj[a], <<>>) ELSE Nil
             f == Put(d.pre, a, x)
  <1>1. CASE a \in DOMAIN d.pre BY <1>1 DEF recordPre
  <1>2. CASE a \notin DOMAIN d.pre
    <2>1. e = [d EXCEPT !.pre = f] BY <1>2 DEF recordPre
    <2>2. DOMAIN f = DOMAIN d.pre \cup {a} /\ f[a] = x /\ \A b \in DOMAIN d.pre : b # a => f[b] = d.pre[b]
      BY DEF Put
    <2>3. x = Nil \/ (x \in Saved /\ a \in DOMAIN d.obj)
      <3>1. Live(d, a) => d.obj[a] \in Object /\ a \in DOMAIN d.obj BY DEF Live, DbOK
      <3>2. <<>> \in Seq(Key \X Val) OBVIOUS
      <3> QED BY <3>1, <3>2, AccountSaved
    <2> HIDE DEF x, f, e
    <2>4. /\ DOMAIN e = Fields /\ e.pre = f /\ e.obj = d.obj /\ e.trie = d.trie
          /\ e.eip158 = d.eip158 /\ e.destruct = d.destruct /\ e.revs = d.revs /\ e.post = d.post
      BY <2>1 DEF DbOK, Fields
    <2>5. DbOK(e) BY <2>2, <2>3, <2>4 DEF DbOK
    <2> QED BY <2>4, <2>5 DEF e
  <1> QED BY <1>1, <1>2

LEMMA GetOrNewDb ==
    ASSUME NEW d, DbOK(d), NEW a \in Addr
    PROVE  LET e == getOrNewStateObject(d, a) IN
           /\ DbOK(e) /\ e.revs = d.revs /\ e.eip158 = d.eip158
           /\ a \in DOMAIN e.obj /\ e.obj[a].bal = Bal(ShapeAt(d, a))
PROOF
  <1> DEFINE b == getDeletedStateObject(d, a)
             c == recordPre(b, a)
             e == createIfAbsent(c, a)
             g == ShapeAt(d, a)
  <1>1. getOrNewStateObject(d, a) = e BY DEF getOrNewStateObject, getStateObject
  <1> HIDE DEF b, c, e
  <1>2. /\ DbOK(b) /\ SameRest(d, b) /\ ShapeAt(b, a) = g
        /\ a \in DOMAIN b.obj <=> There(g)
        /\ a \notin DOMAIN b.obj => d.trie[a] = Nil
    BY LoadObject DEF b
  <1>3. /\ DbOK(c) /\ c.obj = b.obj /\ c.trie = b.trie /\ c.destruct = b.destruct
        /\ c.revs = b.revs /\ c.eip158 = b.eip158
    BY <1>2, RecordDb DEF c
  <1>4. b.revs = d.revs /\ b.eip158 = d.eip158 /\ b.trie = d.trie BY <1>2 DEF SameRest
  <1>5. ShapeAt(c, a) = g BY <1>2, <1>3 DEF ShapeAt
  <1> HIDE DEF g
  <1>6. Live(c, a) <=> Alive(g) BY <1>2, <1>3, <1>5, SeesShape DEF Alive
  <1>7. CASE Live(c, a)
    <2>1. e = c /\ a \in DOMAIN c.obj BY <1>7 DEF e, createIfAbsent, Live
    <2>2. g.bal = c.obj[a].bal BY <1>5, <2>1 DEF ShapeAt, Shown
    <2> QED BY <1>1, <1>3, <1>4, <1>6, <1>7, <2>1, <2>2 DEF Bal, g
  <1>8. CASE ~Live(c, a)
    <2>1. getDeletedStateObject(c, a) = c BY <1>2, <1>3, <1>4 DEF getDeletedStateObject
    <2>2. e = overwrite(c, a) BY <1>8, <2>1 DEF e, createIfAbsent, createObject
    <2>3. Overwritten(c, e, a, 0) BY <1>3, <2>2, OverwriteFields
    <2>4. /\ a \in DOMAIN e.obj /\ e.obj[a] \in Object /\ e.obj[a].bal = 0
          /\ e.revs = c.revs /\ e.eip158 = c.eip158
      BY <2>3 DEF Overwritten, Fresh, SameRest
    <2>5. OnlyAt(c, e, a) BY <2>3 DEF Overwritten, OnlyAt
    <2>6. DbOK(e) BY <1>3, <2>4, <2>5, OnlyAtOK
    <2> QED BY <1>1, <1>3, <1>4, <1>6, <1>8, <2>4, <2>6 DEF Bal, g
  <1> QED BY <1>7, <1>8

LEMMA RewardDb ==
    ASSUME NEW d, DbOK(d), NEW a \in Addr, BalanceOf(d, a) < MaxBal
    PROVE  LET e == AddBalance(d, a, 1) IN
           DbOK(e) /\ e.revs = d.revs /\ e.eip158 = d.eip158
PROOF
  <1> DEFINE c == getOrNewStateObject(d, a)
             o == c.obj[a]
             n == o.bal + 1
             x == [kind |-> "balance", addr |-> a, prev |-> o.bal]
             p == [o EXCEPT !.bal = n]
             f == [c EXCEPT !.obj[a] = p]
             e == AddBalance(d, a, 1)
  <1>1. /\ DbOK(c) /\ c.revs = d.revs /\ c.eip158 = d.eip158
        /\ a \in DOMAIN c.obj /\ c.obj[a].bal = Bal(ShapeAt(d, a))
    BY GetOrNewDb
  <1>2. e = setBalance(c, a, n) BY DEF AddBalance, addBalance
  <1> HIDE DEF c, e
  <1>3. o \in Object /\ o.bal \in 0..MaxBal BY <1>1 DEF DbOK, Object
  <1>4. o.bal < MaxBal BY <1>1, SeesBalance
  <1>5. n \in 0..MaxBal BY <1>3, <1>4, RecorderAssumption
  <1>6. e = journalAppend([c EXCEPT !.obj[a].bal = n], x) BY <1>2 DEF setBalance
  <1>7. [c EXCEPT !.obj[a].bal = n] = f
    <2> HIDE DEF n
    <2> QED BY <1>1, <1>3 DEF DbOK, Fields, Object
  <1>8. p \in Object
    <2> HIDE DEF n, o
    <2> QED BY <1>3, <1>5 DEF Object, Cache
  <1> HIDE DEF p, n, x
  <1>9. OnlyAt(c, f, a) /\ DbOK(f) BY <1>1, <1>8, ExceptShape
  <1> HIDE DEF f
  <1>10. e = journalAppend(f, x) BY <1>6, <1>7
  <1>11. SameRest(f, e) /\ e.obj = f.obj /\ e.destruct = f.destruct
    BY <1>9, <1>10, AppendEntry DEF DbOK
  <1>12. DbOK(e) BY <1>9, <1>11 DEF DbOK, SameRest
  <1>13. e.revs = d.revs /\ e.eip158 = d.eip158 BY <1>1, <1>9, <1>11 DEF OnlyAt, SameRest
  <1> QED BY <1>12, <1>13 DEF e


-------------------------------------------------------------------------------
(***************************************************************************)
(* The inductive invariant of Process.                                     *)
(***************************************************************************)
\* The open calls revert to revisions that are there, the inner ones first.
FramesOK(f, n) ==
    /\ f \in Seq(Nat)
    /\ \A i \in 1..Len(f) : f[i] \in 1..n
    /\ \A i, j \in 1..Len(f) : i < j => f[i] < f[j]

ControlOK ==
    /\ fork \in Forks /\ DbOK(db) /\ db.eip158 = fork.eip158
    /\ phase \in {"idle", "tx", "reward", "end"} /\ ntx \in 0..MaxTxs
ScriptOK ==
    script \in Seq(AccessType) /\ (\E S : obs \in Seq(S)) /\ Len(script) = Len(obs)
PhaseOK ==
    /\ phase = "idle" => IdleOK(db)
    /\ phase = "tx" => TxInv(db, before, snaps) /\ FramesOK(frames, Len(db.revs)) /\ saved = Nil
    /\ phase # "tx" => db.revs = <<>> /\ snaps = <<>>
SubstateOK ==
    saved # Nil /\ fork.eip158 =>
        /\ InputOK(saved.input, before)
        /\ OutputOK(saved.input, saved.output, before, saved.after)
ProcessInv == ControlOK /\ ScriptOK /\ PhaseOK /\ SubstateOK

LEMMA FramesPush ==
    ASSUME NEW f, NEW n \in Nat, FramesOK(f, n)
    PROVE  /\ \A m \in Nat : m >= n => FramesOK(f, m)
           /\ FramesOK(Append(f, n + 1), n + 1)
PROOF
  <1> DEFINE g == Append(f, n + 1)
             L == Len(f)
  <1>1. f \in Seq(Nat) /\ L \in Nat BY DEF FramesOK
  <1>2. \A m \in Nat : m >= n => FramesOK(f, m)
    <2>1. \A m \in Nat : m >= n => \A i \in 1..n : i \in 1..m OBVIOUS
    <2> QED BY <2>1 DEF FramesOK
  <1>3. /\ g \in Seq(Nat) /\ Len(g) = L + 1 /\ g[L + 1] = n + 1
        /\ \A i \in 1..L : g[i] = f[i]
    BY <1>1
  <1> HIDE DEF g
  <1>4. \A i \in 1..L : f[i] \in 1..n BY DEF FramesOK
  <1> HIDE DEF L
  <1>5. \A i \in 1..(L + 1) : i \in 1..L \/ i = L + 1 BY <1>1
  <1>6. \A i \in 1..(L + 1) : g[i] \in 1..(n + 1) BY <1>3, <1>4, <1>5
  <1>7. ASSUME NEW i \in 1..(L + 1), NEW j \in 1..(L + 1), i < j PROVE g[i] < g[j]
    <2>1. i \in 1..L BY <1>1, <1>7
    <2>2. CASE j \in 1..L BY <1>3, <1>7, <2>1, <2>2 DEF FramesOK, L
    <2>3. CASE j = L + 1
      <3>1. g[i] \in 1..n /\ g[j] = n + 1 BY <1>3, <1>4, <2>1, <2>3
      <3> QED BY <3>1
    <2> QED BY <1>5, <2>2, <2>3
  <1>8. FramesOK(g, n + 1) BY <1>3, <1>6, <1>7 DEF FramesOK
  <1> QED BY <1>2, <1>8 DEF g

LEMMA FramesPop ==
    ASSUME NEW f, NEW n \in Nat, FramesOK(f, n), f # <<>>
    PROVE  /\ Last(f) \in 1..n
           /\ FramesOK(Front(f), Last(f) - 1) /\ FramesOK(Front(f), n)
PROOF
  <1> DEFINE L == Len(f)
             g == Front(f)
             id == Last(f)
  <1>1. f \in Seq(Nat) /\ L \in Nat /\ L # 0 /\ L \in 1..L BY DEF FramesOK
  <1>2. id = f[L] /\ id \in 1..n BY <1>1 DEF Last, FramesOK
  <1>3. g \in Seq(Nat) /\ Len(g) = L - 1 /\ \A i \in 1..(L - 1) : g[i] = f[i]
    <2>1. L - 1 \in 0..Len(f) BY <1>1
    <2>2. g = SubSeq(f, 1, L - 1) BY DEF Front
    <2> HIDE DEF g, L
    <2> QED BY <1>1, <2>1, <2>2, Prefix
  <1>4. \A i \in 1..L : f[i] \in 1..n BY DEF FramesOK
  <1>5. \A i, j \in 1..L : i < j => f[i] < f[j] BY DEF FramesOK
  <1> HIDE DEF g, L, id
  <1>6. \A i \in 1..(L - 1) : i \in 1..L /\ i < L BY <1>1
  <1>7. \A i \in 1..(L - 1) : g[i] \in 1..n /\ g[i] < id BY <1>1, <1>2, <1>3, <1>4, <1>5, <1>6
  <1>8. \A i \in 1..(L - 1) : g[i] \in 1..(id - 1) BY <1>2, <1>7
  <1>9. \A i, j \in 1..(L - 1) : i < j => g[i] < g[j] BY <1>3, <1>5, <1>6
  <1>10. FramesOK(g, id - 1) /\ FramesOK(g, n) BY <1>3, <1>7, <1>8, <1>9 DEF FramesOK
  <1> QED BY <1>2, <1>10 DEF g, id

LEMMA FramesEmpty ==
    ASSUME NEW n PROVE FramesOK(<<>>, n)
BY DEF FramesOK

LEMMA ProcessInit ==
    Init => ProcessInv
PROOF
  <1> SUFFICES ASSUME Init PROVE ProcessInv OBVIOUS
  <1>1. PICK w \in Worlds : db = New(w, fork.eip158) BY DEF Init
  <1>2. fork \in Forks /\ fork.eip158 \in BOOLEAN BY RecorderAssumption DEF Init
  <1>3. IdleOK(db) /\ db.eip158 = fork.eip158 BY <1>1, <1>2, NewIdle
  <1>4. DbOK(db) /\ db.revs = <<>> BY <1>3 DEF IdleOK
  <1>5. ControlOK BY <1>2, <1>3, <1>4, RecorderAssumption DEF Init, ControlOK
  <1>6. ScriptOK
    <2>1. script = <<>> /\ obs = <<>> BY DEF Init
    <2>2. <<>> \in Seq(AccessType) /\ <<>> \in Seq({}) OBVIOUS
    <2> QED BY <2>1, <2>2 DEF ScriptOK
  <1>7. PhaseOK BY <1>3, <1>4 DEF Init, PhaseOK
  <1>8. SubstateOK BY DEF Init, SubstateOK
  <1> QED BY <1>5, <1>6, <1>7, <1>8 DEF ProcessInv

LEMMA BeginTxStep ==
    ProcessInv /\ BeginTx => ProcessInv'
PROOF
  <1> SUFFICES ASSUME ProcessInv, BeginTx PROVE ProcessInv' OBVIOUS
  <1>1. ControlOK /\ IdleOK(db) /\ phase = "idle" BY DEF ProcessInv, PhaseOK, BeginTx
  <1>2. /\ phase' = "tx" /\ ntx' = ntx + 1 /\ ntx < MaxTxs /\ db' = SetTxContext(db)
        /\ script' = <<>> /\ obs' = <<>> /\ frames' = <<>> /\ before' = World(db)
        /\ snaps' = <<>> /\ saved' = Nil /\ fork' = fork
    BY DEF BeginTx
  <1>3. TxInv(db', before', snaps') /\ db'.eip158 = db.eip158 /\ db'.revs = <<>>
    BY <1>1, <1>2, BeginTxInv
  <1>4. DbOK(db') BY <1>3, TxNow
  <1>5. ntx' \in 0..MaxTxs BY <1>1, <1>2, RecorderAssumption DEF ControlOK
  <1>6. ControlOK' BY <1>1, <1>2, <1>3, <1>4, <1>5 DEF ControlOK
  <1>7. ScriptOK'
    <2>1. <<>> \in Seq(AccessType) /\ <<>> \in Seq({}) OBVIOUS
    <2> QED BY <1>2, <2>1 DEF ScriptOK
  <1>8. PhaseOK' BY <1>2, <1>3, FramesEmpty DEF PhaseOK
  <1>9. SubstateOK' BY <1>2 DEF SubstateOK
  <1> QED BY <1>6, <1>7, <1>8, <1>9 DEF ProcessInv

\* The invariant, and what an access does to the world.
AccessOK(op) ==
    /\ ProcessInv'
    /\ Last(script') = op
    /\ op.kind = "revert" => World(db') = snaps[op.id]
    /\ (op.kind = "create" /\ op.out = "reverted") => World(db') = World(db)

LEMMA AccessStep ==
    ASSUME ProcessInv, NEW op \in fork.ops, Access(op)
    PROVE  AccessOK(op)
PROOF
  <1> DEFINE n == Len(db.revs)
             r == Step(db, op)
  <1>1. ControlOK /\ ScriptOK /\ phase = "tx" BY DEF ProcessInv, Access
  <1>2. TxInv(db, before, snaps) /\ FramesOK(frames, n) /\ saved = Nil
    BY <1>1 DEF ProcessInv, PhaseOK
  <1>3. /\ db' = r.db /\ script' = Append(script, op) /\ obs' = Append(obs, r.obs)
        /\ Possible(db, op, frames)
        /\ UNCHANGED <<fork, phase, ntx, before, saved>>
    BY DEF Access
  <1>4. snaps' = NextSnaps(snaps, Len(db'.revs), World(db)) BY DEF Access, NextSnaps
  <1>5. frames' = CASE op.kind = "snapshot" -> Append(frames, Len(db'.revs))
                    [] op.kind = "revert" -> Front(frames)
                    [] OTHER -> frames
    BY DEF Access
  <1> HIDE DEF r
  <1>6. op \in AccessType /\ OpOK(op) BY <1>1, RecorderAssumption, OpFields DEF ControlOK
  <1>7. TxOK(db, before, snaps) BY <1>2, TxNow
  <1>8. n \in Nat BY <1>7 DEF TxOK
  <1> HIDE DEF n
  <1>9. op.kind = "revert" => op.id \in 1..n /\ frames # <<>> /\ op.id = Last(frames)
    <2> SUFFICES ASSUME op.kind = "revert"
                 PROVE  op.id \in 1..n /\ frames # <<>> /\ op.id = Last(frames)
      OBVIOUS
    <2>1. frames # <<>> /\ op.id = Last(frames) BY <1>3 DEF Possible
    <2> QED BY <1>2, <1>8, <2>1, FramesPop
  <1>19. db.eip158 /\ op.kind = "create" => Clean(before[op.a])
    <2> SUFFICES ASSUME db.eip158, op.kind = "create" PROVE Clean(before[op.a])
      OBVIOUS
    <2>1. fork \in Forks /\ fork.eip158 BY <1>1 DEF ControlOK
    <2>2. op.a \in Made BY <1>6, <2>1 DEF OpOK, Made
    <2> QED BY <1>7, <2>2 DEF TxOK, WorldOK
  <1>10. StepOK(db, db', before, snaps, op)
    <2>1. StepOK(db, Step(db, op).db, before, snaps, op)
      BY <1>2, <1>3, <1>6, <1>9, <1>19, StepTx DEF n
    <2> QED BY <1>3, <2>1 DEF r
  <1>11. TxInv(db', before, snaps') /\ db'.eip158 = db.eip158 BY <1>4, <1>10 DEF StepOK
  <1>12. DbOK(db') /\ Len(db'.revs) \in Nat BY <1>11, TxNow DEF TxOK
  <1>13. FramesOK(frames', Len(db'.revs))
    <2>1. CASE op.kind = "snapshot"
      <3>1. frames' = Append(frames, n + 1) /\ Len(db'.revs) = n + 1
        BY <1>5, <1>10, <2>1 DEF StepOK, n
      <3> QED BY <1>2, <1>8, <3>1, FramesPush
    <2>2. CASE op.kind = "revert"
      <3>1. frames' = Front(frames) /\ Len(db'.revs) = Last(frames) - 1
        BY <1>5, <1>9, <1>10, <2>2 DEF StepOK
      <3> QED BY <1>2, <1>8, <1>9, <2>2, <3>1, FramesPop
    <2>3. CASE op.kind \notin {"snapshot", "revert"}
      <3>1. frames' = frames /\ Len(db'.revs) >= n BY <1>5, <1>10, <2>3 DEF StepOK, n
      <3> QED BY <1>2, <1>8, <1>12, <3>1, FramesPush
    <2> QED BY <2>1, <2>2, <2>3
  <1>14. ControlOK' BY <1>1, <1>3, <1>11, <1>12 DEF ControlOK
  <1>15. ScriptOK' /\ Last(script') = op
    <2>1. script \in Seq(AccessType) /\ Len(script) = Len(obs) BY <1>1 DEF ScriptOK
    <2>2. PICK S : obs \in Seq(S) BY <1>1 DEF ScriptOK
    <2> DEFINE R == S \cup {r.obs}
    <2>3. obs \in Seq(R) /\ r.obs \in R BY <2>2
    <2> HIDE DEF R
    <2>4. obs' \in Seq(R) /\ Len(obs') = Len(obs) + 1 BY <1>3, <2>3
    <2>5. script' \in Seq(AccessType) /\ Len(script') = Len(script) + 1 /\ Last(script') = op
      BY <1>3, <1>6, <2>1 DEF Last
    <2> QED BY <2>1, <2>4, <2>5 DEF ScriptOK
  <1>16. PhaseOK' BY <1>1, <1>2, <1>3, <1>11, <1>13 DEF PhaseOK
  <1>17. SubstateOK' BY <1>2, <1>3 DEF SubstateOK
  <1>18. ProcessInv' BY <1>14, <1>15, <1>16, <1>17 DEF ProcessInv
  <1> QED BY <1>10, <1>15, <1>18 DEF AccessOK, StepOK


LEMMA ReturnStep ==
    ProcessInv /\ Return => ProcessInv'
PROOF
  <1> SUFFICES ASSUME ProcessInv, Return PROVE ProcessInv' OBVIOUS
  <1> DEFINE n == Len(db.revs)
  <1>1. /\ phase = "tx" /\ frames # <<>> /\ frames' = Front(frames)
        /\ UNCHANGED <<fork, db, phase, ntx, script, obs, before, snaps, saved>>
    BY DEF Return
  <1>2. TxInv(db, before, snaps) /\ FramesOK(frames, n) /\ saved = Nil
    BY <1>1 DEF ProcessInv, PhaseOK
  <1>3. n \in Nat BY <1>2, TxNow DEF TxOK
  <1> HIDE DEF n
  <1>4. FramesOK(frames', n) BY <1>1, <1>2, <1>3, FramesPop
  <1>5. PhaseOK' BY <1>1, <1>2, <1>4 DEF PhaseOK, n
  <1>6. ControlOK' /\ ScriptOK' /\ SubstateOK'
    BY <1>1 DEF ProcessInv, ControlOK, ScriptOK, SubstateOK
  <1> QED BY <1>5, <1>6 DEF ProcessInv

LEMMA EndTxStep ==
    ProcessInv /\ EndTx => ProcessInv'
PROOF
  <1> SUFFICES ASSUME ProcessInv, EndTx PROVE ProcessInv' OBVIOUS
  <1> DEFINE e == SaveSubstate(Finalise(db, db.eip158))
  <1>1. ControlOK /\ phase = "tx" BY DEF ProcessInv, EndTx
  <1>2. TxInv(db, before, snaps) BY <1>1 DEF ProcessInv, PhaseOK
  <1>3. /\ db' = SaveSubstate(Finalise(db, fork.eip158))
        /\ saved' = [input |-> db'.pre, output |-> db'.post, after |-> World(db')]
        /\ phase' = "idle" /\ script' = <<>> /\ obs' = <<>> /\ snaps' = <<>>
        /\ UNCHANGED <<fork, ntx, before>>
    BY DEF EndTx
  <1>4. db' = e BY <1>1, <1>3 DEF ControlOK
  <1>5. IdleOK(e) /\ e.eip158 = db.eip158 BY <1>2, EndIdle, EndShapes
  <1>6. db.eip158 => InputOK(e.pre, before) /\ OutputOK(e.pre, e.post, before, World(e))
    BY <1>2, EndSubstate
  <1> HIDE DEF e
  <1>7. DbOK(db') /\ db'.revs = <<>> /\ IdleOK(db') BY <1>4, <1>5 DEF IdleOK
  <1>8. ControlOK' BY <1>1, <1>3, <1>4, <1>5, <1>7 DEF ControlOK
  <1>9. ScriptOK'
    <2>1. <<>> \in Seq(AccessType) /\ <<>> \in Seq({}) OBVIOUS
    <2> QED BY <1>3, <2>1 DEF ScriptOK
  <1>10. PhaseOK' BY <1>3, <1>7 DEF PhaseOK
  <1>11. SubstateOK'
    <2>1. saved'.input = e.pre /\ saved'.output = e.post /\ saved'.after = World(e)
      BY <1>3, <1>4
    <2>2. fork'.eip158 => db.eip158 BY <1>1, <1>3 DEF ControlOK
    <2> QED BY <1>3, <1>6, <2>1, <2>2 DEF SubstateOK
  <1> QED BY <1>8, <1>9, <1>10, <1>11 DEF ProcessInv

LEMMA OtherSteps ==
    /\ \A s \in spawned : ProcessInv /\ CheckReplay(s) => ProcessInv'
    /\ \A a \in Addr : ProcessInv /\ Reward(a) => ProcessInv'
    /\ ProcessInv /\ IntermediateRoot => ProcessInv'
    /\ ProcessInv /\ UNCHANGED vars => ProcessInv'
PROOF
  <1>1. ASSUME ProcessInv, UNCHANGED <<fork, db, phase, ntx, script, obs, frames, before, snaps, saved>>
        PROVE  ProcessInv'
    BY <1>1 DEF ProcessInv, ControlOK, ScriptOK, PhaseOK, SubstateOK
  <1>2. ASSUME NEW s \in spawned, ProcessInv, CheckReplay(s) PROVE ProcessInv'
    BY <1>1, <1>2 DEF CheckReplay
  <1>3. ASSUME NEW a \in Addr, ProcessInv, Reward(a) PROVE ProcessInv'
    <2>1. ControlOK /\ IdleOK(db) /\ phase = "idle" BY <1>3 DEF ProcessInv, PhaseOK, Reward
    <2>2. /\ BalanceOf(db, a) < MaxBal /\ db' = AddBalance(db, a, 1) /\ phase' = "reward"
          /\ UNCHANGED <<fork, ntx, script, obs, before, snaps, saved>>
      BY <1>3 DEF Reward
    <2>3. DbOK(db') /\ db'.revs = db.revs /\ db'.eip158 = db.eip158
      BY <2>1, <2>2, RewardDb DEF ControlOK
    <2>4. ControlOK' BY <2>1, <2>2, <2>3 DEF ControlOK
    <2>5. PhaseOK' BY <1>3, <2>1, <2>2, <2>3 DEF ProcessInv, PhaseOK
    <2>6. ScriptOK' /\ SubstateOK' BY <1>3, <2>2 DEF ProcessInv, ScriptOK, SubstateOK
    <2> QED BY <2>4, <2>5, <2>6 DEF ProcessInv
  <1>4. ASSUME ProcessInv, IntermediateRoot PROVE ProcessInv'
    <2>1. ControlOK /\ phase \in {"idle", "reward"} BY <1>4 DEF ProcessInv, IntermediateRoot
    <2>2. /\ db' = Finalise(db, fork.eip158) /\ phase' = "end" /\ saved' = Nil
          /\ UNCHANGED <<fork, ntx, script, obs, before, snaps>>
      BY <1>4 DEF IntermediateRoot
    <2>3. DbOK(db') /\ db'.revs = <<>> /\ db'.eip158 = db.eip158
      <3>1. DbOK(db) /\ DOMAIN db = Fields BY <2>1 DEF ControlOK, DbOK
      <3> DEFINE r == fork.eip158
                 e == Finalise(db, r)
      <3> HIDE DEF r
      <3>2. DbOK(e) BY <3>1, FinaliseDb
      <3>3. e.revs = <<>> /\ e.eip158 = db.eip158 BY <3>1, FinaliseFields
      <3>4. db' = e BY <2>2 DEF r
      <3> HIDE DEF e
      <3> QED BY <3>2, <3>3, <3>4
    <2>4. ControlOK' BY <2>1, <2>2, <2>3 DEF ControlOK
    <2>5. PhaseOK' BY <1>4, <2>1, <2>2, <2>3 DEF ProcessInv, PhaseOK
    <2>6. ScriptOK' /\ SubstateOK' BY <1>4, <2>2 DEF ProcessInv, ScriptOK, SubstateOK
    <2> QED BY <2>4, <2>5, <2>6 DEF ProcessInv
  <1>5. ASSUME ProcessInv, UNCHANGED vars PROVE ProcessInv' BY <1>1, <1>5 DEF vars
  <1> QED BY <1>2, <1>3, <1>4, <1>5

LEMMA ProcessStep ==
    ProcessInv /\ [Next]_vars => ProcessInv'
PROOF
  <1> SUFFICES ASSUME ProcessInv, [Next]_vars PROVE ProcessInv' OBVIOUS
  <1>1. CASE BeginTx BY <1>1, BeginTxStep
  <1>2. ASSUME NEW op \in fork.ops, Access(op) PROVE ProcessInv'
    BY <1>2, AccessStep DEF AccessOK
  <1>3. CASE Return BY <1>3, ReturnStep
  <1>4. CASE EndTx BY <1>4, EndTxStep
  <1>5. ASSUME NEW s \in spawned, CheckReplay(s) PROVE ProcessInv' BY <1>5, OtherSteps
  <1>6. ASSUME NEW a \in Addr, Reward(a) PROVE ProcessInv' BY <1>6, OtherSteps
  <1>7. CASE IntermediateRoot BY <1>7, OtherSteps
  <1>8. CASE UNCHANGED vars BY <1>8, OtherSteps
  <1> QED BY <1>1, <1>2, <1>3, <1>4, <1>5, <1>6, <1>7, <1>8 DEF Next

(***************************************************************************)
(* The inductive invariant holds at all times.                             *)
(***************************************************************************)
THEOREM ProcessInvariant == Spec => []ProcessInv
PROOF
  <1>1. Init => ProcessInv BY ProcessInit
  <1>2. ProcessInv /\ [Next]_vars => ProcessInv' BY ProcessStep
  <1> QED BY <1>1, <1>2, PTL DEF Spec

(***************************************************************************)
(* Every recorded account has its state object when Finalise dereferences  *)
(* it, after any number of reverts, resets and destructions, and the       *)
(* recorded accounts are well formed: core/state/statedb.go, Finalise.     *)
(***************************************************************************)
THEOREM TypeCorrect == Spec => []TypeOK
PROOF
  <1>1. ProcessInv => TypeOK
    <2> SUFFICES ASSUME ProcessInv PROVE TypeOK OBVIOUS
    <2>1. ControlOK /\ ScriptOK /\ PhaseOK /\ DbOK(db) BY DEF ProcessInv, ControlOK
    <2>2. Len(snaps) = Len(db.revs)
      <3>1. CASE phase = "tx" BY <2>1, <3>1, TxNow DEF PhaseOK, TxOK
      <3>2. CASE phase # "tx" BY <2>1, <3>2 DEF PhaseOK
      <3> QED BY <3>1, <3>2
    <2>3. \A x \in Saved : IsAccount(x) BY DEF Saved, IsAccount, SlotEntries
    <2>4. DOMAIN db.obj \subseteq Addr /\ db.destruct \subseteq Addr BY <2>1 DEF DbOK
    <2>5. \A a \in DOMAIN db.pre : a \in Addr /\ (db.pre[a] = Nil \/ IsAccount(db.pre[a]))
      BY <2>1, <2>3 DEF DbOK
    <2>6. \A a \in DOMAIN db.post : a \in Addr /\ IsAccount(db.post[a]) BY <2>1, <2>3 DEF DbOK
    <2>7. Recorded(db) \subseteq DOMAIN db.obj BY <2>1 DEF DbOK, Recorded
    <2> QED BY <2>1, <2>2, <2>4, <2>5, <2>6, <2>7 DEF TypeOK, ControlOK, ScriptOK
  <1> QED BY <1>1, ProcessInvariant, PTL

(***************************************************************************)
(* InputAlloc is a part of the world before the transaction, for every     *)
(* world, every block and every sequence of accesses: the pre-state hooks  *)
(* of getStateObject, GetState and Finalise in core/state.                 *)
(***************************************************************************)
THEOREM InputCorrect == Spec => []InputIsPreState
PROOF
  <1>1. ProcessInv => InputIsPreState
    BY DEF ProcessInv, SubstateOK, InputOK, InputIsPreState
  <1> QED BY <1>1, ProcessInvariant, PTL

(***************************************************************************)
(* InputAlloc and OutputAlloc are the whole effect of the transaction on   *)
(* the world: the post-state hooks of Finalise in core/state/statedb.go.   *)
(***************************************************************************)
THEOREM OutputCorrect == Spec => []OutputIsEffect
PROOF
  <1>1. ProcessInv => OutputIsEffect
    BY DEF ProcessInv, SubstateOK, OutputOK, WrittenOver, OutputIsEffect
  <1> QED BY <1>1, ProcessInvariant, PTL

(***************************************************************************)
(* RevertToSnapshot and a contract creation that fails restore the world,  *)
(* for every sequence of accesses and depth of calls: the undo functions   *)
(* of core/state/journal.go.                                               *)
(***************************************************************************)
THEOREM RevertCorrect == Spec => RevertRestores
PROOF
  <1> DEFINE A == (phase = "tx" /\ Len(script') > Len(script)) =>
                    LET op == Last(script') IN
                    /\ op.kind = "revert" => World(db') = snaps[op.id]
                    /\ (op.kind = "create" /\ op.out = "reverted") => World(db') = World(db)
  <1>1. ProcessInv /\ [Next]_vars => [A]_vars
    <2> SUFFICES ASSUME ProcessInv, Next, phase = "tx", Len(script') > Len(script)
                 PROVE  LET op == Last(script') IN
                        /\ op.kind = "revert" => World(db') = snaps[op.id]
                        /\ (op.kind = "create" /\ op.out = "reverted") => World(db') = World(db)
      OBVIOUS
    <2>1. Len(script) \in Nat /\ ~(Len(script) > Len(script)) /\ ~(0 > Len(script))
      BY DEF ProcessInv, ScriptOK
    <2>2. script' # script /\ script' # <<>> BY <2>1
    <2>3. PICK op \in fork.ops : Access(op)
      BY <2>2 DEF Next, BeginTx, Return, EndTx, CheckReplay, Reward, IntermediateRoot
    <2> QED BY <2>3, AccessStep DEF AccessOK
  <1>2. Spec => [][A]_vars BY <1>1, ProcessInvariant, PTL DEF Spec
  <1> QED BY <1>2 DEF RevertRestores
===============================================================================
