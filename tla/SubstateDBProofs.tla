--------------------------- MODULE SubstateDBProofs ---------------------------
(***************************************************************************)
(* Proofs about SubstateDB, for every set of transactions, substates,      *)
(* codes and workers and every length of the log.                          *)
(***************************************************************************)
EXTENDS SubstateDB, TLAPS

\* Persisting the head of a log keeps the order of the others.
LEMMA TailFacts ==
  ASSUME NEW S, NEW s \in Seq(S), s # <<>>
  PROVE  /\ Head(s) \in S /\ Head(s) = s[1]
         /\ Tail(s) \in Seq(S)
         /\ Len(s) \in Nat \ {0}
         /\ Len(Tail(s)) = Len(s) - 1
         /\ \A i \in 1..(Len(s) - 1) : Tail(s)[i] = s[i + 1]
  OBVIOUS

\* A write goes behind the others.
LEMMA AppendFacts ==
  ASSUME NEW S, NEW s \in Seq(S), NEW e \in S
  PROVE  /\ Append(s, e) \in Seq(S)
         /\ Len(s) \in Nat
         /\ Len(Append(s, e)) = Len(s) + 1
         /\ Append(s, e)[Len(s) + 1] = e
         /\ \A i \in 1..Len(s) : Append(s, e)[i] = s[i]
  OBVIOUS

-------------------------------------------------------------------------------
(* The conversions.                                                        *)

\* Distinct codes have distinct hashes, and no code hashes like nothing.
LEMMA HashFacts ==
  /\ EmptyCodeHash \in Hashes
  /\ \A c \in Code : /\ CodeHash(c) \in Hashes \ {EmptyCodeHash}
                     /\ GetCode(CodeHash(c)) = c
  /\ \A h \in Hashes \ {EmptyCodeHash} : GetCode(h) \in Code /\ CodeHash(GetCode(h)) = h
  /\ GetCode(EmptyCodeHash) = Nil
  <1>1. Nil # Empty
    BY DEF Nil, Empty
  <1>2. EmptyCodeHash = <<"hash", Empty>> /\ EmptyCodeHash \in Hashes
    BY <1>1 DEF EmptyCodeHash, CodeHash, Hashes
  <1>3. ASSUME NEW c \in Code PROVE CodeHash(c) = <<"hash", c>> /\ c # Empty
    BY DBAssumption DEF CodeHash
  <1>4. ASSUME NEW c \in Code
        PROVE  CodeHash(c) \in Hashes \ {EmptyCodeHash} /\ GetCode(CodeHash(c)) = c
    BY <1>2, <1>3 DEF Hashes, GetCode
  <1>5. ASSUME NEW h \in Hashes \ {EmptyCodeHash}
        PROVE  GetCode(h) \in Code /\ CodeHash(GetCode(h)) = h
    <2>1. PICK c \in Code \cup {Empty} : h = CodeHash(c)
      BY DEF Hashes
    <2>2. c \in Code
      BY <1>1, <1>2, <2>1 DEF CodeHash
    <2> QED BY <1>4, <2>1, <2>2
  <1> QED BY <1>2, <1>4, <1>5 DEF GetCode

\* A field keeps its type through both conversions and comes back the same.
LEMMA FieldFacts ==
  /\ \A c \in Bytes : /\ Encode(c) \in Fields /\ ~Encode(c).hashed
                      /\ SameBytes(UnhashField(Encode(c)), c)
                      /\ HashField(c) \in Fields
                      /\ SameBytes(UnhashField(HashField(c)), c)
                      /\ HashField(c).hashed =>
                           c # Nil /\ HashField(c).value = CodeHash(c)
  /\ \A f \in Fields : /\ UnhashField(f) \in Bytes
                       /\ f.hashed => f.value \in Hashes
  <1>1. ASSUME NEW c \in Bytes
        PROVE  /\ Encode(c) \in Fields /\ ~Encode(c).hashed
               /\ UnhashField(Encode(c)) = IF c = Nil THEN Empty ELSE c
    BY DEF Encode, Plain, Fields, UnhashField, Bytes
  <1>2. ASSUME NEW c \in Bytes, c # Nil
        PROVE  /\ CodeHash(c) \in Hashes
               /\ GetCode(CodeHash(c)) = IF c \in Code THEN c ELSE Nil
    <2>1. CASE c \in Code
      BY <2>1, HashFacts
    <2>2. CASE c = Empty /\ c \notin Code
      <3>1. CodeHash(c) = EmptyCodeHash
        BY <1>2, <2>2 DEF CodeHash, EmptyCodeHash
      <3> QED BY <3>1, <2>2, HashFacts
    <2> QED BY <1>2, <2>1, <2>2 DEF Bytes
  <1>3. ASSUME NEW c \in Bytes, c # Nil
        PROVE  /\ HashField(c) \in Fields
               /\ HashField(c).hashed /\ HashField(c).value = CodeHash(c)
               /\ UnhashField(HashField(c)) = IF c \in Code THEN c ELSE Nil
    BY <1>2, <1>3 DEF HashField, Hashed, Fields, UnhashField
  <1>4. HashField(Nil) = Encode(Nil) /\ Nil \in Bytes
    BY DEF HashField, Bytes
  <1>5. ASSUME NEW c \in Bytes
        PROVE  /\ SameBytes(UnhashField(Encode(c)), c)
               /\ SameBytes(UnhashField(HashField(c)), c)
               /\ HashField(c) \in Fields
               /\ HashField(c).hashed => c # Nil /\ HashField(c).value = CodeHash(c)
    <2>1. CASE c = Nil
      BY <1>1, <1>4, <2>1 DEF SameBytes
    <2>2. CASE c # Nil
      BY <1>1, <1>3, <2>2 DEF SameBytes, Bytes
    <2> QED BY <2>1, <2>2
  <1>6. ASSUME NEW f \in Fields
        PROVE  UnhashField(f) \in Bytes /\ (f.hashed => f.value \in Hashes)
    <2>1. CASE f \in [hashed : {FALSE}, value : Bytes]
      BY <2>1 DEF UnhashField
    <2>2. CASE f \in [hashed : {TRUE}, value : Hashes]
      BY <2>2, HashFacts DEF UnhashField, Bytes
    <2> QED BY <2>1, <2>2 DEF Fields
  <1> QED BY <1>1, <1>5, <1>6

\* nil and zero bytes form one class: SameBytes is transitive.
LEMMA SameBytesTransitive ==
  \A a, b, c : SameBytes(a, b) /\ SameBytes(b, c) => SameBytes(a, c)
  BY DEF SameBytes

\* What GetSubstate returns for what PutSubstate stored is the substate, and
\* every hash it looks up is the hash of a code PutSubstate puts.
LEMMA CopyFacts ==
  ASSUME NEW s \in Substates
  PROVE  /\ HashedCopy(s) \in Stored
         /\ SameSubstate(UnhashedCopy(HashedCopy(s)), s)
         /\ \A h \in HashKeys(HashedCopy(s)) \ {EmptyCodeHash} :
                GetCode(h) \in HashMap(s) \cap Code
  <1> DEFINE v == HashedCopy(s)
  <1>0. /\ s.input \in Bytes /\ s.output \in Bytes /\ s.data \in Bytes
        /\ s.hasTo \in BOOLEAN
    BY DEF Substates
  <1>1. /\ v.input = HashField(s.input) /\ v.output = HashField(s.output)
        /\ v.hasTo = s.hasTo
        /\ s.hasTo => v.data = Encode(s.data)
        /\ ~s.hasTo => v.data = HashField(s.data)
    BY DEF HashedCopy
  <1>2. v \in Stored
    BY <1>0, FieldFacts DEF HashedCopy, Stored
  <1>3. SameSubstate(UnhashedCopy(v), s)
    <2>1. /\ UnhashedCopy(v).input = UnhashField(v.input)
          /\ UnhashedCopy(v).output = UnhashField(v.output)
          /\ UnhashedCopy(v).data = UnhashField(v.data)
          /\ UnhashedCopy(v).hasTo = v.hasTo
      BY DEF UnhashedCopy
    <2> HIDE DEF v
    <2> QED BY <1>0, <1>1, <2>1, FieldFacts DEF SameSubstate
  <1>4. ASSUME NEW h \in HashKeys(v) \ {EmptyCodeHash}
        PROVE  GetCode(h) \in HashMap(s) \cap Code
    <2> HIDE DEF v
    <2>1. PICK f \in {v.input, v.output, v.data} : f.hashed /\ h = f.value
      BY DEF HashKeys
    <2>2. PICK c \in {s.input, s.output} \cup (IF s.hasTo THEN {} ELSE {s.data}) :
                c \in Bytes /\ c # Nil /\ h = CodeHash(c)
      BY <1>0, <1>1, <2>1, FieldFacts
    <2>3. c \in Code
      <3>1. CASE c = Empty
        BY <2>2, <3>1 DEF CodeHash, EmptyCodeHash
      <3> QED BY <2>2, <3>1 DEF Bytes
    <2> QED BY <2>2, <2>3, HashFacts DEF HashMap
  <1> QED BY <1>2, <1>3, <1>4

\* Reading gives a substate, the recorded one if the stored one is true.
LEMMA ReadFacts ==
  ASSUME NEW t \in Txs, NEW v \in Stored, True(SubstateItem(t, v))
  PROVE  /\ UnhashedCopy(v) \in Substates
         /\ SubstateItem(t, HashedCopy(UnhashedCopy(v))) \in SubstateItems
         /\ True(SubstateItem(t, HashedCopy(UnhashedCopy(v))))
  <1> DEFINE s == UnhashedCopy(v)
  <1>1. s \in Substates
    BY FieldFacts DEF UnhashedCopy, Stored, Substates
  <1>2. SameSubstate(s, Content[t])
    BY DEF True, SubstateItem
  <1> HIDE DEF s
  <1>3. HashedCopy(s) \in Stored /\ SameSubstate(UnhashedCopy(HashedCopy(s)), s)
    BY <1>1, CopyFacts
  <1>4. SameSubstate(UnhashedCopy(HashedCopy(s)), Content[t])
    BY <1>2, <1>3, SameBytesTransitive DEF SameSubstate
  <1>5. SubstateItem(t, HashedCopy(s)) \in SubstateItems
    BY <1>3 DEF SubstateItem, SubstateItems
  <1>6. True(SubstateItem(t, HashedCopy(s)))
    BY <1>4 DEF True, SubstateItem
  <1> QED BY <1>1, <1>5, <1>6 DEF s

-------------------------------------------------------------------------------
(* Types.                                                                  *)

\* The three kinds of items differ in their first component.
LEMMA ItemFacts ==
  /\ \A h \in Hashes : CodeItem(h) \in Items /\ CodeItem(h)[1] = "code"
  /\ \A t \in Txs : /\ TraceItem(t) \in TraceItems /\ TraceItem(t) \in Items
                    /\ TraceItem(t)[1] = "trace" /\ TraceItem(t)[2] = t
  /\ \A x \in TraceItems : x \in Items /\ x[1] = "trace"
  /\ \A x \in SubstateItems :
        /\ x \in Items /\ x[1] = "substate" /\ x[2] \in Txs /\ x[3] \in Stored
        /\ x = SubstateItem(x[2], x[3])
  /\ \A x \in Items : x[1] = "substate" => x \in SubstateItems
  BY DEF CodeItem, TraceItem, SubstateItem, Items, CodeItems, SubstateItems,
         TraceItems

\* The target database is one of the two.
LEMMA TargetType == Target \in DBs
  BY DEF Target, DBs

\* The initial state is well-typed.
LEMMA InitTypeOK == Init => TypeOK
  <1> SUFFICES ASSUME Init PROVE TypeOK
    OBVIOUS
  <1>1. disk \in [DBs -> SUBSET Items] /\ log \in [DBs -> Seq(Items)]
    BY DEF Init
  <1>2. panicked \in BOOLEAN
    BY Zenon DEF Init
  <1> QED BY <1>1, <1>2 DEF Init, TypeOK

\* Putting an item keeps the type of the log.
LEMMA PutType ==
  ASSUME TypeOK, NEW x \in Items, Put(x)
  PROVE  log' \in [DBs -> Seq(Items)]
  <1>1. log[Target] \in Seq(Items)
    BY TargetType DEF TypeOK
  <1>2. Append(log[Target], x) \in Seq(Items)
    BY <1>1, AppendFacts
  <1> QED BY <1>2, TargetType DEF TypeOK, Put

\* A worker that takes a new item keeps the types of pc and item.
LEMMA BecomeType ==
  ASSUME TypeOK, NEW w \in Workers, NEW p \in {"idle", "codes", "trace"},
         NEW x \in Items \cup {NoItem}, Become(w, p, x)
  PROVE  /\ pc' \in [Workers -> {"idle", "codes", "trace"}]
         /\ item' \in [Workers -> Items \cup {NoItem}]
         /\ pc'[w] = p /\ item'[w] = x
         /\ \A y \in Workers \ {w} : pc'[y] = pc[y] /\ item'[y] = item[y]
  BY DEF TypeOK, Become

-------------------------------------------------------------------------------
(* The databases.                                                          *)

\* An item keeps its support when the database grows; codes need none.
LEMMA SupportFacts ==
  /\ \A S, T, x : S \subseteq T /\ Supported(x, S) => Supported(x, T)
  /\ \A h \in Hashes : \A S : Supported(CodeItem(h), S) /\ True(CodeItem(h))
  BY ItemFacts DEF Supported, CodesIn, SubstateIn, True

\* What the readers of a database see is what its log and its disk hold.
LEMMA DataFacts ==
  ASSUME TypeOK, NEW d \in DBs
  PROVE  /\ disk[d] \subseteq Items /\ log[d] \in Seq(Items)
         /\ Len(log[d]) \in Nat
         /\ Data(d) \subseteq Items /\ disk[d] \subseteq Data(d)
         /\ \A i \in 1..Len(log[d]) : log[d][i] \in Data(d)
         /\ \A i \in 1..Len(log[d]) : Before(d, i) \subseteq Data(d)
         /\ \A x \in Data(d) : x \in disk[d] \/ \E i \in 1..Len(log[d]) : x = log[d][i]
  <1>1. disk[d] \subseteq Items /\ log[d] \in Seq(Items) /\ Len(log[d]) \in Nat
    BY DEF TypeOK
  <1>2. \A i \in 1..Len(log[d]) : log[d][i] \in Items
    BY <1>1
  <1> QED BY <1>1, <1>2 DEF Data, LogItems, Before

\* With disk and log closed, everything a reader sees is supported.
LEMMA DataClosed ==
  ASSUME TypeOK, DiskClosed, LogClosed, NEW d \in DBs, NEW x \in Data(d)
  PROVE  Supported(x, Data(d))
  <1>1. CASE x \in disk[d]
    BY <1>1, DataFacts, SupportFacts DEF DiskClosed
  <1>2. ASSUME NEW i \in 1..Len(log[d]), x = log[d][i]
        PROVE  Supported(x, Data(d))
    BY <1>2, DataFacts, SupportFacts DEF LogClosed
  <1> QED BY <1>1, <1>2, DataFacts

\* Putting a supported item keeps the databases closed.
LEMMA PutStep ==
  ASSUME TypeOK, ReadsBack, DiskClosed, LogClosed,
         NEW D \in DBs, D = Target,
         NEW x \in Items, Put(x), Supported(x, Data(D)), True(x),
         UNCHANGED disk
  PROVE  /\ ReadsBack' /\ DiskClosed' /\ LogClosed'
         /\ \A d \in DBs : Data(d) \subseteq Data(d)'
         /\ x \in Data(D)'
  <1>1. log[D] \in Seq(Items)
    BY DEF TypeOK
  <1>2. PICK n \in Nat : n = Len(log[D])
    BY <1>1
  <1>3. /\ log'[D] = Append(log[D], x)
        /\ \A d \in DBs \ {D} : log'[d] = log[d]
    BY <1>1 DEF Put, TypeOK
  <1>4. /\ Len(log'[D]) = n + 1
        /\ log'[D][n + 1] = x
        /\ \A i \in 1..n : log'[D][i] = log[D][i]
    BY <1>1, <1>2, <1>3, AppendFacts
  <1>5. {log'[D][i] : i \in 1..n} = {log[D][i] : i \in 1..n}
    BY <1>4
  <1>6. Data(D)' = Data(D) \cup {x}
    <2>1. \A i \in 1..(n + 1) : i \in 1..n \/ i = n + 1
      BY <1>2
    <2>2. {log'[D][i] : i \in 1..(n + 1)} = {log[D][i] : i \in 1..n} \cup {x}
      BY <1>2, <1>4, <2>1
    <2> QED BY <1>2, <1>4, <2>2 DEF Data, LogItems
  <1>7. \A d \in DBs \ {D} : Data(d)' = Data(d)
    BY <1>3 DEF Data, LogItems
  <1>8. \A d \in DBs \ {D} : \A i \in 1..Len(log[d]) : Before(d, i)' = Before(d, i)
    BY <1>3 DEF Before
  <1>9. \A i \in 1..n : Before(D, i)' = Before(D, i)
    <2> SUFFICES ASSUME NEW i \in 1..n PROVE Before(D, i)' = Before(D, i)
      OBVIOUS
    <2>1. \A j \in 1..(i - 1) : j \in 1..n
      BY <1>2
    <2>2. {log'[D][j] : j \in 1..(i - 1)} = {log[D][j] : j \in 1..(i - 1)}
      BY <1>4, <2>1
    <2> QED BY <2>2 DEF Before
  <1>10. Before(D, n + 1)' = Data(D)
    <2>1. n + 1 - 1 = n
      BY <1>2
    <2> QED BY <1>2, <1>5, <2>1 DEF Before, Data, LogItems
  <1>11. ReadsBack'
    BY <1>6, <1>7 DEF ReadsBack, True
  <1>12. DiskClosed'
    BY DEF DiskClosed
  <1>13. LogClosed'
    <2> SUFFICES ASSUME NEW d \in DBs, NEW i \in 1..Len(log'[d])
                 PROVE  Supported(log'[d][i], Before(d, i)')
      BY DEF LogClosed, Supported, CodesIn, SubstateIn
    <2>1. CASE d # D
      BY <1>3, <1>8, <2>1 DEF LogClosed
    <2>2. CASE d = D /\ i \in 1..n
      BY <1>2, <1>4, <1>9, <2>2 DEF LogClosed
    <2>3. CASE d = D /\ i = n + 1
      BY <1>4, <1>10, <2>3
    <2> QED BY <1>2, <1>4, <2>1, <2>2, <2>3
  <1> QED BY <1>6, <1>7, <1>11, <1>12, <1>13

\* A write that reaches the disk changes nothing a reader sees, and leaves
\* the disk closed: what it refers to is there already.
LEMMA PersistStep ==
  ASSUME TypeOK, DiskClosed, LogClosed, NEW D \in DBs, Persist(D)
  PROVE  /\ DiskClosed' /\ LogClosed'
         /\ \A d \in DBs : Data(d)' = Data(d)
         /\ disk' \in [DBs -> SUBSET Items] /\ log' \in [DBs -> Seq(Items)]
  <1>1. log[D] \in Seq(Items) /\ log[D] # <<>> /\ disk[D] \subseteq Items
    BY DEF TypeOK, Persist
  <1>2. PICK n \in Nat : Len(log[D]) = n + 1
    BY <1>1
  <1>3. PICK h \in Items : h = Head(log[D]) /\ h = log[D][1]
    BY <1>1, TailFacts
  <1>4. /\ log'[D] = Tail(log[D]) /\ disk'[D] = disk[D] \cup {h}
        /\ \A d \in DBs \ {D} : log'[d] = log[d] /\ disk'[d] = disk[d]
    BY <1>3 DEF Persist, TypeOK
  <1>5. /\ Len(log'[D]) = n
        /\ \A i \in 1..n : log'[D][i] = log[D][i + 1]
    BY <1>1, <1>2, <1>4, TailFacts
  <1>6. \A d \in DBs \ {D} : Data(d)' = Data(d)
    BY <1>4 DEF Data, LogItems
  <1>7. \A d \in DBs \ {D} : \A i \in 1..Len(log[d]) : Before(d, i)' = Before(d, i)
    BY <1>4 DEF Before
  <1>8. ASSUME NEW m \in 0..n
        PROVE  {log[D][j] : j \in 1..(m + 1)} = {log'[D][j] : j \in 1..m} \cup {h}
    <2>1. \A j \in 1..m : log'[D][j] = log[D][j + 1]
      BY <1>2, <1>5
    <2>2. \A j \in 1..(m + 1) : j = 1 \/ \E k \in 1..m : j = k + 1
      <3> SUFFICES ASSUME NEW j \in 1..(m + 1), j # 1
                   PROVE  j - 1 \in 1..m /\ j = (j - 1) + 1
        OBVIOUS
      <3> QED BY <1>2
    <2>3. \A k \in 1..m : k + 1 \in 1..(m + 1)
      BY <1>2
    <2>4. 1 \in 1..(m + 1)
      BY <1>2
    <2> QED BY <1>3, <2>1, <2>2, <2>3, <2>4
  <1>9. Data(D)' = Data(D)
    <2>1. n \in 0..n
      BY <1>2
    <2>2. {log[D][j] : j \in 1..(n + 1)} = {log'[D][j] : j \in 1..n} \cup {h}
      BY <1>8, <2>1
    <2> QED BY <1>2, <1>4, <1>5, <2>2 DEF Data, LogItems
  <1>10. ASSUME NEW i \in 1..n
         PROVE  Before(D, i)' = Before(D, i + 1)
    <2>1. i - 1 \in 0..n /\ (i - 1) + 1 = i /\ (i + 1) - 1 = i
      BY <1>2
    <2>2. {log[D][j] : j \in 1..i} = {log'[D][j] : j \in 1..(i - 1)} \cup {h}
      BY <1>8, <2>1
    <2> QED BY <1>4, <2>1, <2>2 DEF Before
  <1>11. Supported(h, disk[D])
    <2>1. 1 \in 1..Len(log[D])
      BY <1>2
    <2>2. Before(D, 1) = disk[D]
      BY DEF Before
    <2> QED BY <1>3, <2>1, <2>2 DEF LogClosed
  <1>12. DiskClosed'
    <2> SUFFICES ASSUME NEW d \in DBs, NEW x \in disk'[d]
                 PROVE  Supported(x, disk'[d])
      BY DEF DiskClosed, Supported, CodesIn, SubstateIn
    <2>1. CASE d # D
      BY <1>4, <2>1 DEF DiskClosed
    <2>2. CASE d = D
      BY <1>4, <1>11, <2>2, SupportFacts DEF DiskClosed
    <2> QED BY <2>1, <2>2
  <1>13. LogClosed'
    <2> SUFFICES ASSUME NEW d \in DBs, NEW i \in 1..Len(log'[d])
                 PROVE  Supported(log'[d][i], Before(d, i)')
      BY DEF LogClosed, Supported, CodesIn, SubstateIn
    <2>1. CASE d # D
      BY <1>4, <1>7, <2>1 DEF LogClosed
    <2>2. CASE d = D
      <3>1. i \in 1..n /\ i + 1 \in 1..Len(log[D])
        BY <1>2, <1>5, <2>2
      <3>2. Supported(log[D][i + 1], Before(D, i + 1))
        BY <3>1 DEF LogClosed
      <3> QED BY <1>5, <1>10, <2>2, <3>1, <3>2
    <2> QED BY <2>1, <2>2
  <1>14. disk' \in [DBs -> SUBSET Items] /\ log' \in [DBs -> Seq(Items)]
    <2>1. Tail(log[D]) \in Seq(Items)
      BY <1>1, TailFacts
    <2>2. disk[D] \cup {h} \in SUBSET Items
      BY <1>1, <1>3
    <2> QED BY <1>3, <2>1, <2>2 DEF Persist, TypeOK
  <1> QED BY <1>6, <1>9, <1>12, <1>13, <1>14

\* A crash leaves the disks, which are closed.
LEMMA CrashStep ==
  ASSUME TypeOK, ReadsBack, DiskClosed, Crash
  PROVE  ReadsBack' /\ DiskClosed' /\ LogClosed' /\ log' \in [DBs -> Seq(Items)]
  <1>1. \A d \in DBs : log'[d] = <<>> /\ disk'[d] = disk[d]
    BY DEF Crash
  <1>2. \A d \in DBs : Len(log'[d]) = 0
    BY <1>1
  <1>3. \A d \in DBs : Data(d)' = disk[d]
    BY <1>1, <1>2 DEF Data, LogItems
  <1>4. ReadsBack'
    BY <1>3, DataFacts DEF ReadsBack, True
  <1>5. DiskClosed'
    BY DEF Crash, DiskClosed
  <1>6. LogClosed'
    BY <1>2 DEF LogClosed
  <1>7. log' \in [DBs -> Seq(Items)]
    BY DEF Crash
  <1> QED BY <1>4, <1>5, <1>6, <1>7

-------------------------------------------------------------------------------
(* The workers.                                                            *)

\* A worker that does not move keeps its invariant while its target grows.
LEMMA WorkerKept ==
  ASSUME TypeOK, NEW w \in Workers, WorkerInv(w), prog # "none",
         \A d \in DBs : Data(d) \subseteq Data(d)',
         UNCHANGED prog, pc'[w] = pc[w], item'[w] = item[w], todo'[w] = todo[w]
  PROVE  WorkerInv(w)'
  <1>1. Target' = Target /\ Data(Target) \subseteq Data(Target)'
    BY TargetType DEF Target
  <1>2. (prog = "none" => pc[w] = "idle")'
    OBVIOUS
  <1>3. ASSUME pc'[w] = "codes"
        PROVE  /\ item'[w] \in SubstateItems /\ True(item[w])'
               /\ \A h \in HashKeys(item'[w][3]) \ {EmptyCodeHash} :
                    GetCode(h) \in todo'[w] \/ CodeItem(h) \in Data(Target)'
    BY <1>1, <1>3 DEF WorkerInv, True
  <1>4. ASSUME pc'[w] = "trace"
        PROVE  /\ item'[w] \in TraceItems
               /\ \E y \in Data(Target)' : y[1] = "substate" /\ y[2] = item'[w][2]
    BY <1>1, <1>4 DEF WorkerInv
  <1> QED BY <1>2, <1>3, <1>4 DEF WorkerInv

\* A worker without a task has nothing to keep.
LEMMA IdleInv ==
  ASSUME NEW w \in Workers, pc[w] = "idle"
  PROVE  WorkerInv(w)
  BY DEF WorkerInv

\* After Halt the types hold and no worker has a task.
LEMMA HaltFacts ==
  ASSUME Halt
  PROVE  /\ prog' \in Programs \cup {"none"}
         /\ pc' \in [Workers -> {"idle", "codes", "trace"}]
         /\ item' \in [Workers -> Items \cup {NoItem}]
         /\ todo' \in [Workers -> SUBSET Code]
         /\ panicked' = FALSE
         /\ \A w \in Workers : WorkerInv(w)'
  <1>1. \A w \in Workers : pc'[w] = "idle"
    BY DEF Halt
  <1>2. \A w \in Workers : WorkerInv(w)'
    BY <1>1 DEF WorkerInv
  <1>3. panicked' = FALSE
    BY Zenon DEF Halt
  <1> QED BY <1>2, <1>3 DEF Halt

\* What no database operation touches stays.
LEMMA SameData ==
  ASSUME ReadsBack, DiskClosed, LogClosed, UNCHANGED <<disk, log>>
  PROVE  /\ ReadsBack' /\ DiskClosed' /\ LogClosed'
         /\ \A d \in DBs : Data(d)' = Data(d)
  <1>1. \A d \in DBs : Data(d)' = Data(d)
    BY DEF Data, LogItems
  <1>2. ReadsBack'
    BY <1>1 DEF ReadsBack, True
  <1>3. DiskClosed'
    BY DEF DiskClosed
  <1>4. LogClosed'
    <2>1. \A d \in DBs : \A i \in 1..Len(log[d]) : Before(d, i)' = Before(d, i)
      BY DEF Before
    <2> SUFFICES ASSUME NEW d \in DBs, NEW i \in 1..Len(log'[d])
                 PROVE  Supported(log'[d][i], Before(d, i)')
      BY DEF LogClosed, Supported, CodesIn, SubstateIn
    <2> QED BY <2>1 DEF LogClosed
  <1> QED BY <1>1, <1>2, <1>3, <1>4

\* panicked stays FALSE, which has its type.
LEMMA PanickedType == ASSUME panicked' = FALSE PROVE ~panicked' /\ panicked' \in BOOLEAN
  BY Zenon

\* A worker that begins to put a true substate has all its codes to put.
LEMMA BeginPutStep ==
  ASSUME DBInv, prog # "none", NEW w \in Workers, NEW t \in Txs, NEW s \in Substates,
         True(SubstateItem(t, HashedCopy(s))),
         BeginPut(w, t, s), UNCHANGED <<disk, log, prog>>, panicked' = FALSE
  PROVE  DBInv'
  <1> DEFINE x == SubstateItem(t, HashedCopy(s))
  <1>0. TypeOK
    BY DEF DBInv
  <1>1. x \in SubstateItems /\ x \in Items /\ x[3] = HashedCopy(s)
    BY CopyFacts, ItemFacts DEF SubstateItem, SubstateItems
  <1>2. ReadsBack' /\ DiskClosed' /\ LogClosed' /\ \A d \in DBs : Data(d)' = Data(d)
    BY SameData DEF DBInv
  <1>3. /\ pc' \in [Workers -> {"idle", "codes", "trace"}]
        /\ item' \in [Workers -> Items \cup {NoItem}]
        /\ pc'[w] = "codes" /\ item'[w] = x
        /\ \A y \in Workers \ {w} : pc'[y] = pc[y] /\ item'[y] = item[y]
    BY <1>0, <1>1, BecomeType DEF BeginPut
  <1>4. /\ todo' \in [Workers -> SUBSET Code]
        /\ todo'[w] = HashMap(s) \cap Code
        /\ \A y \in Workers \ {w} : todo'[y] = todo[y]
    BY <1>0 DEF BeginPut, TypeOK
  <1>5. TypeOK'
    BY <1>0, <1>3, <1>4, PanickedType DEF TypeOK
  <1>6. WorkerInv(w)'
    <2>1. True(item[w])'
      BY <1>3 DEF True
    <2>2. \A h \in HashKeys(item'[w][3]) \ {EmptyCodeHash} : GetCode(h) \in todo'[w]
      BY <1>1, <1>3, <1>4, CopyFacts
    <2> HIDE DEF x
    <2> QED BY <1>1, <1>3, <2>1, <2>2 DEF WorkerInv
  <1>7. ASSUME NEW y \in Workers \ {w} PROVE WorkerInv(y)'
    <2>1. WorkerInv(y)
      BY DEF DBInv
    <2> QED BY <1>0, <1>2, <1>3, <1>4, <2>1, WorkerKept
  <1> QED BY <1>2, <1>5, <1>6, <1>7, PanickedType DEF DBInv

\* Recording a transaction.
LEMMA RecordStep ==
  ASSUME DBInv, NEW w \in Workers, NEW t \in Txs, Record(w, t)
  PROVE  DBInv'
  <1>1. Content[t] \in Substates
    BY DBAssumption
  <1>2. True(SubstateItem(t, HashedCopy(Content[t])))
    BY <1>1, CopyFacts DEF True, SubstateItem
  <1>3. panicked' = FALSE
    BY Zenon DEF Record, DBInv, TypeOK
  <1> QED BY <1>1, <1>2, <1>3, BeginPutStep DEF Record

\* A step that changes nothing.
LEMMA StutterKeeps == ASSUME DBInv, UNCHANGED vars PROVE DBInv'
  <1>0. TypeOK /\ UNCHANGED <<disk, log, prog, pc, item, todo, panicked>>
    BY DEF DBInv, vars
  <1>1. ReadsBack' /\ DiskClosed' /\ LogClosed' /\ \A e \in DBs : Data(e)' = Data(e)
    BY <1>0, SameData DEF DBInv
  <1>2. panicked' = FALSE
    BY <1>0, Zenon DEF DBInv, TypeOK
  <1>3. TypeOK'
    BY <1>0, <1>2, PanickedType DEF TypeOK
  <1>4. ASSUME NEW w \in Workers PROVE WorkerInv(w)'
    <2>1. WorkerInv(w)
      BY DEF DBInv
    <2>2. CASE prog = "none"
      BY <1>0, <2>1, <2>2 DEF WorkerInv
    <2>3. CASE prog # "none"
      BY <1>0, <1>1, <2>1, <2>3, WorkerKept
    <2> QED BY <2>2, <2>3
  <1> QED BY <1>1, <1>2, <1>3, <1>4, PanickedType DEF DBInv

\* Reading a substate: its codes are found, and what is cloned is true.
LEMMA ReadStep ==
  ASSUME DBInv, NEW w \in Workers, NEW x \in Data("src"), x[1] = "substate",
         Read(w, x[2], x[3])
  PROVE  DBInv'
  <1>0. TypeOK /\ "src" \in DBs
    BY DEF DBInv, DBs
  <1>1. x \in SubstateItems
    BY <1>0, DataFacts, ItemFacts
  <1>2. x[2] \in Txs /\ x[3] \in Stored /\ x = SubstateItem(x[2], x[3])
    BY <1>1, ItemFacts
  <1>3. True(x) /\ Supported(x, Data("src"))
    BY <1>0, DataClosed DEF DBInv, ReadsBack
  <1>4. CodesFound(x[3])
    BY <1>3 DEF CodesFound, Supported, CodesIn
  <1>5. panicked' = FALSE
    <2>1. panicked' = ~CodesFound(x[3])
      BY DEF Read
    <2> QED BY <1>4, <2>1, Zenon
  <1>6. UNCHANGED <<disk, log, prog>> /\ prog # "none"
    BY DEF Read, Programs
  <1>7. CASE TraceTask(w, x[2])
    <2>1. ReadsBack' /\ DiskClosed' /\ LogClosed' /\ \A d \in DBs : Data(d)' = Data(d)
      BY <1>6, SameData DEF DBInv
    <2>2. TraceItem(x[2]) \in TraceItems /\ TraceItem(x[2]) \in Items
      BY <1>2, ItemFacts
    <2>3. /\ pc' \in [Workers -> {"idle", "codes", "trace"}]
          /\ item' \in [Workers -> Items \cup {NoItem}]
          /\ pc'[w] = "trace" /\ item'[w] = TraceItem(x[2])
          /\ \A y \in Workers \ {w} : pc'[y] = pc[y] /\ item'[y] = item[y]
      BY <1>0, <1>7, <2>2, BecomeType DEF TraceTask
    <2>4. UNCHANGED todo
      BY <1>7 DEF TraceTask
    <2>5. TypeOK'
      BY <1>0, <1>5, <1>6, <2>3, <2>4, PanickedType DEF TypeOK
    <2>6. WorkerInv(w)'
      <3>1. Target' = "src"
        BY <1>6, <1>7 DEF TraceTask, Target
      <3>2. x \in Data(Target)' /\ x[2] = item'[w][2]
        BY <1>0, <1>2, <2>1, <2>3, <3>1, ItemFacts
      <3> QED BY <1>6, <2>2, <2>3, <3>2 DEF WorkerInv
    <2>7. ASSUME NEW y \in Workers \ {w} PROVE WorkerInv(y)'
      <3>1. WorkerInv(y)
        BY DEF DBInv
      <3> QED BY <1>0, <1>6, <2>1, <2>3, <2>4, <3>1, WorkerKept
    <2> QED BY <1>5, <2>1, <2>5, <2>6, <2>7, PanickedType DEF DBInv
  <1>8. CASE CloneTask(w, x[2], UnhashedCopy(x[3]))
    <2>1. /\ UnhashedCopy(x[3]) \in Substates
          /\ True(SubstateItem(x[2], HashedCopy(UnhashedCopy(x[3]))))
      BY <1>2, <1>3, ReadFacts
    <2> QED BY <1>2, <1>5, <1>6, <1>8, <2>1, BeginPutStep DEF CloneTask
  <1>9. CASE SkipTask
    <2>1. panicked = FALSE
      BY <1>0, Zenon DEF DBInv, TypeOK
    <2>2. UNCHANGED vars
      BY <1>5, <1>6, <1>9, <2>1 DEF SkipTask, vars
    <2> QED BY <2>2, StutterKeeps
  <1> QED BY <1>7, <1>8, <1>9 DEF Read

\* A put by a worker that leaves the other workers alone.
LEMMA WorkerPut ==
  ASSUME DBInv, prog # "none", NEW w \in Workers, NEW x \in Items, Put(x),
         Supported(x, Data(Target)), True(x),
         UNCHANGED <<disk, prog, panicked>>,
         pc' \in [Workers -> {"idle", "codes", "trace"}],
         item' \in [Workers -> Items \cup {NoItem}],
         todo' \in [Workers -> SUBSET Code],
         \A y \in Workers \ {w} : pc'[y] = pc[y] /\ item'[y] = item[y] /\ todo'[y] = todo[y],
         /\ Data(Target) \subseteq Data(Target)' /\ x \in Data(Target)' /\ Target' = Target
         => WorkerInv(w)'
  PROVE  DBInv'
  <1>0. TypeOK
    BY DEF DBInv
  <1>1. PICK D \in DBs : D = Target
    BY TargetType
  <1>2. Target' = D
    BY <1>1 DEF Target
  <1>3. Supported(x, Data(D))
    BY <1>1
  <1>4. /\ ReadsBack' /\ DiskClosed' /\ LogClosed'
        /\ \A d \in DBs : Data(d) \subseteq Data(d)'
        /\ x \in Data(D)'
    BY <1>0, <1>1, <1>3, PutStep DEF DBInv
  <1>5. panicked' = FALSE
    BY <1>0, Zenon DEF DBInv, TypeOK
  <1>6. TypeOK'
    BY <1>0, <1>5, PutType, PanickedType DEF TypeOK
  <1>7. WorkerInv(w)'
    BY <1>1, <1>2, <1>4
  <1>8. ASSUME NEW y \in Workers \ {w} PROVE WorkerInv(y)'
    <2>1. WorkerInv(y)
      BY DEF DBInv
    <2> QED BY <1>0, <1>4, <2>1, WorkerKept
  <1> QED BY <1>4, <1>5, <1>6, <1>7, <1>8, PanickedType DEF DBInv

\* PutCode: the code leaves todo as it reaches the database.
LEMMA PutCodeStep ==
  ASSUME DBInv, NEW w \in Workers, NEW c \in Code, PutCode(w, c)
  PROVE  DBInv'
  <1>0. TypeOK /\ WorkerInv(w)
    BY DEF DBInv
  <1>1. pc[w] = "codes" /\ prog # "none"
    BY <1>0 DEF PutCode, WorkerInv
  <1>2. CodeItem(CodeHash(c)) \in Items /\ True(CodeItem(CodeHash(c)))
        /\ Supported(CodeItem(CodeHash(c)), Data(Target))
    BY HashFacts, ItemFacts, SupportFacts
  <1>3. /\ todo' \in [Workers -> SUBSET Code]
        /\ todo'[w] = todo[w] \ {c}
        /\ \A y \in Workers \ {w} : todo'[y] = todo[y]
    BY <1>0 DEF PutCode, TypeOK
  <1>4. UNCHANGED <<disk, prog, pc, item, panicked>> /\ Put(CodeItem(CodeHash(c)))
    BY DEF PutCode
  <1>5. ASSUME Data(Target) \subseteq Data(Target)',
               CodeItem(CodeHash(c)) \in Data(Target)', Target' = Target
        PROVE  WorkerInv(w)'
    <2>1. item[w] \in SubstateItems /\ True(item[w])'
      BY <1>0, <1>1, <1>4 DEF WorkerInv, True
    <2>2. ASSUME NEW h \in HashKeys(item[w][3]) \ {EmptyCodeHash}
          PROVE  GetCode(h) \in todo'[w] \/ CodeItem(h) \in Data(Target)'
      <3>1. GetCode(h) \in todo[w] \/ CodeItem(h) \in Data(Target)
        BY <1>0, <1>1 DEF WorkerInv
      <3>2. CASE GetCode(h) = c
        <4>1. item[w][3] \in Stored
          BY <2>1, ItemFacts
        <4>2. h \in Hashes
          BY <4>1, FieldFacts DEF HashKeys, Stored
        <4>3. h = CodeHash(c)
          BY <3>2, <4>2, HashFacts
        <4> QED BY <1>5, <4>3
      <3> QED BY <1>3, <1>5, <3>1, <3>2
    <2> QED BY <1>1, <1>4, <2>1, <2>2 DEF WorkerInv
  <1>6. /\ pc' \in [Workers -> {"idle", "codes", "trace"}]
        /\ item' \in [Workers -> Items \cup {NoItem}]
    BY <1>0, <1>4 DEF TypeOK
  <1> QED BY <1>1, <1>2, <1>3, <1>4, <1>5, <1>6, WorkerPut

\* PutSubstate: all codes are there.
LEMMA PutSubstateStep ==
  ASSUME DBInv, NEW w \in Workers, PutSubstate(w)
  PROVE  DBInv'
  <1>0. TypeOK /\ WorkerInv(w)
    BY DEF DBInv
  <1>1. pc[w] = "codes" /\ todo[w] = {} /\ prog # "none"
    BY <1>0 DEF PutSubstate, WorkerInv
  <1>2. item[w] \in SubstateItems /\ True(item[w])
    BY <1>0, <1>1 DEF WorkerInv
  <1>3. item[w] \in Items /\ item[w][1] = "substate" /\ item[w][2] \in Txs
    BY <1>2, ItemFacts
  <1>4. Supported(item[w], Data(Target))
    BY <1>0, <1>1, <1>3 DEF WorkerInv, Supported, CodesIn, SubstateIn
  <1>5. UNCHANGED <<disk, prog, todo, panicked>> /\ Put(item[w]) /\ AfterSubstate(w)
    BY DEF PutSubstate
  <1>6. /\ TraceItem(item[w][2]) \in Items /\ TraceItem(item[w][2]) \in TraceItems
        /\ TraceItem(item[w][2])[2] = item[w][2]
    BY <1>3, ItemFacts
  <1>7. /\ pc' \in [Workers -> {"idle", "codes", "trace"}]
        /\ item' \in [Workers -> Items \cup {NoItem}]
        /\ \A y \in Workers \ {w} : pc'[y] = pc[y] /\ item'[y] = item[y]
        /\ \/ pc'[w] = "idle"
           \/ pc'[w] = "trace" /\ item'[w] = TraceItem(item[w][2])
    <2>1. CASE prog = "db-clone-trace"
      BY <1>0, <1>5, <1>6, <2>1, BecomeType DEF AfterSubstate
    <2>2. CASE prog # "db-clone-trace"
      BY <1>0, <1>5, <2>2, BecomeType DEF AfterSubstate
    <2> QED BY <2>1, <2>2
  <1>8. ASSUME item[w] \in Data(Target)'
        PROVE  WorkerInv(w)'
    <2>1. CASE pc'[w] = "idle"
      BY <2>1 DEF WorkerInv
    <2>2. CASE pc'[w] = "trace" /\ item'[w] = TraceItem(item[w][2])
      BY <1>1, <1>3, <1>5, <1>6, <1>8, <2>2 DEF WorkerInv
    <2> QED BY <1>7, <2>1, <2>2
  <1>9. todo' \in [Workers -> SUBSET Code] /\ \A y \in Workers : todo'[y] = todo[y]
    BY <1>0, <1>5 DEF TypeOK
  <1> QED BY <1>1, <1>2, <1>3, <1>4, <1>5, <1>7, <1>8, <1>9, WorkerPut

\* PutEVMTrace: the substate is there.
LEMMA PutTraceStep ==
  ASSUME DBInv, NEW w \in Workers, PutEVMTrace(w)
  PROVE  DBInv'
  <1>0. TypeOK /\ WorkerInv(w)
    BY DEF DBInv
  <1>1. pc[w] = "trace" /\ prog # "none"
    BY <1>0 DEF PutEVMTrace, WorkerInv
  <1>2. item[w] \in TraceItems
    BY <1>0, <1>1 DEF WorkerInv
  <1>3. item[w] \in Items /\ item[w][1] = "trace"
    BY <1>2, ItemFacts
  <1>4. Supported(item[w], Data(Target)) /\ True(item[w])
    BY <1>0, <1>1, <1>3 DEF WorkerInv, Supported, CodesIn, SubstateIn, True
  <1>5. UNCHANGED <<disk, prog, todo, panicked>> /\ Put(item[w])
    BY DEF PutEVMTrace
  <1>6. /\ pc' \in [Workers -> {"idle", "codes", "trace"}]
        /\ item' \in [Workers -> Items \cup {NoItem}]
        /\ pc'[w] = "idle"
        /\ \A y \in Workers \ {w} : pc'[y] = pc[y] /\ item'[y] = item[y]
    BY <1>0, BecomeType DEF PutEVMTrace
  <1>7. WorkerInv(w)'
    BY <1>6 DEF WorkerInv
  <1>8. todo' \in [Workers -> SUBSET Code] /\ \A y \in Workers : todo'[y] = todo[y]
    BY <1>0, <1>5 DEF TypeOK
  <1> QED BY <1>1, <1>3, <1>4, <1>5, <1>6, <1>7, <1>8, WorkerPut

\* A program starts.
LEMMA StartStep ==
  ASSUME DBInv, NEW p \in Programs, Start(p)
  PROVE  DBInv'
  <1>0. TypeOK /\ UNCHANGED <<disk, log, pc, item, todo, panicked>> /\ prog' = p
    BY DEF DBInv, Start
  <1>1. ReadsBack' /\ DiskClosed' /\ LogClosed'
    BY <1>0, SameData DEF DBInv
  <1>2. ASSUME NEW w \in Workers PROVE WorkerInv(w)'
    <2>1. pc'[w] = "idle"
      BY <1>0 DEF DBInv, WorkerInv, Start
    <2> QED BY <2>1 DEF WorkerInv
  <1>3. panicked' = FALSE
    BY <1>0, Zenon DEF DBInv, TypeOK
  <1>4. TypeOK'
    BY <1>0, <1>3, PanickedType DEF TypeOK
  <1> QED BY <1>1, <1>2, <1>3, <1>4, PanickedType DEF DBInv

\* A program stops; the databases stay.
LEMMA StopStep == ASSUME DBInv, Stop PROVE DBInv'
  <1>0. TypeOK /\ Halt /\ UNCHANGED <<disk, log>>
    BY DEF DBInv, Stop
  <1>1. ReadsBack' /\ DiskClosed' /\ LogClosed'
    BY <1>0, SameData DEF DBInv
  <1>2. TypeOK'
    BY <1>0, HaltFacts, PanickedType DEF TypeOK
  <1> QED BY <1>0, <1>1, <1>2, HaltFacts, PanickedType DEF DBInv

\* The machine stops; the disks stay.
LEMMA CrashKeeps == ASSUME DBInv, Crash PROVE DBInv'
  <1>0. TypeOK /\ Halt /\ UNCHANGED disk
    BY DEF DBInv, Crash
  <1>1. ReadsBack' /\ DiskClosed' /\ LogClosed' /\ log' \in [DBs -> Seq(Items)]
    BY <1>0, CrashStep DEF DBInv
  <1>2. TypeOK'
    BY <1>0, <1>1, HaltFacts, PanickedType DEF TypeOK
  <1> QED BY <1>0, <1>1, <1>2, HaltFacts, PanickedType DEF DBInv

\* A write reaches the disk.
LEMMA PersistKeeps ==
  ASSUME DBInv, NEW d \in DBs, Persist(d)
  PROVE  DBInv'
  <1>0. TypeOK /\ UNCHANGED <<prog, pc, item, todo, panicked>>
    BY DEF DBInv, Persist
  <1>1. /\ DiskClosed' /\ LogClosed'
        /\ \A e \in DBs : Data(e)' = Data(e)
        /\ disk' \in [DBs -> SUBSET Items] /\ log' \in [DBs -> Seq(Items)]
    BY <1>0, PersistStep DEF DBInv
  <1>2. ReadsBack'
    BY <1>1 DEF DBInv, ReadsBack, True
  <1>3. panicked' = FALSE
    BY <1>0, Zenon DEF DBInv, TypeOK
  <1>4. TypeOK'
    BY <1>0, <1>1, <1>3, PanickedType DEF TypeOK
  <1>5. ASSUME NEW w \in Workers PROVE WorkerInv(w)'
    <2>1. WorkerInv(w)
      BY DEF DBInv
    <2>2. CASE prog = "none"
      BY <1>0, <2>1, <2>2 DEF WorkerInv
    <2>3. CASE prog # "none"
      BY <1>0, <1>1, <2>1, <2>3, WorkerKept
    <2> QED BY <2>2, <2>3
  <1> QED BY <1>1, <1>2, <1>3, <1>4, <1>5, PanickedType DEF DBInv

\* Empty databases and no program satisfy the invariant.
LEMMA InitDBInv == ASSUME Init PROVE DBInv
  <1>1. \A d \in DBs : disk[d] = {} /\ log[d] = <<>>
    BY DEF Init
  <1>2. \A d \in DBs : Len(log[d]) = 0 /\ Data(d) = {}
    BY <1>1 DEF Data, LogItems
  <1>3. ReadsBack /\ DiskClosed /\ LogClosed
    BY <1>1, <1>2 DEF ReadsBack, DiskClosed, LogClosed
  <1>4. \A w \in Workers : WorkerInv(w)
    BY DEF Init, WorkerInv
  <1>5. ~panicked
    BY DEF Init
  <1> QED BY <1>3, <1>4, <1>5, InitTypeOK DEF DBInv

\* Every step of every program keeps the invariant.
LEMMA NextDBInv == ASSUME DBInv, [Next]_vars PROVE DBInv'
  <1>1. ASSUME NEW p \in Programs, Start(p) PROVE DBInv'
    BY <1>1, StartStep
  <1>2. ASSUME NEW d \in DBs, Persist(d) PROVE DBInv'
    BY <1>2, PersistKeeps
  <1>3. ASSUME NEW w \in Workers, NEW t \in Txs, Record(w, t) PROVE DBInv'
    BY <1>3, RecordStep
  <1>4. ASSUME NEW w \in Workers, NEW x \in Data("src"), x[1] = "substate",
               Read(w, x[2], x[3])
        PROVE  DBInv'
    BY <1>4, ReadStep
  <1>5. ASSUME NEW w \in Workers, NEW c \in Code, PutCode(w, c) PROVE DBInv'
    BY <1>5, PutCodeStep
  <1>6. ASSUME NEW w \in Workers, PutSubstate(w) \/ PutEVMTrace(w) PROVE DBInv'
    BY <1>6, PutSubstateStep, PutTraceStep
  <1> QED BY <1>1, <1>2, <1>3, <1>4, <1>5, <1>6, StopStep, CrashKeeps, StutterKeeps
          DEF Next

(***************************************************************************)
(* The inductive invariant: at every moment the databases are closed under *)
(* the references of their items, in the order of the writes.              *)
(***************************************************************************)
THEOREM DBInvariant == Spec => []DBInv
  <1>1. Init => DBInv
    BY InitDBInv
  <1>2. DBInv /\ [Next]_vars => DBInv'
    BY NextDBInv
  <1> QED BY <1>1, <1>2, PTL DEF Spec

(***************************************************************************)
(* The items of the databases and the workers' state keep their types.     *)
(***************************************************************************)
THEOREM TypeCorrect == Spec => []TypeOK
  <1>1. DBInv => TypeOK
    BY DEF DBInv
  <1> QED BY <1>1, DBInvariant, PTL

(***************************************************************************)
(* However many workers and programs fill the databases, and whenever they *)
(* are killed or the machine stops between two backend.Puts, no substate   *)
(* is stored without its codes and no trace without its substate.          *)
(***************************************************************************)
THEOREM Integrity == Spec => [](CodesStored /\ TracesHaveSubstate)
  <1>1. DBInv => CodesStored /\ TracesHaveSubstate
    <2> SUFFICES ASSUME DBInv, NEW d \in DBs
                 PROVE  /\ \A x \in disk[d] : Supported(x, disk[d])
                        /\ \A x \in Data(d) : Supported(x, Data(d))
      BY DEF CodesStored, TracesHaveSubstate, Supported
    <2> QED BY DataClosed DEF DBInv, DiskClosed
  <1> QED BY <1>1, DBInvariant, PTL

(***************************************************************************)
(* GetSubstate never panics for a missing code.                            *)
(***************************************************************************)
THEOREM NeverMissing == Spec => []NoMissingCode
  <1>1. DBInv => NoMissingCode
    BY DEF DBInv, NoMissingCode
  <1> QED BY <1>1, DBInvariant, PTL

(***************************************************************************)
(* Whatever chain of recording and cloning put a substate in a database,   *)
(* GetSubstate returns the substate that was recorded.                     *)
(***************************************************************************)
THEOREM RoundTrip == Spec => []ReadsBack
  <1>1. DBInv => ReadsBack
    BY DEF DBInv
  <1> QED BY <1>1, DBInvariant, PTL
===============================================================================
