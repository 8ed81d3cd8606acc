---------------------------- MODULE ProgCacheProofs ----------------------------
(* Theorems about ProgCache, for any number of workers, contracts and files, *)
(* whatever their names, and any capacity of the caches.                     *)
EXTENDS ProgCache, TLAPS

\* The text is the file of a contract of this key.
TextFor(k, text) == \E d \in Contracts : CacheKey(d) = k /\ Found(d) # {} /\ text = FileOf(d)

\* The result is what a contract of this key gets without caches.
ResultFor(k, val) == \E d \in Contracts : CacheKey(d) = k /\ val = Uncached(d)

\* Every entry of a cache belongs to its key.
CachesOK ==
    /\ \A k \in DOMAIN texts : TextFor(k, texts[k])
    /\ \A k \in DOMAIN progs : ResultFor(k, progs[k])

\* What a worker carries between its accesses to the caches belongs to the key of
\* its contract.
ThreadsOK ==
    /\ DOMAIN thread = Workers
    /\ \A w \in Workers :
        /\ thread[w].pc # "idle" => thread[w].c \in Contracts
        /\ thread[w].pc = "parse" => TextFor(CacheKey(thread[w].c), thread[w].val)
        /\ thread[w].pc \in {"contains", "add", "return"} =>
            ResultFor(CacheKey(thread[w].c), thread[w].val)

CacheInv == CachesOK /\ ThreadsOK /\ SharedByHash

\* What an addition to a cache may leave in it.
LEMMA AddedContent ==
    ASSUME NEW cache, NEW k, NEW v, NEW cap, NEW new \in Inserted(cache, k, v, cap)
    PROVE  /\ k \in DOMAIN new /\ new[k] = v
           /\ \A x \in DOMAIN new \ {k} : x \in DOMAIN cache /\ new[x] = cache[x]
BY DEF Inserted

\* The directory is read only.
LEMMA DirFixed ==
    ASSUME dir' = dir
    PROVE  /\ \A c : Found(c)' = Found(c) /\ FileOf(c)' = FileOf(c)
                     /\ Uncached(c)' = Uncached(c) /\ CacheKey(c)' = CacheKey(c)
           /\ \A k, x : (TextFor(k, x)' <=> TextFor(k, x)) /\ (ResultFor(k, x)' <=> ResultFor(k, x))
<1>1. \A c : Found(c)' = Found(c)
  BY DEF Found, FileNames, CodeHash
<1>2. \A c : FileOf(c)' = FileOf(c)
  BY <1>1 DEF FileOf, FileNames, CodeHash
<1>3. \A c : Uncached(c)' = Uncached(c)
  BY <1>1, <1>2 DEF Uncached, Parsed
<1>4. \A c : CacheKey(c)' = CacheKey(c)
  BY DEF CacheKey, CodeHash
<1>5. \A k, x : (TextFor(k, x)' <=> TextFor(k, x)) /\ (ResultFor(k, x)' <=> ResultFor(k, x))
  BY <1>1, <1>2, <1>3, <1>4 DEF TextFor, ResultFor
<1> QED BY <1>1, <1>2, <1>3, <1>4, <1>5

LEMMA InitInv == CacheInit => CacheInv
<1> SUFFICES ASSUME CacheInit PROVE CacheInv
  OBVIOUS
<1>1. DOMAIN texts = {} /\ DOMAIN progs = {} /\ got = {}
  BY DEF CacheInit
<1>2. DOMAIN thread = Workers /\ \A w \in Workers : thread[w] = Idle
  BY DEF CacheInit
<1> QED BY <1>1, <1>2 DEF CacheInv, CachesOK, ThreadsOK, SharedByHash, Idle

\* The caches are left alone.
LEMMA CachesKept == CacheInv /\ UNCHANGED <<dir, texts, progs>> => CachesOK'
BY DirFixed DEF CacheInv, CachesOK

\* A worker goes on to pc with val, and the caches stay right.
LEMMA GoesKeeps ==
    ASSUME CacheInv, NEW w \in Workers, NEW pc, NEW val, Goes(w, pc, val), thread[w].pc # "idle",
           dir' = dir, got' = {}, CachesOK',
           pc = "parse" => TextFor(CacheKey(thread[w].c), val),
           pc \in {"contains", "add", "return"} => ResultFor(CacheKey(thread[w].c), val)
    PROVE  CacheInv'
<1>1. /\ DOMAIN thread' = Workers
      /\ thread'[w] = [pc |-> pc, c |-> thread[w].c, val |-> val]
      /\ \A u \in Workers \ {w} : thread'[u] = thread[u]
  BY DEF Goes, CacheInv, ThreadsOK
<1>2. ASSUME NEW u \in Workers
      PROVE  /\ thread'[u].pc # "idle" => thread'[u].c \in Contracts
             /\ thread'[u].pc = "parse" => TextFor(CacheKey(thread'[u].c), thread'[u].val)
             /\ thread'[u].pc \in {"contains", "add", "return"} =>
                    ResultFor(CacheKey(thread'[u].c), thread'[u].val)
  BY <1>1 DEF CacheInv, ThreadsOK
<1>3. ThreadsOK'
  BY <1>1, <1>2, DirFixed DEF ThreadsOK
<1> QED BY <1>3 DEF CacheInv, SharedByHash

\* The file of c goes into tacLRU.
LEMMA TextAdded ==
    ASSUME CacheInv, NEW c \in Contracts, Found(c) # {}, UNCHANGED <<dir, progs>>,
           texts' \in Inserted(texts, CacheKey(c), FileOf(c), TextCap)
    PROVE  CachesOK'
<1>1. /\ texts'[CacheKey(c)] = FileOf(c)
      /\ \A x \in DOMAIN texts' \ {CacheKey(c)} : x \in DOMAIN texts /\ texts'[x] = texts[x]
  BY AddedContent
<1>2. TextFor(CacheKey(c), FileOf(c))
  BY DEF TextFor
<1>3. \A k \in DOMAIN texts' : TextFor(k, texts'[k])
  BY <1>1, <1>2 DEF CacheInv, CachesOK
<1> QED BY <1>3, DirFixed DEF CacheInv, CachesOK

\* A result goes into tacProgCache under its key.
LEMMA ProgAdded ==
    ASSUME CacheInv, NEW k, NEW p, ResultFor(k, p), UNCHANGED <<dir, texts>>,
           progs' \in Inserted(progs, k, p, ProgCap)
    PROVE  CachesOK'
<1>1. /\ progs'[k] = p
      /\ \A x \in DOMAIN progs' \ {k} : x \in DOMAIN progs /\ progs'[x] = progs[x]
  BY AddedContent
<1>2. \A x \in DOMAIN progs' : ResultFor(x, progs'[x])
  BY <1>1 DEF CacheInv, CachesOK
<1> QED BY <1>2, DirFixed DEF CacheInv, CachesOK

LEMMA StepInv == CacheInv /\ CacheNext => CacheInv'
<1> SUFFICES ASSUME CacheInv, NEW w \in Workers,
                    \/ \E c \in Contracts : Begin(w, c)
                    \/ GetProg(w) \/ GetText(w) \/ ReadFile(w) \/ ParseText(w)
                    \/ ContainsErr(w) \/ AddErr(w) \/ Returns(w)
             PROVE  CacheInv'
  BY DEF CacheNext
<1> DEFINE c == thread[w].c
           k == CacheKey(c)
<1>0. thread[w].pc # "idle" => c \in Contracts
  BY DEF CacheInv, ThreadsOK
<1>1. ASSUME NEW d \in Contracts, Begin(w, d) PROVE CacheInv'
  <2>1. /\ DOMAIN thread' = Workers
        /\ thread'[w] = [pc |-> "get", c |-> d, val |-> <<>>]
        /\ \A u \in Workers \ {w} : thread'[u] = thread[u]
    BY <1>1 DEF Begin, CacheInv, ThreadsOK
  <2>2. CachesOK' /\ dir' = dir /\ got' = {}
    BY <1>1, CachesKept DEF Begin
  <2>3. ASSUME NEW u \in Workers
        PROVE  /\ thread'[u].pc # "idle" => thread'[u].c \in Contracts
               /\ thread'[u].pc = "parse" => TextFor(CacheKey(thread'[u].c), thread'[u].val)
               /\ thread'[u].pc \in {"contains", "add", "return"} =>
                    ResultFor(CacheKey(thread'[u].c), thread'[u].val)
    BY <2>1 DEF CacheInv, ThreadsOK
  <2>4. ThreadsOK'
    BY <2>1, <2>2, <2>3, DirFixed DEF ThreadsOK
  <2> QED BY <2>2, <2>4 DEF CacheInv, SharedByHash
<1>2. CASE GetProg(w)
  <2>0. CachesOK' /\ dir' = dir /\ got' = {} /\ thread[w].pc # "idle"
    BY <1>2, CachesKept DEF GetProg, At
  <2>1. CASE k \in DOMAIN progs
    <3>1. ResultFor(k, progs[k])
      BY <2>1 DEF CacheInv, CachesOK
    <3>2. Goes(w, "contains", progs[k]) \/ Goes(w, "return", progs[k])
      BY <1>2, <2>1 DEF GetProg
    <3> QED BY <2>0, <3>1, <3>2, GoesKeeps
  <2>2. CASE k \notin DOMAIN progs
    <3>1. Goes(w, "text", <<>>)
      BY <1>2, <2>2 DEF GetProg
    <3> QED BY <2>0, <3>1, GoesKeeps
  <2> QED BY <2>1, <2>2
<1>3. CASE GetText(w)
  <2>0. CachesOK' /\ dir' = dir /\ got' = {} /\ thread[w].pc # "idle"
    BY <1>3, CachesKept DEF GetText, At
  <2>1. CASE k \in DOMAIN texts
    <3>1. Goes(w, "parse", texts[k]) /\ TextFor(k, texts[k])
      BY <1>3, <2>1 DEF GetText, CacheInv, CachesOK
    <3> QED BY <2>0, <3>1, GoesKeeps
  <2>2. CASE k \notin DOMAIN texts
    <3>1. Goes(w, "read", <<>>)
      BY <1>3, <2>2 DEF GetText
    <3> QED BY <2>0, <3>1, GoesKeeps
  <2> QED BY <2>1, <2>2
<1>4. CASE ReadFile(w)
  <2>0. UNCHANGED <<dir, progs>> /\ got' = {} /\ thread[w].pc # "idle"
    BY <1>4 DEF ReadFile, At
  <2>1. CASE Found(c) = {}
    <3>1. Goes(w, "contains", <<"err", "TACNoTac">>) /\ UNCHANGED texts
      BY <1>4, <2>1 DEF ReadFile
    <3>2. CachesOK'
      BY <2>0, <3>1, CachesKept
    <3>3. ResultFor(k, <<"err", "TACNoTac">>)
      BY <1>0, <2>0, <2>1 DEF ResultFor, Uncached
    <3> QED BY <2>0, <3>1, <3>2, <3>3, GoesKeeps
  <2>2. CASE Found(c) # {}
    <3>1. Goes(w, "parse", FileOf(c)) /\ texts' \in Inserted(texts, k, FileOf(c), TextCap)
      BY <1>4, <2>2 DEF ReadFile
    <3>2. CachesOK'
      BY <1>0, <2>0, <2>2, <3>1, TextAdded
    <3>3. TextFor(k, FileOf(c))
      BY <1>0, <2>0, <2>2 DEF TextFor
    <3> QED BY <2>0, <3>1, <3>2, <3>3, GoesKeeps
  <2> QED BY <2>1, <2>2
<1>5. CASE ParseText(w)
  <2> DEFINE p == Parsed(thread[w].val)
  <2>0. UNCHANGED <<dir, texts>> /\ got' = {} /\ thread[w].pc = "parse"
    BY <1>5 DEF ParseText, At
  <2>1. ResultFor(k, p)
    BY <2>0 DEF CacheInv, ThreadsOK, TextFor, ResultFor, Uncached
  <2> HIDE DEF p
  <2>2. CASE p[1] = "err"
    <3>1. Goes(w, "contains", p) /\ UNCHANGED progs
      BY <1>5, <2>2 DEF ParseText, p
    <3>2. CachesOK'
      BY <2>0, <3>1, CachesKept
    <3> QED BY <2>0, <2>1, <3>1, <3>2, GoesKeeps
  <2>3. CASE p[1] # "err"
    <3>1. Goes(w, "return", p) /\ progs' \in Inserted(progs, k, p, ProgCap)
      BY <1>5, <2>3 DEF ParseText, p
    <3>2. CachesOK'
      BY <2>0, <2>1, <3>1, ProgAdded
    <3> QED BY <2>0, <2>1, <3>1, <3>2, GoesKeeps
  <2> QED BY <2>2, <2>3
<1>6. CASE ContainsErr(w)
  <2>0. CachesOK' /\ dir' = dir /\ got' = {} /\ thread[w].pc = "contains"
    BY <1>6, CachesKept DEF ContainsErr, At
  <2>1. ResultFor(k, thread[w].val)
    BY <2>0 DEF CacheInv, ThreadsOK
  <2>2. Goes(w, "return", thread[w].val) \/ Goes(w, "add", thread[w].val)
    BY <1>6 DEF ContainsErr
  <2> QED BY <2>0, <2>1, <2>2, GoesKeeps
<1>7. CASE AddErr(w)
  <2>0. /\ UNCHANGED <<dir, texts>> /\ got' = {} /\ thread[w].pc = "add"
        /\ progs' \in Inserted(progs, k, thread[w].val, ProgCap)
        /\ Goes(w, "return", thread[w].val)
    BY <1>7 DEF AddErr, At
  <2>1. ResultFor(k, thread[w].val)
    BY <2>0 DEF CacheInv, ThreadsOK
  <2>2. CachesOK'
    BY <2>0, <2>1, ProgAdded
  <2> QED BY <2>0, <2>1, <2>2, GoesKeeps
<1>8. CASE Returns(w)
  <2>1. /\ DOMAIN thread' = Workers /\ thread'[w] = Idle
        /\ \A u \in Workers \ {w} : thread'[u] = thread[u]
    BY <1>8 DEF Returns, CacheInv, ThreadsOK
  <2>2. CachesOK' /\ dir' = dir /\ thread[w].pc = "return" /\ got' = {<<c, thread[w].val>>}
    BY <1>8, CachesKept DEF Returns, At
  <2>3. ASSUME NEW u \in Workers
        PROVE  /\ thread'[u].pc # "idle" => thread'[u].c \in Contracts
               /\ thread'[u].pc = "parse" => TextFor(CacheKey(thread'[u].c), thread'[u].val)
               /\ thread'[u].pc \in {"contains", "add", "return"} =>
                    ResultFor(CacheKey(thread'[u].c), thread'[u].val)
    BY <2>1 DEF CacheInv, ThreadsOK, Idle
  <2>4. ThreadsOK'
    BY <2>1, <2>2, <2>3, DirFixed DEF ThreadsOK
  <2>5. ResultFor(k, thread[w].val)
    BY <2>2 DEF CacheInv, ThreadsOK
  <2>6. PICK d \in Contracts : CodeHash(d) = CodeHash(c) /\ thread[w].val = Uncached(d)
    BY <2>5 DEF ResultFor, CacheKey
  <2>7. \A r \in got' : CodeHash(d) = CodeHash(r[1]) /\ r[2] = Uncached(d)'
    BY <2>2, <2>6, DirFixed
  <2>8. SharedByHash'
    BY <2>7 DEF SharedByHash, CodeHash
  <2> QED BY <2>2, <2>4, <2>8 DEF CacheInv
<1> QED BY <1>1, <1>2, <1>3, <1>4, <1>5, <1>6, <1>7, <1>8

LEMMA StutterInv == CacheInv /\ UNCHANGED cacheVars => CacheInv'
<1> SUFFICES ASSUME CacheInv, UNCHANGED cacheVars PROVE CacheInv'
  OBVIOUS
<1>1. CachesOK' /\ ThreadsOK'
  BY DirFixed DEF CacheInv, CachesOK, ThreadsOK, cacheVars
<1>2. SharedByHash'
  BY DirFixed DEF CacheInv, SharedByHash, CodeHash, cacheVars
<1> QED BY <1>1, <1>2 DEF CacheInv

LEMMA Inductive == CacheSpec => []CacheInv
BY InitInv, StepInv, StutterInv, PTL DEF CacheSpec

\* What safeTACProg returns is what the files of a contract of the same
\* contract.CodeHash give, whatever the workers read, parse, cache and evict in
\* between, and whichever names the files have.
THEOREM ResultsShared == CacheSpec => []SharedByHash
<1>1. CacheInv => SharedByHash
  BY DEF CacheInv
<1> QED BY Inductive, <1>1, PTL

\* Two contracts of one hash have one code, and without an address-named file
\* readTAC finds the same file for both.
LEMMA OneFile ==
    ASSUME NEW c, NEW d, CodeHash(c) = CodeHash(d), CodeHash(c) # NoHash,
           <<"addr", c.addr>> \notin DOMAIN dir, <<"addr", d.addr>> \notin DOMAIN dir
    PROVE  Uncached(c) = Uncached(d)
<1>1. c.code = d.code
  BY DEF CodeHash
<1>2. /\ DOMAIN FileNames(c) = 1..4 /\ DOMAIN FileNames(d) = 1..4
      /\ FileNames(c)[1] = <<"addr", c.addr>> /\ FileNames(d)[1] = <<"addr", d.addr>>
      /\ \A i \in 2..4 : FileNames(c)[i] = FileNames(d)[i]
  BY <1>1 DEF FileNames
<1>3. Found(c) = Found(d) /\ Found(c) \subseteq 2..4
  BY <1>2 DEF Found
<1>4. Found(c) # {} => FileOf(c) = FileOf(d)
  <2> SUFFICES ASSUME Found(c) # {} PROVE FileOf(c) = FileOf(d)
    OBVIOUS
  <2> DEFINE i == CHOOSE i \in Found(c) : \A j \in Found(c) : i <= j
  <2>1. \E x \in Found(c) : \A j \in Found(c) : x <= j
    BY <1>3
  <2>2. i \in Found(c)
    BY <2>1
  <2>3. FileOf(c) = dir[FileNames(c)[i]] /\ FileOf(d) = dir[FileNames(d)[i]]
    BY <1>3 DEF FileOf
  <2> HIDE DEF i
  <2> QED BY <1>2, <1>3, <2>2, <2>3
<1> QED BY <1>3, <1>4 DEF Uncached

\* safeTACProg is a memoization for every contract that has a hash of its own:
\* unless a file is named by the address of a contract of this hash, it gets the
\* program of its own file, whatever the other workers do.
THEOREM MemoizationSound == CacheSpec => []OwnProgram
<1>1. CacheInv /\ (\A r \in got : r[1] \in Contracts) => OwnProgram
  <2> SUFFICES ASSUME CacheInv, NEW r \in got, r[1] \in Contracts, CodeHash(r[1]) # NoHash,
                      NoAddressFile(CodeHash(r[1]))
               PROVE  r[2] = Uncached(r[1])
    BY DEF OwnProgram
  <2>1. PICK d \in Contracts : CodeHash(d) = CodeHash(r[1]) /\ r[2] = Uncached(d)
    BY DEF CacheInv, SharedByHash
  <2>2. <<"addr", d.addr>> \notin DOMAIN dir /\ <<"addr", r[1].addr>> \notin DOMAIN dir
    BY <2>1 DEF NoAddressFile
  <2> QED BY <2>1, <2>2, OneFile
<1>2. CacheInit => \A r \in got : r[1] \in Contracts
  BY DEF CacheInit
<1>3. CacheInv /\ (\A r \in got : r[1] \in Contracts) /\ [CacheNext]_cacheVars
        => (\A r \in got : r[1] \in Contracts)'
  BY DEF CacheNext, cacheVars, Begin, GetProg, GetText, ReadFile, ParseText, ContainsErr,
         AddErr, Returns,
         At, CacheInv, ThreadsOK
<1> QED BY Inductive, <1>1, <1>2, <1>3, PTL DEF CacheSpec
===============================================================================
