------------------------------ MODULE ProgCache ------------------------------
(***************************************************************************)
(* The decompiled program of a contract (core/vm/contract.go): readTAC     *)
(* looks for its file under four names and safeTACProg parses it.  Both    *)
(* remember what they found, the text in tacLRU and the program or the     *)
(* error in tacProgCache, under contract.CodeHash.  The caches are shared  *)
(* by all workers; each of their operations is atomic, nothing else is.    *)
(*                                                                         *)
(* A contract is a code that runs at an address.  Create does not compute  *)
(* the hash of the init code (codeAndHash.Hash is lazy), and an account    *)
(* that does not exist, which CALLCODE, DELEGATECALL and STATICCALL run    *)
(* all the same, has none: their CodeHash is the zero hash.  A file is     *)
(* what was decompiled, and whether it parses.                             *)
(***************************************************************************)
EXTENDS Naturals, FiniteSets

CONSTANTS
    Workers,        \* goroutines that execute transactions
    Contracts,      \* [code, addr, fn] records: what run is called for
    NoAccount,      \* the code of an account that does not exist
    NoHash,         \* common.Hash{}
    Dirs,           \* the directories there may be: functions from file names
    ProgCap,        \* capacity of tacProgCache, 16 * 1024
    TextCap         \* capacity of tacLRU, 4096

VARIABLES
    dir,        \* --substratedir, read only
    texts,      \* tacLRU
    progs,      \* tacProgCache
    thread,     \* where each worker is in safeTACProg, for which contract
    got         \* history: what getTACProg returns in this step, for which contract

cacheVars == <<dir, texts, progs, thread, got>>

Idle == [pc |-> "idle"]
-------------------------------------------------------------------------------
\* contract.CodeHash
CodeHash(c) == IF c.fn = "Create" \/ c.code = NoAccount THEN NoHash ELSE c.code

\* The names readTAC tries, in this order.
FileNames(c) ==
    <<<<"addr", c.addr>>, <<"hash", CodeHash(c)>>, <<"md5", c.code>>, <<"md5hex", c.code>>>>

Found(c) == {i \in DOMAIN FileNames(c) : FileNames(c)[i] \in DOMAIN dir}

\* The file readTAC reads for c when there is one.
FileOf(c) ==
    dir[FileNames(c)[CHOOSE i \in Found(c) : \A j \in Found(c) : i <= j]]

CacheKey_Addr(c) == c.addr

CacheKey_Created(c) == IF c.fn = "Call" THEN CodeHash(c) ELSE NoHash

\* The key of both caches.
CacheKey(c) == CodeHash(c)

\* What ParseProgram and TransformProgram make of a file.
Parsed(text) == IF text.ok THEN <<"prog", text.of>> ELSE <<"err", "TACParseError">>

\* ARC: a new key may push out any other one of a full cache.
Inserted(cache, k, v, cap) ==
    IF k \in DOMAIN cache \/ Cardinality(DOMAIN cache) < cap
    THEN {[x \in DOMAIN cache \cup {k} |-> IF x = k THEN v ELSE cache[x]]}
    ELSE {[x \in (DOMAIN cache \ {old}) \cup {k} |-> IF x = k THEN v ELSE cache[x]] :
            old \in DOMAIN cache}

Goes(w, pc, val) ==
    thread' = [thread EXCEPT ![w] = [pc |-> pc, c |-> thread[w].c, val |-> val]]

At(w, pc) == thread[w].pc = pc
-------------------------------------------------------------------------------
CacheInit ==
    /\ dir \in Dirs
    /\ texts = <<>> /\ progs = <<>>
    /\ thread = [w \in Workers |-> Idle] /\ got = {}

Begin(w, c) ==
    /\ At(w, "idle")
    /\ thread' = [thread EXCEPT ![w] = [pc |-> "get", c |-> c, val |-> <<>>]]
    /\ got' = {} /\ UNCHANGED <<dir, texts, progs>>

\* tacProgCache.Get; an error is returned through the deferred function.
GetProg(w) ==
    /\ At(w, "get")
    /\ LET k == CacheKey(thread[w].c) IN
        IF k \in DOMAIN progs
        THEN Goes(w, IF progs[k][1] = "err" THEN "contains" ELSE "return", progs[k])
        ELSE Goes(w, "text", <<>>)
    /\ got' = {} /\ UNCHANGED <<dir, texts, progs>>

\* tacLRU.Get
GetText(w) ==
    /\ At(w, "text")
    /\ LET k == CacheKey(thread[w].c) IN
        IF k \in DOMAIN texts THEN Goes(w, "parse", texts[k]) ELSE Goes(w, "read", <<>>)
    /\ got' = {} /\ UNCHANGED <<dir, texts, progs>>

\* The file of the first name that exists goes into tacLRU.
ReadFile(w) ==
    /\ At(w, "read")
    /\ LET c == thread[w].c IN
        IF Found(c) = {}
        THEN Goes(w, "contains", <<"err", "TACNoTac">>) /\ UNCHANGED texts
        ELSE /\ Goes(w, "parse", FileOf(c))
             /\ texts' \in Inserted(texts, CacheKey(c), FileOf(c), TextCap)
    /\ got' = {} /\ UNCHANGED <<dir, progs>>

\* The program is cached; a panic of the parser is an error.
ParseText(w) ==
    /\ At(w, "parse")
    /\ LET p == Parsed(thread[w].val) IN
        IF p[1] = "err"
        THEN Goes(w, "contains", p) /\ UNCHANGED progs
        ELSE /\ Goes(w, "return", p)
             /\ progs' \in Inserted(progs, CacheKey(thread[w].c), p, ProgCap)
    /\ got' = {} /\ UNCHANGED <<dir, texts>>

\* The deferred function: if err != nil && !tacProgCache.Contains(key) ...
ContainsErr(w) ==
    /\ At(w, "contains")
    /\ Goes(w, IF CacheKey(thread[w].c) \in DOMAIN progs THEN "return" ELSE "add",
            thread[w].val)
    /\ got' = {} /\ UNCHANGED <<dir, texts, progs>>

\* ... tacProgCache.Add(key, err)
AddErr(w) ==
    /\ At(w, "add")
    /\ progs' \in Inserted(progs, CacheKey(thread[w].c), thread[w].val, ProgCap)
    /\ Goes(w, "return", thread[w].val)
    /\ got' = {} /\ UNCHANGED <<dir, texts>>

Returns(w) ==
    /\ At(w, "return")
    /\ got' = {<<thread[w].c, thread[w].val>>}
    /\ thread' = [thread EXCEPT ![w] = Idle]
    /\ UNCHANGED <<dir, texts, progs>>

CacheNext ==
    \E w \in Workers :
        \/ \E c \in Contracts : Begin(w, c)
        \/ GetProg(w) \/ GetText(w) \/ ReadFile(w) \/ ParseText(w)
        \/ ContainsErr(w) \/ AddErr(w) \/ Returns(w)

CacheSpec == CacheInit /\ [][CacheNext]_cacheVars
-------------------------------------------------------------------------------
\* What safeTACProg returns with empty caches.
Uncached(c) == IF Found(c) = {} THEN <<"err", "TACNoTac">> ELSE Parsed(FileOf(c))

\* Whatever was executed before or at the same time, and whatever the caches have
\* dropped, safeTACProg returns what the files of some contract of the same
\* contract.CodeHash give: a program never comes from another hash, and an error
\* that was cached is one that contract has.
SharedByHash ==
    \A r \in got :
        \E d \in Contracts : CodeHash(d) = CodeHash(r[1]) /\ r[2] = Uncached(d)

\* No contract of this hash has a file under its own address, the first name that
\* readTAC tries.
NoAddressFile(h) == \A d \in Contracts : CodeHash(d) = h => <<"addr", d.addr>> \notin DOMAIN dir

\* A deployed or CREATE2 contract gets the program of its own code, wherever that
\* code runs and whatever else the workers run, unless a file is named by address.
OwnProgram ==
    \A r \in got :
        CodeHash(r[1]) # NoHash /\ NoAddressFile(CodeHash(r[1])) => r[2] = Uncached(r[1])

\* "thread-safe function to parse gigahorse substrate, optimized with memoization
\* technique" (safeTACProg): a contract gets what its own files give, as if there
\* were no caches.
Memoized == \A r \in got : r[2] = Uncached(r[1])
===============================================================================
