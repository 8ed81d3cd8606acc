---------------------------- MODULE IsoExecProofs ----------------------------
(* Proofs about IsoExec, for every configuration, every depth limit and    *)
(* every number of calls.                                                  *)
EXTENDS IsoExec, SequenceTheorems, TLAPS

\* A sequence without its last element, as Return leaves the calls.
LEMMA FrontFacts ==
  ASSUME NEW S, NEW s \in Seq(S), s # <<>>
  PROVE  LET t == SubSeq(s, 1, Len(s) - 1)
         IN  /\ t \in Seq(S) /\ Len(s) \in Nat \ {0} /\ Len(t) = Len(s) - 1
             /\ \A i \in 1..(Len(s) - 1) : t[i] = s[i]
             /\ s[Len(s)] \in S
  <1>1. Len(s) \in Nat \ {0} /\ s[Len(s)] \in S
    OBVIOUS
  <1>2. PICK m \in Nat : m = Len(s) - 1
    BY <1>1
  <1>3. Len(SubSeq(s, 1, m)) = m
    BY <1>2
  <1>4. SubSeq(s, 1, Len(s) - 1) \in Seq(S)
    OBVIOUS
  <1>5. \A i \in 1..(Len(s) - 1) : SubSeq(s, 1, Len(s) - 1)[i] = s[i]
    OBVIOUS
  <1> QED BY <1>1, <1>2, <1>3, <1>4, <1>5

\* A new trace and a new call are appended to the others.
LEMMA AppendFacts ==
  ASSUME NEW S, NEW s \in Seq(S), NEW e \in S
  PROVE  /\ Append(s, e) \in Seq(S)
         /\ Len(s) \in Nat
         /\ Len(Append(s, e)) = Len(s) + 1
         /\ Append(s, e)[Len(s) + 1] = e
         /\ \A i \in 1..Len(s) : Append(s, e)[i] = s[i]
  OBVIOUS

\* The fields of an executing call.
LEMMA FrameFields ==
  ASSUME NEW f \in FrameType
  PROVE  /\ f.id \in 1..MaxCalls /\ f.fn \in Calls \cup Creates /\ f.interp \in Modes
         /\ f.snap \in 0..MaxWorld /\ f.setRO \in BOOLEAN
         /\ f.prevCt \in 0..MaxCalls /\ f.fail \in Errs
  BY DEF FrameType

\* The fields of a trace.
LEMMA TraceFields ==
  ASSUME NEW t \in TraceType
  PROVE  /\ t.fn \in Calls \cup Creates /\ t.depth \in Nat /\ t.done \in BOOLEAN
         /\ t.ops \subseteq 1..MaxCalls /\ t.parent \in 0..MaxCalls
  BY DEF TraceType

\* The calls of the state.
LEMMA CallTypes ==
  ASSUME TypeOK
  PROVE  /\ Len(frames) \in Nat /\ Len(traces) \in Nat
         /\ \A i \in 1..Len(frames) : frames[i] \in FrameType
         /\ \A j \in 1..Len(traces) : traces[j] \in TraceType
         /\ frames # <<>> => Len(frames) \in 1..Len(frames) /\ Top \in FrameType
  BY DEF TypeOK, Top

\* A call that fails is otherwise the same.
LEMMA FailFacts ==
  ASSUME NEW f \in FrameType, NEW x \in Errs
  PROVE  LET g == [f EXCEPT !.fail = x]
         IN  /\ g \in FrameType
             /\ g.id = f.id /\ g.fn = f.fn /\ g.interp = f.interp
             /\ g.snap = f.snap /\ g.setRO = f.setRO /\ g.prevCt = f.prevCt
  BY DEF FrameType

\* The caller may fail when a call it made is back; the calls stay what they are.
LEMMA BackFacts ==
  ASSUME NEW fs \in Seq(FrameType), NEW fn, NEW e, NEW in, NEW se
  PROVE  LET b == Back(fs, fn, e, in, se)
         IN  /\ b \in Seq(FrameType) /\ Len(b) = Len(fs)
             /\ \A i \in 1..Len(fs) :
                   /\ b[i].id = fs[i].id /\ b[i].fn = fs[i].fn
                   /\ b[i].interp = fs[i].interp /\ b[i].snap = fs[i].snap
                   /\ b[i].setRO = fs[i].setRO /\ b[i].prevCt = fs[i].prevCt
  <1>1. CASE fs = <<>>
    BY <1>1 DEF Back
  <1>2. CASE fs # <<>>
    <2> DEFINE n == Len(fs)
               x == CallerFails(fs[n], fn, e, in, se)
               b == [fs EXCEPT ![n].fail = x]
    <2>1. n \in Nat \ {0} /\ \A i \in 1..n : fs[i] \in FrameType
      BY <1>2
    <2>2. x \in Errs
      <3>1. fs[n].fail \in Errs
        BY <2>1, FrameFields
      <3> QED BY <3>1 DEF CallerFails, Errs
    <2>3. b[n] = [fs[n] EXCEPT !.fail = x] /\ \A i \in 1..(n - 1) : b[i] = fs[i]
      BY <2>1
    <2>4. /\ b[n] \in FrameType
          /\ b[n].id = fs[n].id /\ b[n].fn = fs[n].fn
          /\ b[n].interp = fs[n].interp /\ b[n].snap = fs[n].snap
          /\ b[n].setRO = fs[n].setRO /\ b[n].prevCt = fs[n].prevCt
      <3> HIDE DEF b, x
      <3> QED BY <2>1, <2>2, <2>3, FailFacts
    <2>5. b = [fs EXCEPT ![n] = b[n]]
      BY <2>1, <2>3
    <2>6. b \in Seq(FrameType) /\ Len(b) = n
      BY <2>1, <2>4, <2>5, ExceptSeq
    <2>7. Back(fs, fn, e, in, se) = b
      BY <1>2 DEF Back
    <2> QED BY <2>1, <2>3, <2>4, <2>6, <2>7
  <1> QED BY <1>1, <1>2

\* A trace that is completed keeps its call, its caller and its instructions.
LEMMA FillFacts ==
  ASSUME NEW t \in TraceType, NEW d \in Nat
  PROVE  LET c == FillTrace(t, d)
         IN  /\ c \in TraceType
             /\ c.ops = t.ops /\ c.parent = t.parent /\ c.depth = d + 1
  <1> DEFINE u == [t EXCEPT !.depth = d + 1]
             c == [u EXCEPT !.done = TRUE]
  <1>1. FillTrace(t, d) = c
    BY DEF FillTrace
  <1>2. u \in TraceType /\ u.ops = t.ops /\ u.parent = t.parent /\ u.depth = d + 1
    BY DEF TraceType
  <1> HIDE DEF u
  <1>3. c \in TraceType /\ c.ops = u.ops /\ c.parent = u.parent /\ c.depth = u.depth
    BY <1>2 DEF TraceType
  <1> QED BY <1>1, <1>2, <1>3

\* The trace of a call that begins.
LEMMA NewTraceFacts ==
  ASSUME Configured, TypeOK, NEW fn \in Calls \cup Creates
  PROVE  LET n == NewTrace(fn)
         IN  /\ n \in TraceType /\ n.ops = {}
             /\ n.parent = (IF frames = <<>> THEN 0 ELSE Top.id)
  <1>1. (IF frames = <<>> THEN 0 ELSE Top.id) \in 0..MaxCalls
    BY CallTypes, FrameFields DEF Configured
  <1> QED
    BY <1>1 DEF NewTrace, TraceType

-------------------------------------------------------------------------------
(* Type correctness.                                                       *)

\* Nothing has been called at the start.
LEMMA InitTypeOK == Configured /\ Init => TypeOK
  <1> SUFFICES ASSUME Configured, Init PROVE TypeOK
    OBVIOUS
  <1>1. <<>> \in Seq(TraceType) /\ <<>> \in Seq(FrameType) /\ Len(<<>>) = 0
    OBVIOUS
  <1>2. ro \in [Modes -> BOOLEAN] /\ subErr \in BOOLEAN
    BY Zenon DEF Init
  <1> QED
    BY <1>1, <1>2 DEF Init, TypeOK, Configured

\* A call that is back at once adds a completed trace.
LEMMA ImmediateType ==
  ASSUME Configured, TypeOK, NEW fn \in Fns, NEW value, NEW e, NEW cost \in Nat,
         Immediate(fn, value, e, cost)
  PROVE  TypeOK'
  <1>1. fn \in Calls \cup Creates /\ Len(frames) \in Nat
    BY CallTypes DEF Configured
  <1>2. FillTrace(NewTrace(fn), Len(frames)) \in TraceType
    BY <1>1, NewTraceFacts, FillFacts
  <1>3. traces' \in Seq(TraceType) /\ Len(traces') <= MaxCalls
    BY <1>2, AppendFacts DEF Immediate, TypeOK, NextId
  <1>4. frames' \in Seq(FrameType)
    BY BackFacts DEF Immediate, TypeOK
  <1>5. world' \in 0..MaxWorld
    BY DEF Immediate, TypeOK, Configured
  <1> QED
    BY <1>3, <1>4, <1>5 DEF Immediate, TypeOK

\* So does a call that run cannot execute.
LEMMA NotRunType ==
  ASSUME Configured, TypeOK, NEW fn \in Fns, NEW e, NEW parses,
         NotRun(fn, e, parses)
  PROVE  TypeOK'
  <1> DEFINE m == ModeOf(NextId)
  <1>1. fn \in Calls \cup Creates /\ Len(frames) \in Nat
    BY CallTypes DEF Configured
  <1>2. FillTrace(NewTrace(fn), Len(frames)) \in TraceType
    BY <1>1, NewTraceFacts, FillFacts
  <1>3. traces' \in Seq(TraceType) /\ Len(traces') <= MaxCalls
    BY <1>2, AppendFacts DEF NotRun, TypeOK, NextId
  <1>4. frames' \in Seq(FrameType)
    BY BackFacts DEF NotRun, TypeOK
  <1>5. world' \in 0..MaxWorld
    BY DEF NotRun, TypeOK, Configured
  <1>6. m \in Modes /\ NextId \in 1..MaxCalls
    BY CallTypes DEF ModeOf, Configured, NextId, NotRun, Modes
  <1>7. ro' \in [Modes -> BOOLEAN]
    <2>1. ReadOnlyOf(m) \in BOOLEAN /\ ro' = [ro EXCEPT ![m] = ReadOnlyOf(m)]
      BY <1>6, Zenon DEF ReadOnlyOf, TypeOK, NotRun
    <2> QED BY <1>6, <2>1 DEF TypeOK
  <1>8. subErr' \in BOOLEAN
    BY Zenon DEF NotRun, TypeOK
  <1>9. result' \in 0..MaxCalls /\ ran' \subseteq 1..MaxCalls /\ interp' \in Modes
        /\ ct' = ct
    BY <1>6 DEF NotRun, TypeOK, Configured
  <1> QED
    BY <1>3, <1>4, <1>5, <1>7, <1>8, <1>9 DEF TypeOK

\* A call that is executed.
LEMMA EnterType ==
  ASSUME Configured, TypeOK, NEW fn \in Fns, NEW value, Enter(fn, value)
  PROVE  TypeOK'
  <1> DEFINE m == ModeOf(NextId)
             s == IF fn \in Creates THEN world + 1 ELSE world
             f == [id |-> NextId, fn |-> fn, interp |-> m, snap |-> s,
                   setRO |-> SetsReadOnly(fn, m), prevCt |-> ct, fail |-> "none"]
             ts == Append(traces, NewTrace(fn))
  <1>1. fn \in Calls \cup Creates /\ Len(frames) \in Nat /\ Len(traces) \in Nat
    BY CallTypes DEF Configured
  <1>2. /\ m \in Modes /\ NextId \in 1..MaxCalls
        /\ s \in 0..MaxWorld /\ world' \in 0..MaxWorld
    <2>1. m \in Modes
      BY DEF ModeOf, Configured, Modes
    <2>2. NextId \in 1..MaxCalls
      BY <1>1 DEF Configured, NextId, Enter
    <2>3. /\ world \in Nat /\ world' <= MaxWorld /\ MaxWorld \in Nat
          /\ world' = s \/ world' = s + 1
      BY DEF Enter, TypeOK, Configured
    <2> QED BY <2>1, <2>2, <2>3
  <1>3. SetsReadOnly(fn, m) \in BOOLEAN /\ ReadOnlyOf(m) \in BOOLEAN
    BY <1>2, Zenon DEF SetsReadOnly, ReadOnlyOf, TypeOK
  <1>4. f \in FrameType
    BY <1>1, <1>2, <1>3 DEF FrameType, TypeOK, Errs
  <1>5. frames' = Append(frames, f)
    BY DEF Enter
  <1>6. frames' \in Seq(FrameType)
    BY <1>4, <1>5, AppendFacts DEF TypeOK
  <1>7. ts \in Seq(TraceType) /\ Len(ts) = Len(traces) + 1
    BY <1>1, NewTraceFacts, AppendFacts DEF TypeOK
  <1>8. traces' \in Seq(TraceType) /\ Len(traces') = Len(ts)
    <2> DEFINE k == IsolationIndex + 1
               us == [ts EXCEPT ![k].depth = Len(frames) + 1]
    <2>1. traces' = IF m = "TAC" THEN us ELSE ts
      BY DEF Enter
    <2> HIDE DEF ts, m
    <2>2. CASE k \in 1..Len(ts)
      <3>1. [ts[k] EXCEPT !.depth = Len(frames) + 1] \in TraceType
        <4>1. ts[k] \in TraceType
          BY <1>7, <2>2
        <4> QED BY <4>1, <1>1 DEF TraceType
      <3> QED BY <1>7, <2>1, <2>2, <3>1, ExceptSeq
    <2>3. CASE k \notin 1..Len(ts)
      <3>1. us = ts
        BY <1>7, <2>3
      <3> QED BY <1>7, <2>1, <3>1
    <2> QED BY <2>2, <2>3
  <1>9. ro' \in [Modes -> BOOLEAN]
    <2>1. ro' = [ro EXCEPT ![m] = ReadOnlyOf(m) \/ fn = "StaticCall"]
      BY DEF Enter
    <2>2. (ReadOnlyOf(m) \/ fn = "StaticCall") \in BOOLEAN
      BY <1>3, Zenon
    <2> QED BY <1>2, <2>1, <2>2 DEF TypeOK
  <1>10. ct' \in 0..MaxCalls /\ interp' \in Modes /\ ran' \subseteq 1..MaxCalls
         /\ UNCHANGED <<result, subErr>>
    BY <1>2 DEF Enter, TypeOK, Configured
  <1>11. Len(traces') <= MaxCalls
    BY <1>1, <1>7, <1>8 DEF Enter, NextId
  <1> QED
    BY <1>2, <1>6, <1>8, <1>9, <1>10, <1>11 DEF TypeOK

\* An instruction is noted in a trace, which is otherwise the same.
LEMMA NoteFacts ==
  ASSUME NEW ts \in Seq(TraceType), NEW t \in Nat, NEW x \in 1..MaxCalls
  PROVE  LET us == Noted(ts, t, x)
         IN  /\ us \in Seq(TraceType) /\ Len(us) = Len(ts)
             /\ \A j \in 1..Len(ts) :
                  /\ us[j].depth = ts[j].depth /\ us[j].parent = ts[j].parent
                  /\ us[j].ops = IF j = t THEN ts[j].ops \cup {x} ELSE ts[j].ops
  <1> DEFINE us == [ts EXCEPT ![t].ops = @ \cup {x}]
             Facts == /\ us \in Seq(TraceType) /\ Len(us) = Len(ts)
                      /\ \A j \in 1..Len(ts) :
                           /\ us[j].depth = ts[j].depth
                           /\ us[j].parent = ts[j].parent
                           /\ us[j].ops = IF j = t THEN ts[j].ops \cup {x}
                                          ELSE ts[j].ops
  <1>1. ASSUME t \notin 1..Len(ts) PROVE Facts
    <2>1. us = ts
      BY <1>1
    <2> HIDE DEF us
    <2> QED BY <1>1, <2>1
  <1>2. ASSUME t \in 1..Len(ts) PROVE Facts
    <2> DEFINE r == ts[t]
               n == [r EXCEPT !.ops = @ \cup {x}]
    <2>1. r \in TraceType
      BY <1>2
    <2>2. us = [ts EXCEPT ![t] = n]
      OBVIOUS
    <2> HIDE DEF r, us
    <2>3. /\ n \in TraceType /\ n.depth = r.depth /\ n.parent = r.parent
          /\ n.ops = r.ops \cup {x}
      BY <2>1 DEF TraceType
    <2> HIDE DEF n
    <2>4. /\ us \in Seq(TraceType) /\ Len(us) = Len(ts)
          /\ \A j \in 1..Len(ts) : us[j] = IF j = t THEN n ELSE ts[j]
      BY <1>2, <2>2, <2>3, ExceptSeq
    <2> QED BY <2>3, <2>4 DEF r
  <1>3. Facts
    <2> HIDE DEF Facts
    <2> QED BY <1>1, <1>2
  <1> QED BY <1>3 DEF Noted

\* Both interpreters note an instruction in the trace of the call they execute.
LEMMA NoteStep ==
  ASSUME Configured, TypeOK, StackInv, Note \/ Log
  PROVE  /\ frames # <<>>
         /\ traces' \in Seq(TraceType) /\ Len(traces') = Len(traces)
         /\ \A j \in 1..Len(traces) :
              /\ traces'[j].depth = traces[j].depth
              /\ traces'[j].parent = traces[j].parent
              /\ traces'[j].ops = IF j = Top.id THEN traces[j].ops \cup {Top.id}
                                  ELSE traces[j].ops
         /\ UNCHANGED <<ct, frames, ro, interp, result, subErr, ran>>
  <1>1. frames # <<>> /\ UNCHANGED <<ct, frames, ro, interp, result, subErr, ran>>
    BY DEF Note, Log
  <1>2. Top.id \in 1..MaxCalls /\ Top.id \in Nat
    BY <1>1, CallTypes, FrameFields
  <1>3. traces' = Noted(traces, Top.id, Top.id)
    BY <1>1 DEF Note, Log, StackInv
  <1>4. traces \in Seq(TraceType)
    BY DEF TypeOK
  <1>5. LET us == Noted(traces, Top.id, Top.id)
        IN  /\ us \in Seq(TraceType) /\ Len(us) = Len(traces)
            /\ \A j \in 1..Len(traces) :
                 /\ us[j].depth = traces[j].depth /\ us[j].parent = traces[j].parent
                 /\ us[j].ops = IF j = Top.id THEN traces[j].ops \cup {Top.id}
                                ELSE traces[j].ops
    BY <1>2, <1>4, NoteFacts
  <1> QED BY <1>1, <1>3, <1>5

\* What a call leaves behind when it is over.
LEMMA ReturnFacts ==
  ASSUME Configured, TypeOK, NEW e \in Errs, Return(e), StackInv
  PROVE  LET f == frames[Len(frames)]
             n == Len(frames) - 1
         IN  /\ Len(frames) \in Nat \ {0} /\ f \in FrameType /\ f.id \in 1..Len(traces)
             /\ frames' \in Seq(FrameType) /\ Len(frames') = n
             /\ \A i \in 1..n :
                   /\ frames'[i].id = frames[i].id /\ frames'[i].fn = frames[i].fn
                   /\ frames'[i].interp = frames[i].interp
                   /\ frames'[i].snap = frames[i].snap
                   /\ frames'[i].setRO = frames[i].setRO
                   /\ frames'[i].prevCt = frames[i].prevCt
             /\ traces' \in Seq(TraceType) /\ Len(traces') = Len(traces)
             /\ \A j \in 1..Len(traces) :
                   /\ traces'[j].parent = traces[j].parent
                   /\ traces'[j].ops = traces[j].ops
                   /\ traces'[j].depth = IF j = f.id THEN n + 1 ELSE traces[j].depth
             /\ ct' = f.prevCt
             /\ result' = (IF f.interp = "TAC" THEN f.id ELSE result)
             /\ world' = (IF e = "none" THEN world ELSE f.snap)
             /\ ro' = (IF f.setRO THEN [ro EXCEPT ![f.interp] = FALSE] ELSE ro)
             /\ UNCHANGED <<interp, ran>>
  <1> DEFINE f == frames[Len(frames)]
             n == Len(frames) - 1
             fs == SubSeq(frames, 1, Len(frames) - 1)
             se == subErr \/ (e = "global" /\ f.interp = "TAC")
  <1>1. /\ frames # <<>>
        /\ world' = (IF e = "none" THEN world ELSE f.snap)
        /\ ro' = (IF f.setRO THEN [ro EXCEPT ![f.interp] = FALSE] ELSE ro)
        /\ traces' = [traces EXCEPT ![f.id] = FillTrace(traces[f.id], DepthAfter(fs))]
        /\ ct' = f.prevCt
        /\ result' = (IF f.interp = "TAC" THEN f.id ELSE result)
        /\ frames' = Back(fs, f.fn, e, interp, se)
        /\ UNCHANGED <<interp, ran>>
    BY DEF Return, Top, RestoredTrace, RowOf
  <1>2. /\ Len(frames) \in Nat \ {0} /\ f \in FrameType
        /\ fs \in Seq(FrameType) /\ Len(fs) = n /\ n \in Nat
        /\ \A i \in 1..n : fs[i] = frames[i]
    BY <1>1, FrontFacts DEF TypeOK
  <1> HIDE DEF fs, se
  <1>3. /\ frames' \in Seq(FrameType) /\ Len(frames') = n
        /\ \A i \in 1..n :
              /\ frames'[i].id = frames[i].id /\ frames'[i].fn = frames[i].fn
              /\ frames'[i].interp = frames[i].interp
              /\ frames'[i].snap = frames[i].snap
              /\ frames'[i].setRO = frames[i].setRO
              /\ frames'[i].prevCt = frames[i].prevCt
    BY <1>1, <1>2, BackFacts
  <1>4. f.id \in 1..Len(traces)
    <2>1. f.id <= Len(traces) /\ f.id \in 1..MaxCalls
      BY <1>2, FrameFields DEF StackInv
    <2> QED BY <2>1, CallTypes DEF Configured
  <1>5. DepthAfter(fs) = n
    BY <1>2 DEF DepthAfter
  <1> DEFINE t == FillTrace(traces[f.id], n)
  <1>6. traces[f.id] \in TraceType
    BY <1>4, CallTypes
  <1>7. /\ t \in TraceType /\ t.ops = traces[f.id].ops
        /\ t.parent = traces[f.id].parent /\ t.depth = n + 1
    BY <1>2, <1>6, FillFacts
  <1>8. traces' = [traces EXCEPT ![f.id] = t]
    BY <1>1, <1>5
  <1> HIDE DEF t, f, n
  <1>9. /\ traces' \in Seq(TraceType) /\ Len(traces') = Len(traces)
        /\ \A j \in 1..Len(traces) : traces'[j] = IF j = f.id THEN t ELSE traces[j]
    BY <1>4, <1>7, <1>8, ExceptSeq DEF TypeOK
  <1>10. \A j \in 1..Len(traces) :
            /\ traces'[j].parent = traces[j].parent
            /\ traces'[j].ops = traces[j].ops
            /\ traces'[j].depth = IF j = f.id THEN n + 1 ELSE traces[j].depth
    BY <1>7, <1>9
  <1> QED BY <1>1, <1>2, <1>3, <1>4, <1>9, <1>10 DEF f, n

\* Each step keeps the types.
LEMMA NextTypeOK == Configured /\ TypeOK /\ StackInv /\ [Next]_vars => TypeOK'
  <1> SUFFICES ASSUME Configured, TypeOK, StackInv, [Next]_vars PROVE TypeOK'
    OBVIOUS
  <1>1. CASE Refused
    <2>1. 0 \in Nat /\ 1 \in Nat
      OBVIOUS
    <2> QED BY <1>1, <2>1, ImmediateType DEF Refused
  <1>2. ASSUME NEW fn \in Fns, NEW value \in BOOLEAN, Enter(fn, value) PROVE TypeOK'
    BY <1>2, EnterType
  <1>3. ASSUME NEW fn \in Fns, NEW e, NEW parses \in BOOLEAN, NotRun(fn, e, parses)
        PROVE  TypeOK'
    BY <1>3, NotRunType
  <1>4. CASE Write
    <2>1. world' \in 0..MaxWorld
      BY <1>4 DEF Write, TypeOK, Configured
    <2> QED BY <1>4, <2>1 DEF Write, TypeOK
  <1>5. CASE Note \/ Log
    <2>1. /\ traces' \in Seq(TraceType) /\ Len(traces') = Len(traces)
          /\ UNCHANGED <<ct, frames, ro, interp, result, subErr, ran>>
      BY <1>5, NoteStep
    <2>2. world' \in 0..MaxWorld
      BY <1>5 DEF Note, Log, TypeOK, Configured
    <2> QED BY <2>1, <2>2 DEF TypeOK
  <1>7. ASSUME NEW e \in Errs, Return(e) PROVE TypeOK'
    <2> DEFINE f == frames[Len(frames)]
    <2>1. f \in FrameType
      BY <1>7, ReturnFacts
    <2>2. /\ f.snap \in 0..MaxWorld /\ f.interp \in Modes
          /\ f.id \in 0..MaxCalls /\ f.prevCt \in 0..MaxCalls
      BY <2>1, FrameFields DEF Configured
    <2>3. /\ world' = (IF e = "none" THEN world ELSE f.snap)
          /\ ro' = (IF f.setRO THEN [ro EXCEPT ![f.interp] = FALSE] ELSE ro)
          /\ ct' = f.prevCt
          /\ result' = (IF f.interp = "TAC" THEN f.id ELSE result)
          /\ UNCHANGED <<interp, ran>>
      BY <1>7, ReturnFacts
    <2>4. /\ traces' \in Seq(TraceType) /\ Len(traces') = Len(traces)
          /\ frames' \in Seq(FrameType)
      BY <1>7, ReturnFacts
    <2>5. world' \in 0..MaxWorld /\ result' \in 0..MaxCalls /\ ct' \in 0..MaxCalls
      BY <2>2, <2>3 DEF TypeOK
    <2>6. ro' \in [Modes -> BOOLEAN]
      BY <2>2, <2>3 DEF TypeOK
    <2>7. subErr' \in BOOLEAN
      BY <1>7, Zenon DEF Return, TypeOK
    <2> QED BY <2>3, <2>4, <2>5, <2>6, <2>7 DEF TypeOK
  <1>8. CASE UNCHANGED vars
    BY <1>8 DEF vars, TypeOK
  <1> QED
    BY <1>1, <1>2, <1>3, <1>4, <1>5, <1>7, <1>8 DEF Next

-------------------------------------------------------------------------------
(* What each kind of step does to the calls and the traces.                *)

\* The first n calls stay what they are.
SameCalls(n) ==
    \A i \in 1..n :
        /\ frames'[i].id = frames[i].id /\ frames'[i].fn = frames[i].fn
        /\ frames'[i].interp = frames[i].interp /\ frames'[i].snap = frames[i].snap
        /\ frames'[i].setRO = frames[i].setRO /\ frames'[i].prevCt = frames[i].prevCt

\* The caller of the next call.
Caller == IF frames = <<>> THEN 0 ELSE Top.id

\* A trace is appended; of the others, only those of executing calls change, and
\* only in their depth.
TraceAdded ==
    /\ frames = <<>> => traces = <<>>
    /\ Len(traces') = Len(traces) + 1
    /\ \A j \in 1..Len(traces) :
          /\ traces'[j].parent = traces[j].parent
          /\ traces'[j].ops = traces[j].ops
          /\ ~OnStack(frames, j) => traces'[j].depth = traces[j].depth
    /\ traces'[Len(traces) + 1].parent = Caller
    /\ traces'[Len(traces) + 1].ops = {}

\* A call that is back at once.
LEMMA BackStep ==
  ASSUME Configured, TypeOK, NEW fn \in Fns, NEW e,
         \/ \E value \in BOOLEAN, cost \in Nat : Immediate(fn, value, e, cost)
         \/ \E parses \in BOOLEAN : NotRun(fn, e, parses)
  PROVE  /\ TraceAdded /\ traces'[Len(traces) + 1].depth = Len(frames) + 1
         /\ Len(frames') = Len(frames) /\ SameCalls(Len(frames))
         /\ ct' = ct
  <1> DEFINE c == FillTrace(NewTrace(fn), Len(frames))
  <1>1. /\ traces' = Append(traces, c)
        /\ frames = <<>> => traces = <<>>
        /\ ct' = ct
        /\ \E in, se : frames' = Back(frames, fn, e, in, se)
    BY DEF Immediate, NotRun
  <1>2. fn \in Calls \cup Creates /\ Len(frames) \in Nat /\ Len(traces) \in Nat
    BY CallTypes DEF Configured
  <1>3. /\ c \in TraceType /\ c.ops = {} /\ c.depth = Len(frames) + 1
        /\ c.parent = Caller
    BY <1>2, NewTraceFacts, FillFacts DEF Caller
  <1> HIDE DEF c
  <1>4. /\ Len(traces') = Len(traces) + 1 /\ traces'[Len(traces) + 1] = c
        /\ \A j \in 1..Len(traces) : traces'[j] = traces[j]
    BY <1>1, <1>3, AppendFacts DEF TypeOK
  <1>5. Len(frames') = Len(frames) /\ SameCalls(Len(frames))
    <2>1. PICK in, se : frames' = Back(frames, fn, e, in, se)
      BY <1>1
    <2> QED BY <2>1, BackFacts DEF SameCalls, TypeOK
  <1> QED BY <1>1, <1>3, <1>4, <1>5 DEF TraceAdded

\* A call that is executed.
LEMMA EnterStep ==
  ASSUME Configured, TypeOK, StackInv, NEW fn \in Fns, NEW value, Enter(fn, value)
  PROVE  LET n == Len(frames) + 1
             m == ModeOf(NextId)
         IN  /\ TraceAdded
             /\ Len(frames') = n /\ SameCalls(Len(frames))
             /\ frames'[n].id = NextId /\ frames'[n].fn = fn
             /\ frames'[n].interp = m /\ frames'[n].prevCt = ct
             /\ frames'[n].setRO = SetsReadOnly(fn, m)
             /\ frames'[n].snap = (IF fn \in Creates THEN world + 1 ELSE world)
             /\ ct' = NextId
             /\ ran' = (IF m = "TAC" THEN ran \cup {NextId} ELSE ran)
             /\ result' = result
  <1> DEFINE n == Len(frames) + 1
             m == ModeOf(NextId)
             s == IF fn \in Creates THEN world + 1 ELSE world
             f == [id |-> NextId, fn |-> fn, interp |-> m, snap |-> s,
                   setRO |-> SetsReadOnly(fn, m), prevCt |-> ct, fail |-> "none"]
             ts == Append(traces, NewTrace(fn))
             k == IsolationIndex + 1
             us == [ts EXCEPT ![k].depth = Len(frames) + 1]
  <1>1. /\ frames = <<>> => traces = <<>>
        /\ ct' = NextId /\ frames' = Append(frames, f) /\ result' = result
        /\ traces' = (IF m = "TAC" THEN us ELSE ts)
        /\ ran' = (IF m = "TAC" THEN ran \cup {NextId} ELSE ran)
    BY DEF Enter
  <1>2. fn \in Calls \cup Creates /\ Len(frames) \in Nat /\ Len(traces) \in Nat
    BY CallTypes DEF Configured
  <1>3. /\ ts \in Seq(TraceType) /\ Len(ts) = Len(traces) + 1
        /\ \A j \in 1..Len(traces) : ts[j] = traces[j]
        /\ ts[Len(traces) + 1].parent = Caller /\ ts[Len(traces) + 1].ops = {}
    BY <1>2, NewTraceFacts, AppendFacts DEF TypeOK, Caller
  <1>4. /\ Len(frames') = n /\ frames'[n] = f
        /\ \A i \in 1..Len(frames) : frames'[i] = frames[i]
    BY <1>1, AppendFacts, EnterType DEF TypeOK
  <1> HIDE DEF ts
  <1>5. ASSUME NEW j \in 1..Len(ts)
        PROVE  /\ us[j].parent = ts[j].parent /\ us[j].ops = ts[j].ops
               /\ j # k => us[j].depth = ts[j].depth
    <2>1. ts[j] \in TraceType /\ j \in DOMAIN ts
      BY <1>3
    <2>2. us[j] = IF j = k THEN [ts[j] EXCEPT !.depth = Len(frames) + 1] ELSE ts[j]
      BY <2>1
    <2> QED BY <2>1, <2>2 DEF TraceType
  <1>6. m = "TAC" => k \notin 1..Len(traces) \/ OnStack(frames, k)
    <2> SUFFICES ASSUME m = "TAC" PROVE k \notin 1..Len(traces) \/ OnStack(frames, k)
      OBVIOUS
    <2>1. CASE ContractIso
      BY <1>2, <2>1 DEF Configured, ModeOf, NextId
    <2>2. CASE ~ContractIso
      <3>1. k = 1
        BY <2>2 DEF Configured
      <3>2. CASE frames = <<>>
        BY <1>1, <3>1, <3>2
      <3>3. CASE frames # <<>>
        BY <1>2, <3>1, <3>3, CallTypes DEF StackInv, OnStack
      <3> QED BY <3>2, <3>3
    <2> QED BY <2>1, <2>2
  <1>7. Len(us) = Len(ts)
    BY <1>3
  <1> HIDE DEF us, k, m
  <1>8. TraceAdded
    <2>1. \A j \in 1..Len(ts) :
             /\ traces'[j].parent = ts[j].parent /\ traces'[j].ops = ts[j].ops
             /\ traces'[j].depth = ts[j].depth \/ (m = "TAC" /\ j = k)
      BY <1>1, <1>5
    <2>2. Len(traces') = Len(traces) + 1 /\ Len(traces) + 1 \in 1..Len(ts)
      BY <1>1, <1>2, <1>3, <1>7
    <2>3. \A j \in 1..Len(traces) : j \in 1..Len(ts)
      BY <1>2, <1>3
    <2> QED BY <1>1, <1>3, <1>6, <2>1, <2>2, <2>3 DEF TraceAdded
  <1>9. SameCalls(Len(frames))
    BY <1>4 DEF SameCalls
  <1>10. /\ frames'[n].id = NextId /\ frames'[n].fn = fn /\ frames'[n].interp = m
         /\ frames'[n].prevCt = ct /\ frames'[n].setRO = SetsReadOnly(fn, m)
         /\ frames'[n].snap = s
    BY <1>4
  <1> QED BY <1>1, <1>4, <1>8, <1>9, <1>10 DEF m

\* The integers of the state.
LEMMA CallInts ==
  ASSUME TypeOK
  PROVE  /\ Len(frames) \in Nat /\ Len(traces) \in Nat
         /\ \A i \in 1..Len(frames) : frames[i].id \in Int
         /\ \A j \in 1..Len(traces) : traces[j].parent \in Nat /\ traces[j].depth \in Nat
         /\ frames # <<>> => Len(frames) \in 1..Len(frames)
         /\ frames = <<>> <=> Len(frames) = 0
         /\ traces = <<>> <=> Len(traces) = 0
  <1>1. \A i \in 1..Len(frames) : frames[i].id \in Int
    BY CallTypes, FrameFields
  <1>2. \A j \in 1..Len(traces) : traces[j].parent \in Nat /\ traces[j].depth \in Nat
    BY CallTypes, TraceFields
  <1> QED BY <1>1, <1>2 DEF TypeOK

-------------------------------------------------------------------------------
(* The stack of calls.                                                     *)

\* Steps that neither enter nor leave a call keep the stack in order.
LEMMA StackKept ==
  ASSUME TypeOK, TypeOK', StackInv, Len(frames') = Len(frames),
         SameCalls(Len(frames)), Len(traces) <= Len(traces'), ct' = ct
  PROVE  StackInv'
  <1>1. /\ Len(frames) \in Nat /\ Len(traces) \in Nat /\ Len(traces') \in Nat
        /\ \A i \in 1..Len(frames) : frames[i].id \in Int
        /\ frames' = <<>> <=> frames = <<>>
        /\ frames # <<>> => Len(frames) \in 1..Len(frames)
        /\ \A i \in 1..Len(frames) : i = 1 \/ i - 1 \in 1..Len(frames)
    <2>1. frames' = <<>> <=> frames = <<>>
      BY DEF TypeOK
    <2> QED BY <2>1, CallInts DEF TypeOK
  <1>2. \A i \in 1..Len(frames) :
           /\ frames'[i].id = frames[i].id /\ frames'[i].interp = frames[i].interp
           /\ frames'[i].prevCt = frames[i].prevCt
    BY DEF SameCalls
  <1>3. ASSUME NEW i \in 1..Len(frames)
        PROVE  /\ frames'[i].id <= Len(traces')
               /\ frames'[i].prevCt = IF i = 1 THEN 0 ELSE frames'[i - 1].id
               /\ frames'[i].interp = ModeOf(frames'[i].id)
               /\ \A k \in 1..(i - 1) : frames'[k].id < frames'[i].id
    <2>1. /\ frames[i].id <= Len(traces)
          /\ frames[i].prevCt = IF i = 1 THEN 0 ELSE frames[i - 1].id
          /\ frames[i].interp = ModeOf(frames[i].id)
          /\ \A k \in 1..(i - 1) : frames[k].id < frames[i].id
      BY DEF StackInv
    <2>2. \A k \in 1..(i - 1) : k \in 1..Len(frames)
      BY <1>1
    <2> QED BY <1>1, <1>2, <2>1, <2>2
  <1>4. /\ frames' # <<>> => frames'[1].id = 1
        /\ ct' = IF frames' = <<>> THEN 0 ELSE Top'.id
    <2>1. /\ frames # <<>> => frames[1].id = 1
          /\ ct = IF frames = <<>> THEN 0 ELSE frames[Len(frames)].id
      BY DEF StackInv, Top
    <2>2. frames # <<>> => 1 \in 1..Len(frames)
      BY <1>1
    <2> QED BY <1>1, <1>2, <2>1, <2>2 DEF Top
  <1> QED BY <1>3, <1>4 DEF StackInv

\* A new call is on top, and the trace is its.
LEMMA EnterStack ==
  ASSUME Configured, TypeOK, TypeOK', StackInv, NEW fn \in Fns, NEW value,
         Enter(fn, value)
  PROVE  StackInv'
  <1> DEFINE n == Len(frames) + 1
  <1>1. /\ Len(frames') = n /\ SameCalls(Len(frames))
        /\ frames'[n].id = NextId /\ frames'[n].interp = ModeOf(NextId)
        /\ frames'[n].prevCt = ct /\ ct' = NextId
        /\ Len(traces') = Len(traces) + 1
        /\ frames = <<>> => traces = <<>>
    BY EnterStep DEF TraceAdded
  <1>2. /\ Len(frames) \in Nat /\ Len(traces) \in Nat
        /\ \A i \in 1..Len(frames) : frames[i].id \in Int /\ i \in 1..n
        /\ NextId = Len(traces) + 1
        /\ frames = <<>> <=> Len(frames) = 0
        /\ traces = <<>> <=> Len(traces) = 0
        /\ frames' # <<>>
    <2>1. frames' # <<>>
      BY <1>1, CallInts DEF TypeOK
    <2> QED BY <2>1, CallInts DEF NextId
  <1>3. /\ \A i \in 1..Len(frames) :
              /\ frames[i].id <= Len(traces)
              /\ frames[i].prevCt = IF i = 1 THEN 0 ELSE frames[i - 1].id
              /\ frames[i].interp = ModeOf(frames[i].id)
              /\ \A k \in 1..(i - 1) : frames[k].id < frames[i].id
        /\ frames # <<>> => frames[1].id = 1
        /\ ct = IF frames = <<>> THEN 0 ELSE frames[Len(frames)].id
    BY DEF StackInv, Top
  <1>4. \A i \in 1..Len(frames) :
           /\ frames'[i].id = frames[i].id /\ frames'[i].interp = frames[i].interp
           /\ frames'[i].prevCt = frames[i].prevCt
    BY <1>1 DEF SameCalls
  <1>5. ASSUME NEW i \in 1..n
        PROVE  /\ frames'[i].id <= Len(traces')
               /\ frames'[i].prevCt = IF i = 1 THEN 0 ELSE frames'[i - 1].id
               /\ frames'[i].interp = ModeOf(frames'[i].id)
               /\ \A k \in 1..(i - 1) : frames'[k].id < frames'[i].id
    <2>1. \A k \in 1..(i - 1) : k \in 1..Len(frames)
      BY <1>2
    <2>2. CASE i = n
      <3>1. \A k \in 1..(i - 1) : frames'[k].id < frames'[i].id
        BY <1>1, <1>2, <1>3, <1>4, <2>1, <2>2
      <3>2. frames'[i].prevCt = IF i = 1 THEN 0 ELSE frames'[i - 1].id
        BY <1>1, <1>2, <1>3, <1>4, <2>2
      <3> QED BY <1>1, <1>2, <2>2, <3>1, <3>2
    <2>3. CASE i # n
      <3>1. i \in 1..Len(frames) /\ (i = 1 \/ i - 1 \in 1..Len(frames))
        BY <1>2, <2>3
      <3> QED BY <1>1, <1>2, <1>3, <1>4, <2>1, <3>1
    <2> QED BY <2>2, <2>3
  <1>6. frames'[1].id = 1
    <2>1. CASE frames = <<>>
      BY <1>1, <1>2, <2>1
    <2>2. CASE frames # <<>>
      BY <1>2, <1>3, <1>4, <2>2
    <2> QED BY <2>1, <2>2
  <1>7. ct' = Top'.id
    BY <1>1 DEF Top
  <1> QED BY <1>1, <1>2, <1>5, <1>6, <1>7 DEF StackInv

\* A call that is over gives the trace back to its caller.
LEMMA ReturnStack ==
  ASSUME Configured, TypeOK, TypeOK', StackInv, NEW e \in Errs, Return(e)
  PROVE  StackInv'
  <1> DEFINE n == Len(frames) - 1
  <1>1. /\ Len(frames) \in Nat \ {0} /\ Len(frames') = n
        /\ \A i \in 1..n :
              /\ frames'[i].id = frames[i].id /\ frames'[i].interp = frames[i].interp
              /\ frames'[i].prevCt = frames[i].prevCt
        /\ Len(traces') = Len(traces)
        /\ ct' = frames[Len(frames)].prevCt
    BY ReturnFacts
  <1>2. /\ n \in Nat
        /\ \A i \in 1..n : i \in 1..Len(frames) /\ (i = 1 \/ i - 1 \in 1..n)
        /\ frames' = <<>> <=> n = 0
        /\ n # 0 => n \in 1..n /\ 1 \in 1..n
        /\ frames # <<>>
    <2>1. frames' = <<>> <=> n = 0
      BY <1>1 DEF TypeOK
    <2>2. frames # <<>>
      BY DEF Return
    <2> QED BY <1>1, <2>1, <2>2
  <1>3. /\ \A i \in 1..Len(frames) :
              /\ frames[i].id <= Len(traces)
              /\ frames[i].prevCt = IF i = 1 THEN 0 ELSE frames[i - 1].id
              /\ frames[i].interp = ModeOf(frames[i].id)
              /\ \A k \in 1..(i - 1) : frames[k].id < frames[i].id
        /\ frames[1].id = 1
    BY <1>2 DEF StackInv
  <1>4. ASSUME NEW i \in 1..n
        PROVE  /\ frames'[i].id <= Len(traces')
               /\ frames'[i].prevCt = IF i = 1 THEN 0 ELSE frames'[i - 1].id
               /\ frames'[i].interp = ModeOf(frames'[i].id)
               /\ \A k \in 1..(i - 1) : frames'[k].id < frames'[i].id
    <2>1. \A k \in 1..(i - 1) : k \in 1..n
      BY <1>2
    <2>2. i \in 1..Len(frames) /\ (i = 1 \/ i - 1 \in 1..n)
      BY <1>2
    <2>3. frames'[i].prevCt = IF i = 1 THEN 0 ELSE frames'[i - 1].id
      BY <1>1, <1>3, <2>2
    <2>4. \A k \in 1..(i - 1) : frames'[k].id < frames'[i].id
      BY <1>1, <1>3, <2>1, <2>2
    <2> QED BY <1>1, <1>3, <2>2, <2>3, <2>4
  <1>5. /\ frames' # <<>> => frames'[1].id = 1
        /\ ct' = IF frames' = <<>> THEN 0 ELSE Top'.id
    <2>1. ct' = IF Len(frames) = 1 THEN 0 ELSE frames[n].id
      BY <1>1, <1>3
    <2>2. n # 0 => Top'.id = frames[n].id
      BY <1>1, <1>2 DEF Top
    <2> QED BY <1>1, <1>2, <1>3, <2>1, <2>2
  <1> QED BY <1>1, <1>4, <1>5 DEF StackInv

\* The executing calls are in order, the current trace is the innermost one's.
LEMMA StackStep ==
  ASSUME Configured, TypeOK, TypeOK', StackInv, [Next]_vars
  PROVE  StackInv'
  <1>0. Len(traces) \in Nat /\ Len(frames) \in Nat
    BY CallInts
  <1>1. CASE Refused
    <2>1. 0 \in Nat /\ 1 \in Nat
      OBVIOUS
    <2>2. /\ Len(traces') = Len(traces) + 1
          /\ Len(frames') = Len(frames) /\ SameCalls(Len(frames)) /\ ct' = ct
      BY <1>1, <2>1, BackStep DEF Refused, TraceAdded
    <2> QED BY <1>0, <2>2, StackKept
  <1>2. ASSUME NEW fn \in Fns, NEW e, NEW parses \in BOOLEAN, NotRun(fn, e, parses)
        PROVE  StackInv'
    <2>1. /\ Len(traces') = Len(traces) + 1
          /\ Len(frames') = Len(frames) /\ SameCalls(Len(frames)) /\ ct' = ct
      BY <1>2, BackStep DEF TraceAdded
    <2> QED BY <1>0, <2>1, StackKept
  <1>3. ASSUME NEW fn \in Fns, NEW value \in BOOLEAN, Enter(fn, value)
        PROVE  StackInv'
    BY <1>3, EnterStack
  <1>4. ASSUME NEW e \in Errs, Return(e) PROVE StackInv'
    BY <1>4, ReturnStack
  <1>5. CASE Write \/ UNCHANGED vars
    BY <1>0, <1>5, StackKept DEF Write, vars, SameCalls
  <1>6. CASE Note \/ Log
    <2>1. frames' = frames /\ ct' = ct /\ Len(traces') = Len(traces)
      BY <1>6, NoteStep
    <2> QED BY <1>0, <2>1, StackKept DEF SameCalls
  <1> QED BY <1>1, <1>2, <1>3, <1>4, <1>5, <1>6 DEF Next

\* The instructions of a call are noted in its trace.
LEMMA OpsStep ==
  ASSUME Configured, TypeOK, TypeOK', StackInv, OpsOwned, [Next]_vars
  PROVE  OpsOwned'
  <1>0. Len(traces) \in Nat
    BY CallInts
  <1>1. ASSUME TraceAdded PROVE OpsOwned'
    <2>1. ASSUME NEW j \in 1..Len(traces') PROVE traces'[j].ops \subseteq {j}
      <3>1. j \in 1..Len(traces) \/ j = Len(traces) + 1
        BY <1>0, <1>1 DEF TraceAdded
      <3> QED BY <1>1, <3>1 DEF TraceAdded, OpsOwned
    <2> QED BY <2>1 DEF OpsOwned
  <1>2. CASE Refused
    <2>1. 0 \in Nat /\ 1 \in Nat
      OBVIOUS
    <2> QED BY <1>1, <1>2, <2>1, BackStep DEF Refused
  <1>3. ASSUME NEW fn \in Fns, NEW e, NEW parses \in BOOLEAN, NotRun(fn, e, parses)
        PROVE  OpsOwned'
    BY <1>1, <1>3, BackStep
  <1>4. ASSUME NEW fn \in Fns, NEW value \in BOOLEAN, Enter(fn, value)
        PROVE  OpsOwned'
    BY <1>1, <1>4, EnterStep
  <1>5. ASSUME NEW e \in Errs, Return(e) PROVE OpsOwned'
    <2>1. /\ Len(traces') = Len(traces)
          /\ \A j \in 1..Len(traces) : traces'[j].ops = traces[j].ops
      BY <1>5, ReturnFacts
    <2> QED BY <2>1 DEF OpsOwned
  <1>6. CASE Write \/ UNCHANGED vars
    BY <1>6 DEF Write, vars, OpsOwned
  <1>7. CASE Note \/ Log
    <2>1. /\ Len(traces') = Len(traces)
          /\ \A j \in 1..Len(traces) :
               traces'[j].ops = IF j = Top.id THEN traces[j].ops \cup {Top.id}
                                ELSE traces[j].ops
      BY <1>7, NoteStep
    <2> QED BY <2>1 DEF OpsOwned
  <1> QED BY <1>2, <1>3, <1>4, <1>5, <1>6, <1>7 DEF Next

-------------------------------------------------------------------------------
(* The call tree.                                                          *)

\* The calls are numbered in order.
Ordered(fs) == \A i \in 1..Len(fs) : \A k \in 1..(i - 1) : fs[k].id < fs[i].id

\* The level of an executing call is its place on the stack.
LevelsOK(fs, ts) ==
    /\ \A i \in 1..Len(fs) : OnStack(fs, fs[i].id) /\ Level(fs, ts, fs[i].id) = i
    /\ \A j : ~OnStack(fs, j) => Level(fs, ts, j) = ts[j].depth
    /\ \A j : OnStack(fs, j) =>
          \E i \in 1..Len(fs) : fs[i].id = j /\ Level(fs, ts, j) = i

\* It is where the calls are numbered in order.
LEMMA LevelFacts ==
  ASSUME NEW fs \in Seq(FrameType), NEW ts, Ordered(fs)
  PROVE  LevelsOK(fs, ts)
  <1>1. ASSUME NEW i \in 1..Len(fs) PROVE OnStack(fs, fs[i].id)
    BY DEF OnStack
  <1>2. ASSUME NEW i \in 1..Len(fs), NEW k \in 1..Len(fs), fs[k].id = fs[i].id
        PROVE  k = i
    <2>1. fs[i].id \in Int /\ fs[k].id \in Int
      BY FrameFields
    <2>2. ~(k < i)
      BY <1>2, <2>1 DEF Ordered
    <2>3. ~(i < k)
      BY <1>2, <2>1 DEF Ordered
    <2> QED BY <2>2, <2>3
  <1>3. ASSUME NEW i \in 1..Len(fs) PROVE Level(fs, ts, fs[i].id) = i
    <2> DEFINE c == CHOOSE k \in 1..Len(fs) : fs[k].id = fs[i].id
    <2>1. c \in 1..Len(fs) /\ fs[c].id = fs[i].id
      OBVIOUS
    <2>2. c = i
      <3> HIDE DEF c
      <3> QED BY <1>2, <2>1
    <2> QED BY <1>1, <2>2 DEF Level
  <1>4. ASSUME NEW j, ~OnStack(fs, j) PROVE Level(fs, ts, j) = ts[j].depth
    BY <1>4 DEF Level
  <1>5. ASSUME NEW j, OnStack(fs, j)
        PROVE  \E i \in 1..Len(fs) : fs[i].id = j /\ Level(fs, ts, j) = i
    BY <1>3, <1>5 DEF OnStack
  <1> QED BY <1>1, <1>3, <1>4, <1>5 DEF LevelsOK

\* The levels of the state.
LEMMA LevelsNow ==
  ASSUME TypeOK, StackInv
  PROVE  LevelsOK(frames, traces)
  BY LevelFacts DEF TypeOK, StackInv, Ordered

\* The levels after a step.
LEMMA LevelsNext ==
  ASSUME TypeOK', StackInv'
  PROVE  LevelsOK(frames', traces')
  BY LevelFacts DEF TypeOK, StackInv, Ordered

\* Levels are numbers.
LEMMA LevelInt ==
  ASSUME TypeOK, StackInv
  PROVE  \A j \in 1..Len(traces) : Level(frames, traces, j) \in Nat
  <1> TAKE j \in 1..Len(traces)
  <1>1. CASE OnStack(frames, j)
    BY <1>1, LevelsNow, CallInts DEF LevelsOK
  <1>2. CASE ~OnStack(frames, j)
    BY <1>2, LevelsNow, CallInts DEF LevelsOK
  <1> QED BY <1>1, <1>2

\* A step that adds no call keeps every level, and the tree.
LEMMA TreeSame ==
  ASSUME TypeOK, TypeOK', StackInv, TreeInv, Len(traces') = Len(traces),
         Len(frames') <= Len(frames),
         \A i \in 1..Len(frames') : frames'[i].id = frames[i].id,
         \A j \in 1..Len(traces) :
            /\ traces'[j].parent = traces[j].parent
            /\ Level(frames', traces', j) = Level(frames, traces, j)
  PROVE  TreeInv'
  <1>1. /\ \A j \in 1..Len(traces) :
              /\ traces[j].parent < j
              /\ traces[j].parent # 0 =>
                    Level(frames, traces, traces[j].parent) < Level(frames, traces, j)
              /\ \A k \in (traces[j].parent + 1)..(j - 1) :
                    Level(frames, traces, j) <= Level(frames, traces, k)
        /\ \A i \in 1..Len(frames), k \in 1..Len(traces) :
              frames[i].id < k => i < Level(frames, traces, k)
    BY DEF TreeInv
  <1>2. /\ Len(traces) \in Nat /\ Len(frames) \in Nat /\ Len(frames') \in Nat
        /\ \A j \in 1..Len(traces) : traces[j].parent \in Nat
    BY CallInts DEF TypeOK
  <1>3. ASSUME NEW j \in 1..Len(traces)
        PROVE  /\ traces'[j].parent < j
               /\ traces'[j].parent # 0 =>
                    Level(frames', traces', traces'[j].parent) < Level(frames', traces', j)
               /\ \A k \in (traces'[j].parent + 1)..(j - 1) :
                    Level(frames', traces', j) <= Level(frames', traces', k)
    <2>1. traces[j].parent # 0 => traces[j].parent \in 1..Len(traces)
      BY <1>1, <1>2
    <2>2. \A k \in (traces[j].parent + 1)..(j - 1) : k \in 1..Len(traces)
      BY <1>2
    <2> QED BY <1>1, <2>1, <2>2
  <1>4. ASSUME NEW i \in 1..Len(frames'), NEW k \in 1..Len(traces'), frames'[i].id < k
        PROVE  i < Level(frames', traces', k)
    <2>1. i \in 1..Len(frames) /\ k \in 1..Len(traces)
      BY <1>2
    <2> QED BY <1>1, <1>4, <2>1
  <1> QED BY <1>3, <1>4 DEF TreeInv

\* A new call is one level below the innermost one, and everything after that
\* one's beginning is below it too.
LEMMA TreeGrown ==
  ASSUME Configured, TypeOK, TypeOK', StackInv, TreeInv, TraceAdded,
         Len(frames) <= Len(frames'), Len(frames') <= Len(frames) + 1,
         \A i \in 1..Len(frames) : frames'[i].id = frames[i].id,
         Len(frames') = Len(frames) + 1 =>
            frames'[Len(frames) + 1].id = Len(traces) + 1,
         \A j \in 1..Len(traces) :
            Level(frames', traces', j) = Level(frames, traces, j),
         Level(frames', traces', Len(traces) + 1) = Len(frames) + 1
  PROVE  TreeInv'
  <1> DEFINE n == Len(traces) + 1
             lv(j) == Level(frames, traces, j)
             lw(j) == Level(frames', traces', j)
  <1>1. /\ \A j \in 1..Len(traces) :
              /\ traces[j].parent < j
              /\ traces[j].parent # 0 => lv(traces[j].parent) < lv(j)
              /\ \A k \in (traces[j].parent + 1)..(j - 1) : lv(j) <= lv(k)
        /\ \A i \in 1..Len(frames), k \in 1..Len(traces) :
              frames[i].id < k => i < lv(k)
    BY DEF TreeInv
  <1>2. /\ Len(traces) \in Nat /\ Len(frames) \in Nat /\ Len(frames') \in Nat
        /\ \A j \in 1..Len(traces) : traces[j].parent \in Nat /\ lv(j) \in Nat
        /\ \A i \in 1..Len(frames) : frames[i].id \in Int
        /\ frames = <<>> <=> Len(frames) = 0
        /\ traces = <<>> <=> Len(traces) = 0
        /\ frames # <<>> => Len(frames) \in 1..Len(frames)
    BY CallInts, LevelInt DEF TypeOK
  <1>3. /\ Len(traces') = n /\ traces'[n].parent = Caller
        /\ \A j \in 1..Len(traces) : traces'[j].parent = traces[j].parent
        /\ frames = <<>> => traces = <<>>
        /\ \A j \in 1..Len(traces) : lw(j) = lv(j)
        /\ lw(n) = Len(frames) + 1
    BY DEF TraceAdded
  <1>4. frames # <<>> => /\ Top.id \in 1..Len(traces) /\ lv(Top.id) = Len(frames)
                         /\ Top = frames[Len(frames)]
    <2> SUFFICES ASSUME frames # <<>>
                 PROVE  Top.id \in 1..Len(traces) /\ lv(Top.id) = Len(frames)
      BY DEF Top
    <2>1. Top.id \in 1..MaxCalls /\ Top.id <= Len(traces)
      BY <1>2, CallTypes, FrameFields DEF StackInv, Top
    <2>2. lv(Top.id) = Len(frames)
      BY <1>2, LevelsNow DEF Top, LevelsOK
    <2> QED BY <1>2, <2>1, <2>2
  <1> HIDE DEF lv, lw
  <1>5. ASSUME NEW j \in 1..n
        PROVE  /\ traces'[j].parent < j
               /\ traces'[j].parent # 0 => lw(traces'[j].parent) < lw(j)
               /\ \A k \in (traces'[j].parent + 1)..(j - 1) : lw(j) <= lw(k)
    <2>1. CASE j # n
      <3>1. j \in 1..Len(traces)
        BY <1>2, <2>1
      <3>2. traces[j].parent # 0 => traces[j].parent \in 1..Len(traces)
        BY <1>1, <1>2, <3>1
      <3>3. \A k \in (traces[j].parent + 1)..(j - 1) : k \in 1..Len(traces)
        BY <1>2, <3>1
      <3> QED BY <1>1, <1>3, <3>1, <3>2, <3>3
    <2>2. CASE j = n /\ frames = <<>>
      BY <1>2, <1>3, <2>2 DEF Caller
    <2>3. CASE j = n /\ frames # <<>>
      <3>1. /\ traces'[j].parent = Top.id /\ Top.id < j
            /\ lw(Top.id) = Len(frames) /\ Top.id = frames[Len(frames)].id
        BY <1>2, <1>3, <1>4, <2>3 DEF Caller
      <3>2. ASSUME NEW k \in (Top.id + 1)..(j - 1) PROVE lw(j) <= lw(k)
        <4>1. k \in 1..Len(traces) /\ Top.id < k /\ Len(frames) \in 1..Len(frames)
          BY <1>2, <1>4, <2>3
        <4>2. Len(frames) < lv(k) /\ lv(k) \in Nat /\ lw(k) = lv(k)
          BY <1>1, <1>2, <1>3, <3>1, <4>1
        <4> QED BY <1>2, <1>3, <2>3, <4>2
      <3> QED BY <1>2, <1>3, <2>3, <3>1, <3>2
    <2> QED BY <2>1, <2>2, <2>3
  <1>6. ASSUME NEW i \in 1..Len(frames'), NEW k \in 1..n, frames'[i].id < k
        PROVE  i < lw(k)
    <2>1. CASE i = Len(frames) + 1
      <3>1. frames'[i].id = n
        BY <1>2, <2>1
      <3> QED BY <1>2, <1>6, <3>1
    <2>2. CASE i # Len(frames) + 1
      <3>1. i \in 1..Len(frames)
        BY <1>2, <2>2
      <3>2. CASE k = n
        BY <1>2, <1>3, <3>1, <3>2
      <3>3. CASE k # n
        <4>1. k \in 1..Len(traces)
          BY <1>2, <3>3
        <4> QED BY <1>1, <1>3, <1>6, <3>1, <4>1
      <3> QED BY <3>2, <3>3
    <2> QED BY <2>1, <2>2
  <1> QED BY <1>3, <1>5, <1>6 DEF TreeInv, lw

\* The numbers on the stack are those of traces.
LEMMA StackIds ==
  ASSUME TypeOK, StackInv
  PROVE  \A j : OnStack(frames, j) => j \in 1..Len(traces)
  <1> SUFFICES ASSUME NEW i \in 1..Len(frames) PROVE frames[i].id \in 1..Len(traces)
    BY DEF OnStack
  <1>1. frames[i].id \in 1..MaxCalls /\ frames[i].id <= Len(traces)
    BY CallTypes, FrameFields DEF StackInv
  <1> QED BY <1>1, CallInts

\* The tree keeps its shape whether a call is back at once,
LEMMA BackTree ==
  ASSUME Configured, TypeOK, TypeOK', StackInv, StackInv', TreeInv, TraceAdded,
         traces'[Len(traces) + 1].depth = Len(frames) + 1,
         Len(frames') = Len(frames), SameCalls(Len(frames))
  PROVE  TreeInv'
  <1>1. Len(frames) \in Nat /\ Len(traces) \in Nat
    BY CallInts
  <1>2. \A i \in 1..Len(frames) : frames'[i].id = frames[i].id
    BY DEF SameCalls
  <1>3. \A j : OnStack(frames', j) <=> OnStack(frames, j)
    BY <1>2 DEF OnStack
  <1>4. ASSUME NEW j \in 1..Len(traces)
        PROVE  Level(frames', traces', j) = Level(frames, traces, j)
    <2>1. CASE OnStack(frames, j)
      <3>1. PICK i \in 1..Len(frames) : frames[i].id = j /\ Level(frames, traces, j) = i
        BY <2>1, LevelsNow DEF LevelsOK
      <3>2. i \in 1..Len(frames') /\ frames'[i].id = j
        BY <1>2, <3>1
      <3> QED BY <3>1, <3>2, LevelsNext DEF LevelsOK
    <2>2. CASE ~OnStack(frames, j)
      BY <1>3, <2>2 DEF Level, TraceAdded
    <2> QED BY <2>1, <2>2
  <1>5. Level(frames', traces', Len(traces) + 1) = Len(frames) + 1
    <2>1. ~OnStack(frames', Len(traces) + 1)
      BY <1>1, <1>3, StackIds
    <2> QED BY <2>1, LevelsNext DEF LevelsOK
  <1> QED BY <1>1, <1>2, <1>4, <1>5, TreeGrown

\* is executed,
LEMMA EnterTree ==
  ASSUME Configured, TypeOK, TypeOK', StackInv, StackInv', TreeInv,
         NEW fn \in Fns, NEW value, Enter(fn, value)
  PROVE  TreeInv'
  <1> DEFINE n == Len(frames) + 1
  <1>1. Len(frames) \in Nat /\ Len(traces) \in Nat
    BY CallInts
  <1>2. /\ TraceAdded /\ Len(frames') = n
        /\ \A i \in 1..Len(frames) : frames'[i].id = frames[i].id
        /\ frames'[n].id = Len(traces) + 1
    BY EnterStep DEF SameCalls, NextId
  <1>3. \A j \in 1..Len(traces) : OnStack(frames', j) <=> OnStack(frames, j)
    <2>1. \A i \in 1..Len(frames) : i \in 1..n
      BY <1>1
    <2>2. \A i \in 1..n : i \in 1..Len(frames) \/ i = n
      BY <1>1
    <2> QED BY <1>1, <1>2, <2>1, <2>2 DEF OnStack
  <1>4. ASSUME NEW j \in 1..Len(traces)
        PROVE  Level(frames', traces', j) = Level(frames, traces, j)
    <2>1. CASE OnStack(frames, j)
      <3>1. PICK i \in 1..Len(frames) : frames[i].id = j /\ Level(frames, traces, j) = i
        BY <2>1, LevelsNow DEF LevelsOK
      <3>2. i \in 1..Len(frames') /\ frames'[i].id = j
        BY <1>1, <1>2, <3>1
      <3> QED BY <3>1, <3>2, LevelsNext DEF LevelsOK
    <2>2. CASE ~OnStack(frames, j)
      BY <1>2, <1>3, <2>2 DEF Level, TraceAdded
    <2> QED BY <2>1, <2>2
  <1>5. Level(frames', traces', Len(traces) + 1) = n
    <2>1. n \in 1..Len(frames')
      BY <1>1, <1>2
    <2> QED BY <1>2, <2>1, LevelsNext DEF LevelsOK
  <1> QED BY <1>1, <1>2, <1>4, <1>5, TreeGrown

\* or is over: its trace then says where it was.
LEMMA ReturnTree ==
  ASSUME Configured, TypeOK, TypeOK', StackInv, StackInv', TreeInv,
         NEW e \in Errs, Return(e)
  PROVE  TreeInv'
  <1> DEFINE n == Len(frames)
             f == frames[n]
  <1>1. /\ n \in Nat \ {0} /\ n \in 1..n /\ Len(frames') = n - 1
        /\ \A i \in 1..(n - 1) : frames'[i].id = frames[i].id /\ i \in 1..n
        /\ Len(traces') = Len(traces)
        /\ \A j \in 1..Len(traces) :
              /\ traces'[j].parent = traces[j].parent
              /\ j = f.id => traces'[j].depth = n
              /\ j # f.id => traces'[j].depth = traces[j].depth
    BY ReturnFacts
  <1>2. \A i \in 1..(n - 1) : frames[i].id < f.id /\ frames[i].id # f.id
    <2>1. \A i \in 1..n : frames[i].id \in Int
      BY CallInts
    <2> QED BY <1>1, <2>1 DEF StackInv
  <1>3. ASSUME NEW j \in 1..Len(traces)
        PROVE  Level(frames', traces', j) = Level(frames, traces, j)
    <2>1. CASE j = f.id
      <3>1. ~OnStack(frames', j)
        BY <1>1, <1>2, <2>1 DEF OnStack
      <3>2. Level(frames, traces, j) = n
        BY <1>1, <2>1, LevelsNow DEF LevelsOK
      <3> QED BY <1>1, <2>1, <3>1, <3>2, LevelsNext DEF LevelsOK
    <2>2. CASE j # f.id /\ OnStack(frames, j)
      <3>1. PICK i \in 1..n : frames[i].id = j /\ Level(frames, traces, j) = i
        BY <2>2, LevelsNow DEF LevelsOK
      <3>2. i \in 1..(n - 1)
        BY <1>1, <2>2, <3>1
      <3>3. i \in 1..Len(frames') /\ frames'[i].id = j
        BY <1>1, <3>1, <3>2
      <3> QED BY <3>1, <3>3, LevelsNext DEF LevelsOK
    <2>3. CASE j # f.id /\ ~OnStack(frames, j)
      <3>1. ~OnStack(frames', j)
        BY <1>1, <2>3 DEF OnStack
      <3> QED BY <1>1, <2>3, <3>1 DEF Level
    <2> QED BY <2>1, <2>2, <2>3
  <1>4. Len(frames') <= Len(frames)
    BY <1>1
  <1> QED BY <1>1, <1>3, <1>4, TreeSame

\* Order and depths determine who called whom.
LEMMA TreeStep ==
  ASSUME Configured, TypeOK, TypeOK', StackInv, StackInv', TreeInv, [Next]_vars
  PROVE  TreeInv'
  <1>1. CASE Refused
    <2>1. 0 \in Nat /\ 1 \in Nat
      OBVIOUS
    <2>2. /\ TraceAdded /\ traces'[Len(traces) + 1].depth = Len(frames) + 1
          /\ Len(frames') = Len(frames) /\ SameCalls(Len(frames))
      BY <1>1, <2>1, BackStep DEF Refused
    <2> QED BY <2>2, BackTree
  <1>2. ASSUME NEW fn \in Fns, NEW e, NEW parses \in BOOLEAN, NotRun(fn, e, parses)
        PROVE  TreeInv'
    <2>1. /\ TraceAdded /\ traces'[Len(traces) + 1].depth = Len(frames) + 1
          /\ Len(frames') = Len(frames) /\ SameCalls(Len(frames))
      BY <1>2, BackStep
    <2> QED BY <2>1, BackTree
  <1>3. ASSUME NEW fn \in Fns, NEW value \in BOOLEAN, Enter(fn, value)
        PROVE  TreeInv'
    BY <1>3, EnterTree
  <1>4. ASSUME NEW e \in Errs, Return(e) PROVE TreeInv'
    BY <1>4, ReturnTree
  <1>5. CASE Write \/ UNCHANGED vars
    BY <1>5 DEF Write, vars, TreeInv
  <1>6. CASE Note \/ Log
    <2>1. /\ frames' = frames /\ Len(traces') = Len(traces)
          /\ \A j \in 1..Len(traces) : /\ traces'[j].depth = traces[j].depth
                                       /\ traces'[j].parent = traces[j].parent
      BY <1>6, NoteStep
    <2>2. ASSUME NEW j \in 1..Len(traces)
          PROVE  Level(frames', traces', j) = Level(frames, traces, j)
      BY <2>1 DEF Level
    <2>3. Len(frames') <= Len(frames)
      BY <2>1, CallInts
    <2> QED BY <2>1, <2>2, <2>3, TreeSame
  <1> QED BY <1>1, <1>2, <1>3, <1>4, <1>5, <1>6 DEF Next

-------------------------------------------------------------------------------
(* The reported row.                                                       *)

\* The number of the call whose row is reported.
K == IsolationIndex + 1

\* A call goes to the TAC interpreter if it is that call, or inside it.
LEMMA TACCalls ==
  ASSUME Configured, TypeOK, StackInv, NEW k \in Int, ModeOf(k) = "TAC"
  PROVE  /\ ModeOf(K) = "TAC"
         /\ k = K \/ (~ContractIso /\ K = 1)
         /\ k = K \/ frames = <<>> \/ OnStack(frames, K)
  <1>1. CASE ContractIso
    BY <1>1 DEF Configured, ModeOf, K
  <1>2. CASE ~ContractIso
    <2>1. K = 1 /\ ModeOf(K) = "TAC"
      BY <1>2 DEF Configured, ModeOf, K
    <2>2. frames # <<>> => OnStack(frames, 1)
      <3>1. frames # <<>> => 1 \in 1..Len(frames)
        BY CallInts
      <3> QED BY <3>1 DEF StackInv, OnStack
    <2> QED BY <1>2, <2>1, <2>2
  <1> QED BY <1>1, <1>2

\* A call that run cannot execute: the row is empty, or the parser's error.
LEMMA NotRunRow ==
  ASSUME Configured, TypeOK, TypeOK', StackInv, RowInv, NEW fn \in Fns,
         NEW e \in {"none", "global"}, NEW parses \in BOOLEAN, NotRun(fn, e, parses)
  PROVE  RowInv'
  <1> DEFINE m == ModeOf(NextId)
             row == e = "global" /\ ~parses
  <1>1. /\ Len(traces') = Len(traces) + 1 /\ Len(frames') = Len(frames)
        /\ SameCalls(Len(frames))
        /\ frames = <<>> => traces = <<>>
    BY BackStep DEF TraceAdded
  <1>2. /\ result' = (IF m = "TAC" THEN IF row THEN NextId ELSE 0 ELSE result)
        /\ ran' = (IF row THEN ran \cup {NextId} ELSE ran)
        /\ row => m = "TAC"
    BY DEF NotRun
  <1>3. /\ Len(traces) \in Nat /\ NextId = Len(traces) + 1 /\ NextId \in Int
        /\ NextId \notin ran
        /\ traces = <<>> => NextId = 1
    BY CallInts DEF NextId, RowInv
  <1>4. \A i \in 1..Len(frames) :
           frames'[i].id = frames[i].id /\ frames'[i].interp = frames[i].interp
    BY <1>1 DEF SameCalls
  <1>5. OnStack(frames', K) <=> OnStack(frames, K)
    BY <1>1, <1>4 DEF OnStack
  <1>6. /\ ran \subseteq 1..Len(traces)
        /\ \A k \in ran : ModeOf(k) = "TAC"
        /\ \A i \in 1..Len(frames) : frames[i].interp = "TAC" => frames[i].id \in ran
        /\ \/ OnStack(frames, K) /\ ModeOf(K) = "TAC"
           \/ result = IF K \in ran THEN K ELSE 0
    BY DEF RowInv, K
  <1> HIDE DEF m, row
  <1>7. /\ ran' \subseteq 1..Len(traces')
        /\ \A k \in ran' : ModeOf(k) = "TAC"
        /\ \A i \in 1..Len(frames') : frames'[i].interp = "TAC" => frames'[i].id \in ran'
    <2>1. ran' \subseteq ran \cup {NextId} /\ ran \subseteq ran'
      BY <1>2
    <2>2. ran' \subseteq 1..Len(traces')
      BY <1>1, <1>3, <1>6, <2>1
    <2>3. \A k \in ran' : ModeOf(k) = "TAC"
      BY <1>2, <1>6 DEF m
    <2> QED BY <1>1, <1>4, <1>6, <2>1, <2>2, <2>3
  <1>8. \/ OnStack(frames', K) /\ ModeOf(K) = "TAC"
        \/ result' = IF K \in ran' THEN K ELSE 0
    <2>1. CASE OnStack(frames, K) /\ ModeOf(K) = "TAC"
      BY <1>5, <2>1
    <2>2. CASE m # "TAC"
      BY <1>2, <1>5, <1>6, <2>2
    <2>3. CASE m = "TAC" /\ ~(OnStack(frames, K) /\ ModeOf(K) = "TAC")
      <3>1. NextId = K
        BY <1>1, <1>3, <2>3, TACCalls DEF m
      <3> QED BY <1>2, <1>3, <2>3, <3>1
    <2> QED BY <2>1, <2>2, <2>3
  <1> QED BY <1>7, <1>8 DEF RowInv, K

\* A call that is executed: if it is the one, its row is still to come.
LEMMA EnterRow ==
  ASSUME Configured, TypeOK, TypeOK', StackInv, RowInv, NEW fn \in Fns, NEW value,
         Enter(fn, value)
  PROVE  RowInv'
  <1> DEFINE m == ModeOf(NextId)
             n == Len(frames) + 1
  <1>1. /\ Len(traces') = Len(traces) + 1 /\ Len(frames') = n
        /\ \A i \in 1..Len(frames) :
              frames'[i].id = frames[i].id /\ frames'[i].interp = frames[i].interp
        /\ frames'[n].id = NextId /\ frames'[n].interp = m
        /\ frames = <<>> => traces = <<>>
        /\ ran' = (IF m = "TAC" THEN ran \cup {NextId} ELSE ran)
        /\ result' = result
    BY EnterStep DEF SameCalls, TraceAdded
  <1>2. /\ Len(traces) \in Nat /\ Len(frames) \in Nat
        /\ NextId = Len(traces) + 1 /\ NextId \in Int
        /\ traces = <<>> => NextId = 1
        /\ \A i \in 1..n : i = n \/ i \in 1..Len(frames)
        /\ \A i \in 1..Len(frames) : i \in 1..n
        /\ n \in 1..n
    BY CallInts DEF NextId
  <1>3. /\ ran \subseteq 1..Len(traces)
        /\ \A k \in ran : ModeOf(k) = "TAC"
        /\ \A i \in 1..Len(frames) : frames[i].interp = "TAC" => frames[i].id \in ran
        /\ \/ OnStack(frames, K) /\ ModeOf(K) = "TAC"
           \/ result = IF K \in ran THEN K ELSE 0
    BY DEF RowInv, K
  <1> HIDE DEF m, n
  <1>4. OnStack(frames, K) => OnStack(frames', K)
    BY <1>1, <1>2 DEF OnStack
  <1>5. ran' \subseteq 1..Len(traces')
    <2>1. ran' \subseteq ran \cup {NextId}
      BY <1>1
    <2>2. 1..Len(traces) \subseteq 1..Len(traces') /\ NextId \in 1..Len(traces')
      BY <1>1, <1>2
    <2> QED BY <1>3, <2>1, <2>2
  <1>6. \A k \in ran' : ModeOf(k) = "TAC"
    BY <1>1, <1>3 DEF m
  <1>7. \A i \in 1..n : frames'[i].interp = "TAC" => frames'[i].id \in ran'
    BY <1>1, <1>2, <1>3
  <1>8. \/ OnStack(frames', K) /\ ModeOf(K) = "TAC"
        \/ result' = IF K \in ran' THEN K ELSE 0
    <2>1. CASE m # "TAC"
      BY <1>1, <1>3, <1>4, <2>1
    <2>2. CASE m = "TAC"
      <3>1. ModeOf(K) = "TAC" /\ (NextId = K \/ OnStack(frames, K))
        BY <1>1, <1>2, <2>2, TACCalls DEF m
      <3>2. NextId = K => OnStack(frames', K)
        BY <1>1, <1>2 DEF OnStack
      <3> QED BY <1>4, <3>1, <3>2
    <2> QED BY <2>1, <2>2
  <1> QED BY <1>1, <1>5, <1>6, <1>7, <1>8 DEF RowInv, K

\* A call that is over: only the TAC interpreter writes a row, and the call that
\* counts is over last.
LEMMA ReturnRow ==
  ASSUME Configured, TypeOK, TypeOK', StackInv, RowInv, NEW e \in Errs, Return(e)
  PROVE  RowInv'
  <1> DEFINE n == Len(frames)
             f == frames[n]
  <1>1. /\ n \in Nat \ {0} /\ Len(frames') = n - 1
        /\ \A i \in 1..(n - 1) :
              frames'[i].id = frames[i].id /\ frames'[i].interp = frames[i].interp
        /\ Len(traces') = Len(traces)
        /\ result' = (IF f.interp = "TAC" THEN f.id ELSE result)
        /\ ran' = ran /\ f.id \in 1..Len(traces)
    BY ReturnFacts
  <1>2. /\ n \in 1..n /\ \A i \in 1..(n - 1) : i \in 1..n
        /\ \A i \in 1..n : i = n \/ i \in 1..(n - 1)
        /\ frames # <<>>
    BY <1>1 DEF Return
  <1>3. /\ ran \subseteq 1..Len(traces)
        /\ \A k \in ran : ModeOf(k) = "TAC"
        /\ \A i \in 1..n : frames[i].interp = "TAC" => frames[i].id \in ran
        /\ \/ OnStack(frames, K) /\ ModeOf(K) = "TAC"
           \/ result = IF K \in ran THEN K ELSE 0
        /\ f.interp = ModeOf(f.id) /\ f.id \in Int
    <2>1. f.interp = ModeOf(f.id) /\ f.id \in Int
      BY <1>1, <1>2 DEF StackInv
    <2> QED BY <2>1 DEF RowInv, K
  <1>4. \A i \in 1..(n - 1) : frames'[i].interp = "TAC" => frames'[i].id \in ran'
    BY <1>1, <1>2, <1>3
  <1> HIDE DEF f, n
  <1>5. \/ OnStack(frames', K) /\ ModeOf(K) = "TAC"
        \/ result' = IF K \in ran' THEN K ELSE 0
    <2>1. OnStack(frames, K) => OnStack(frames', K) \/ f.id = K
      BY <1>1, <1>2 DEF OnStack, f, n
    <2>2. CASE f.interp # "TAC"
      BY <1>1, <1>3, <2>1, <2>2
    <2>3. CASE f.interp = "TAC"
      <3>1. ModeOf(K) = "TAC" /\ (f.id = K \/ OnStack(frames', K))
        BY <1>2, <1>3, <2>1, <2>3, TACCalls
      <3>2. f.id \in ran
        BY <1>2, <1>3, <2>3 DEF f
      <3> QED BY <1>1, <2>3, <3>1, <3>2
    <2> QED BY <2>2, <2>3
  <1> QED BY <1>1, <1>3, <1>4, <1>5 DEF RowInv, K, n

\* The row is that of the isolated call, or is still to come.
LEMMA RowStep ==
  ASSUME Configured, TypeOK, TypeOK', StackInv, RowInv, [Next]_vars
  PROVE  RowInv'
  <1>0. Len(traces) \in Nat
    BY CallInts
  <1>1. ASSUME result' = result, ran' = ran, Len(frames') = Len(frames),
               SameCalls(Len(frames)), Len(traces) <= Len(traces')
        PROVE  RowInv'
    <2>1. \A i \in 1..Len(frames) :
             frames'[i].id = frames[i].id /\ frames'[i].interp = frames[i].interp
      BY <1>1 DEF SameCalls
    <2>2. OnStack(frames', K) <=> OnStack(frames, K)
      BY <1>1, <2>1 DEF OnStack
    <2>3. Len(traces') \in Nat
      BY DEF TypeOK
    <2>4. 1..Len(traces) \subseteq 1..Len(traces')
      BY <1>0, <1>1, <2>3
    <2>5. ran' \subseteq 1..Len(traces')
      BY <1>1, <2>4 DEF RowInv
    <2>6. \A i \in 1..Len(frames') :
             frames'[i].interp = "TAC" => frames'[i].id \in ran'
      BY <1>1, <2>1 DEF RowInv
    <2> QED BY <1>1, <2>2, <2>5, <2>6 DEF RowInv, K
  <1>2. CASE Refused
    <2>1. 0 \in Nat /\ 1 \in Nat
      OBVIOUS
    <2>2. /\ Len(traces') = Len(traces) + 1
          /\ Len(frames') = Len(frames) /\ SameCalls(Len(frames))
      BY <1>2, <2>1, BackStep DEF Refused, TraceAdded
    <2>3. result' = result /\ ran' = ran
      BY <1>2 DEF Refused, Immediate
    <2> QED BY <1>0, <1>1, <2>2, <2>3
  <1>3. ASSUME NEW fn \in Fns, NEW e \in {"none", "global"}, NEW parses \in BOOLEAN,
               NotRun(fn, e, parses)
        PROVE  RowInv'
    BY <1>3, NotRunRow
  <1>4. ASSUME NEW fn \in Fns, NEW value \in BOOLEAN, Enter(fn, value)
        PROVE  RowInv'
    BY <1>4, EnterRow
  <1>5. ASSUME NEW e \in Errs, Return(e) PROVE RowInv'
    BY <1>5, ReturnRow
  <1>6. CASE Write \/ UNCHANGED vars
    BY <1>6 DEF Write, vars, RowInv
  <1>7. CASE Note \/ Log
    <2>1. frames' = frames /\ Len(traces') = Len(traces) /\ UNCHANGED <<result, ran>>
      BY <1>7, NoteStep
    <2> QED BY <1>0, <1>1, <2>1 DEF SameCalls
  <1> QED BY <1>2, <1>3, <1>4, <1>5, <1>6, <1>7 DEF Next

-------------------------------------------------------------------------------
(* The theorems.                                                           *)

\* The inductive invariant holds at the start.
LEMMA InitIsoInv == Configured /\ Init => IsoInv
  <1> SUFFICES ASSUME Configured, Init PROVE IsoInv
    OBVIOUS
  <1>1. TypeOK
    BY InitTypeOK
  <1>2. /\ frames = <<>> /\ traces = <<>> /\ Len(frames) = 0 /\ Len(traces) = 0
        /\ ct = 0 /\ ran = {} /\ result = 0
    BY DEF Init
  <1> QED BY <1>1, <1>2 DEF IsoInv, StackInv, OpsOwned, TreeInv, RowInv

\* The inductive invariant is inductive.
LEMMA NextIsoInv == Configured /\ IsoInv /\ [Next]_vars => IsoInv'
  <1> SUFFICES ASSUME Configured, IsoInv, [Next]_vars PROVE IsoInv'
    OBVIOUS
  <1>1. TypeOK /\ StackInv /\ OpsOwned /\ TreeInv /\ RowInv
    BY DEF IsoInv
  <1>2. TypeOK'
    BY <1>1, NextTypeOK
  <1>3. StackInv'
    BY <1>1, <1>2, StackStep
  <1>4. OpsOwned'
    BY <1>1, <1>2, OpsStep
  <1>5. TreeInv'
    BY <1>1, <1>2, <1>3, TreeStep
  <1>6. RowInv'
    BY <1>1, <1>2, RowStep
  <1> QED BY <1>2, <1>3, <1>4, <1>5, <1>6 DEF IsoInv

\* The calls, their traces and the row are consistent in every state of every
\* transaction.
THEOREM IsoInvariant ==
  ASSUME Configured
  PROVE  Spec => []IsoInv
  <1>1. Init => IsoInv
    BY InitIsoInv
  <1>2. IsoInv /\ [Next]_vars => IsoInv'
    BY NextIsoInv
  <1> QED BY <1>1, <1>2, PTL DEF Spec

\* A finished trace is the calls as they were executed: the instructions noted
\* for a call are its own, and order and depth tell who called whom, whichever
\* interpreters executed the calls and however they ended.
THEOREM TracesAreSound ==
  ASSUME Configured
  PROVE  Spec => []TraceSound
  <1>1. ASSUME IsoInv PROVE DepthsGiveTree
    <2> SUFFICES ASSUME frames = <<>>, NEW j \in 1..Len(traces)
                 PROVE  /\ traces[j].parent < j
                        /\ traces[j].parent # 0 =>
                              traces[traces[j].parent].depth < traces[j].depth
                        /\ \A k \in (traces[j].parent + 1)..(j - 1) :
                              traces[k].depth >= traces[j].depth
      BY DEF DepthsGiveTree
    <2>1. TypeOK /\ TreeInv
      BY <1>1 DEF IsoInv
    <2>2. \A k : Level(frames, traces, k) = traces[k].depth
      BY DEF Level, OnStack
    <2>3. /\ Len(traces) \in Nat
          /\ \A k \in 1..Len(traces) : traces[k].parent \in Nat /\ traces[k].depth \in Nat
      BY <2>1, CallInts
    <2>4. \A k \in (traces[j].parent + 1)..(j - 1) : k \in 1..Len(traces)
      BY <2>3
    <2>5. /\ traces[j].parent < j
          /\ traces[j].parent # 0 =>
                traces[traces[j].parent].depth < traces[j].depth
          /\ \A k \in (traces[j].parent + 1)..(j - 1) :
                traces[j].depth <= traces[k].depth
      BY <2>1, <2>2 DEF TreeInv
    <2> QED BY <2>3, <2>4, <2>5
  <1>2. IsoInv => TraceSound
    BY <1>1 DEF IsoInv, TraceSound
  <1> QED BY <1>2, IsoInvariant, PTL

\* The row that is reported for a transaction is that of the isolated call, or of
\* the outermost one; with isolation no other call is executed by the TAC
\* interpreter.
THEOREM RowsAreOfIsolated ==
  ASSUME Configured
  PROVE  Spec => []RowIsOfIsolated
  <1>1. ASSUME IsoInv PROVE ResultIsOfIsolated
    <2>1. frames = <<>> => ~OnStack(frames, IsolationIndex + 1)
      BY DEF OnStack
    <2> QED BY <1>1, <2>1 DEF IsoInv, RowInv, ResultIsOfIsolated
  <1>2. ASSUME IsoInv PROVE OnlyIsolatedRuns
    <2>1. \A k \in ran : k \in Int /\ ModeOf(k) = "TAC"
      BY <1>2 DEF IsoInv, RowInv, TypeOK
    <2> QED BY <2>1 DEF Configured, ModeOf, OnlyIsolatedRuns
  <1>3. IsoInv => RowIsOfIsolated
    BY <1>1, <1>2 DEF RowIsOfIsolated
  <1> QED BY <1>3, IsoInvariant, PTL

-------------------------------------------------------------------------------
(* Static calls, as long as the EVM executes every call.                   *)

\* Before the TAC interpreter executes a call, every call is the EVM's.
LEMMA AllEVM ==
  ASSUME TypeOK, RowInv, ran = {}
  PROVE  /\ \A i \in 1..Len(frames) : frames[i].interp = "EVM"
         /\ ReadOnlyOf("EVM") = ro["EVM"]
  <1>1. \A i \in 1..Len(frames) : frames[i].interp \in Modes /\ frames[i].interp # "TAC"
    <2>1. \A i \in 1..Len(frames) : frames[i] \in FrameType
      BY DEF TypeOK
    <2>2. \A i \in 1..Len(frames) : frames[i].interp # "TAC"
      BY DEF RowInv
    <2> QED BY <2>1, <2>2 DEF FrameType
  <1> QED BY <1>1 DEF Modes, ReadOnlyOf

\* Steps that neither enter nor leave a call, nor change the world inside a
\* static one.
LEMMA ReadOnlyKept ==
  ASSUME ReadOnlyInv, Len(frames') = Len(frames), SameCalls(Len(frames)),
         ro'["EVM"] <=> ro["EVM"], ro["EVM"] => world' = world
  PROVE  ReadOnlyInv'
  <1>1. \A i \in 1..Len(frames) :
           /\ frames'[i].setRO = frames[i].setRO /\ frames'[i].fn = frames[i].fn
           /\ frames'[i].snap = frames[i].snap
    BY DEF SameCalls
  <1> QED BY <1>1 DEF ReadOnlyInv

\* A read-only interpreter executes no call that changes the world.
LEMMA ReadOnlyCall ==
  ASSUME TypeOK, RowInv, ran = {}, ReadOnlyInv, ro["EVM"],
         NEW fn, NEW value, MayCall(fn, value)
  PROVE  fn \notin Creates /\ ~(fn = "Call" /\ value)
  <1>1. frames # <<>>
    BY CallInts DEF ReadOnlyInv
  <1>2. Top.interp = "EVM"
    BY <1>1, AllEVM, CallInts DEF Top
  <1> QED BY <1>1, <1>2 DEF MayCall

\* A call inside a static one is read-only as well; a static call makes the
\* interpreter read-only if it is not.
LEMMA EnterReadOnly ==
  ASSUME Configured, TypeOK, TypeOK', StackInv, RowInv, ran = {}, ran' = {}, ReadOnlyInv,
         NEW fn \in Fns, NEW value, Enter(fn, value)
  PROVE  ReadOnlyInv'
  <1> DEFINE n == Len(frames) + 1
  <1>0. ModeOf(NextId) = "EVM"
    <2>1. ModeOf(NextId) \in Modes
      BY DEF Configured, ModeOf, Modes
    <2>2. ModeOf(NextId) # "TAC"
      BY DEF Enter
    <2> QED BY <2>1, <2>2 DEF Modes
  <1>1. /\ Len(frames') = n
        /\ \A i \in 1..Len(frames) :
              /\ frames'[i].setRO = frames[i].setRO /\ frames'[i].fn = frames[i].fn
              /\ frames'[i].snap = frames[i].snap
        /\ frames'[n].fn = fn
        /\ frames'[n].snap = (IF fn \in Creates THEN world + 1 ELSE world)
    BY EnterStep DEF SameCalls
  <1>2. frames'[n].setRO <=> fn = "StaticCall" /\ ~ro["EVM"]
    <2>1. frames'[n].setRO = SetsReadOnly(fn, "EVM")
      BY <1>0, EnterStep
    <2> QED BY <2>1, AllEVM DEF SetsReadOnly
  <1>3. ro'["EVM"] <=> ro["EVM"] \/ fn = "StaticCall"
    <2>1. ro' = [ro EXCEPT !["EVM"] = ReadOnlyOf("EVM") \/ fn = "StaticCall"]
      BY <1>0 DEF Enter
    <2>2. "EVM" \in DOMAIN ro
      BY DEF TypeOK, Modes
    <2> QED BY <2>1, <2>2, AllEVM, Zenon
  <1>4. fn \notin Creates /\ ~(fn = "Call" /\ value) => world' = world
    BY DEF Enter
  <1>5. ro["EVM"] \/ fn = "StaticCall" => fn \notin Creates /\ ~(fn = "Call" /\ value)
    <2>1. MayCall(fn, value)
      BY DEF Enter
    <2> QED BY <2>1, ReadOnlyCall DEF Creates
  <1>6. /\ Len(frames) \in Nat /\ n \in 1..n
        /\ \A i \in 1..n : i = n \/ i \in 1..Len(frames)
        /\ \A i \in 1..Len(frames) : i \in 1..n /\ i <= n /\ ~(n <= i)
    BY CallInts
  <1> HIDE DEF n
  <1>7. CASE ro["EVM"]
    <2>1. /\ ~frames'[n].setRO /\ ro'["EVM"] /\ world' = world
          /\ frames'[n].snap = world
      BY <1>1, <1>2, <1>3, <1>4, <1>5, <1>7
    <2> QED BY <1>1, <1>6, <1>7, <2>1 DEF ReadOnlyInv
  <1>8. CASE ~ro["EVM"] /\ fn = "StaticCall"
    <2>1. /\ frames'[n].setRO /\ ro'["EVM"] /\ world' = world
          /\ frames'[n].snap = world
      BY <1>1, <1>2, <1>3, <1>4, <1>5, <1>8
    <2>2. \A i \in 1..Len(frames) : ~frames'[i].setRO /\ frames'[i].fn # "StaticCall"
      BY <1>1, <1>8 DEF ReadOnlyInv
    <2> QED BY <1>1, <1>6, <1>8, <2>1, <2>2 DEF ReadOnlyInv
  <1>9. CASE ~ro["EVM"] /\ fn # "StaticCall"
    <2>1. ~frames'[n].setRO /\ ~ro'["EVM"]
      BY <1>2, <1>3, <1>9
    <2>2. \A i \in 1..Len(frames) : ~frames'[i].setRO /\ frames'[i].fn # "StaticCall"
      BY <1>1, <1>9 DEF ReadOnlyInv
    <2> QED BY <1>1, <1>6, <1>9, <2>1, <2>2 DEF ReadOnlyInv
  <1> QED BY <1>7, <1>8, <1>9

\* The static call that made the interpreter read-only takes it back, and the
\* snapshot a failing call returns to is of the same world.
LEMMA ReturnReadOnly ==
  ASSUME Configured, TypeOK, TypeOK', StackInv, RowInv, ran = {}, ReadOnlyInv,
         NEW e \in Errs, Return(e)
  PROVE  ReadOnlyInv'
  <1> DEFINE n == Len(frames)
             f == frames[n]
  <1>1. /\ n \in Nat \ {0} /\ Len(frames') = n - 1
        /\ \A i \in 1..(n - 1) :
              /\ frames'[i].setRO = frames[i].setRO /\ frames'[i].fn = frames[i].fn
              /\ frames'[i].snap = frames[i].snap
        /\ world' = (IF e = "none" THEN world ELSE f.snap)
        /\ ro' = (IF f.setRO THEN [ro EXCEPT ![f.interp] = FALSE] ELSE ro)
    BY ReturnFacts
  <1>2. /\ n \in 1..n
        /\ \A i \in 1..(n - 1) : i \in 1..n /\ i <= n /\ i # n /\ ~(n <= i)
        /\ \A i \in 1..n : i = n \/ i \in 1..(n - 1)
    BY <1>1
  <1>3. f.interp = "EVM" /\ "EVM" \in DOMAIN ro
    BY <1>2, AllEVM DEF TypeOK, Modes
  <1>4. CASE f.setRO
    <2>1. ~ro'["EVM"]
      BY <1>1, <1>3, <1>4
    <2>2. \A i \in 1..(n - 1) : ~frames'[i].setRO /\ frames'[i].fn # "StaticCall"
      BY <1>1, <1>2, <1>4 DEF ReadOnlyInv
    <2> QED BY <1>1, <2>1, <2>2 DEF ReadOnlyInv
  <1>5. CASE ~f.setRO
    <2>1. ro' = ro
      BY <1>1, <1>5
    <2>2. ro["EVM"] => world' = world
      BY <1>1, <1>2, <1>5 DEF ReadOnlyInv
    <2>3. ro["EVM"] <=> \E i \in 1..(n - 1) : frames[i].setRO
      BY <1>2, <1>5 DEF ReadOnlyInv
    <2>4. \A i, k \in 1..(n - 1) :
             /\ frames[i].setRO => frames[i].fn = "StaticCall"
             /\ frames[i].setRO /\ frames[k].setRO => i = k
             /\ frames[i].setRO /\ frames[k].fn = "StaticCall" => i <= k
             /\ frames[i].setRO /\ i <= k => frames[k].snap = world'
      BY <1>2, <2>2, <2>3 DEF ReadOnlyInv
    <2>5. (\E i \in 1..(n - 1) : frames[i].fn = "StaticCall") => ro["EVM"]
      BY <1>2 DEF ReadOnlyInv
    <2> HIDE DEF n, f
    <2>6. 1..Len(frames') = 1..(n - 1) /\ ro'["EVM"] = ro["EVM"]
      BY <1>1, <2>1
    <2> DEFINE S == 1..(n - 1)
    <2>7. \A i \in S : /\ frames'[i].setRO <=> frames[i].setRO
                       /\ frames'[i].fn = frames[i].fn
                       /\ frames'[i].snap = frames[i].snap
      BY <1>1
    <2> HIDE DEF S
    <2>8. ro'["EVM"] <=> \E i \in S : frames'[i].setRO
      BY <2>3, <2>6, <2>7 DEF S
    <2>9. \A i, k \in S :
             /\ frames'[i].setRO => frames'[i].fn = "StaticCall"
             /\ frames'[i].setRO /\ frames'[k].setRO => i = k
             /\ frames'[i].setRO /\ frames'[k].fn = "StaticCall" => i <= k
             /\ frames'[i].setRO /\ i <= k => frames'[k].snap = world'
      <3>1. \A i, k \in S :
               /\ frames[i].setRO => frames[i].fn = "StaticCall"
               /\ frames[i].setRO /\ frames[k].setRO => i = k
               /\ frames[i].setRO /\ frames[k].fn = "StaticCall" => i <= k
               /\ frames[i].setRO /\ i <= k => frames[k].snap = world'
        BY <2>4 DEF S
      <3> QED BY <2>7, <3>1
    <2>10. (\E i \in S : frames'[i].fn = "StaticCall") => ro'["EVM"]
      BY <2>5, <2>6, <2>7 DEF S
    <2>11. 1..Len(frames') = S
      BY <2>6 DEF S
    <2> QED BY <2>8, <2>9, <2>10, <2>11 DEF ReadOnlyInv
  <1> QED BY <1>4, <1>5

\* readOnly is set exactly as long as a static call is executed.
LEMMA ReadOnlyStep ==
  ASSUME Configured, TypeOK, TypeOK', StackInv, RowInv, ran = {}, ran' = {}, ReadOnlyInv,
         [Next]_vars
  PROVE  ReadOnlyInv'
  <1>1. CASE Refused
    <2>1. PICK fn \in Fns, value \in BOOLEAN, e \in {"none", "error"}, cost \in {0, 1} :
             /\ Immediate(fn, value, e, cost)
             /\ cost = 1 => fn \in Creates \/ (fn = "Call" /\ value)
      BY <1>1 DEF Refused
    <2>2. cost \in Nat /\ world \in Nat
      BY DEF TypeOK
    <2>3. Len(frames') = Len(frames) /\ SameCalls(Len(frames))
      BY <2>1, <2>2, BackStep
    <2>4. ro' = ro /\ world' = world + cost /\ MayCall(fn, value)
      BY <2>1 DEF Immediate
    <2>5. ro["EVM"] => world' = world
      BY <2>1, <2>2, <2>4, ReadOnlyCall
    <2> QED BY <2>3, <2>4, <2>5, ReadOnlyKept
  <1>2. ASSUME NEW fn \in Fns, NEW e, NEW parses \in BOOLEAN, NotRun(fn, e, parses)
        PROVE  ReadOnlyInv'
    <2>1. Len(frames') = Len(frames) /\ SameCalls(Len(frames))
      BY <1>2, BackStep
    <2>2. ro' = [ro EXCEPT ![ModeOf(NextId)] = ReadOnlyOf(ModeOf(NextId))] /\ MayCall(fn, FALSE)
      BY <1>2 DEF NotRun
    <2>3. ro'["EVM"] = ro["EVM"]
      BY <2>2, AllEVM DEF TypeOK, Modes
    <2>4. ro["EVM"] => world' = world
      BY <1>2, <2>2, ReadOnlyCall DEF NotRun
    <2> QED BY <2>1, <2>3, <2>4, ReadOnlyKept
  <1>3. ASSUME NEW fn \in Fns, NEW value \in BOOLEAN, Enter(fn, value)
        PROVE  ReadOnlyInv'
    BY <1>3, EnterReadOnly
  <1>4. ASSUME NEW e \in Errs, Return(e) PROVE ReadOnlyInv'
    BY <1>4, ReturnReadOnly
  <1>5. CASE Write \/ Note \/ Log
    <2>1. frames' = frames /\ ro' = ro /\ frames # <<>>
      BY <1>5 DEF Write, Note, Log
    <2>2. Top.interp = "EVM"
      BY <2>1, AllEVM, CallInts DEF Top
    <2>3. ro["EVM"] => world' = world
      BY <1>5, <2>2 DEF Write, Note, Log
    <2> QED BY <2>1, <2>3, ReadOnlyKept DEF SameCalls
  <1>6. CASE UNCHANGED vars
    BY <1>6 DEF vars, ReadOnlyInv
  <1> QED BY <1>1, <1>2, <1>3, <1>4, <1>5, <1>6 DEF Next

\* Until the TAC interpreter executes a call, the world does not change as long as
\* a static call is executed, and whatever executes inside it is read-only.
THEOREM StaticCallsAreStatic ==
  ASSUME Configured
  PROVE  Spec => [](StaticUnchanged /\ (ran = {} => ReadOnlyInherited))
  <1>1. Init => EVMInv
    <2> SUFFICES ASSUME Init PROVE EVMInv
      OBVIOUS
    <2>1. IsoInv
      BY InitIsoInv
    <2>2. frames = <<>> /\ Len(frames) = 0 /\ ~ro["EVM"]
      BY DEF Init, Modes
    <2> QED BY <2>1, <2>2 DEF EVMInv, ReadOnlyInv
  <1>2. IsoInv /\ [Next]_vars => IsoInv'
    BY NextIsoInv
  <1>3. EVMInv /\ [Next]_vars => EVMInv'
    <2> SUFFICES ASSUME EVMInv, [Next]_vars PROVE EVMInv'
      OBVIOUS
    <2>1. IsoInv /\ IsoInv'
      BY <1>2 DEF EVMInv
    <2>2. ran' = {} => ran = {}
      BY DEF Next, Refused, Immediate, Enter, NotRun, Write, Note, Log, Return, vars
    <2>3. ran' = {} => ReadOnlyInv'
      BY <2>1, <2>2, ReadOnlyStep DEF EVMInv, IsoInv
    <2> QED BY <2>1, <2>3 DEF EVMInv
  <1>4. ASSUME EVMInv PROVE StaticUnchanged /\ (ran = {} => ReadOnlyInherited)
    <2>1. TypeOK /\ RowInv /\ (ran = {} => ReadOnlyInv)
      BY <1>4 DEF EVMInv, IsoInv
    <2>2. StaticUnchanged
      BY <2>1 DEF ReadOnlyInv, StaticUnchanged
    <2>3. ran = {} /\ frames # <<>> => Top.interp = "EVM"
      BY <2>1, AllEVM, CallInts DEF Top
    <2>4. (\E i \in 1..Len(frames) : frames[i].fn = "StaticCall") => frames # <<>>
      BY <2>1, CallInts
    <2>5. ran = {} => ReadOnlyInherited
      BY <2>1, <2>3, <2>4 DEF ReadOnlyInv, ReadOnlyInherited
    <2> QED BY <2>2, <2>5
  <1> QED BY <1>1, <1>3, <1>4, PTL DEF Spec
=============================================================================
