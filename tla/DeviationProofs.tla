--------------------------- MODULE DeviationProofs ---------------------------
(***************************************************************************)
(* Proofs about Deviation, for any recorded transactions and any effects   *)
(* of the TAC program and its callees: what an empty and what another      *)
(* deviation row says, and where a recorded out of gas ends the run.       *)
(***************************************************************************)
EXTENDS Deviation, FiniteSetTheorems, SequenceTheorems, TLAPS

\* The lists of the recorded transaction.
LEMMA RecTypes ==
    ASSUME DevConfigured, DevTypeOK, NEW k \in Lists
    PROVE  /\ rec.pre.ops[k] \in Seq(Effects) /\ rec.iso.ops[k] \in Seq(Effects)
           /\ rec.post.ops[k] \in Seq(Effects) /\ tac.ops[k] \in Seq(Effects)
           /\ rec.iso.sha3 \subseteq Nat /\ tac.sha3 \subseteq Nat
           /\ IsFiniteSet(rec.iso.sha3)
PROOF
  <1>1. rec \in [pre : TraceOfCall, iso : TraceOfCall, post : TraceOfCall, oog : BOOLEAN]
    BY DEF DevConfigured, DevTypeOK
  <1>2. IsFiniteSet(rec.iso.sha3)
    BY DEF DevConfigured, DevTypeOK
  <1>3. rec.pre \in TraceOfCall /\ rec.iso \in TraceOfCall /\ rec.post \in TraceOfCall
        /\ tac \in TraceOfCall
    BY <1>1 DEF DevTypeOK
  <1> QED BY <1>2, <1>3 DEF TraceOfCall

\* The recorded list of the transaction, from the isolated call on.
LEMMA TraceFacts ==
    ASSUME DevConfigured, DevTypeOK, NEW k \in Lists
    PROVE  /\ Len(After(k)) = Len(rec.iso.ops[k]) + Len(rec.post.ops[k])
           /\ Len(Trace(k)) = Len(rec.pre.ops[k]) + Len(After(k))
           /\ \A n \in 1..Len(After(k)) : Trace(k)[Len(rec.pre.ops[k]) + n] = After(k)[n]
           /\ Len(rec.pre.ops[k]) \in Nat /\ Len(rec.iso.ops[k]) \in Nat
           /\ Len(rec.post.ops[k]) \in Nat /\ Len(After(k)) \in Nat
           /\ Len(tac.ops[k]) \in Nat
PROOF
  <1> DEFINE p == rec.pre.ops[k]
             s == rec.iso.ops[k]
             u == rec.post.ops[k]
  <1>1. p \in Seq(Effects) /\ s \in Seq(Effects) /\ u \in Seq(Effects) /\ tac.ops[k] \in Seq(Effects)
    BY RecTypes
  <1>2. After(k) = s \o u /\ Trace(k) = (p \o s) \o u BY DEF After, Trace
  <1> HIDE DEF p, s, u
  <1> DEFINE a == s \o u
             t == (p \o s) \o u
  <1>3. /\ Len(a) = Len(s) + Len(u) /\ Len(t) = Len(p) + Len(a)
        /\ Len(p) \in Nat /\ Len(s) \in Nat /\ Len(u) \in Nat /\ Len(a) \in Nat
    BY <1>1
  <1>4. \A n \in 1..Len(a) : t[Len(p) + n] = a[n] BY <1>1
  <1>5. Len(tac.ops[k]) \in Nat BY <1>1
  <1> QED BY <1>2, <1>3, <1>4, <1>5 DEF p, s, u

\* CheckRemainingDeviation and CheckOutOfGas count from the beginning of the
\* transaction, which adds the same to both sides.
LEMMA Counts ==
    ASSUME DevConfigured, DevTypeOK, NEW k \in Lists
    PROVE  /\ Count(k) = Len(Trace(k)) <=> Len(tac.ops[k]) = Len(After(k))
           /\ Len(Trace(k)) <= Count(k) <=> Len(After(k)) <= Len(tac.ops[k])
           /\ Count(k) >= Len(Trace(k)) <=> Len(tac.ops[k]) >= Len(After(k))
PROOF
  <1> DEFINE b == Len(rec.pre.ops[k])
             n == Len(After(k))
             m == Len(tac.ops[k])
             c == Count(k)
             t == Len(Trace(k))
  <1>1. b \in Nat /\ n \in Nat /\ m \in Nat /\ t = b + n BY TraceFacts
  <1>2. c = b + m BY DEF Count
  <1> HIDE DEF b, n, m, c, t
  <1>3. (c = t <=> m = n) /\ (t <= c <=> n <= m) /\ (c >= t <=> m >= n) BY <1>1, <1>2
  <1> QED BY <1>3 DEF n, m, c, t

\* checkSstoreDeviation, checkLogDeviation and checkCallDeviation find exactly
\* the effects that do not agree with the recorded ones at the place they get.
LEMMA DeviatesExact ==
    ASSUME DevConfigured, DevTypeOK, NEW e, e.k \in Lists
    PROVE  LET n == Len(tac.ops[e.k]) + 1
           IN  Deviates(e) <=> ~(n <= Len(After(e.k)) /\ Recorded(After(e.k)[n]) = e.v)
PROOF
  <1> DEFINE k == e.k
             m == Len(tac.ops[k])
             b == Len(rec.pre.ops[k])
             a == After(k)
             t == Trace(k)
  <1>1. k \in Lists /\ k # "sha3" BY DEF Lists
  <1>2. /\ b \in Nat /\ m \in Nat /\ Len(a) \in Nat
        /\ \A i \in 1..Len(a) : t[b + i] = a[i]
        /\ Count(k) >= Len(t) <=> m >= Len(a)
    BY <1>1, TraceFacts, Counts
  <1>3. Count(k) = b + m BY DEF Count
  <1>4. Deviates(e) <=> Count(k) >= Len(t) \/ Recorded(t[Count(k) + 1]) # e.v
    BY <1>1 DEF Deviates
  <1> HIDE DEF m, b, a, t
  <1>5. CASE m >= Len(a) BY <1>2, <1>4, <1>5 DEF m, a, k
  <1>6. CASE m < Len(a)
    <2>1. m + 1 \in 1..Len(a) /\ b + (m + 1) = Count(k) + 1 BY <1>2, <1>3, <1>6
    <2>2. t[Count(k) + 1] = a[m + 1] BY <1>2, <2>1
    <2>3. ~(m >= Len(a)) /\ m + 1 <= Len(a) BY <1>2, <1>6
    <2> QED BY <1>2, <1>4, <2>2, <2>3 DEF m, a, k
  <1> QED BY <1>2, <1>5, <1>6
-------------------------------------------------------------------------------
\* What an effect adds to the trace of the run.
LEMMA AddedList ==
    ASSUME tac \in TraceOfCall, Effects \subseteq EffectType, NEW e \in Effects, e.k \in Lists
    PROVE  /\ Added(e) \in TraceOfCall
           /\ Added(e).ops[e.k] = Append(tac.ops[e.k], e)
           /\ \A k \in Lists \ {e.k} : Added(e).ops[k] = tac.ops[k]
           /\ Added(e).sha3 = tac.sha3
PROOF
  <1>1. e.k # "sha3" BY DEF Lists
  <1>2. tac.ops \in [Lists -> Seq(Effects)] /\ tac.sha3 \subseteq Nat BY DEF TraceOfCall
  <1> DEFINE o == [tac.ops EXCEPT ![e.k] = Append(tac.ops[e.k], e)]
  <1>3. Added(e) = [tac EXCEPT !.ops = o] BY <1>1 DEF Added
  <1>4. /\ o \in [Lists -> Seq(Effects)] /\ o[e.k] = Append(tac.ops[e.k], e)
        /\ \A k \in Lists \ {e.k} : o[k] = tac.ops[k]
    BY <1>2
  <1> HIDE DEF o
  <1>5. Added(e).ops = o /\ Added(e).sha3 = tac.sha3 /\ Added(e) \in TraceOfCall
    BY <1>3, <1>4 DEF TraceOfCall
  <1> QED BY <1>4, <1>5

LEMMA AddedHash ==
    ASSUME tac \in TraceOfCall, Effects \subseteq EffectType, NEW e \in Effects, e.k = "sha3"
    PROVE  /\ Added(e) \in TraceOfCall
           /\ Added(e).ops = tac.ops
           /\ Added(e).sha3 = tac.sha3 \cup {e.v}
PROOF
  <1>1. Added(e) = [tac EXCEPT !.sha3 = tac.sha3 \cup {e.v}] BY DEF Added
  <1>2. e.v \in Nat BY DEF EffectType
  <1> QED BY <1>1, <1>2 DEF TraceOfCall

\* One more effect: its list is one longer, what was in the lists keeps its place.
LEMMA AddedFacts ==
    ASSUME DevConfigured, DevTypeOK, NEW e \in Effects, Room(e), tac' = Added(e)
    PROVE  /\ tac' \in TraceOfCall
           /\ \A k \in Lists :
                /\ Len(tac'.ops[k]) = IF k = e.k THEN Len(tac.ops[k]) + 1 ELSE Len(tac.ops[k])
                /\ \A i \in 1..Len(tac.ops[k]) : tac'.ops[k][i] = tac.ops[k][i]
                /\ k = e.k => tac'.ops[k][Len(tac.ops[k]) + 1] = e
                /\ Len(tac'.ops[k]) <= MaxEffects
                /\ Len(tac.ops[k]) \in Nat
           /\ tac'.sha3 = IF e.k = "sha3" THEN tac.sha3 \cup {e.v} ELSE tac.sha3
PROOF
  <1>1. /\ e.k \in Kinds /\ Effects \subseteq EffectType /\ tac \in TraceOfCall
        /\ MaxEffects \in Nat /\ \A k \in Lists : Len(tac.ops[k]) <= MaxEffects
    BY DEF DevConfigured, EffectType, DevTypeOK
  <1>2. \A k \in Lists : tac.ops[k] \in Seq(Effects) BY <1>1 DEF TraceOfCall
  <1>3. \A k \in Lists : Len(tac.ops[k]) \in Nat BY <1>2
  <1>4. "sha3" \notin Lists BY DEF Lists
  <1>5. CASE e.k = "sha3"
    <2>1. tac' \in TraceOfCall /\ tac'.ops = tac.ops /\ tac'.sha3 = tac.sha3 \cup {e.v}
      BY <1>1, <1>5, AddedHash
    <2> QED BY <2>1, <1>1, <1>3, <1>4, <1>5
  <1>6. CASE e.k \in Lists
    <2>1. /\ tac' \in TraceOfCall /\ tac'.ops[e.k] = Append(tac.ops[e.k], e)
          /\ tac'.sha3 = tac.sha3
          /\ \A k \in Lists \ {e.k} : tac'.ops[k] = tac.ops[k]
      BY <1>1, <1>6, AddedList
    <2>2. Len(tac.ops[e.k]) < MaxEffects BY <1>6 DEF Room
    <2>3. /\ Len(tac'.ops[e.k]) = Len(tac.ops[e.k]) + 1
          /\ \A i \in 1..Len(tac.ops[e.k]) : tac'.ops[e.k][i] = tac.ops[e.k][i]
          /\ tac'.ops[e.k][Len(tac.ops[e.k]) + 1] = e
      BY <2>1, <1>2, <1>6
    <2>4. Len(tac'.ops[e.k]) <= MaxEffects BY <2>2, <2>3, <1>1, <1>3, <1>6
    <2>5. ASSUME NEW k \in Lists
          PROVE  /\ Len(tac'.ops[k]) = IF k = e.k THEN Len(tac.ops[k]) + 1 ELSE Len(tac.ops[k])
                 /\ \A i \in 1..Len(tac.ops[k]) : tac'.ops[k][i] = tac.ops[k][i]
                 /\ k = e.k => tac'.ops[k][Len(tac.ops[k]) + 1] = e
                 /\ Len(tac'.ops[k]) <= MaxEffects
                 /\ Len(tac.ops[k]) \in Nat
      <3>1. CASE k = e.k BY <3>1, <2>3, <2>4, <1>3
      <3>2. CASE k # e.k BY <3>2, <2>1, <1>1, <1>3
      <3> QED BY <3>1, <3>2
    <2> QED BY <2>1, <2>5, <1>4, <1>6
  <1> QED BY <1>1, <1>5, <1>6 DEF Kinds

\* The places that are compared stay places of the trace.
LEMMA PlacesKept ==
    ASSUME DevConfigured, DevTypeOK, NEW e \in Effects, Room(e), tac' = Added(e)
    PROVE  /\ \A k \in Lists : \A i \in checked[k] :
                i \in 1..Len(tac.ops[k]) /\ i \in 1..Len(tac'.ops[k])
                /\ tac'.ops[k][i] = tac.ops[k][i]
           /\ CheckedAfter(e) \in [Lists -> SUBSET Nat]
           /\ \A k \in Lists : \A i \in CheckedAfter(e)[k] : i \in 1..Len(tac'.ops[k])
PROOF
  <1>1. \A k \in Lists :
            /\ Len(tac'.ops[k]) = IF k = e.k THEN Len(tac.ops[k]) + 1 ELSE Len(tac.ops[k])
            /\ \A i \in 1..Len(tac.ops[k]) : tac'.ops[k][i] = tac.ops[k][i]
            /\ Len(tac.ops[k]) \in Nat
    BY AddedFacts
  <1>2. /\ checked \in [Lists -> SUBSET Nat]
        /\ \A k \in Lists : \A i \in checked[k] : i \in 1..Len(tac.ops[k])
    BY DEF DevTypeOK
  <1>3. \A k \in Lists : \A i \in checked[k] :
            i \in 1..Len(tac.ops[k]) /\ i \in 1..Len(tac'.ops[k])
            /\ tac'.ops[k][i] = tac.ops[k][i]
    BY <1>1, <1>2
  <1>4. CASE Checks(e) /\ e.k \in Lists
    <2> DEFINE n == Len(tac.ops[e.k]) + 1
    <2>1. n \in Nat /\ n \in 1..Len(tac'.ops[e.k]) BY <1>1, <1>4
    <2>2. CheckedAfter(e) = [checked EXCEPT ![e.k] = @ \cup {n}] BY <1>4 DEF CheckedAfter
    <2> HIDE DEF n
    <2>3. /\ CheckedAfter(e) \in [Lists -> SUBSET Nat]
          /\ CheckedAfter(e)[e.k] = checked[e.k] \cup {n}
          /\ \A k \in Lists \ {e.k} : CheckedAfter(e)[k] = checked[k]
      BY <1>2, <1>4, <2>1, <2>2
    <2>4. ASSUME NEW k \in Lists, NEW i \in CheckedAfter(e)[k] PROVE i \in 1..Len(tac'.ops[k])
      <3>1. CASE k = e.k /\ i = n BY <3>1, <2>1
      <3>2. CASE ~(k = e.k /\ i = n)
        <4>1. i \in checked[k] BY <3>2, <2>3, <2>4
        <4> QED BY <4>1, <1>3
      <3> QED BY <3>1, <3>2
    <2> QED BY <1>3, <2>3, <2>4
  <1>5. CASE ~(Checks(e) /\ e.k \in Lists)
    <2>1. CheckedAfter(e) = checked BY <1>5 DEF CheckedAfter
    <2> QED BY <2>1, <1>2, <1>3
  <1> QED BY <1>4, <1>5
-------------------------------------------------------------------------------
LEMMA InitType == DevConfigured /\ DevInit => DevTypeOK
PROOF
  <1> SUFFICES ASSUME DevConfigured, DevInit PROVE DevTypeOK OBVIOUS
  <1>1. [k \in Lists |-> <<>>] \in [Lists -> Seq(Effects)] OBVIOUS
  <1>2. tac \in TraceOfCall BY <1>1 DEF DevInit, EmptyTrace, TraceOfCall
  <1>3. \A k \in Lists : Len(tac.ops[k]) <= MaxEffects
    <2>1. \A k \in Lists : tac.ops[k] = <<>> BY DEF DevInit, EmptyTrace
    <2>2. MaxEffects \in Nat BY DEF DevConfigured
    <2> QED BY <2>1, <2>2
  <1>4. /\ checked \in [Lists -> SUBSET Nat]
        /\ \A k \in Lists : \A i \in checked[k] : i \in 1..Len(tac.ops[k])
    BY DEF DevInit
  <1> QED BY <1>2, <1>3, <1>4 DEF DevInit, DevTypeOK

LEMMA TypeStep == DevConfigured /\ DevTypeOK /\ [DevNext]_devVars => DevTypeOK'
PROOF
  <1> SUFFICES ASSUME DevConfigured, DevTypeOK, [DevNext]_devVars PROVE DevTypeOK' OBVIOUS
  <1>1. CASE StopOutOfGas \/ StopDeviated \/ CalleeReturns \/ End \/ UNCHANGED devVars
    BY <1>1 DEF DevTypeOK, StopOutOfGas, StopDeviated, CalleeReturns, End, devVars
  <1>2. CASE Report BY <1>2 DEF DevTypeOK, Report
  <1>3. ASSUME NEW e \in Own, Effect(e) PROVE DevTypeOK'
    <2>1. CASE IndexPanics(e) BY <1>3, <2>1 DEF DevTypeOK, Effect
    <2>2. CASE ~IndexPanics(e)
      <3>1. /\ tac' = Added(e) /\ checked' = CheckedAfter(e) /\ dev' = DevAfter(e)
            /\ UNCHANGED <<rec, reported>> /\ Room(e)
            /\ state' = IF e.k = "call" THEN "callee" ELSE state
        BY <1>3, <2>2 DEF Effect
      <3>2. e \in Effects /\ e.k \in Kinds BY DEF DevConfigured, EffectType, Effects
      <3>3. tac' \in TraceOfCall /\ \A k \in Lists : Len(tac'.ops[k]) <= MaxEffects
        BY <3>1, <3>2, AddedFacts
      <3>4. /\ checked' \in [Lists -> SUBSET Nat]
            /\ \A k \in Lists : \A i \in checked'[k] : i \in 1..Len(tac'.ops[k])
        BY <3>1, <3>2, PlacesKept
      <3>5. dev' \in Kinds \cup {"", "remaining"} /\ (Tracing \/ dev' = "")
        BY <3>1, <3>2 DEF DevAfter, Checks, DevTypeOK
      <3> QED BY <3>1, <3>3, <3>4, <3>5 DEF DevTypeOK
    <2> QED BY <2>1, <2>2
  <1>4. ASSUME NEW e \in Nested, CalleeEffect(e) PROVE DevTypeOK'
    <2>1. tac' = Added(e) /\ UNCHANGED <<rec, checked, dev, state, reported>> /\ Room(e)
      BY <1>4 DEF CalleeEffect
    <2>2. e \in Effects BY DEF Effects
    <2>3. tac' \in TraceOfCall /\ \A k \in Lists : Len(tac'.ops[k]) <= MaxEffects
      BY <2>1, <2>2, AddedFacts
    <2>4. \A k \in Lists : \A i \in checked[k] : i \in 1..Len(tac'.ops[k])
      BY <2>1, <2>2, PlacesKept
    <2> QED BY <2>1, <2>3, <2>4 DEF DevTypeOK
  <1> QED BY <1>1, <1>2, <1>3, <1>4 DEF DevNext

\* The variables keep their types, and a run that is not compared with a trace
\* is not said to deviate.
THEOREM TypeCorrect ==
    ASSUME DevConfigured
    PROVE  DevSpec => []DevTypeOK
PROOF
  <1>1. DevInit => DevTypeOK BY InitType
  <1>2. DevTypeOK /\ [DevNext]_devVars => DevTypeOK' BY TypeStep
  <1> QED BY <1>1, <1>2, PTL DEF DevSpec
-------------------------------------------------------------------------------
LEMMA InitDev == DevConfigured /\ DevInit => DevInv
PROOF
  <1> SUFFICES ASSUME DevConfigured, DevInit PROVE DevInv OBVIOUS
  <1>1. tac.sha3 = {} /\ dev = "" /\ state = "run" /\ reported = FALSE
        /\ \A k \in Lists : checked[k] = {}
    BY DEF DevInit, EmptyTrace
  <1>2. "" \notin Lists BY DEF Lists
  <1> QED BY <1>1, <1>2 DEF DevInv

\* Nothing but an effect changes what is compared.
LEMMA SameChecks ==
    ASSUME tac' = tac, rec' = rec
    PROVE  /\ Remaining' <=> Remaining
           /\ OutOfGas' <=> OutOfGas
           /\ \A k, i : Agrees(k, i)' <=> Agrees(k, i)
PROOF
  <1>1. Remaining' <=> Remaining BY DEF Remaining, Count, Trace
  <1>2. OutOfGas' <=> OutOfGas BY DEF OutOfGas, Count, Trace, SubtreeCalls
  <1>3. \A k, i : Agrees(k, i)' <=> Agrees(k, i) BY DEF Agrees, After, Recorded
  <1> QED BY <1>1, <1>2, <1>3

\* An effect changes nothing at the places that were compared before.
LEMMA AgreementKept ==
    ASSUME DevConfigured, DevTypeOK, NEW e \in Effects, Room(e), tac' = Added(e), rec' = rec
    PROVE  \A k \in Lists : \A i \in checked[k] : Agrees(k, i)' <=> Agrees(k, i)
PROOF
  <1>1. \A k \in Lists : \A i \in checked[k] : tac'.ops[k][i] = tac.ops[k][i] BY PlacesKept
  <1> QED BY <1>1 DEF Agrees, After, Recorded

LEMMA DevStep ==
    ASSUME DevConfigured, Tracing, DevTypeOK, DevInv, [DevNext]_devVars
    PROVE  DevInv'
PROOF
  <1>0. "" \notin Lists /\ "sha3" \notin Lists /\ "remaining" \notin Lists BY DEF Lists
  <1>1. ASSUME tac' = tac, rec' = rec, checked' = checked, dev' = dev, reported' = reported,
               state' = "OutOfGas" => OutOfGas, reported => state' \notin {"run", "callee"}
        PROVE  DevInv'
    <2>1. /\ Remaining' <=> Remaining
          /\ OutOfGas' <=> OutOfGas
          /\ \A k, i : Agrees(k, i)' <=> Agrees(k, i)
      BY <1>1, SameChecks
    <2>2. dev' \in Lists => \E i \in checked'[dev'] : ~Agrees(dev, i)'
      <3> SUFFICES ASSUME dev \in Lists PROVE \E i \in checked[dev] : ~Agrees(dev, i)'
        BY <1>1 DEF Agrees, After
      <3>1. PICK i \in checked[dev] : ~Agrees(dev, i) BY DEF DevInv
      <3> QED BY <3>1, <1>1 DEF Agrees, After, Recorded
    <2> QED BY <1>1, <2>1, <2>2 DEF DevInv
  <1>2. CASE StopOutOfGas BY <1>1, <1>2 DEF StopOutOfGas
  <1>3. CASE StopDeviated \/ End BY <1>1, <1>3 DEF StopDeviated, End
  <1>4. CASE UNCHANGED devVars BY <1>1, <1>4 DEF devVars, DevInv
  <1>5. CASE CalleeReturns BY <1>1, <1>5 DEF CalleeReturns, DevInv
  <1>6. CASE Report
    <2>1. /\ tac' = tac /\ rec' = rec /\ checked' = checked /\ state' = state /\ reported' = TRUE
          /\ state \notin {"run", "callee"}
          /\ dev' = IF dev = "" /\ Remaining THEN "remaining" ELSE dev
      BY <1>6 DEF Report
    <2>2. /\ Remaining' <=> Remaining
          /\ OutOfGas' <=> OutOfGas
          /\ \A k, i : Agrees(k, i)' <=> Agrees(k, i)
      BY <2>1, SameChecks
    <2>3. CASE dev = "" /\ Remaining
      <3>1. dev' = "remaining" BY <2>1, <2>3
      <3> QED BY <3>1, <2>1, <2>2, <2>3, <1>0 DEF DevInv
    <2>4. CASE ~(dev = "" /\ Remaining)
      <3>1. dev' = dev BY <2>1, <2>4
      <3>2. dev' \in Lists => \E i \in checked'[dev'] : ~Agrees(dev, i)'
        <4> SUFFICES ASSUME dev \in Lists PROVE \E i \in checked[dev] : ~Agrees(dev, i)'
          BY <2>1, <3>1 DEF Agrees, After
        <4>1. PICK i \in checked[dev] : ~Agrees(dev, i) BY DEF DevInv
        <4>2. tac' = tac /\ dev' = dev /\ rec' = rec BY <2>1, <3>1
        <4> QED BY <4>1, <4>2 DEF Agrees, After, Recorded
      <3> QED BY <3>1, <3>2, <2>1, <2>2, <2>4 DEF DevInv
    <2> QED BY <2>3, <2>4
  <1>7. ASSUME NEW e \in Own, Effect(e) PROVE DevInv'
    <2>0. Go /\ rec' = rec /\ reported' = reported /\ Room(e) BY <1>7 DEF Effect
    <2>1. /\ state = "run" /\ dev = "" /\ ~reported /\ tac.sha3 \subseteq rec.iso.sha3
          /\ \A k \in Lists : \A i \in checked[k] : Agrees(k, i)
      BY <2>0 DEF Go, DevInv
    <2>2. CASE IndexPanics(e)
      <3>1. state' = "index" /\ tac' = tac /\ checked' = checked /\ dev' = dev
        BY <1>7, <2>2 DEF Effect
      <3> QED BY <3>1, <1>1, <2>0
    <2>3. CASE ~IndexPanics(e)
      <3>1. /\ tac' = Added(e) /\ checked' = CheckedAfter(e) /\ state' \in {"run", "callee"}
            /\ dev' = IF Checks(e) /\ Deviates(e) THEN e.k ELSE ""
        BY <1>7, <2>3, <2>1 DEF Effect, DevAfter
      <3>2. e \in Effects /\ e.k \in Kinds /\ Effects \subseteq EffectType
        BY DEF DevConfigured, EffectType, Effects
      <3>3. \A k \in Lists : \A i \in checked[k] : Agrees(k, i)'
        BY <2>0, <2>1, <3>1, <3>2, AgreementKept
      <3>4. tac'.sha3 = IF e.k = "sha3" THEN tac.sha3 \cup {e.v} ELSE tac.sha3
        BY <2>0, <3>1, <3>2, AddedFacts
      <3>5. e.k # "" /\ e.k # "remaining" BY <3>2 DEF Kinds, Lists
      <3>6. CASE ~(Checks(e) /\ e.k \in Lists)
        <4>1. checked' = checked BY <3>1, <3>6 DEF CheckedAfter
        <4>2. \A k \in Lists : \A i \in checked'[k] : Agrees(k, i)' BY <4>1, <3>3
        <4>3. e.k = "sha3" => (Deviates(e) <=> e.v \notin rec.iso.sha3) BY <2>1 DEF Deviates
        <4>4. CASE dev' = ""
          <5>1. tac'.sha3 \subseteq rec'.iso.sha3
            <6>1. CASE e.k = "sha3"
              <7>1. Checks(e)
                BY <6>1, <3>2 DEF Checks, DevConfigured, CallFns
              <7> QED BY <7>1, <6>1, <4>4, <4>3, <3>1, <3>4, <3>5, <2>0, <2>1
            <6>2. CASE e.k # "sha3" BY <6>2, <3>4, <2>0, <2>1
            <6> QED BY <6>1, <6>2
          <5> QED BY <4>4, <5>1, <4>2, <3>1, <2>0, <2>1, <1>0 DEF DevInv
        <4>5. CASE dev' # ""
          <5>1. Checks(e) /\ Deviates(e) /\ dev' = e.k BY <4>5, <3>1
          <5>2. e.k = "sha3" BY <5>1, <3>6, <3>2 DEF Kinds
          <5>3. ~(tac'.sha3 \subseteq rec'.iso.sha3) BY <5>1, <5>2, <4>3, <3>4, <2>0
          <5> QED BY <5>1, <5>2, <5>3, <3>1, <2>0, <2>1, <1>0 DEF DevInv
        <4> QED BY <4>4, <4>5
      <3>7. CASE Checks(e) /\ e.k \in Lists
        <4>0. PICK n : n = Len(tac.ops[e.k]) + 1 OBVIOUS
        <4>1. checked' = [checked EXCEPT ![e.k] = @ \cup {n}]
          BY <3>1, <3>7, <4>0 DEF CheckedAfter
        <4>2. checked \in [Lists -> SUBSET Nat] BY DEF DevTypeOK
        <4>3. Agrees(e.k, n)' <=> ~Deviates(e)
          <5>1. tac'.ops[e.k][n] = e BY <2>0, <3>1, <3>2, <3>7, <4>0, AddedFacts
          <5>2. Agrees(e.k, n)' <=> n <= Len(After(e.k)) /\ Recorded(After(e.k)[n]) = e.v
            BY <5>1, <2>0 DEF Agrees, After, Recorded
          <5> QED BY <5>2, <3>7, <4>0, DeviatesExact
        <4>4. tac'.sha3 = tac.sha3 BY <3>4, <3>7, <1>0
        <4>5. CASE Deviates(e)
          <5>1. dev' = e.k BY <3>1, <3>7, <4>5
          <5>2. n \in checked'[e.k] BY <4>1, <4>2, <3>7
          <5>3. ~Agrees(e.k, n)' BY <4>3, <4>5
          <5>4. \E i \in checked'[dev'] : ~Agrees(dev, i)'
            <6>1. ~Agrees(dev, n)' BY <5>1, <5>3 DEF Agrees, After
            <6> QED BY <6>1, <5>1, <5>2
          <5>5. e.k # "sha3" BY <3>7, <1>0
          <5> QED BY <5>1, <5>4, <5>5, <3>1, <3>5, <2>0, <2>1 DEF DevInv
        <4>6. CASE ~Deviates(e)
          <5>1. dev' = "" BY <3>1, <4>6
          <5>2. ASSUME NEW k \in Lists, NEW i \in checked'[k] PROVE Agrees(k, i)'
            <6>1. CASE k = e.k /\ i = n BY <6>1, <4>3, <4>6
            <6>2. CASE ~(k = e.k /\ i = n)
              <7>1. i \in checked[k] BY <6>2, <5>2, <4>1, <4>2
              <7> QED BY <7>1, <3>3
            <6> QED BY <6>1, <6>2
          <5> QED BY <5>1, <5>2, <4>4, <3>1, <2>0, <2>1, <1>0 DEF DevInv
        <4> QED BY <4>5, <4>6
      <3> QED BY <3>6, <3>7
    <2> QED BY <2>2, <2>3
  <1>8. ASSUME NEW e \in Nested, CalleeEffect(e) PROVE DevInv'
    <2>1. /\ tac' = Added(e) /\ UNCHANGED <<rec, checked, dev, state, reported>> /\ Room(e)
          /\ state = "callee"
      BY <1>8 DEF CalleeEffect
    <2>2. e \in Effects /\ e.k \in Lists BY DEF Effects, DevConfigured
    <2>3. \A k \in Lists : \A i \in checked[k] : Agrees(k, i)' <=> Agrees(k, i)
      BY <2>1, <2>2, AgreementKept
    <2>4. tac'.sha3 = tac.sha3 BY <2>1, <2>2, <1>0, AddedFacts
    <2>5. ~reported /\ dev # "remaining" BY <2>1 DEF DevInv, DevTypeOK
    <2>6. dev \in Lists => \E i \in checked[dev] : ~Agrees(dev, i)'
      <3> SUFFICES ASSUME dev \in Lists PROVE \E i \in checked[dev] : ~Agrees(dev, i)'
        OBVIOUS
      <3>1. PICK i \in checked[dev] : ~Agrees(dev, i) BY DEF DevInv
      <3>2. ~Agrees(dev, i)' BY <3>1, <2>3, <2>1 DEF Agrees, After
      <3> QED BY <3>2
    <2> QED BY <2>1, <2>3, <2>4, <2>5, <2>6 DEF DevInv
  <1> QED BY <1>2, <1>3, <1>4, <1>5, <1>6, <1>7, <1>8 DEF DevNext

\* The inductive invariant: without a deviation the program's own effects are the
\* recorded ones in their places, with one an effect of that kind is not.
THEOREM DevInvariant ==
    ASSUME DevConfigured, Tracing
    PROVE  DevSpec => [](DevTypeOK /\ DevInv)
PROOF
  <1>1. DevInit => DevTypeOK /\ DevInv BY InitType, InitDev
  <1>2. (DevTypeOK /\ DevInv) /\ [DevNext]_devVars => (DevTypeOK /\ DevInv)' BY TypeStep, DevStep
  <1> QED BY <1>1, <1>2, PTL DEF DevSpec
-------------------------------------------------------------------------------
\* What CheckRemainingDeviation says of a run whose hashes are all recorded.
LEMMA RemainingExact ==
    ASSUME DevConfigured, DevTypeOK, tac.sha3 \subseteq rec.iso.sha3
    PROVE  ~Remaining <=> /\ \A k \in Lists : Len(tac.ops[k]) = Len(After(k))
                          /\ tac.sha3 = rec.iso.sha3
PROOF
  <1>1. \A k \in Lists : Count(k) = Len(Trace(k)) <=> Len(tac.ops[k]) = Len(After(k))
    BY Counts
  <1>2. tac.sha3 = rec.iso.sha3 <=> Cardinality(tac.sha3) = Cardinality(rec.iso.sha3)
    <2>1. "log" \in Lists BY DEF Lists
    <2>2. IsFiniteSet(rec.iso.sha3) BY <2>1, RecTypes
    <2> QED BY <2>2, FS_Subset
  <1> QED BY <1>1, <1>2 DEF Remaining

\* The deviation row, for every program and every recorded transaction: an empty
\* one means that the effects agree in number and hashes and the program's own in
\* their operands, another one that they do differ.
THEOREM RowIsExact ==
    ASSUME DevConfigured, Tracing
    PROVE  DevSpec => []RowExact
PROOF
  <1>1. DevTypeOK /\ DevInv => RowExact
    <2> SUFFICES ASSUME DevTypeOK, DevInv, reported
                 PROVE  /\ dev = "" =>
                            /\ \A k \in Lists : /\ Len(tac.ops[k]) = Len(After(k))
                                                /\ \A i \in checked[k] : Agrees(k, i)
                            /\ tac.sha3 = rec.iso.sha3
                        /\ dev # "" /\ NoDelegates => ~SameEffects
      BY DEF RowExact
    <2>1. CASE dev = ""
      <3>1. /\ ~Remaining /\ tac.sha3 \subseteq rec.iso.sha3
            /\ \A k \in Lists : \A i \in checked[k] : Agrees(k, i)
        BY <2>1 DEF DevInv
      <3> QED BY <2>1, <3>1, RemainingExact
    <2>2. CASE dev = "remaining"
      <3>1. Remaining /\ tac.sha3 \subseteq rec.iso.sha3 BY <2>2 DEF DevInv
      <3>2. SameEffects => \A k \in Lists : Len(tac.ops[k]) = Len(After(k)) BY DEF SameEffects
      <3> QED BY <2>2, <3>1, <3>2, RemainingExact DEF SameEffects
    <2>3. CASE dev \in Lists
      <3> SUFFICES ASSUME NoDelegates, SameEffects PROVE FALSE BY <2>3 DEF Lists
      <3>1. PICK i \in checked[dev] : ~Agrees(dev, i) BY <2>3 DEF DevInv
      <3>2. tac.ops[dev] = After(dev) BY <2>3 DEF SameEffects
      <3>3. i \in 1..Len(tac.ops[dev]) BY <2>3, <3>1 DEF DevTypeOK
      <3>4. tac.ops[dev][i].fn # "DelegateCall" BY <2>3, <3>1 DEF NoDelegates
      <3>5. Recorded(After(dev)[i]) = tac.ops[dev][i].v BY <3>2, <3>4 DEF Recorded
      <3>6. Len(After(dev)) \in Nat BY <2>3, TraceFacts
      <3>7. i <= Len(After(dev)) BY <3>2, <3>3, <3>6
      <3> QED BY <3>1, <3>5, <3>7 DEF Agrees
    <2>4. CASE dev = "sha3" BY <2>4 DEF DevInv, SameEffects
    <2> QED BY <2>1, <2>2, <2>3, <2>4 DEF DevTypeOK, Kinds
  <1> QED BY <1>1, DevInvariant, PTL

\* CheckOutOfGas is true of a run that has had as many effects as the call, when
\* nothing is stored or logged after it.
LEMMA AsFarIsOutOfGas ==
    ASSUME DevConfigured, DevTypeOK, rec.oog, LastWrites, AsFar
    PROVE  OutOfGas
PROOF
  <1>1. "call" \in Lists /\ "sstore" \in Lists /\ "log" \in Lists BY DEF Lists
  <1>2. ASSUME NEW k \in {"sstore", "log"} PROVE Len(Trace(k)) <= Count(k)
    <2>1. k \in Lists BY DEF Lists
    <2>2. rec.post.ops[k] = <<>> BY DEF LastWrites
    <2>3. Len(rec.post.ops[k]) = 0 BY <2>2
    <2>4. Len(After(k)) = Len(rec.iso.ops[k]) /\ Len(rec.iso.ops[k]) \in Nat
      <3>1. /\ Len(rec.iso.ops[k]) \in Nat
            /\ Len(After(k)) = Len(rec.iso.ops[k]) + Len(rec.post.ops[k])
        BY <2>1, TraceFacts
      <3> QED BY <2>3, <3>1
    <2>5. Len(tac.ops[k]) = Len(rec.iso.ops[k]) BY <2>1 DEF AsFar
    <2>6. Len(After(k)) <= Len(tac.ops[k]) BY <2>4, <2>5
    <2> QED BY <2>1, <2>6, Counts
  <1>3. Count("call") = SubtreeCalls BY <1>1 DEF Count, SubtreeCalls, AsFar
  <1> QED BY <1>2, <1>3 DEF OutOfGas, AsFar

\* A program that has come as far as a recorded call that ran out of gas has no
\* other effect, with and without a deviation check.
THEOREM NoEffectBeyond ==
    ASSUME DevConfigured
    PROVE  DevSpec => [][StopsWhereEVMStopped]_devVars
PROOF
  <1>1. DevTypeOK /\ [DevNext]_devVars => [StopsWhereEVMStopped]_devVars
    <2> SUFFICES ASSUME DevTypeOK, DevNext, rec.oog, LastWrites, AsFar, state # "callee"
                 PROVE  UNCHANGED tac
      BY DEF StopsWhereEVMStopped
    <2>1. OutOfGas BY AsFarIsOutOfGas
    <2> QED BY <2>1 DEF DevNext, StopOutOfGas, StopDeviated, Effect, CalleeEffect,
                        CalleeReturns, Go, End, Report
  <1> QED BY <1>1, TypeCorrect, PTL DEF DevSpec

LEMMA SumBound ==
    ASSUME NEW n \in Nat, NEW u \in Nat, NEW m \in Nat, n + u <= m
    PROVE  n <= m
OBVIOUS

LEMMA SumCancel ==
    ASSUME NEW b \in Nat, NEW n \in Nat, NEW m \in Nat, b + m = b + n
    PROVE  n <= m
OBVIOUS

\* CheckOutOfGas leaves the run where the EVM left the call: not before the run
\* has had all effects of the recorded call, and before the program has another.
THEOREM OutOfGasIsExact ==
    ASSUME DevConfigured, Tracing
    PROVE  DevSpec => OutOfGasExact
PROOF
  <1>1. DevTypeOK /\ DevInv => NothingMissing
    <2> SUFFICES ASSUME DevTypeOK, DevInv, state = "OutOfGas", dev \in {"", "remaining"}
                 PROVE  /\ \A k \in Lists : /\ Len(rec.iso.ops[k]) <= Len(tac.ops[k])
                                            /\ \A i \in checked[k] : Agrees(k, i)
                        /\ tac.sha3 = rec.iso.sha3
      BY DEF NothingMissing
    <2>1. /\ OutOfGas /\ tac.sha3 \subseteq rec.iso.sha3
          /\ \A k \in Lists : \A i \in checked[k] : Agrees(k, i)
      BY DEF DevInv
    <2>2. tac.sha3 = rec.iso.sha3 BY <2>1 DEF OutOfGas
    <2>3. ASSUME NEW k \in Lists PROVE Len(rec.iso.ops[k]) <= Len(tac.ops[k])
      <3> DEFINE b == Len(rec.pre.ops[k])
                 n == Len(rec.iso.ops[k])
                 u == Len(rec.post.ops[k])
                 m == Len(tac.ops[k])
                 a == Len(After(k))
      <3>1. b \in Nat /\ n \in Nat /\ u \in Nat /\ m \in Nat /\ a = n + u BY TraceFacts
      <3>2. CASE k \in {"sstore", "log"}
        <4>1. Len(Trace(k)) <= Count(k) BY <3>2, <2>1 DEF OutOfGas
        <4>2. a <= m BY <4>1, Counts
        <4>3. n + u <= m BY <3>1, <4>2
        <4> HIDE DEF n, u, m
        <4>4. n <= m BY <3>1, <4>3, SumBound
        <4> QED BY <4>4 DEF n, m
      <3>3. CASE k = "call"
        <4>1. Count("call") = SubtreeCalls BY <2>1 DEF OutOfGas
        <4>2. b + m = b + n BY <4>1, <3>3 DEF Count, SubtreeCalls
        <4> HIDE DEF b, n, m
        <4>3. n <= m BY <3>1, <4>2, SumCancel
        <4> QED BY <4>3 DEF n, m
      <3> QED BY <3>2, <3>3 DEF Lists
    <2> QED BY <2>1, <2>2, <2>3
  <1>2. DevSpec => []NothingMissing BY <1>1, DevInvariant, PTL
  <1>3. DevSpec => [][StopsWhereEVMStopped]_devVars BY NoEffectBeyond
  <1> QED BY <1>2, <1>3, PTL DEF OutOfGasExact
===============================================================================
