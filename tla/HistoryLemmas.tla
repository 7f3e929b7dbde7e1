--------------------------- MODULE HistoryLemmas ---------------------------
(***************************************************************************)
(* What the member functions of History do to one object, for every        *)
(* length of the window, tolerance, date and value.                        *)
(***************************************************************************)
EXTENDS History, FiniteSetTheorems, WellFoundedInduction, SequenceTheorems, TLAPS

\* Every non-empty set of natural numbers has a least element: the intervals
\* 0 .. n, for n in the set, have a minimum for strict inclusion.
LEMMA LeastNatural ==
  ASSUME NEW S \in SUBSET Nat, S # {}
  PROVE  \E m \in S : \A n \in S : m <= n
<1> DEFINE U == {0 .. n : n \in S}
<1>1. IsWellFoundedOn(StrictSubsetOrdering(Nat), FiniteSubsetsOf(Nat))
  BY FS_StrictSubsetOrderingWellFounded
<1>2. U \subseteq FiniteSubsetsOf(Nat) /\ U # {}
  <2>1. \A n \in S : 0 .. n \in SUBSET Nat /\ IsFiniteSet(0 .. n)
    BY FS_Interval
  <2> QED
    BY <2>1 DEF FiniteSubsetsOf
<1>3. PICK X \in U : \A Y \in U : ~ (<<Y, X>> \in StrictSubsetOrdering(Nat))
  <2> HIDE DEF U
  <2> QED BY <1>1, <1>2, WFMin
<1>4. PICK m \in S : X = 0 .. m
  OBVIOUS
<1>5. ASSUME NEW n \in S, n < m
      PROVE  FALSE
  <2>1. 0 .. n \in U
    OBVIOUS
  <2>2. 0 .. n \in (SUBSET X) \ {X}
    <3>1. m \in X /\ m \notin 0 .. n
      BY <1>4, <1>5
    <3> QED BY <3>1, <1>4, <1>5
  <2>3. <<0 .. n, X>> \in StrictSubsetOrdering(Nat)
    BY <2>2, <1>4 DEF StrictSubsetOrdering
  <2> QED
    BY <1>3, <2>1, <2>3
<1> QED
  BY <1>5

\* Induction from 0 to n, for the set of the numbers a fact holds for.
LEMMA IntervalInduction ==
  ASSUME NEW n \in Nat, NEW S, 0 \in S,
         \A i \in 0 .. n - 1 : i \in S => i + 1 \in S
  PROVE  \A i \in 0 .. n : i \in S
<1> DEFINE T == {i \in 0 .. n : i \notin S}
<1> SUFFICES ASSUME T # {}
             PROVE  FALSE
  OBVIOUS
<1>1. PICK m \in T : \A i \in T : m <= i
  <2>1. T \in SUBSET Nat
    OBVIOUS
  <2> HIDE DEF T
  <2> QED
    BY <2>1, LeastNatural
<1>2. m \in 0 .. n /\ m \notin S /\ m # 0
  BY <1>1
<1>3. m - 1 \in 0 .. n - 1 /\ m - 1 \notin T
  <2>1. m - 1 \in 0 .. n - 1 /\ ~ (m <= m - 1)
    BY <1>2
  <2> QED
    BY <1>1, <2>1
<1>4. m - 1 \in S
  BY <1>3
<1>5. (m - 1) + 1 \in S
  BY <1>3, <1>4
<1>6. (m - 1) + 1 = m
  BY <1>2
<1> QED
  BY <1>2, <1>5, <1>6

-----------------------------------------------------------------------------

(* What every call keeps true of an object. *)
FrontOK(hist) ==
  hist.L # <<>> => /\ hist.oldest <= FirstOf(hist.L).t
                   /\ FirstOf(hist.L).t <= hist.oldest + FrontTol

WellFormed(hist) ==
  /\ hist \in HistoryObject
  /\ Increasing(hist.L)
  /\ FrontOK(hist)
  /\ hist.L # <<>> => CurrentTime(hist) - hist.oldest <= hist.Tmax

(***************************************************************************)
(* M is L with a pair for the last date: nothing is lost but a pair of     *)
(* that date.                                                              *)
(***************************************************************************)
Extended(L, M, new) ==
  \E n \in 0 .. Len(L) :
    /\ Len(M) = n + 1 /\ M[n + 1] = new
    /\ \A i \in 1 .. n : M[i] = L[i]
    /\ \A i \in 1 .. Len(L) : IF i <= n THEN L[i].t < new.t ELSE L[i].t = new.t

(***************************************************************************)
(* M is what is left of L when the window starts at start: nothing is made *)
(* up but a first pair, which is then dated start, and what is lost is     *)
(* before it and before start.                                             *)
(***************************************************************************)
Shortened(L, M, start) ==
  /\ L[1].t <= M[1].t
  /\ M[1].t = start \/ \E j \in 1 .. Len(L) : M[1] = L[j]
  /\ \A i \in 2 .. Len(M) : \E j \in 2 .. Len(L) : M[i] = L[j]
  /\ \A j \in 1 .. Len(L) :
       (\E i \in 1 .. Len(M) : M[i] = L[j]) \/ (L[j].t < start /\ L[j].t < M[1].t)

-----------------------------------------------------------------------------

\* The pairs of a history hold integers.
LEMMA PairType ==
  ASSUME NEW L \in Seq(Sample), NEW i \in 1 .. Len(L)
  PROVE  L[i] \in Sample /\ L[i].t \in Int /\ L[i].v \in Int
<1>1. L[i] \in Sample
  BY ElementOfSeq
<1> QED
  BY <1>1 DEF Sample

\* find_braketing_position has an answer on every vector, and it is the number
\* of pairs dated before t when the dates increase.
LEMMA BracketingPositionCorrect ==
  ASSUME NEW L \in Seq(Sample), NEW t \in Int
  PROVE  LET idx == BracketingPosition(L, t)
         IN  /\ idx \in 0 .. Len(L)
             /\ idx > 0      => L[idx].t < t
             /\ idx < Len(L) => L[idx + 1].t >= t
<1> DEFINE S == {n \in 0 .. Len(L) : n < Len(L) => L[n + 1].t >= t}
<1>1. \A i \in 1 .. Len(L) : L[i].t \in Int
  BY PairType
<1>2. S \in SUBSET Nat /\ Len(L) \in S
  OBVIOUS
<1>3. PICK m \in S : \A n \in S : m <= n
  <2> HIDE DEF S
  <2> QED BY <1>2, LeastNatural
<1>4. ASSUME m > 0
      PROVE  L[m].t < t
  <2>1. m \in 0 .. Len(L) /\ m - 1 \in 0 .. Len(L)
    BY <1>4, LenProperties
  <2>2. m - 1 \notin S
    <3> HIDE DEF S
    <3> QED BY <1>3, <2>1
  <2> QED BY <2>1, <2>2, <1>1
<1>5. \E idx \in 0 .. Len(L) : /\ idx > 0      => At(L, idx - 1).t < t
                               /\ idx < Len(L) => At(L, idx).t >= t
  BY <1>3, <1>4 DEF At
<1> QED
  BY <1>5 DEF BracketingPosition, At

\* The position searched for cuts an increasing vector where it should.
LEMMA BracketingPositionSplits ==
  ASSUME NEW L \in Seq(Sample), Increasing(L), NEW t \in Int
  PROVE  LET idx == BracketingPosition(L, t)
         IN  /\ \A i \in 1 .. idx : L[i].t < t
             /\ \A i \in idx + 1 .. Len(L) : L[i].t >= t
<1> DEFINE idx == BracketingPosition(L, t)
<1>1. /\ idx \in 0 .. Len(L)
      /\ idx > 0      => L[idx].t < t
      /\ idx < Len(L) => L[idx + 1].t >= t
  BY BracketingPositionCorrect
<1>2. \A i \in 1 .. Len(L) : L[i].t \in Int
  BY PairType
<1>3. ASSUME NEW i \in 1 .. Len(L), NEW j \in 1 .. Len(L), i < j
      PROVE  L[i].t < L[j].t
  <2>1. L[i].t + EqTol < L[j].t
    BY <1>3 DEF Increasing
  <2> QED
    BY <1>2, <2>1, ToleranceAssumption
<1> HIDE DEF idx
<1>4. ASSUME NEW i \in 1 .. idx
      PROVE  L[i].t < t
  BY <1>1, <1>2, <1>3
<1>5. ASSUME NEW i \in idx + 1 .. Len(L)
      PROVE  L[i].t >= t
  BY <1>1, <1>2, <1>3
<1> QED
  BY <1>4, <1>5 DEF idx

\* The value made up at the start of the window is a number: the two pairs of
\* the interval it is read from have different dates.
LEMMA InterpolationType ==
  ASSUME NEW L \in Seq(Sample), L # <<>>, Increasing(L),
         NEW idx \in Nat, NEW t \in Int
  PROVE  InterpolateInInterval(L, idx, t) \in Int
<1>1. \A i \in 1 .. Len(L) : L[i].t \in Int /\ L[i].v \in Int
  BY PairType
<1>2. CASE idx = 0 \/ idx >= Len(L)
  <2>1. L[1].v \in Int
    BY <1>1, EmptySeq
  <2> QED
    BY <1>2, <2>1 DEF InterpolateInInterval, FirstOf
<1>3. CASE idx # 0 /\ idx < Len(L)
  <2>1. L[idx].t + EqTol < L[idx + 1].t
    BY <1>3 DEF Increasing
  <2>2. L[idx + 1].t - L[idx].t \in Nat \ {0}
    BY <1>1, <1>3, <2>1, ToleranceAssumption
  <2>3. (t - L[idx].t) * (L[idx + 1].v - L[idx].v) \in Int
    BY <1>1, <1>3
  <2>4. OnLine(L[idx], L[idx + 1], t) \in Int
    BY <1>1, <1>3, <2>2, <2>3 DEF OnLine
  <2> QED
    BY <1>3, <2>4 DEF InterpolateInInterval, At
<1> QED
  BY <1>2, <1>3

-----------------------------------------------------------------------------

\* What a vector with one more pair in front holds.
LEMMA PushFront ==
  ASSUME NEW S, NEW e \in S, NEW s \in Seq(S)
  PROVE  LET r == <<e>> \o s
         IN  /\ r \in Seq(S)
             /\ Len(r) = Len(s) + 1
             /\ r[1] = e
             /\ \A i \in 1 .. Len(s) : r[i + 1] = s[i]
<1>1. <<e>> \in Seq(S) /\ Len(<<e>>) = 1 /\ <<e>>[1] = e
  OBVIOUS
<1> DEFINE r == <<e>> \o s
<1>2. /\ r \in Seq(S)
      /\ Len(r) = Len(<<e>>) + Len(s)
      /\ \A i \in 1 .. Len(<<e>>) + Len(s) :
           r[i] = IF i <= Len(<<e>>) THEN <<e>>[i] ELSE s[i - Len(<<e>>)]
  <2> HIDE DEF r
  <2> QED BY <1>1, ConcatProperties DEF r
<1>3. Len(s) \in Nat
  BY LenProperties
<1> HIDE DEF r
<1>4. Len(r) = Len(s) + 1 /\ r[1] = e
  BY <1>1, <1>2, <1>3
<1>5. ASSUME NEW i \in 1 .. Len(s)
      PROVE  r[i + 1] = s[i]
  BY <1>1, <1>2, <1>3
<1> QED
  BY <1>2, <1>4, <1>5 DEF r

\* Shift, on a vector that was just recorded into, leaves a well-formed
\* history whose last pair and whose pairs inside the window are those it had.
LEMMA ShiftEffect ==
  ASSUME NEW hist \in HistoryObject, hist.L # <<>>,
         Increasing(hist.L), FrontOK(hist)
  PROVE  LET s     == Shift(hist)
             start == CurrentTime(hist) - hist.Tmax
         IN  /\ WellFormed(s)
             /\ s.L # <<>>
             /\ s.Tmax = hist.Tmax
             /\ LastOf(s.L) = LastOf(hist.L)
             /\ Samples(s) = Samples(hist)
             /\ Shortened(hist.L, s.L, start)
<1> DEFINE L     == hist.L
           now   == CurrentTime(hist)
           start == now - hist.Tmax
           idx   == BracketingPosition(L, start)
           kept  == SubSeq(L, idx + 1, Len(L))
           vmin  == InterpolateInInterval(L, 1, start)
           s     == Shift(hist)
<1>1. /\ L \in Seq(Sample) /\ Len(L) \in Nat \ {0}
      /\ hist.Tmax \in Nat /\ hist.oldest \in Int
  BY EmptySeq DEF HistoryObject
<1>2. now = L[Len(L)].t /\ now \in Int /\ start \in Int
  BY <1>1, PairType DEF CurrentTime, LastOf
<1>3. \A i \in 1 .. Len(L) : L[i] \in Sample /\ L[i].t \in Int
  BY <1>1, PairType
<1>4. /\ idx \in 0 .. Len(L)
      /\ \A i \in 1 .. idx : L[i].t < start
      /\ \A i \in idx + 1 .. Len(L) : L[i].t >= start
  BY <1>1, <1>2, BracketingPositionCorrect, BracketingPositionSplits
<1>5. idx < Len(L)
  BY <1>1, <1>2, <1>4
<1>6. /\ kept \in Seq(Sample)
      /\ Len(kept) = Len(L) - idx
      /\ \A i \in 1 .. Len(kept) : kept[i] = L[idx + i]
  <2> HIDE DEF L, idx
  <2>1. \A i \in idx + 1 .. Len(L) : L[i] \in Sample
    BY <1>3, <1>4
  <2>2. idx + 1 \in Int /\ Len(L) \in Int /\ Len(L) - (idx + 1) + 1 = Len(L) - idx
    BY <1>1, <1>4
  <2>3. /\ kept \in Seq(Sample)
        /\ Len(kept) = Len(L) - (idx + 1) + 1
        /\ \A i \in 1 .. Len(L) - (idx + 1) + 1 : kept[i] = L[(idx + 1) + i - 1]
    <3>1. idx + 1 <= Len(L)
      BY <1>1, <1>4, <1>5
    <3> QED
      BY <2>1, <2>2, <3>1, SubSeqProperties
  <2>4. ASSUME NEW i \in 1 .. Len(kept)
        PROVE  kept[i] = L[idx + i]
    <3>1. i \in 1 .. Len(L) - (idx + 1) + 1
      BY <2>2, <2>3
    <3>2. (idx + 1) + i - 1 = idx + i
      BY <1>4
    <3> HIDE DEF kept
    <3> QED
      BY <2>3, <3>1, <3>2
  <2> HIDE DEF kept
  <2> QED
    BY <2>2, <2>3, <2>4
<1>7. vmin \in Int
  BY <1>1, <1>2, InterpolationType
<1>8. CASE now - hist.oldest < hist.Tmax
  <2>1. s = hist
    BY <1>1, <1>2, <1>8 DEF Shift
  <2>2. now - hist.oldest <= hist.Tmax
    BY <1>1, <1>2, <1>8
  <2>3. WellFormed(hist)
    BY <2>2 DEF WellFormed
  <2>4. Shortened(L, L, start)
    <3>1. 1 \in 1 .. Len(L)
      BY <1>1
    <3> QED
      BY <1>1, <1>3, <3>1 DEF Shortened
  <2> QED
    BY <2>1, <2>3, <2>4
<1>9. CASE now - hist.oldest >= hist.Tmax
  <2> DEFINE made == <<[t |-> start, v |-> vmin]>>
             NL   == IF AlmostEqual(kept[1].t, start, FrontTol)
                       THEN kept ELSE made \o kept
  <2>1. s = [hist EXCEPT !.oldest = start, !.L = NL]
    BY <1>9 DEF Shift, FirstOf
  <2>2. s.L = NL /\ s.oldest = start /\ s.Tmax = hist.Tmax
    BY <2>1 DEF HistoryObject
  <2>3. [t |-> start, v |-> vmin] \in Sample
    BY <1>2, <1>7 DEF Sample
  \* The new vector is kept, after zero or one made-up pair dated start.
  <2>4. PICK n \in 0 .. 1 :
          /\ NL \in Seq(Sample)
          /\ Len(NL) = Len(kept) + n
          /\ \A i \in 1 .. Len(kept) : NL[i + n] = kept[i]
          /\ n = 1 => /\ NL[1].t = start
                      /\ ~ AlmostEqual(kept[1].t, start, FrontTol)
          /\ n = 0 => AlmostEqual(kept[1].t, start, FrontTol)
    <3>1. CASE AlmostEqual(kept[1].t, start, FrontTol)
      <4> HIDE DEF kept, made
      <4> QED BY <1>6, <3>1
    <3>2. CASE ~ AlmostEqual(kept[1].t, start, FrontTol)
      <4>1. NL = made \o kept
        BY <3>2
      <4>2. /\ made \o kept \in Seq(Sample)
            /\ Len(made \o kept) = Len(kept) + 1
            /\ (made \o kept)[1] = [t |-> start, v |-> vmin]
            /\ \A i \in 1 .. Len(kept) : (made \o kept)[i + 1] = kept[i]
        <5> HIDE DEF kept, vmin, start
        <5> QED BY <1>6, <2>3, PushFront
      <4> HIDE DEF NL, made, kept
      <4> QED
        BY <3>2, <4>1, <4>2
    <3> QED
      BY <3>1, <3>2
  <2> HIDE DEF NL, kept, made, vmin, idx
  <2>5. /\ Len(NL) = Len(L) - idx + n
        /\ \A k \in n + 1 .. Len(NL) : /\ idx + k - n \in idx + 1 .. Len(L)
                                       /\ NL[k] = L[idx + k - n]
    <3>1. Len(NL) = Len(L) - idx + n
      BY <1>6, <2>4
    <3>2. ASSUME NEW k \in n + 1 .. Len(NL)
          PROVE  /\ idx + k - n \in idx + 1 .. Len(L)
                 /\ NL[k] = L[idx + k - n]
      <4>1. k - n \in 1 .. Len(kept) /\ NL[(k - n) + n] = kept[k - n]
        BY <1>1, <1>4, <1>6, <2>4, <3>1
      <4>2. (k - n) + n = k /\ idx + (k - n) = idx + k - n
        BY <1>1, <1>4, <1>6, <3>1
      <4>3. idx + k - n \in idx + 1 .. Len(L)
        <5> HIDE DEF L
        <5> QED
          BY <1>1, <1>4, <1>6, <4>1
      <4>4. kept[k - n] = L[idx + (k - n)]
        BY <1>6, <4>1
      <4> QED
        BY <4>1, <4>2, <4>3, <4>4, Zenon
    <3> QED
      BY <3>1, <3>2
  <2>6. Len(NL) \in Nat \ {0} /\ NL # <<>>
    BY <1>1, <1>4, <1>5, <1>6, <2>4, EmptySeq
  <2>7. LastOf(NL) = LastOf(L)
    <3>1. Len(NL) \in n + 1 .. Len(NL) /\ idx + Len(NL) - n = Len(L)
      BY <1>1, <1>4, <1>5, <2>5
    <3>2. NL[Len(NL)] = L[Len(L)]
      BY <2>5, <3>1
    <3> QED BY <3>2 DEF LastOf
  <2>8. CurrentTime(s) = now
    BY <1>2, <2>2, <2>6, <2>7 DEF CurrentTime, LastOf
  <2>9. n = 1 => \A i \in idx + 1 .. Len(L) : start + FrontTol < L[i].t
    <3> SUFFICES ASSUME n = 1, NEW i \in idx + 1 .. Len(L)
                 PROVE  start + FrontTol < L[i].t
      OBVIOUS
    <3>1. kept[1] = L[idx + 1] /\ idx + 1 \in 1 .. Len(L)
      BY <1>1, <1>4, <1>5, <1>6
    <3>2. start + FrontTol < L[idx + 1].t
      BY <1>2, <1>3, <1>4, <2>4, <3>1, ToleranceAssumption DEF AlmostEqual
    <3>3. CASE i = idx + 1
      BY <3>2, <3>3
    <3>4. CASE i # idx + 1
      <4>1. i \in 1 .. Len(L) /\ idx + 1 < i
        BY <1>1, <1>4, <3>4
      <4>2. L[idx + 1].t + EqTol < L[i].t
        BY <3>1, <4>1 DEF Increasing
      <4>3. /\ start \in Int /\ L[idx + 1].t \in Int /\ L[i].t \in Int
            /\ EqTol \in Int /\ 0 <= EqTol /\ FrontTol \in Int
        BY <1>2, <1>3, <3>1, <4>1, ToleranceAssumption
      <4> HIDE DEF L, start
      <4> QED
        BY <3>2, <4>2, <4>3
    <3> QED
      BY <3>3, <3>4
  <2>10. Increasing(NL)
    <3> SUFFICES ASSUME NEW i \in 1 .. Len(NL), NEW j \in 1 .. Len(NL), i < j
                 PROVE  NL[i].t + EqTol < NL[j].t
      BY DEF Increasing
    <3>1. CASE i <= n
      <4>1. n = 1 /\ i = 1 /\ j \in n + 1 .. Len(NL)
        BY <2>6, <3>1
      <4>2. NL[i].t = start
        BY <2>4, <4>1
      <4>3. idx + j - n \in idx + 1 .. Len(L) /\ NL[j] = L[idx + j - n]
        BY <2>5, <4>1
      <4>4. start + FrontTol < NL[j].t /\ NL[j].t \in Int
        BY <1>3, <1>4, <2>9, <4>1, <4>3
      <4> QED
        BY <1>2, <4>2, <4>4, ToleranceAssumption
    <3>2. CASE i > n
      <4>1. i \in n + 1 .. Len(NL) /\ j \in n + 1 .. Len(NL)
        BY <2>6, <3>2
      <4>2. /\ idx + i - n \in 1 .. Len(L) /\ idx + j - n \in 1 .. Len(L)
            /\ idx + i - n < idx + j - n
        BY <1>1, <1>4, <2>5, <4>1
      <4>3. L[idx + i - n].t + EqTol < L[idx + j - n].t
        BY <4>2 DEF Increasing
      <4>4. NL[i] = L[idx + i - n] /\ NL[j] = L[idx + j - n]
        BY <2>5, <4>1
      <4> HIDE DEF L
      <4> QED
        BY <4>3, <4>4
    <3> QED
      BY <2>6, <3>1, <3>2
  <2>11. start <= NL[1].t /\ NL[1].t <= start + FrontTol
    <3>1. CASE n = 1
      BY <1>2, <2>4, <3>1, ToleranceAssumption
    <3>2. CASE n = 0
      <4>1. 1 \in 1 .. Len(kept) /\ idx + 1 \in idx + 1 .. Len(L)
        BY <1>1, <1>4, <1>5, <1>6
      <4>2. NL[1 + n] = kept[1] /\ 1 + n = 1
        BY <2>4, <3>2, <4>1
      <4>3. NL[1] = kept[1] /\ kept[1] = L[idx + 1] /\ L[idx + 1].t >= start
        BY <1>4, <1>6, <4>1, <4>2
      <4>4. kept[1].t - start <= FrontTol
        BY <2>4, <3>2 DEF AlmostEqual
      <4>5. L[idx + 1].t \in Int /\ start \in Int /\ FrontTol \in Int
        BY <1>2, <1>3, <1>4, <4>1, ToleranceAssumption
      <4> HIDE DEF L, start
      <4> QED
        BY <4>3, <4>4, <4>5
    <3> QED
      BY <3>1, <3>2
  <2>12. WellFormed(s)
    <3>1. s \in HistoryObject
      BY <1>2, <2>1, <2>4 DEF HistoryObject
    <3>2. CurrentTime(s) - s.oldest <= s.Tmax
      BY <1>1, <1>2, <2>2, <2>8
    <3>3. FrontOK(s)
      BY <2>2, <2>11 DEF FrontOK, FirstOf
    <3> QED
      BY <2>2, <2>10, <3>1, <3>2, <3>3 DEF WellFormed
  <2>13. Samples(s) = Samples(hist)
    <3> DEFINE I == {j \in 1 .. Len(L) : L[j].t > start \/ j = Len(L)}
               J == {j \in 1 .. Len(NL) : NL[j].t > start \/ j = Len(NL)}
    <3>1. Samples(hist) = {L[i] : i \in I} /\ Samples(s) = {NL[i] : i \in J}
      BY <2>2, <2>8 DEF Samples
    <3>2. ASSUME NEW i \in J
          PROVE  \E k \in I : NL[i] = L[k]
      <4>1. i \in n + 1 .. Len(NL)
        <5>1. n = 1 /\ i = 1 => NL[i].t = start /\ ~ NL[i].t > start /\ i # Len(NL)
          BY <1>1, <1>2, <1>4, <1>5, <2>4, <2>5
        <5> QED
          BY <2>4, <2>6, <5>1
      <4>2. idx + i - n \in 1 .. Len(L) /\ NL[i] = L[idx + i - n]
        BY <1>1, <1>4, <2>5, <4>1
      <4>3. i = Len(NL) => idx + i - n = Len(L)
        BY <1>1, <1>4, <2>5
      <4>4. L[idx + i - n].t > start \/ idx + i - n = Len(L)
        BY <4>2, <4>3
      <4> QED
        BY <4>2, <4>4
    <3>3. ASSUME NEW k \in I
          PROVE  \E i \in J : L[k] = NL[i]
      <4>1. k \in idx + 1 .. Len(L)
        BY <1>1, <1>2, <1>3, <1>4, <1>5
      <4>2. k - idx + n \in n + 1 .. Len(NL) /\ idx + (k - idx + n) - n = k
        BY <1>1, <1>4, <2>5, <4>1
      <4>3. NL[k - idx + n] = L[k]
        BY <2>5, <4>2
      <4>4. k - idx + n \in 1 .. Len(NL)
        BY <2>4, <4>2
      <4>5. k = Len(L) => k - idx + n = Len(NL)
        <5> HIDE DEF L
        <5> QED
          BY <1>1, <1>4, <2>5, <4>1
      <4>6. NL[k - idx + n].t > start \/ k - idx + n = Len(NL)
        BY <4>3, <4>5
      <4>7. k - idx + n \in J
        BY <4>4, <4>6
      <4> QED
        BY <4>3, <4>7
    <3> HIDE DEF I, J, L, s
    <3> QED
      BY <3>1, <3>2, <3>3
  <2>14. Shortened(L, NL, start)
    <3>1. n = 1 => idx >= 1
      <4> SUFFICES ASSUME n = 1, idx = 0
                   PROVE  FALSE
        BY <1>4
      <4>1. start + FrontTol < L[1].t
        BY <1>1, <2>9
      <4>2. L[1].t <= hist.oldest + FrontTol /\ hist.oldest <= start
        BY <1>1, <1>2, <1>9 DEF FrontOK, FirstOf
      <4>3. L[1].t \in Int /\ FrontTol \in Int
        BY <1>1, <1>3, ToleranceAssumption
      <4> HIDE DEF L, start
      <4> QED
        BY <1>1, <1>2, <4>1, <4>2, <4>3
    <3>2. L[1].t <= NL[1].t
      <4>1. CASE n = 1
        <5>1. NL[1].t = start /\ L[1].t < start
          BY <1>4, <2>4, <3>1, <4>1
        <5> QED
          BY <1>1, <1>2, <1>3, <5>1
      <4>2. CASE n = 0
        <5>1. NL[1] = L[idx + 1] /\ idx + 1 \in 1 .. Len(L)
          BY <1>1, <1>4, <1>5, <2>5, <2>6, <4>2
        <5>2. idx = 0 \/ L[1].t < start
          BY <1>4
        <5>3. L[idx + 1].t >= start
          BY <1>1, <1>4, <1>5
        <5>4. L[1].t \in Int /\ L[idx + 1].t \in Int
          BY <1>1, <1>3, <5>1
        <5> HIDE DEF L, start
        <5> QED
          BY <1>2, <5>1, <5>2, <5>3, <5>4
      <4> QED
        BY <4>1, <4>2
    <3>3. ASSUME NEW i \in 2 .. Len(NL)
          PROVE  \E j \in 2 .. Len(L) : NL[i] = L[j]
      <4>1. i \in n + 1 .. Len(NL)
        BY <2>4, <2>6
      <4>2. /\ idx + i - n \in idx + 1 .. Len(L)
            /\ NL[i] = L[idx + i - n]
        BY <2>5, <4>1
      <4>3. idx + i - n \in 2 .. Len(L)
        BY <1>1, <1>4, <3>1, <4>2
      <4> QED
        BY <4>2, <4>3
    <3>4. ASSUME NEW j \in 1 .. Len(L)
          PROVE  \/ \E i \in 1 .. Len(NL) : NL[i] = L[j]
                 \/ L[j].t < start /\ L[j].t < NL[1].t
      <4>1. CASE j <= idx
        <5>1. L[j].t < start /\ start <= NL[1].t
          BY <1>4, <2>11, <4>1
        <5>2. L[j].t \in Int /\ NL[1].t \in Int
          BY <1>3, <2>4, <2>6, PairType
        <5> HIDE DEF L, start
        <5> QED
          BY <1>2, <5>1, <5>2
      <4>2. CASE j > idx
        <5>1. j - idx + n \in n + 1 .. Len(NL) /\ idx + (j - idx + n) - n = j
          BY <1>1, <1>4, <2>5, <4>2
        <5>2. NL[j - idx + n] = L[j] /\ j - idx + n \in 1 .. Len(NL)
          BY <2>4, <2>5, <5>1
        <5> QED
          BY <5>2
      <4> QED
        BY <1>4, <4>1, <4>2
    <3>5. NL[1].t = start \/ \E j \in 1 .. Len(L) : NL[1] = L[j]
      <4>1. CASE n = 1
        BY <2>4, <4>1
      <4>2. CASE n = 0
        <5>1. NL[1] = L[idx + 1] /\ idx + 1 \in 1 .. Len(L)
          BY <1>1, <1>4, <1>5, <2>5, <2>6, <4>2
        <5> QED
          BY <5>1
      <4> QED
        BY <4>1, <4>2
    <3> QED
      BY <3>2, <3>3, <3>4, <3>5 DEF Shortened
  <2> QED
    BY <2>2, <2>6, <2>7, <2>12, <2>13, <2>14
<1> QED
  BY <1>8, <1>9, <1>1, <1>2

-----------------------------------------------------------------------------

\* A date that is not refused is the last one, or lies beyond its tolerance.
LEMMA SnapEffect ==
  ASSUME NEW hist \in HistoryObject, NEW t \in Int, InOrder(hist, t)
  PROVE  LET d == SnapToBack(hist, t)
         IN  /\ d \in Int
             /\ hist.L # <<>> => /\ CurrentTime(hist) \in Int
                                 /\ \/ d = CurrentTime(hist)
                                    \/ CurrentTime(hist) + EqTol < d
             /\ d = t \/ (hist.L # <<>> /\ d = CurrentTime(hist))
<1>1. CASE hist.L = <<>>
  BY <1>1 DEF SnapToBack
<1>2. CASE hist.L # <<>>
  <2>1. hist.L \in Seq(Sample) /\ Len(hist.L) \in Nat \ {0}
    BY <1>2, EmptySeq DEF HistoryObject
  <2>2. LastOf(hist.L).t \in Int
    BY <2>1, PairType DEF LastOf
  <2> QED
    BY <1>2, <2>2, ToleranceAssumption
    DEF SnapToBack, InOrder, CurrentTime, AlmostEqual
<1> QED
  BY <1>1, <1>2

\* update_oldest_recorded_instant and add_value_to_history, called on such a
\* date, replace the last pair or append one.
LEMMA AddValueEffect ==
  ASSUME NEW hist, WellFormed(hist), NEW d \in Int, NEW v \in Int,
         hist.L # <<>> => \/ d = CurrentTime(hist)
                          \/ CurrentTime(hist) + EqTol < d
  PROVE  LET a   == AddValue(UpdateOldest(hist, d), d, v)
             new == [t |-> d, v |-> v]
         IN  /\ a.Tmax = hist.Tmax
             /\ a.L = IF hist.L # <<>> /\ d = CurrentTime(hist)
                        THEN [hist.L EXCEPT ![Len(hist.L)] = new]
                        ELSE Append(hist.L, new)
             /\ a.oldest = IF hist.L = <<>> THEN d ELSE hist.oldest
             /\ a \in HistoryObject
<1> DEFINE L   == hist.L
           u   == UpdateOldest(hist, d)
           a   == AddValue(u, d, v)
           new == [t |-> d, v |-> v]
           idx == BracketingPosition(L, d)
<1>1. /\ L \in Seq(Sample) /\ Len(L) \in Nat /\ hist.Tmax \in Nat
      /\ hist.oldest \in Int /\ hist \in HistoryObject
      /\ L # <<>> => Len(L) # 0
  BY EmptySeq, LenProperties DEF WellFormed, HistoryObject
<1>2. \A i \in 1 .. Len(L) : L[i] \in Sample /\ L[i].t \in Int
  BY <1>1, PairType
<1>3. new \in Sample
  BY DEF Sample
<1>4. u = [hist EXCEPT !.oldest = IF L = <<>> THEN d ELSE hist.oldest]
  <2>1. CASE L = <<>>
    BY <2>1 DEF UpdateOldest
  <2>2. CASE L # <<>>
    <3>1. CurrentTime(hist) = L[Len(L)].t /\ FirstOf(L) = L[1]
      BY <2>2 DEF CurrentTime, LastOf, FirstOf
    <3>2. hist.oldest <= L[1].t
      BY <2>2, <3>1 DEF WellFormed, FrontOK
    <3>3. L[1].t <= L[Len(L)].t
      <4>1. CASE Len(L) = 1
        BY <1>1, <1>2, <4>1
      <4>2. CASE Len(L) # 1
        <5>1. Len(L) \in Nat \ {0, 1}
          BY <1>1, <2>2, <4>2
        <5>2. 1 \in 1 .. Len(L) /\ Len(L) \in 1 .. Len(L) /\ 1 < Len(L)
          <6>1. \A k \in Nat \ {0, 1} : 1 \in 1 .. k /\ k \in 1 .. k /\ 1 < k
            OBVIOUS
          <6> QED
            BY <5>1, <6>1, Zenon
        <5>3. L[1].t + EqTol < L[Len(L)].t
          BY <5>2 DEF WellFormed, Increasing
        <5> QED
          BY <1>2, <5>2, <5>3, ToleranceAssumption
      <4> QED
        BY <4>1, <4>2
    <3>4. ~ (d < hist.oldest)
      BY <1>1, <1>2, <2>2, <3>1, <3>2, <3>3, ToleranceAssumption
    <3> QED
      BY <2>2, <3>4 DEF UpdateOldest
  <2> QED
    BY <2>1, <2>2
<1>5. u.L = L /\ u.Tmax = hist.Tmax
      /\ u.oldest = (IF L = <<>> THEN d ELSE hist.oldest) /\ u \in HistoryObject
  BY <1>1, <1>4 DEF HistoryObject
<1>6. /\ idx \in 0 .. Len(L)
      /\ \A i \in 1 .. idx : L[i].t < d
      /\ \A i \in idx + 1 .. Len(L) : L[i].t >= d
  BY <1>1, BracketingPositionCorrect, BracketingPositionSplits DEF WellFormed
<1>7. CASE L # <<>> /\ d = CurrentTime(hist)
  <2>1. d = L[Len(L)].t /\ Len(L) \in Nat \ {0}
    BY <1>1, <1>7 DEF CurrentTime, LastOf
  <2>2. idx + 1 = Len(L)
    <3>1. idx < Len(L)
      BY <1>1, <1>2, <1>6, <2>1
    <3>2. CASE idx + 1 < Len(L)
      <4>1. L[idx + 1].t + EqTol < L[Len(L)].t
        BY <1>1, <1>6, <3>2 DEF WellFormed, Increasing
      <4>2. idx + 1 \in idx + 1 .. Len(L) /\ idx + 1 \in 1 .. Len(L)
        BY <1>1, <1>6, <3>2
      <4>3. L[idx + 1].t >= d
        BY <1>6, <4>2
      <4>4. L[idx + 1].t \in Int /\ d \in Int /\ EqTol \in Nat
        BY <1>1, <1>2, <2>1, <4>2, ToleranceAssumption
      <4> HIDE DEF L
      <4> QED
        BY <2>1, <4>1, <4>3, <4>4
    <3> QED
      BY <1>1, <1>6, <3>1, <3>2
  <2>3. idx # Len(L) /\ AlmostEqual(At(L, idx).t, d, EqTol)
    BY <1>1, <2>1, <2>2, ToleranceAssumption DEF AlmostEqual, At
  <2>4. a = [u EXCEPT !.L = [L EXCEPT ![Len(L)] = new]]
    BY <1>5, <2>2, <2>3 DEF AddValue
  <2>5. [L EXCEPT ![Len(L)] = new] \in Seq(Sample)
    BY <1>1, <1>3, <2>1, ExceptSeq
  <2> QED
    BY <1>5, <1>7, <2>4, <2>5 DEF HistoryObject
<1>8. CASE ~ (L # <<>> /\ d = CurrentTime(hist))
  <2>1. idx = Len(L)
    <3>1. CASE L = <<>>
      BY <1>1, <1>6, <3>1
    <3>2. CASE L # <<>>
      <4>1. L[Len(L)].t + EqTol < d
        BY <1>8, <3>2 DEF CurrentTime, LastOf
      <4>2. Len(L) \in 1 .. Len(L) /\ L[Len(L)].t < d
        BY <1>1, <1>2, <3>2, <4>1, ToleranceAssumption
      <4>3. ~ (idx < Len(L))
        <5> HIDE DEF L, idx
        <5>1. ASSUME idx < Len(L)
              PROVE  Len(L) \in idx + 1 .. Len(L)
          BY <1>6, <4>2, <5>1
        <5> QED BY <1>2, <1>6, <4>2, <5>1
      <4> QED
        BY <1>6, <4>3
    <3> QED
      BY <3>1, <3>2
  <2>2. a = [u EXCEPT !.L = SubSeq(L, 1, Len(L)) \o <<new>>
                              \o SubSeq(L, Len(L) + 1, Len(L))]
    BY <1>5, <2>1 DEF AddValue
  <2>3. /\ SubSeq(L, 1, Len(L)) = L
        /\ SubSeq(L, Len(L) + 1, Len(L)) = <<>>
        /\ L \o <<new>> = Append(L, new)
        /\ Append(L, new) \in Seq(Sample)
        /\ Append(L, new) \o <<>> = Append(L, new)
    BY <1>1, <1>3, SubSeqFull, SubSeqEmpty, AppendIsConcat, AppendProperties,
       ConcatEmptySeq
  <2>4. a = [u EXCEPT !.L = Append(L, new)]
    BY <2>2, <2>3
  <2> QED
    BY <1>5, <1>8, <2>3, <2>4 DEF HistoryObject
<1> QED
  BY <1>7, <1>8

\* The whole of record: the new sample is the last pair, the history stays
\* well formed, and of the samples it held it loses those that left the window
\* and the one the new sample replaces.
LEMMA RecordedPairs ==
  ASSUME NEW hist, WellFormed(hist), NEW t \in Int, NEW v \in Int,
         InOrder(hist, t)
  PROVE  LET r   == Recorded(hist, t, v)
             d   == SnapToBack(hist, t)
             new == [t |-> d, v |-> v]
         IN  /\ WellFormed(r)
             /\ r.L # <<>>
             /\ r.Tmax = hist.Tmax
             /\ CurrentTime(r) = d /\ LastOf(r.L) = new
             /\ Samples(r) = {s \in Samples(hist) : s.t > d - hist.Tmax /\ s.t # d}
                               \union {new}
             /\ \A s \in Samples(hist) : s.t <= d
             /\ \E M \in Seq(Sample) : /\ Extended(hist.L, M, new)
                                      /\ Shortened(M, r.L, d - hist.Tmax)
<1> DEFINE r   == Recorded(hist, t, v)
           d   == SnapToBack(hist, t)
           new == [t |-> d, v |-> v]
           L   == hist.L
           a   == AddValue(UpdateOldest(hist, d), d, v)
<1>1. /\ hist \in HistoryObject /\ L \in Seq(Sample) /\ Len(L) \in Nat
      /\ hist.Tmax \in Nat /\ hist.oldest \in Int
      /\ L # <<>> => Len(L) # 0
  BY EmptySeq, LenProperties DEF WellFormed, HistoryObject
<1>2. \A i \in 1 .. Len(L) : L[i] \in Sample /\ L[i].t \in Int
  BY <1>1, PairType
<1>3. /\ d \in Int
      /\ L # <<>> => /\ CurrentTime(hist) = L[Len(L)].t
                     /\ d = L[Len(L)].t \/ L[Len(L)].t + EqTol < d
  BY <1>1, SnapEffect DEF CurrentTime, LastOf
<1>4. new \in Sample
  BY <1>3 DEF Sample
<1> DEFINE replaces == L # <<>> /\ d = L[Len(L)].t
<1>5. /\ a.Tmax = hist.Tmax
      /\ a.L = IF replaces THEN [L EXCEPT ![Len(L)] = new] ELSE Append(L, new)
      /\ a.oldest = IF L = <<>> THEN d ELSE hist.oldest
      /\ a \in HistoryObject
  <2> HIDE DEF a, d
  <2>1. L # <<>> => d = CurrentTime(hist) \/ CurrentTime(hist) + EqTol < d
    BY <1>3
  <2> QED
    BY <1>3, <2>1, AddValueEffect DEF a
<1>6. r = Shift(a)
  BY DEF Recorded
\* The pairs of L that the new one does not replace come first, unchanged.
<1> DEFINE n == IF replaces THEN Len(L) - 1 ELSE Len(L)
<1>7. /\ n \in 0 .. Len(L)
      /\ Len(a.L) = n + 1
      /\ \A i \in 1 .. n : a.L[i] = L[i]
      /\ a.L[n + 1] = new
  <2> HIDE DEF a, d, new
  <2>1. CASE replaces
    BY <1>1, <1>4, <1>5, <2>1, ExceptSeq
  <2>2. CASE ~ replaces
    BY <1>1, <1>4, <1>5, <2>2, AppendProperties
  <2> QED
    BY <2>1, <2>2
<1> HIDE DEF a, d
<1>8. ASSUME NEW i \in 1 .. Len(L)
      PROVE  /\ i <= n => L[i].t + EqTol < d
             /\ L[i].t <= d
             /\ i > n => i = Len(L) /\ d = L[i].t
  <2>1. L # <<>> /\ Len(L) \in 1 .. Len(L)
    BY <1>1, EmptySeq
  <2>2. i < Len(L) => L[i].t + EqTol < L[Len(L)].t
    BY <2>1 DEF WellFormed, Increasing
  <2>3. CASE replaces
    <3>1. n = Len(L) - 1 /\ d = L[Len(L)].t
      BY <2>3
    <3>2. L[i].t \in Int /\ L[Len(L)].t \in Int /\ EqTol \in Int /\ 0 <= EqTol
      BY <1>2, <2>1, ToleranceAssumption
    <3>3. i = Len(L) \/ i < Len(L)
      BY <1>1
    <3> HIDE DEF n, L, d
    <3> QED
      BY <1>1, <2>1, <2>2, <3>1, <3>2, <3>3
  <2>4. CASE ~ replaces
    <3>1. L[Len(L)].t + EqTol < d
      BY <1>3, <2>1, <2>4
    <3>2. n = Len(L)
      BY <2>4
    <3> HIDE DEF n, L, replaces
    <3> QED
      BY <1>1, <1>2, <1>3, <2>1, <2>2, <3>1, <3>2, ToleranceAssumption
  <2> QED
    BY <2>3, <2>4
<1> HIDE DEF n
<1>9. /\ a.L # <<>> /\ Len(a.L) \in Nat \ {0}
      /\ CurrentTime(a) = d /\ LastOf(a.L) = new /\ FirstOf(a.L) = a.L[1]
  BY <1>7, EmptySeq DEF CurrentTime, LastOf, FirstOf
<1>10. Increasing(a.L)
  <2> SUFFICES ASSUME NEW i \in 1 .. Len(a.L), NEW j \in 1 .. Len(a.L), i < j
               PROVE  a.L[i].t + EqTol < a.L[j].t
    BY DEF Increasing
  <2>1. i \in 1 .. n /\ i \in 1 .. Len(L) /\ a.L[i] = L[i]
    BY <1>1, <1>7
  <2>2. CASE j = n + 1
    BY <1>7, <1>8, <2>1, <2>2
  <2>3. CASE j # n + 1
    <3>1. j \in 1 .. n /\ j \in 1 .. Len(L) /\ a.L[j] = L[j]
      BY <1>1, <1>7, <2>3
    <3> QED
      BY <2>1, <3>1 DEF WellFormed, Increasing
  <2> QED
    BY <2>2, <2>3
<1>11. FrontOK(a)
  <2>1. CASE L = <<>>
    <3>1. n = 0
      BY <1>1, <1>7, <2>1
    <3>2. a.L[1] = new /\ a.oldest = d
      BY <1>5, <1>7, <2>1, <3>1
    <3> QED
      BY <1>3, <1>9, <3>2, ToleranceAssumption DEF FrontOK
  <2>2. CASE L # <<>>
    <3>1. 1 \in 1 .. Len(L) /\ a.oldest = hist.oldest
      BY <1>1, <1>5, <2>2
    <3>2. a.L[1].t = L[1].t
      <4>1. CASE n = 0
        BY <1>7, <1>8, <3>1, <4>1
      <4>2. CASE n # 0
        BY <1>7, <4>2
      <4> QED
        BY <4>1, <4>2
    <3> QED
      BY <1>9, <2>2, <3>1, <3>2 DEF WellFormed, FrontOK, FirstOf
  <2> QED
    BY <2>1, <2>2
<1>12. /\ WellFormed(r) /\ r.L # <<>> /\ r.Tmax = hist.Tmax
       /\ LastOf(r.L) = LastOf(a.L) /\ Samples(r) = Samples(a)
       /\ Shortened(a.L, r.L, d - hist.Tmax)
  <2> HIDE DEF a
  <2> QED BY <1>5, <1>6, <1>9, <1>10, <1>11, ShiftEffect
<1>13. Samples(a) = {s \in Samples(hist) : s.t > d - hist.Tmax /\ s.t # d}
                      \union {new}
  <2> DEFINE I == {i \in 1 .. Len(L) : \/ L[i].t > CurrentTime(hist) - hist.Tmax
                                      \/ i = Len(L)}
             J == {i \in 1 .. Len(a.L) : \/ a.L[i].t > d - hist.Tmax
                                        \/ i = Len(a.L)}
             T == {s \in Samples(hist) : s.t > d - hist.Tmax /\ s.t # d}
  <2>1. Samples(hist) = {L[i] : i \in I} /\ Samples(a) = {a.L[i] : i \in J}
    BY <1>5, <1>9 DEF Samples
  <2>2. ASSUME NEW i \in J
        PROVE  a.L[i] \in T \union {new}
    <3>1. CASE i = n + 1
      BY <1>7, <3>1
    <3>2. CASE i # n + 1
      <4>1. i \in 1 .. n /\ i \in 1 .. Len(L) /\ a.L[i] = L[i]
            /\ a.L[i].t > d - hist.Tmax
        BY <1>1, <1>7, <3>2
      <4>2. L[i].t # d
        BY <1>2, <1>3, <1>8, <4>1, ToleranceAssumption
      <4>3. i \in I
        <5>1. L # <<>> /\ Len(L) \in 1 .. Len(L)
          BY <1>1, <4>1, EmptySeq
        <5>2. CurrentTime(hist) <= d /\ CurrentTime(hist) \in Int
          BY <1>2, <1>3, <1>8, <5>1
        <5>3. L[i].t > CurrentTime(hist) - hist.Tmax
          <6>1. L[i].t \in Int /\ hist.Tmax \in Int
            BY <1>1, <1>2, <4>1
          <6>2. L[i].t > d - hist.Tmax
            BY <4>1
          <6> HIDE DEF L
          <6> QED
            BY <1>3, <5>2, <6>1, <6>2
        <5> QED
          BY <4>1, <5>3
      <4> QED
        BY <2>1, <4>1, <4>2, <4>3
    <3> QED
      BY <3>1, <3>2
  <2>3. ASSUME NEW k \in I, L[k].t > d - hist.Tmax, L[k].t # d
        PROVE  \E i \in J : L[k] = a.L[i]
    <3>1. k \in 1 .. n
      BY <1>7, <1>8, <2>3
    <3>2. k \in 1 .. Len(a.L) /\ a.L[k] = L[k]
      BY <1>7, <3>1
    <3> QED
      BY <2>3, <3>2
  <2>4. n + 1 \in J /\ a.L[n + 1] = new
    BY <1>7
  <2> HIDE DEF I, J, L, new
  <2> QED
    BY <2>1, <2>2, <2>3, <2>4
<1>14. \A s \in Samples(hist) : s.t <= d
  BY <1>8 DEF Samples
<1>15. CurrentTime(r) = d /\ LastOf(r.L) = new
  <2> HIDE DEF r, new
  <2>1. LastOf(r.L) = new
    BY <1>9, <1>12
  <2> QED
    BY <1>12, <2>1 DEF CurrentTime, new
<1>16. Extended(hist.L, a.L, new) /\ a.L \in Seq(Sample)
  <2>1. ASSUME NEW i \in 1 .. Len(L)
        PROVE  IF i <= n THEN L[i].t < d ELSE L[i].t = d
    <3>1. /\ i <= n => L[i].t + EqTol < d
          /\ i > n => d = L[i].t
          /\ L[i].t \in Int /\ n \in Int /\ EqTol \in Int /\ 0 <= EqTol
      BY <1>2, <1>7, <1>8, ToleranceAssumption
    <3> HIDE DEF L
    <3> QED
      BY <1>3, <3>1
  <2> QED
    BY <1>5, <1>7, <2>1 DEF Extended, HistoryObject
<1> HIDE DEF r, new
<1> QED
  BY <1>12, <1>13, <1>14, <1>15, <1>16 DEF d, r, new

\* What a caller of record relies on, without the pairs.
LEMMA RecordedEffect ==
  ASSUME NEW hist, WellFormed(hist), NEW t \in Int, NEW v \in Int,
         InOrder(hist, t)
  PROVE  LET r   == Recorded(hist, t, v)
             d   == SnapToBack(hist, t)
             new == [t |-> d, v |-> v]
         IN  /\ WellFormed(r)
             /\ r.L # <<>>
             /\ r.Tmax = hist.Tmax
             /\ CurrentTime(r) = d
             /\ Samples(r) = {s \in Samples(hist) : s.t > d - hist.Tmax /\ s.t # d}
                               \union {new}
             /\ \A s \in Samples(hist) : s.t <= d
  BY RecordedPairs

-----------------------------------------------------------------------------

\* A history without pairs is well formed.
LEMMA EmptyIsWellFormed ==
  ASSUME NEW hist, hist.L = <<>>, hist \in HistoryObject
  PROVE  WellFormed(hist) /\ Samples(hist) = {}
<1>1. Increasing(hist.L) /\ {j \in 1 .. Len(hist.L) : TRUE} = {}
  BY DEF Increasing
<1> QED
  BY <1>1 DEF WellFormed, FrontOK, Samples

\* A new history is well formed, and holds nothing.
LEMMA NewHistoryEffect ==
  ASSUME NEW n \in Nat
  PROVE  /\ WellFormed(NewHistory(n))
         /\ Samples(NewHistory(n)) = {}
         /\ NewHistory(n).L = <<>> /\ NewHistory(n).Tmax = n
<1>1. NewHistory(n).L = <<>> /\ NewHistory(n).Tmax = n
  BY DEF NewHistory
<1>2. NewHistory(n) \in HistoryObject
  BY DEF NewHistory, HistoryObject
<1> QED
  BY <1>1, <1>2, EmptyIsWellFormed

\* reset leaves a well-formed history of the same length, which holds nothing.
LEMMA ClearedEffect ==
  ASSUME NEW hist \in HistoryObject
  PROVE  /\ WellFormed(Cleared(hist))
         /\ Samples(Cleared(hist)) = {}
         /\ Cleared(hist).L = <<>> /\ Cleared(hist).Tmax = hist.Tmax
<1>1. hist.Tmax \in Nat
  BY DEF HistoryObject
<1> QED
  BY <1>1, NewHistoryEffect DEF Cleared
=============================================================================
