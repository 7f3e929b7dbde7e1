--------------------------- MODULE BisectionProofs ---------------------------
(***************************************************************************)
(* The two bisections of the code.  That of find_braketing_position        *)
(* returns the number of pairs dated before t, on every vector whose dates *)
(* increase.  That of zeq finds positions of balance: the rows of a GZ     *)
(* curve are such, for every hull, curve and precision.                    *)
(***************************************************************************)
EXTENDS BracketSearch, GZCurve, HistoryLemmas

(* idx is where t stands in L. *)
Brackets(idx) ==
  /\ idx \in 0 .. Len(L)
  /\ idx > 0      => L[idx].t < t
  /\ idx < Len(L) => L[idx + 1].t >= t

(* The inductive invariant: the date searched for is always inside the     *)
(* interval that is left.                                                  *)
SearchIInv ==
  /\ L \in Vectors
  /\ t \in SearchedDates
  /\ pc = "loop" => /\ lower \in 0 .. Len(L) - 1 /\ upper \in 0 .. Len(L) - 1
                    /\ lower < upper
                    /\ L[lower + 1].t < t
                    /\ L[upper + 1].t >= t
  /\ pc = "done" => Brackets(answer)

\* The dates of the vector searched are integers.
LEMMA VectorType ==
  ASSUME SearchIInv
  PROVE  /\ L \in Seq(Sample) /\ Increasing(L) /\ t \in Int
         /\ Len(L) \in Nat /\ L # <<>> => Len(L) # 0
         /\ \A i \in 1 .. Len(L) : L[i].t \in Int
<1>1. L \in Seq(Sample) /\ Increasing(L) /\ t \in Int
  BY SearchAssumption DEF SearchIInv
<1> QED
  BY <1>1, PairType, EmptySeq, LenProperties

\* There is one such position.
LEMMA BracketsIsUnique ==
  ASSUME SearchIInv, NEW a, NEW b, Brackets(a), Brackets(b)
  PROVE  a = b
<1>1. ASSUME NEW x \in 0 .. Len(L), NEW y \in 0 .. Len(L), Brackets(x),
             Brackets(y), x < y
      PROVE  FALSE
  <2>1. x + 1 \in 1 .. Len(L) /\ y \in 1 .. Len(L)
    BY <1>1, VectorType
  <2>2. L[x + 1].t >= t /\ L[y].t < t
    BY <1>1, VectorType DEF Brackets
  <2>3. CASE x + 1 = y
    BY <2>1, <2>2, <2>3, VectorType
  <2>4. CASE x + 1 # y
    <3>1. x + 1 < y
      BY <1>1, <2>1, <2>4, VectorType
    <3>2. L[x + 1].t + EqTol < L[y].t
      BY <2>1, <3>1, VectorType DEF Increasing
    <3> QED
      BY <2>1, <2>2, <3>2, VectorType, ToleranceAssumption
  <2> QED
    BY <2>3, <2>4
<1>2. a \in 0 .. Len(L) /\ b \in 0 .. Len(L)
  BY DEF Brackets
<1> HIDE DEF Brackets
<1>3. a < b \/ a = b \/ b < a
  BY <1>2, VectorType
<1> QED
  BY <1>1, <1>2, <1>3

\* The pairs before a found date are dated before it.
LEMMA PairBeforeFound ==
  ASSUME SearchIInv, NEW i \in 1 .. Len(L), L[i].t = t
  PROVE  Brackets(i - 1)
<1>1. ASSUME i - 1 > 0
      PROVE  L[i - 1].t < t
  <2>1. i - 1 \in 1 .. Len(L) /\ i - 1 < i
    BY <1>1, VectorType
  <2>2. L[i - 1].t + EqTol < L[i].t
    BY <2>1, VectorType DEF Increasing
  <2> QED
    BY <2>1, <2>2, VectorType, ToleranceAssumption
<1>2. i - 1 \in 0 .. Len(L) /\ (i - 1) + 1 = i
  BY VectorType
<1> QED
  BY <1>1, <1>2, VectorType DEF Brackets

\* The middle of an interval that is not reduced to two neighbours is strictly
\* inside it.
LEMMA MiddleInside ==
  ASSUME NEW a \in Nat, NEW b \in Nat, a + 1 < b
  PROVE  (a + b) \div 2 \in Nat /\ a < (a + b) \div 2 /\ (a + b) \div 2 < b
OBVIOUS

\* The bounds bracket the date when the loop starts.
LEMMA SearchInitIInv == SearchInit => SearchIInv
BY DEF SearchInit, SearchIInv

\* Each turn of the loop keeps the date between the bounds.
LEMMA SearchNextIInv == SearchIInv /\ [SearchNext]_searchVars => SearchIInv'
<1> SUFFICES ASSUME SearchIInv, [SearchNext]_searchVars
             PROVE  SearchIInv'
  OBVIOUS
<1>0. ASSUME NEW idx, Brackets(idx), Return(idx)
      PROVE  SearchIInv'
  BY <1>0 DEF Return, SearchIInv, Brackets
<1>1. CASE ReturnEarly
  <2>1. CASE L = <<>> /\ Return(0)
    <3>1. Brackets(0)
      BY <2>1 DEF Brackets
    <3> QED
      BY <1>0, <2>1, <3>1
  <2>2. CASE L # <<>> /\ LastOf(L).t < t /\ Return(Len(L))
    <3>1. Brackets(Len(L))
      BY <2>2, VectorType DEF Brackets, LastOf
    <3> QED
      BY <1>0, <2>2, <3>1
  <2>3. CASE L # <<>> /\ FirstOf(L).t >= t /\ Return(0)
    <3>1. Brackets(0)
      BY <2>3, VectorType DEF Brackets, FirstOf
    <3> QED
      BY <1>0, <2>3, <3>1
  <2> QED
    BY <1>1, <2>1, <2>2, <2>3 DEF ReturnEarly
<1>2. CASE EnterLoop
  <2>1. L' = L /\ t' = t /\ pc' = "loop" /\ lower' = 0 /\ upper' = Len(L) - 1
    BY <1>2 DEF EnterLoop
  <2>2. L[1].t < t /\ L[Len(L)].t >= t /\ Len(L) \in Nat \ {0}
    BY <1>2, VectorType DEF EnterLoop, FirstOf, LastOf
  <2>3. Len(L) # 1
    BY <2>2, VectorType
  <2>4. 0 \in 0 .. Len(L) - 1 /\ Len(L) - 1 \in 0 .. Len(L) - 1
        /\ 0 < Len(L) - 1 /\ (Len(L) - 1) + 1 = Len(L) /\ 0 + 1 = 1
    <3>1. \A k \in Nat \ {0, 1} :
            /\ 0 \in 0 .. k - 1 /\ k - 1 \in 0 .. k - 1
            /\ 0 < k - 1 /\ (k - 1) + 1 = k /\ 0 + 1 = 1
      OBVIOUS
    <3>2. Len(L) \in Nat \ {0, 1}
      BY <2>2, <2>3
    <3> QED
      BY <3>1, <3>2, Zenon
  <2> QED
    BY <2>1, <2>2, <2>4 DEF SearchIInv
<1> DEFINE m == Middle
<1>3. ASSUME pc = "loop"
      PROVE  /\ lower \in Nat /\ upper \in Nat /\ lower < upper
             /\ lower + 1 \in 1 .. Len(L) /\ upper + 1 \in 1 .. Len(L)
             /\ L[lower + 1].t < t /\ L[upper + 1].t >= t
             /\ lower + 1 < upper => /\ m \in Nat /\ lower < m /\ m < upper
                                     /\ m + 1 \in 1 .. Len(L)
  <2>1. /\ lower \in Nat /\ upper \in Nat /\ lower < upper
        /\ lower + 1 \in 1 .. Len(L) /\ upper + 1 \in 1 .. Len(L)
        /\ L[lower + 1].t < t /\ L[upper + 1].t >= t
    BY <1>3, VectorType DEF SearchIInv
  <2>2. lower + 1 < upper => m \in Nat /\ lower < m /\ m < upper
    BY <2>1, MiddleInside DEF Middle
  <2> HIDE DEF m
  <2> QED
    BY <2>1, <2>2, VectorType
<1> HIDE DEF m
<1>4. CASE ReturnFound
  <2>1. pc = "loop" /\ Found
    BY <1>4 DEF ReturnFound
  <2>2. t # At(L, lower).t
    BY <1>3, <2>1, VectorType DEF At
  <2>3. CASE t = At(L, upper).t
    <3>1. Brackets(upper)
      BY <1>3, <2>1, <2>3, PairBeforeFound DEF At
    <3> QED
      BY <1>0, <1>4, <2>2, <2>3, <3>1 DEF ReturnFound
  <2>4. CASE t # At(L, upper).t /\ upper <= lower + 1
    <3>1. upper = lower + 1
      BY <1>3, <2>1, <2>4
    <3>2. Brackets(upper)
      BY <1>3, <2>1, <3>1, VectorType DEF Brackets
    <3> QED
      BY <1>0, <1>4, <2>2, <2>4, <3>2 DEF ReturnFound
  <2>5. CASE t # At(L, upper).t /\ ~ (upper <= lower + 1)
    <3>1. t = At(L, m).t /\ lower + 1 < upper
      BY <1>3, <2>1, <2>2, <2>5 DEF Found, m
    <3>2. Brackets(m)
      BY <1>3, <2>1, <3>1, PairBeforeFound DEF At
    <3> QED
      BY <1>0, <1>4, <2>2, <2>5, <3>2 DEF ReturnFound, m
  <2> QED
    BY <2>3, <2>4, <2>5
<1>5. CASE Halve
  <2>1. /\ pc = "loop" /\ L' = L /\ t' = t /\ pc' = "loop"
        /\ t # At(L, m).t /\ ~ (upper <= lower + 1)
    BY <1>5 DEF Halve, Found, m
  <2>2. /\ m \in Nat /\ lower < m /\ m < upper /\ m + 1 \in 1 .. Len(L)
    BY <1>3, <2>1
  <2>3. m \in 0 .. Len(L) - 1
    BY <2>2, VectorType
  <2>4. CASE t < At(L, m).t /\ upper' = m /\ lower' = lower
    <3>1. L[m + 1].t >= t
      BY <2>2, <2>4, VectorType DEF At
    <3> QED
      BY <2>1, <2>2, <2>3, <2>4, <3>1 DEF SearchIInv
  <2>5. CASE ~ (t < At(L, m).t) /\ lower' = m /\ upper' = upper
    <3>1. L[m + 1].t < t
      BY <2>1, <2>2, <2>5, VectorType DEF At
    <3> QED
      BY <2>1, <2>2, <2>3, <2>5, <3>1 DEF SearchIInv
  <2> QED
    BY <1>5, <2>4, <2>5 DEF Halve, m
<1>6. CASE UNCHANGED searchVars
  BY <1>6 DEF searchVars, SearchIInv, Brackets
<1> QED
  BY <1>1, <1>2, <1>4, <1>5, <1>6 DEF SearchNext

\* The date is always between the bounds.
LEMMA AlwaysSearchIInv == SearchSpec => []SearchIInv
  BY SearchInitIInv, SearchNextIInv, PTL DEF SearchSpec

\* The bisection returns the position that insertion, erasure and
\* interpolation take it for, whatever the vector and the date.
THEOREM BisectionCorrect == SearchSpec => []AnswerIsBracketingPosition
<1>1. ASSUME SearchIInv, pc = "done"
      PROVE  answer = BracketingPosition(L, t)
  <2>1. Brackets(answer)
    BY <1>1 DEF SearchIInv
  <2>2. Brackets(BracketingPosition(L, t))
    BY <1>1, VectorType, BracketingPositionCorrect DEF Brackets
  <2> QED
    BY <1>1, <2>1, <2>2, BracketsIsUnique
<1>2. SearchIInv => AnswerIsBracketingPosition
  BY <1>1 DEF AnswerIsBracketingPosition
<1> QED
  BY <1>2, AlwaysSearchIInv, PTL

\* Every turn of the loop that does not return leaves at most half of the
\* interval, rounded up.
THEOREM EveryTurnHalves == SearchSpec => HalvingHalves
<1>1. ASSUME SearchIInv, Halve
      PROVE  2 * (upper' - lower') <= upper - lower + 1
  <2>1. /\ lower \in Nat /\ upper \in Nat /\ lower + 1 < upper
    BY <1>1, VectorType DEF Halve, Found, SearchIInv
  <2>2. /\ Middle \in Nat
        /\ 2 * Middle <= lower + upper
        /\ lower + upper <= 2 * Middle + 1
    BY <2>1 DEF Middle
  <2>3. \/ upper' = Middle /\ lower' = lower
        \/ lower' = Middle /\ upper' = upper
    BY <1>1 DEF Halve
  <2> HIDE DEF Middle
  <2> QED
    BY <2>1, <2>2, <2>3
<1>2. SearchIInv /\ [SearchNext]_searchVars
        => [Halve => 2 * (upper' - lower') <= upper - lower + 1]_searchVars
  BY <1>1
<1> QED
  BY <1>2, AlwaysSearchIInv, PTL DEF SearchSpec, HalvingHalves

-----------------------------------------------------------------------------

(* The program has understood its command line. *)
Asked(a) == 0 < a.step /\ a.step <= a.max

(* The number of angles. *)
AnglesOf(a) == 2 * ((2 * a.max + a.step) \div (2 * a.step)) + 1

\* compute_phi: the ends, and an angle every step between them, no nearer to
\* an end than half a step, nor further than a step and a half.
LEMMA Angles ==
  ASSUME NEW a, a.step \in Int, a.max \in Int, Asked(a)
  PROVE  /\ AnglesOf(a) \in Nat /\ AnglesOf(a) >= 3
         /\ Phis(a) \in Seq(Int) /\ Len(Phis(a)) = AnglesOf(a)
         /\ \A k \in 1 .. AnglesOf(a) : -a.max <= Phis(a)[k] /\ Phis(a)[k] <= a.max
         /\ Phis(a)[1] = -a.max /\ Phis(a)[AnglesOf(a)] = a.max
         /\ \A k \in 2 .. AnglesOf(a) :
              LET gap == Phis(a)[k] - Phis(a)[k - 1]
              IN  0 < gap /\ 2 * gap <= 3 * a.step
<1> DEFINE m == a.max
           s == a.step
           N == (2 * m + s) \div (2 * s)
           first == <<-m>>
           last == <<m>>
           inner == [i \in 1 .. 2 * N - 1 |-> (i - N) * s]
           start == first \o inner
           phis == start \o last
<1>1. m \in Int /\ s \in Int /\ 0 < s /\ s <= m
  BY DEF Asked
<1>2. N \in Int /\ 2 * s * N <= 2 * m + s /\ 2 * m + s < 2 * s * N + 2 * s
  <2> HIDE DEF m, s
  <2> QED
    BY <1>1
<1>3. Phis(a) = phis /\ AnglesOf(a) = 2 * N + 1
  BY DEF Phis, AnglesOf
<1> HIDE DEF m, s, N
<1>4. N >= 1 /\ N \in Nat
  BY <1>1, <1>2
<1>5. inner \in Seq(Int) /\ Len(inner) = 2 * N - 1
  <2>1. inner \in [1 .. 2 * N - 1 -> Int] /\ 2 * N - 1 \in Nat
    BY <1>1, <1>4
  <2>2. inner \in Seq(Int)
    BY <2>1, SeqDef
  <2>3. DOMAIN inner = 1 .. Len(inner) /\ Len(inner) \in Nat
    BY <2>2, LenProperties
  <2> QED
    BY <2>1, <2>2, <2>3
<1>6. \A i \in 1 .. 2 * N - 1 : inner[i] = (i - N) * s
  OBVIOUS
<1>7. /\ first \in Seq(Int) /\ Len(first) = 1 /\ first[1] = -m
      /\ last \in Seq(Int) /\ Len(last) = 1 /\ last[1] = m
  BY <1>1
<1> HIDE DEF inner, first, last
<1>8. /\ start \in Seq(Int) /\ Len(start) = 2 * N
      /\ start[1] = -m /\ \A k \in 2 .. 2 * N : start[k] = inner[k - 1]
  <2>1. /\ start \in Seq(Int) /\ Len(start) = 1 + (2 * N - 1)
        /\ \A k \in 1 .. 1 + (2 * N - 1) : start[k] = IF k <= 1 THEN first[k] ELSE inner[k - 1]
    <3>1. /\ start \in Seq(Int) /\ Len(start) = Len(first) + Len(inner)
          /\ \A k \in 1 .. Len(first) + Len(inner) :
               start[k] = IF k <= Len(first) THEN first[k] ELSE inner[k - Len(first)]
      BY <1>5, <1>7, ConcatProperties
    <3> HIDE DEF start
    <3> QED
      BY <1>5, <1>7, <3>1
  <2> HIDE DEF start
  <2> QED
    BY <1>4, <1>7, <2>1
<1> HIDE DEF start
<1>9. /\ phis \in Seq(Int) /\ Len(phis) = 2 * N + 1
      /\ phis[1] = -m /\ phis[2 * N + 1] = m
      /\ \A k \in 2 .. 2 * N : phis[k] = (k - 1 - N) * s
  <2>1. /\ phis \in Seq(Int) /\ Len(phis) = 2 * N + 1
        /\ \A k \in 1 .. 2 * N + 1 :
             phis[k] = IF k <= 2 * N THEN start[k] ELSE last[k - 2 * N]
    <3>1. /\ phis \in Seq(Int) /\ Len(phis) = Len(start) + Len(last)
          /\ \A k \in 1 .. Len(start) + Len(last) :
               phis[k] = IF k <= Len(start) THEN start[k] ELSE last[k - Len(start)]
      BY <1>7, <1>8, ConcatProperties
    <3> HIDE DEF phis
    <3> QED
      BY <1>7, <1>8, <3>1
  <2> HIDE DEF phis
  <2>2. \A k \in 2 .. 2 * N : k - 1 \in 1 .. 2 * N - 1
    BY <1>4
  <2>3. phis[1] = -m /\ phis[2 * N + 1] = m
    BY <1>4, <1>7, <1>8, <2>1
  <2>4. \A k \in 2 .. 2 * N : phis[k] = inner[k - 1]
    BY <1>4, <1>8, <2>1
  <2> QED
    BY <1>6, <2>1, <2>2, <2>3, <2>4
<1> HIDE DEF phis
<1>10. ASSUME NEW k \in 1 .. 2 * N + 1
       PROVE  -m <= phis[k] /\ phis[k] <= m
  <2>1. CASE k = 1 \/ k = 2 * N + 1
    BY <1>1, <1>9, <2>1
  <2>2. CASE k \in 2 .. 2 * N
    <3>1. phis[k] = (k - 1 - N) * s
      BY <1>9, <2>2
    <3>2. 1 - N <= k - 1 - N /\ k - 1 - N <= N - 1
      BY <1>4, <2>2
    <3>3. (1 - N) * s <= (k - 1 - N) * s /\ (k - 1 - N) * s <= (N - 1) * s
      BY <1>1, <1>4, <3>2
    <3>4. (N - 1) * s <= m /\ -m <= (1 - N) * s
      BY <1>1, <1>2
    <3>5. (1 - N) * s \in Int /\ (k - 1 - N) * s \in Int /\ (N - 1) * s \in Int
      BY <1>1, <1>4
    <3> QED
      BY <1>1, <3>1, <3>3, <3>4, <3>5
  <2> QED
    BY <1>4, <2>1, <2>2
<1>11. ASSUME NEW k \in 2 .. 2 * N + 1
       PROVE  LET gap == phis[k] - phis[k - 1] IN 0 < gap /\ 2 * gap <= 3 * s
  <2>1. CASE k = 2
    <3>1. phis[k] = (1 - N) * s /\ phis[k - 1] = -m
      BY <1>4, <1>9, <2>1
    <3> QED
      BY <1>1, <1>2, <3>1
  <2>2. CASE k = 2 * N + 1
    <3>1. phis[k] = m /\ phis[k - 1] = (N - 1) * s
      <4>1. k - 1 \in 2 .. 2 * N /\ k - 1 - 1 - N = N - 1
        BY <1>4, <2>2
      <4> QED
        BY <1>9, <2>2, <4>1
    <3> QED
      BY <1>1, <1>2, <3>1
  <2>3. CASE k \in 3 .. 2 * N
    <3>1. k - 1 \in 2 .. 2 * N /\ k \in 2 .. 2 * N
      BY <1>4, <2>3
    <3>2. phis[k] = (k - 1 - N) * s /\ phis[k - 1] = (k - 1 - 1 - N) * s
      BY <1>9, <3>1
    <3>3. (k - 1 - N) * s - (k - 1 - 1 - N) * s = s
      BY <1>1, <1>2
    <3> QED
      BY <1>1, <3>2, <3>3
  <2> QED
    BY <1>4, <2>1, <2>2, <2>3
<1> QED
  BY <1>3, <1>4, <1>9, <1>10, <1>11 DEF m, s

-----------------------------------------------------------------------------

\* The hull is known at each angle of the curve.
LEMMA HullAtAngle ==
  ASSUME ship \in Ships, ask \in CurveAsks, Asked(ask),
         NEW phi \in Int, -ask.max <= phi, phi <= ask.max
  PROVE  /\ ship.weight \in Nat
         /\ Rolled(phi) \in [low : Int, high : Int, area : Nat]
         /\ Rolled(phi).low < Rolled(phi).high
<1>1. ask.max \in Int /\ 0 .. ask.max \subseteq DOMAIN ship.at
  BY GZAssumption
<1>2. (IF phi < 0 THEN -phi ELSE phi) \in DOMAIN ship.at
  BY <1>1
<1> QED
  BY <1>2, GZAssumption DEF Rolled

\* The deeper the hull, the less the force pulls it down.
LEMMA ForceDecreases ==
  ASSUME NEW phi, ship.weight \in Nat, Rolled(phi) \in [low : Int, high : Int, area : Nat],
         Rolled(phi).low < Rolled(phi).high
  PROVE  \A y, w \in Int : FZ(y, phi) \in Int /\ (y <= w => FZ(y, phi) >= FZ(w, phi))
<1> DEFINE low == Rolled(phi).low
           high == Rolled(phi).high
           area == Rolled(phi).area
           depth(w) == IF w < -high THEN 0 ELSE IF w > -low THEN high - low ELSE w + high
<1>1. low \in Int /\ high \in Int /\ area \in Nat /\ low < high
  OBVIOUS
<1>2. \A w : FZ(w, phi) = ship.weight - area * depth(w)
  BY DEF FZ, Displaced
<1> HIDE DEF low, high, area
<1>3. \A y, w \in Int : depth(y) \in Int /\ (y <= w => depth(y) <= depth(w))
  BY <1>1
<1> HIDE DEF depth
<1>4. ASSUME NEW y \in Int, NEW w \in Int
      PROVE  /\ area * depth(y) \in Int /\ area * depth(w) \in Int
             /\ y <= w => area * depth(y) <= area * depth(w)
  <2> DEFINE a == depth(y)
             b == depth(w)
  <2>1. a \in Int /\ b \in Int /\ (y <= w => a <= b)
    BY <1>3
  <2> HIDE DEF a, b
  <2>2. area * a \in Int /\ area * b \in Int /\ (a <= b => area * a <= area * b)
    BY <1>1, <2>1
  <2> QED
    BY <2>1, <2>2 DEF a, b
<1>5. \A y, w \in Int : /\ area * depth(y) \in Int /\ area * depth(w) \in Int
                        /\ y <= w => area * depth(y) <= area * depth(w)
  BY <1>4
<1> QED
  BY <1>2, <1>5

-----------------------------------------------------------------------------

(* The search in progress holds the position of balance. *)
SearchKeepsBalance ==
  stage = "bisect" =>
    /\ bounds \in [min : Int, max : Int] /\ bounds.min <= bounds.max
    /\ InReach(Phi) => FZ(bounds.min, Phi) >= 0 /\ FZ(bounds.max, Phi) <= 0

(* Every row is a position of balance, at the angle of its place. *)
Row(k) ==
  /\ curve[k].phi = Phis(ask)[k]
  /\ InReach(curve[k].phi) => Balanced(curve[k].z, curve[k].phi)

(* What is left to do at each stage. *)
Progress ==
  /\ stage \in {"options", "newton"} => upright
  /\ upright => curve = <<>>
  /\ stage \notin {"options", "usage"} => Len(curve) <= AnglesOf(ask)
  /\ stage \in {"search", "bisect", "emerged"} => Len(curve) < AnglesOf(ask)
  /\ stage = "done" => Len(curve) = AnglesOf(ask)

GZIInv ==
  /\ ship \in Ships /\ ask \in CurveAsks
  /\ upright \in BOOLEAN
  /\ stage \notin {"options", "usage"} => Asked(ask)
  /\ curve \in Seq([phi : Int, z : Int])
  /\ stage \in {"options", "usage"} => curve = <<>>
  /\ Progress
  /\ SearchKeepsBalance
  /\ \A k \in 1 .. Len(curve) : Row(k)
  /\ stage = "emerged" => ~ InReach(Phi)

\* The hull does not change, nor the force on it at any position.
LEMMA SameHull ==
  ASSUME ship' = ship, ask' = ask
  PROVE  /\ \A w, phi : FZ(w, phi)' = FZ(w, phi)
         /\ \A phi : InReach(phi)' = InReach(phi)
         /\ \A w, phi : Balanced(w, phi)' = Balanced(w, phi)
<1>1. \A phi : Rolled(phi)' = Rolled(phi)
  BY DEF Rolled
<1>2. \A w, phi : FZ(w, phi)' = FZ(w, phi)
  BY <1>1 DEF FZ
<1> QED
  BY <1>1, <1>2 DEF InReach, Balanced

\* While a curve is made, the force is defined at the angle of the next row.
LEMMA ForceAtAngle ==
  ASSUME GZIInv, Asked(ask), Len(curve) < AnglesOf(ask)
  PROVE  /\ Phi \in Int
         /\ Rolled(Phi).low \in Int /\ Rolled(Phi).high \in Int
         /\ Rolled(Phi).low < Rolled(Phi).high
         /\ \A y, w \in Int : FZ(y, Phi) \in Int /\ (y <= w => FZ(y, Phi) >= FZ(w, Phi))
<1>1. ask.step \in Int /\ ask.max \in Int /\ ship \in Ships /\ ask \in CurveAsks
  BY GZAssumption DEF GZIInv
<1>2. Phi \in Int /\ -ask.max <= Phi /\ Phi <= ask.max
  <2>1. CASE upright
    BY <1>1, <2>1 DEF Phi, Asked
  <2>2. CASE ~ upright
    <3>1. Len(curve) \in Nat
      BY LenProperties DEF GZIInv
    <3>2. Len(curve) + 1 \in 1 .. AnglesOf(ask)
      BY <1>1, <3>1, Angles
    <3>3. DOMAIN Phis(ask) = 1 .. AnglesOf(ask) /\ Phis(ask) \in Seq(Int)
      BY <1>1, Angles, LenProperties
    <3>4. Phis(ask)[Len(curve) + 1] \in Int
      BY <3>2, <3>3, ElementOfSeq, <1>1, Angles
    <3> QED
      BY <1>1, <2>2, <3>2, <3>4, Angles DEF Phi
  <2> QED
    BY <2>1, <2>2
<1>3. /\ ship.weight \in Nat
      /\ Rolled(Phi) \in [low : Int, high : Int, area : Nat]
      /\ Rolled(Phi).low < Rolled(Phi).high
  <2> HIDE DEF Phi
  <2> QED
    BY <1>1, <1>2, HullAtAngle
<1>4. \A y, w \in Int : FZ(y, Phi) \in Int /\ (y <= w => FZ(y, Phi) >= FZ(w, Phi))
  BY <1>3, ForceDecreases
<1> QED
  BY <1>2, <1>3, <1>4

\* At the start nothing is written.
LEMMA GZInitInv == GZInit => GZIInv
<1> SUFFICES ASSUME GZInit PROVE GZIInv
  OBVIOUS
<1>1. curve = <<>> /\ stage = "options" /\ upright = TRUE
  BY DEF GZInit
<1>2. curve \in Seq([phi : Int, z : Int]) /\ Len(curve) = 0
  BY <1>1, EmptySeq
<1> QED
  BY <1>1, <1>2 DEF GZInit, GZIInv, Progress, SearchKeepsBalance

\* The command line is understood or refused.
LEMMA OpenStep == ASSUME GZIInv, Open PROVE GZIInv'
<1>1. /\ stage = "options" /\ ship' = ship /\ ask' = ask /\ upright' = upright
      /\ bounds' = bounds /\ curve' = curve /\ curve = <<>> /\ upright
      /\ stage' \in {"usage", "sinks", "search"}
      /\ stage' # "usage" => ask.step > 0 /\ ask.max >= ask.step
  <2>1. ask.step \in Int /\ ask.max \in Int
    BY GZAssumption DEF GZIInv
  <2> QED
    BY <2>1 DEF Open, GZIInv, Progress
<1>2. Len(curve) = 0 /\ curve \in Seq([phi : Int, z : Int])
  BY <1>1, EmptySeq
<1>3. ask.step \in Int /\ ask.max \in Int /\ ask \in CurveAsks /\ ship \in Ships
  BY GZAssumption DEF GZIInv
<1>4. stage' # "usage" => Asked(ask) /\ AnglesOf(ask) \in Nat /\ AnglesOf(ask) >= 3
  <2>1. stage' # "usage" => Asked(ask)
    BY <1>1, <1>3 DEF Asked
  <2> QED
    BY <1>3, <2>1, Angles
<1> QED
  BY <1>1, <1>2, <1>3, <1>4 DEF GZIInv, Progress, SearchKeepsBalance

\* The interval holds the position of balance when the bisection starts.
LEMMA SearchStep == ASSUME GZIInv, Search PROVE GZIInv'
<1> DEFINE hull == Rolled(Phi)
<1>1. /\ stage = "search" /\ ship' = ship /\ ask' = ask /\ upright' = upright /\ curve' = curve
      /\ \/ /\ FZ(hull.high, Phi) > 0
            /\ bounds' = [min |-> hull.low, max |-> hull.low] /\ stage' = "bisect"
         \/ /\ ~ FZ(hull.high, Phi) > 0 /\ FZ(hull.low, Phi) < 0
            /\ stage' = "emerged" /\ bounds' = bounds
         \/ /\ ~ FZ(hull.high, Phi) > 0 /\ ~ FZ(hull.low, Phi) < 0
            /\ bounds' = [min |-> hull.low, max |-> hull.high] /\ stage' = "bisect"
  BY DEF Search
<1>2. Asked(ask) /\ Len(curve) < AnglesOf(ask)
  BY <1>1 DEF GZIInv, Progress
<1>3. /\ hull.low \in Int /\ hull.high \in Int /\ hull.low < hull.high
      /\ FZ(hull.low, Phi) \in Int /\ FZ(hull.high, Phi) \in Int
  BY <1>2, ForceAtAngle
<1>4. Phi' = Phi
  BY <1>1 DEF Phi
<1>5. /\ \A w : FZ(w, Phi)' = FZ(w, Phi)
      /\ InReach(Phi)' = InReach(Phi)
  <2>1. /\ \A w, phi : FZ(w, phi)' = FZ(w, phi)
        /\ \A phi : InReach(phi)' = InReach(phi)
    BY <1>1, SameHull
  <2> QED
    BY <1>4, <2>1
<1>6. InReach(Phi) <=> FZ(hull.high, Phi) <= 0 /\ FZ(hull.low, Phi) >= 0
  BY DEF InReach
<1>7. SearchKeepsBalance'
  <2> SUFFICES ASSUME stage' = "bisect"
               PROVE  /\ bounds' \in [min : Int, max : Int] /\ bounds'.min <= bounds'.max
                      /\ InReach(Phi) => /\ FZ(bounds'.min, Phi) >= 0
                                         /\ FZ(bounds'.max, Phi) <= 0
    BY <1>4, <1>5 DEF SearchKeepsBalance
  <2> HIDE DEF hull
  <2> QED
    BY <1>1, <1>3, <1>6
<1>8. stage' = "emerged" => ~ InReach(Phi)'
  <2> HIDE DEF hull
  <2> QED
    BY <1>1, <1>3, <1>5, <1>6
<1>9. \A k \in 1 .. Len(curve') : Row(k)'
  <2>1. \A k \in 1 .. Len(curve) : Row(k)
    BY DEF GZIInv
  <2> QED
    BY <1>1, <2>1, SameHull DEF Row
<1>10. Progress' /\ stage' \in {"bisect", "emerged"}
  BY <1>1 DEF GZIInv, Progress
<1> QED
  BY <1>1, <1>2, <1>7, <1>8, <1>9, <1>10 DEF GZIInv

\* The half that is kept holds the position of balance.
LEMMA HalveStep == ASSUME GZIInv, HalveInterval PROVE GZIInv'
<1> DEFINE middle == Average
<1>1. /\ stage = "bisect" /\ ship' = ship /\ ask' = ask /\ upright' = upright
      /\ stage' = stage /\ curve' = curve
      /\ bounds' = IF FZ(middle, Phi) < 0 THEN [bounds EXCEPT !.max = middle]
                                          ELSE [bounds EXCEPT !.min = middle]
  BY DEF HalveInterval, HalfKept
<1>2. Asked(ask) /\ Len(curve) < AnglesOf(ask)
  BY <1>1 DEF GZIInv, Progress
<1>3. /\ bounds \in [min : Int, max : Int] /\ bounds.min <= bounds.max
      /\ InReach(Phi) => FZ(bounds.min, Phi) >= 0 /\ FZ(bounds.max, Phi) <= 0
  BY <1>1 DEF GZIInv, SearchKeepsBalance
<1>4. middle \in Int /\ bounds.min <= middle /\ middle <= bounds.max
  BY <1>3 DEF Average
<1>5. FZ(middle, Phi) \in Int
  BY <1>2, <1>4, ForceAtAngle
<1>6. Phi' = Phi
  BY <1>1 DEF Phi
<1>7. /\ \A w : FZ(w, Phi)' = FZ(w, Phi)
      /\ InReach(Phi)' = InReach(Phi)
  <2>1. /\ \A w, phi : FZ(w, phi)' = FZ(w, phi)
        /\ \A phi : InReach(phi)' = InReach(phi)
    BY <1>1, SameHull
  <2> QED
    BY <1>6, <2>1
<1> HIDE DEF middle
<1>8. SearchKeepsBalance'
  <2>1. /\ bounds' \in [min : Int, max : Int] /\ bounds'.min <= bounds'.max
        /\ InReach(Phi) => FZ(bounds'.min, Phi) >= 0 /\ FZ(bounds'.max, Phi) <= 0
    <3>1. CASE FZ(middle, Phi) < 0
      <4>1. bounds' = [min |-> bounds.min, max |-> middle]
        BY <1>1, <1>3, <3>1
      <4> QED
        BY <1>3, <1>4, <1>5, <3>1, <4>1
    <3>2. CASE ~ FZ(middle, Phi) < 0
      <4>1. bounds' = [min |-> middle, max |-> bounds.max]
        BY <1>1, <1>3, <3>2
      <4> QED
        BY <1>3, <1>4, <1>5, <3>2, <4>1
    <3> QED
      BY <3>1, <3>2
  <2> QED
    BY <1>6, <1>7, <2>1 DEF SearchKeepsBalance
<1>9. \A k \in 1 .. Len(curve') : Row(k)'
  <2>1. \A k \in 1 .. Len(curve) : Row(k)
    BY DEF GZIInv
  <2> QED
    BY <1>1, <2>1, SameHull DEF Row
<1>10. Progress'
  BY <1>1 DEF GZIInv, Progress
<1> QED
  BY <1>1, <1>2, <1>8, <1>9, <1>10 DEF GZIInv

\* Where the bisection ends is in balance up to its precision.
LEMMA AnswerIsBalanced ==
  ASSUME GZIInv, stage = "bisect", bounds.max - bounds.min <= Precision, InReach(Phi)
  PROVE  Average \in Int /\ Balanced(Average, Phi)
<1>1. Asked(ask) /\ Len(curve) < AnglesOf(ask)
  BY DEF GZIInv, Progress
<1>2. /\ bounds \in [min : Int, max : Int] /\ bounds.min <= bounds.max
      /\ FZ(bounds.min, Phi) >= 0 /\ FZ(bounds.max, Phi) <= 0
  BY DEF GZIInv, SearchKeepsBalance
<1>3. Average \in Int /\ bounds.min <= Average /\ Average <= bounds.max
  BY <1>2 DEF Average
<1>4. Precision \in Nat \ {0}
  BY GZAssumption
<1> DEFINE above == Average - Precision
           below == Average + Precision
<1>5. above \in Int /\ below \in Int /\ above <= bounds.min /\ bounds.max <= below
  BY <1>2, <1>3, <1>4
<1> HIDE DEF above, below
<1>6. \A y, w \in Int : FZ(y, Phi) \in Int /\ (y <= w => FZ(y, Phi) >= FZ(w, Phi))
  BY <1>1, ForceAtAngle
<1>7. /\ FZ(above, Phi) \in Int /\ FZ(bounds.min, Phi) \in Int
      /\ FZ(above, Phi) >= FZ(bounds.min, Phi)
  BY <1>2, <1>5, <1>6
<1>8. /\ FZ(below, Phi) \in Int /\ FZ(bounds.max, Phi) \in Int
      /\ FZ(bounds.max, Phi) >= FZ(below, Phi)
  BY <1>2, <1>5, <1>6
<1>9. FZ(above, Phi) >= 0 /\ FZ(below, Phi) <= 0
  BY <1>2, <1>7, <1>8
<1> QED
  BY <1>3, <1>9 DEF Balanced, above, below

\* A row is written, at the angle of its place.
LEMMA AnswerStep == ASSUME GZIInv, Answer PROVE GZIInv'
<1>1. /\ stage = "bisect" /\ bounds.max - bounds.min <= Precision
      /\ ship' = ship /\ ask' = ask /\ upright' = upright /\ bounds' = bounds
  BY DEF Answer
<1>2. Asked(ask) /\ Len(curve) < AnglesOf(ask)
  BY <1>1 DEF GZIInv, Progress
<1>3. curve \in Seq([phi : Int, z : Int]) /\ Len(curve) \in Nat
  BY LenProperties DEF GZIInv
<1>4. ask.step \in Int /\ ask.max \in Int
  BY GZAssumption DEF GZIInv
<1>5. AnglesOf(ask) \in Nat /\ Len(Phis(ask)) = AnglesOf(ask)
  BY <1>2, <1>4, Angles
<1>6. CASE upright
  <2>1. stage' = "newton" /\ curve' = curve /\ curve = <<>>
    BY <1>6 DEF Answer, GZIInv, Progress
  <2>2. \A k \in 1 .. Len(curve') : Row(k)'
    <3>1. Len(curve) = 0
      BY <2>1, EmptySeq
    <3> QED
      BY <1>3, <2>1, <3>1
  <2> QED
    BY <1>1, <1>2, <1>3, <1>6, <2>1, <2>2 DEF GZIInv, Progress, SearchKeepsBalance
<1>7. CASE ~ upright
  <2> DEFINE row == [phi |-> Phi, z |-> Average]
  <2>1. /\ curve' = Append(curve, row)
        /\ stage' = IF Len(curve) + 1 = Len(Phis(ask)) THEN "done" ELSE "search"
    BY <1>7 DEF Answer
  <2>2. row \in [phi : Int, z : Int]
    <3>1. Phi \in Int
      BY <1>2, ForceAtAngle
    <3>2. bounds \in [min : Int, max : Int]
      BY <1>1 DEF GZIInv, SearchKeepsBalance
    <3>3. Average \in Int
      BY <3>2 DEF Average
    <3> QED
      BY <3>1, <3>3
  <2>3. row.phi = Phis(ask)[Len(curve) + 1] /\ row.phi = Phi /\ row.z = Average
    BY <1>7 DEF Phi
  <2>4. InReach(row.phi) => Balanced(row.z, row.phi)
    BY <1>1, <2>3, AnswerIsBalanced
  <2> HIDE DEF row
  <2>5. /\ curve' \in Seq([phi : Int, z : Int]) /\ Len(curve') = Len(curve) + 1
        /\ \A k \in 1 .. Len(curve) : curve'[k] = curve[k]
        /\ curve'[Len(curve) + 1] = row
    BY <1>3, <2>1, <2>2, AppendProperties
  <2>6. ASSUME NEW k \in 1 .. Len(curve')
        PROVE  Row(k)'
    <3>1. CASE k \in 1 .. Len(curve)
      <4>1. Row(k) /\ curve'[k] = curve[k]
        BY <2>5, <3>1 DEF GZIInv
      <4> QED
        BY <1>1, <4>1, SameHull DEF Row
    <3>2. CASE k = Len(curve) + 1
      BY <1>1, <2>3, <2>4, <2>5, <3>2, SameHull DEF Row
    <3> QED
      BY <1>3, <2>5, <3>1, <3>2
  <2>7. Progress' /\ stage' \in {"search", "done"}
    <3>1. AnglesOf(ask)' = AnglesOf(ask)
      BY <1>1 DEF AnglesOf
    <3> QED
      BY <1>1, <1>2, <1>3, <1>5, <1>7, <2>1, <2>5, <3>1 DEF Progress
  <2> QED
    BY <1>1, <1>2, <2>5, <2>6, <2>7 DEF GZIInv, SearchKeepsBalance
<1> QED
  BY <1>6, <1>7

\* The curve itself starts after the iteration.
LEMMA IterateStep == ASSUME GZIInv, Iterate PROVE GZIInv'
<1>1. /\ stage = "newton" /\ upright' = FALSE /\ stage' \in {"search", "singular"}
      /\ ship' = ship /\ ask' = ask /\ bounds' = bounds /\ curve' = curve
  BY DEF Iterate
<1>2. Asked(ask) /\ curve = <<>>
  BY <1>1 DEF GZIInv, Progress
<1>3. Len(curve) = 0
  BY <1>2, EmptySeq
<1>4. AnglesOf(ask) \in Nat /\ AnglesOf(ask) >= 3
  <2>1. ask.step \in Int /\ ask.max \in Int
    BY GZAssumption DEF GZIInv
  <2> QED
    BY <1>2, <2>1, Angles
<1>5. Progress'
  <2>1. AnglesOf(ask)' = AnglesOf(ask)
    BY <1>1 DEF AnglesOf
  <2> QED
    BY <1>1, <1>2, <1>3, <1>4, <2>1 DEF Progress
<1>6. SearchKeepsBalance' /\ Asked(ask)'
  BY <1>1, <1>2 DEF SearchKeepsBalance
<1>7. \A k \in 1 .. Len(curve') : Row(k)'
  <2>1. 1 .. Len(curve') = {}
    BY <1>1, <1>3
  <2> QED
    BY <2>1
<1> QED
  BY <1>1, <1>5, <1>6, <1>7 DEF GZIInv

\* A step that changes nothing keeps the invariant.
LEMMA GZIdle == ASSUME GZIInv, UNCHANGED gzVars PROVE GZIInv'
<1>1. /\ ship' = ship /\ ask' = ask /\ stage' = stage /\ bounds' = bounds
      /\ upright' = upright /\ curve' = curve
  BY DEF gzVars
<1>2. Phi' = Phi
  BY <1>1 DEF Phi
<1>3. /\ \A w : FZ(w, Phi)' = FZ(w, Phi)
      /\ InReach(Phi)' = InReach(Phi)
  <2>1. /\ \A w, phi : FZ(w, phi)' = FZ(w, phi)
        /\ \A phi : InReach(phi)' = InReach(phi)
    BY <1>1, SameHull
  <2> QED
    BY <1>2, <2>1
<1>4. SearchKeepsBalance'
  BY <1>1, <1>2, <1>3 DEF GZIInv, SearchKeepsBalance
<1>5. \A k \in 1 .. Len(curve') : Row(k)'
  <2>1. \A k \in 1 .. Len(curve) : Row(k)
    BY DEF GZIInv
  <2> QED
    BY <1>1, <2>1, SameHull DEF Row
<1>6. Progress'
  BY <1>1 DEF GZIInv, Progress
<1> QED
  BY <1>1, <1>3, <1>4, <1>5, <1>6 DEF GZIInv

\* The search always holds the position of balance, if there is one, and the
\* rows are at the angles of compute_phi.
THEOREM GZInvariant == GZSpec => []GZIInv
<1>1. GZInit => GZIInv
  BY GZInitInv
<1>2. GZIInv /\ [GZNext]_gzVars => GZIInv'
  BY OpenStep, SearchStep, HalveStep, AnswerStep, IterateStep, GZIdle DEF GZNext, GZEnded
<1> QED
  BY <1>1, <1>2, PTL DEF GZSpec

\* For every hull, weight, step and greatest angle, and every precision of the
\* bisection: each point of the curve is in balance up to that precision if the
\* hull has such a position between its ordinates, the angles go from one end
\* to the other by half a step to a step and a half, and the program gives up
\* an angle only if there is no such position.
THEOREM CurveAlwaysOfEquilibria == GZSpec => []CurveIsOfEquilibria
<1>1. GZIInv => CurveIsOfEquilibria
  <2> SUFFICES ASSUME GZIInv PROVE CurveIsOfEquilibria
    OBVIOUS
  <2>1. /\ curve \in Seq([phi : Int, z : Int]) /\ Len(curve) \in Nat
        /\ DOMAIN curve = 1 .. Len(curve)
        /\ \A k \in 1 .. Len(curve) : Row(k)
    BY LenProperties DEF GZIInv
  <2>2. Len(curve) # 0 =>
          /\ Asked(ask) /\ Len(curve) <= AnglesOf(ask) /\ ~ upright
          /\ ask.step \in Int /\ ask.max \in Int
    <3> SUFFICES ASSUME Len(curve) # 0
                 PROVE  /\ Asked(ask) /\ Len(curve) <= AnglesOf(ask) /\ ~ upright
                        /\ ask.step \in Int /\ ask.max \in Int
      OBVIOUS
    <3>1. curve # <<>>
      BY EmptySeq, Zenon
    <3> QED
      BY <3>1, GZAssumption DEF GZIInv, Progress
  <2>3. ASSUME NEW k \in 1 .. Len(curve)
        PROVE  /\ InReach(curve[k].phi) => Balanced(curve[k].z, curve[k].phi)
               /\ k > 1 => LET gap == curve[k].phi - curve[k - 1].phi
                           IN  0 < gap /\ 2 * gap <= 3 * ask.step
    <3>1. /\ Asked(ask) /\ Len(curve) <= AnglesOf(ask) /\ AnglesOf(ask) \in Nat
          /\ ask.step \in Int /\ ask.max \in Int
      BY <2>1, <2>2, Angles
    <3>2. Row(k)
      BY <2>1
    <3>3. ASSUME k > 1
          PROVE  LET gap == curve[k].phi - curve[k - 1].phi
                 IN  0 < gap /\ 2 * gap <= 3 * ask.step
      <4>1. k \in 2 .. AnglesOf(ask) /\ k - 1 \in 1 .. Len(curve)
        BY <2>1, <3>1, <3>3
      <4>2. curve[k].phi = Phis(ask)[k] /\ curve[k - 1].phi = Phis(ask)[k - 1]
        BY <2>1, <3>2, <4>1 DEF Row
      <4> QED
        BY <3>1, <4>1, <4>2, Angles
    <3> QED
      BY <3>2, <3>3 DEF Row
  <2>4. ASSUME stage = "done"
        PROVE  curve[1].phi = -ask.max /\ curve[Len(curve)].phi = ask.max
    <3>1. Asked(ask) /\ Len(curve) = AnglesOf(ask) /\ ask.step \in Int /\ ask.max \in Int
      BY <2>4, GZAssumption DEF GZIInv, Progress
    <3>2. AnglesOf(ask) >= 3
      BY <3>1, Angles
    <3>3. 1 \in 1 .. Len(curve) /\ Len(curve) \in 1 .. Len(curve)
      BY <2>1, <3>1, <3>2
    <3>4. curve[1].phi = Phis(ask)[1] /\ curve[Len(curve)].phi = Phis(ask)[Len(curve)]
      BY <2>1, <3>3 DEF Row
    <3> QED
      BY <3>1, <3>4, Angles
  <2> QED
    BY <2>1, <2>3, <2>4 DEF CurveIsOfEquilibria, GZIInv
<1> QED
  BY <1>1, GZInvariant, PTL
=============================================================================
