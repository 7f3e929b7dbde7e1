--------------------------- MODULE HistoryProofs ---------------------------
(***************************************************************************)
(* The invariants of Histories for every set of objects, window lengths,   *)
(* dates, values and tolerances, the proof that a History implements a     *)
(* sliding window, and what its queries answer: the signal that was        *)
(* recorded.                                                               *)
(***************************************************************************)
EXTENDS HistorySignal, HistoryLemmas

\* The current instant of a history is one a caller recorded, never one that
\* the shift of the window made up.
LastIsRecorded ==
  \A o \in Objects : h[o].L # <<>> => CurrentTime(h[o]) \in Dates

(***************************************************************************)
(* The inductive invariant.  DurationBounded alone is not inductive: it    *)
(* holds after the next record because the window is moved whenever        *)
(* oldest_recorded_instant is too far back, and that says something of the *)
(* first pair only while OldestIsFront holds; and the first pair exists,   *)
(* and is where the bisection looks for it, because DatesIncrease holds.   *)
(***************************************************************************)
IInv ==
  /\ raised \in BOOLEAN
  /\ h \in [Objects -> HistoryObject]
  /\ \A o \in Objects : WellFormed(h[o])
  /\ LastIsRecorded

\* New histories are well formed.
LEMMA InitIInv == Init => IInv
<1> SUFFICES ASSUME Init
             PROVE  IInv
  OBVIOUS
<1>1. ASSUME NEW o \in Objects
      PROVE  /\ WellFormed(h[o]) /\ h[o] \in HistoryObject
             /\ h[o].L = <<>>
  <2>1. PICK n \in Lengths : h[o] = NewHistory(n)
    BY DEF Init
  <2>2. n \in Nat
    BY HistoriesAssumption
  <2> QED
    BY <2>1, <2>2, NewHistoryEffect DEF WellFormed
<1>2. h \in [Objects -> HistoryObject]
  BY <1>1 DEF Init
<1> QED
  BY <1>1, <1>2 DEF Init, IInv, LastIsRecorded

\* What a call to record does to the object it is called on.
LEMMA RecordStep ==
  ASSUME IInv, NEW o \in Objects, NEW t \in Dates, NEW v \in Values,
         Record(o, t, v)
  PROVE  LET d == SnapToBack(h[o], t)
         IN  /\ d \in Dates
             /\ WellFormed(h'[o]) /\ h'[o].L # <<>>
             /\ h'[o].Tmax = h[o].Tmax
             /\ CurrentTime(h'[o]) = d
             /\ Samples(h'[o]) =
                  {s \in Samples(h[o]) : s.t > d - h[o].Tmax /\ s.t # d}
                    \union {[t |-> d, v |-> v]}
             /\ \A s \in Samples(h[o]) : s.t <= d
<1>1. t \in Int /\ v \in Int /\ WellFormed(h[o]) /\ InOrder(h[o], t)
  BY HistoriesAssumption DEF IInv, Record
<1>2. h'[o] = Recorded(h[o], t, v)
  BY DEF IInv, Record
<1>3. SnapToBack(h[o], t) \in Dates
  BY DEF SnapToBack, IInv, LastIsRecorded, CurrentTime
<1> QED
  BY <1>1, <1>2, <1>3, RecordedEffect

\* Every member function keeps histories well formed.
LEMMA NextIInv == IInv /\ [Next]_vars => IInv'
<1> SUFFICES ASSUME IInv, [Next]_vars
             PROVE  IInv'
  OBVIOUS
\* Every call replaces one object by a well-formed one, whose last date, if it
\* has one, was recorded.
<1> DEFINE Good(hist) == /\ WellFormed(hist)
                         /\ hist.L # <<>> => CurrentTime(hist) \in Dates
<1>1. \A o \in Objects : Good(h[o])
  BY DEF IInv, LastIsRecorded
<1>2. ASSUME NEW o \in Objects, NEW hist, Good(hist), h' = [h EXCEPT ![o] = hist],
             raised' \in BOOLEAN
      PROVE  IInv'
  <2>1. \A p \in Objects : Good(h'[p])
    BY <1>1, <1>2 DEF IInv
  <2>2. hist \in HistoryObject
    BY <1>2 DEF WellFormed
  <2>3. h' \in [Objects -> HistoryObject]
    BY <1>2, <2>2 DEF IInv
  <2> QED
    BY <1>2, <2>1, <2>3 DEF IInv, LastIsRecorded
<1>3. ASSUME NEW o \in Objects, NEW t \in Dates, NEW v \in Values,
             Record(o, t, v)
      PROVE  IInv'
  <2>1. Good(h'[o])
    BY <1>3, RecordStep
  <2>2. h' = [h EXCEPT ![o] = h'[o]] /\ raised' \in BOOLEAN
    BY <1>3 DEF Record, IInv
  <2> HIDE DEF Good
  <2> QED
    BY <1>2, <2>1, <2>2
<1>4. ASSUME NEW o \in Objects, NEW t \in Dates, RecordOutOfOrder(o, t)
      PROVE  IInv'
  BY <1>4 DEF RecordOutOfOrder, IInv, LastIsRecorded
<1>5. ASSUME NEW o \in Objects, Reset(o)
      PROVE  IInv'
  <2>1. h[o] \in HistoryObject
    BY DEF IInv
  <2>2. Good(Cleared(h[o]))
    BY <2>1, ClearedEffect
  <2> HIDE DEF Good
  <2> QED
    BY <1>2, <1>5, <2>2 DEF Reset
<1>6. ASSUME NEW o \in Objects, NEW source \in Objects, Assign(o, source)
      PROVE  IInv'
  <2> HIDE DEF Good
  <2> QED
    BY <1>1, <1>2, <1>6 DEF Assign
<1>7. CASE UNCHANGED vars
  BY <1>7 DEF vars, IInv, LastIsRecorded
<1> QED
  BY <1>3, <1>4, <1>5, <1>6, <1>7 DEF Next

\* Histories are always well formed.
LEMMA AlwaysIInv == Spec => []IInv
  BY InitIInv, NextIInv, PTL DEF Spec

-----------------------------------------------------------------------------

\* The state of every History is what the class declares.
THEOREM TypeCorrect == Spec => []TypeOK
<1>1. IInv => TypeOK
  BY DEF IInv, TypeOK
<1> QED
  BY <1>1, AlwaysIInv, PTL

\* No sequence of calls leaves two dates of a history in the same instant or
\* out of order.
THEOREM DatesAlwaysIncrease == Spec => []DatesIncrease
<1>1. IInv => DatesIncrease
  BY DEF IInv, WellFormed, DatesIncrease
<1> QED
  BY <1>1, AlwaysIInv, PTL

\* The instant record compares with, and the first pair of the vector, stay
\* within the tolerance of each other, and the window is never overrun.
THEOREM OldestAlwaysFront == Spec => []OldestIsFront
<1>1. IInv => OldestIsFront
  BY DEF IInv, WellFormed, FrontOK, OldestIsFront
<1> QED
  BY <1>1, AlwaysIInv, PTL

\* A history never spans more than Tmax.
THEOREM DurationAlwaysBounded == Spec => []DurationBounded
<1>1. ASSUME IInv, NEW o \in Objects
      PROVE  Duration(h[o]) <= h[o].Tmax
  <2>1. h[o] \in HistoryObject /\ WellFormed(h[o])
    BY <1>1 DEF IInv
  <2>2. CASE h[o].L = <<>>
    BY <2>1, <2>2 DEF Duration, HistoryObject
  <2>3. CASE h[o].L # <<>>
    <3>1. /\ h[o].L \in Seq(Sample) /\ h[o].oldest \in Int /\ h[o].Tmax \in Nat
          /\ 1 \in 1 .. Len(h[o].L) /\ Len(h[o].L) \in 1 .. Len(h[o].L)
      BY <2>1, <2>3, EmptySeq, LenProperties DEF HistoryObject
    <3>2. h[o].L[1].t \in Int /\ h[o].L[Len(h[o].L)].t \in Int
      BY <3>1, PairType
    <3> QED
      BY <2>1, <2>3, <3>1, <3>2
      DEF WellFormed, FrontOK, Duration, CurrentTime, FirstOf, LastOf
  <2> QED
    BY <2>2, <2>3
<1>2. IInv => DurationBounded
  BY <1>1 DEF DurationBounded
<1> QED
  BY <1>2, AlwaysIInv, PTL

-----------------------------------------------------------------------------

(* What stands for `window` in the refinement. *)
Abstracted(hist) == [length |-> hist.Tmax, samples |-> Samples(hist)]

Windows == [o \in Objects |-> Abstracted(h[o])]

\* New histories are new windows.
LEMMA InitRefines == Init => Window!Init
<1> SUFFICES ASSUME Init
             PROVE  Window!Init
  OBVIOUS
<1>1. ASSUME NEW o \in Objects
      PROVE  Abstracted(h[o]) \in {Window!NewWindow(n) : n \in Lengths}
  <2>1. PICK n \in Lengths : h[o] = NewHistory(n)
    BY DEF Init
  <2>2. n \in Nat
    BY HistoriesAssumption
  <2> QED
    BY <2>1, <2>2, NewHistoryEffect DEF Abstracted, Window!NewWindow
<1> QED
  BY <1>1 DEF Window!Init, Abstracted

\* One object changes: so does its window, and no other.
LEMMA OneWindow ==
  ASSUME IInv, NEW o \in Objects, NEW hist, h' = [h EXCEPT ![o] = hist]
  PROVE  Windows' = [Windows EXCEPT ![o] = Abstracted(hist)]
<1>1. h \in [Objects -> HistoryObject]
  BY DEF IInv
<1>2. \A p \in Objects : h'[p] = IF p = o THEN hist ELSE h[p]
  BY <1>1
<1>3. Windows' = [p \in Objects |-> Abstracted(h'[p])]
  BY DEF Windows, Abstracted
<1>4. \A p \in Objects : Abstracted(h'[p]) = [Windows EXCEPT ![o] = Abstracted(hist)][p]
  BY <1>2 DEF Windows
<1> QED
  BY <1>3, <1>4 DEF Windows

\* Every member function does to the window what its abstract action says.
LEMMA NextRefines == IInv /\ [Next]_vars => [Window!Next]_Windows
<1> SUFFICES ASSUME IInv, [Next]_vars
             PROVE  Window!Next \/ Windows' = Windows
  BY DEF Windows
<1>0. h \in [Objects -> HistoryObject]
  BY DEF IInv
<1>1. ASSUME NEW o \in Objects, NEW t \in Dates, NEW v \in Values,
             Record(o, t, v)
      PROVE  Window!Next
  <2> DEFINE d == SnapToBack(h[o], t)
             kept == {s \in Samples(h[o]) : s.t > d - h[o].Tmax /\ s.t # d}
                       \union {[t |-> d, v |-> v]}
  <2>1. /\ d \in Dates
        /\ h'[o].Tmax = h[o].Tmax
        /\ Samples(h'[o]) = kept
        /\ \A s \in Samples(h[o]) : s.t <= d
    BY <1>1, RecordStep
  <2>2. h' = [h EXCEPT ![o] = h'[o]]
    BY <1>0, <1>1 DEF Record
  <2>3. Windows' = [Windows EXCEPT ![o] = Abstracted(h'[o])]
    BY <2>2, OneWindow
  <2>4. Abstracted(h'[o]) = [Windows[o] EXCEPT !.samples = kept]
    <3>1. Windows[o] = [length |-> h[o].Tmax, samples |-> Samples(h[o])]
      BY DEF Abstracted, Windows
    <3> HIDE DEF kept
    <3> QED
      BY <2>1, <3>1 DEF Abstracted
  <2>5. Windows[o].samples = Samples(h[o]) /\ Windows[o].length = h[o].Tmax
    BY DEF Abstracted, Windows
  <2>6. Window!Record(o, d, v)
    <3> DEFINE W == [p \in Objects |-> [length |-> h[p].Tmax,
                                        samples |-> Samples(h[p])]]
    <3>1. W = Windows /\ W' = Windows'
      BY DEF Windows, Abstracted
    <3>2. \A s \in W[o].samples : s.t <= d
      BY <2>1, <2>5, <3>1
    <3>3. W' = [W EXCEPT ![o].samples = kept]
      BY <2>3, <2>4, <3>1
    <3>4. W[o].samples = Samples(h[o]) /\ W[o].length = h[o].Tmax
      BY <2>5, <3>1
    <3> HIDE DEF d
    <3> QED
      BY <3>2, <3>3, <3>4 DEF Window!Record
  <2> QED
    BY <2>1, <2>6 DEF Window!Next
<1>2. ASSUME NEW o \in Objects, Reset(o)
      PROVE  Window!Next
  <2>1. Windows' = [Windows EXCEPT ![o] = Abstracted(Cleared(h[o]))]
    BY <1>2, OneWindow DEF Reset
  <2>2. Abstracted(Cleared(h[o])) = [Windows[o] EXCEPT !.samples = {}]
    <3>1. Windows[o] = [length |-> h[o].Tmax, samples |-> Samples(h[o])]
      BY DEF Abstracted, Windows
    <3>2. h[o] \in HistoryObject
      BY <1>0
    <3>3. Cleared(h[o]).Tmax = h[o].Tmax /\ Samples(Cleared(h[o])) = {}
      BY <3>2, ClearedEffect
    <3> QED
      BY <3>1, <3>3 DEF Abstracted
  <2>3. Window!Reset(o)
    BY <2>1, <2>2 DEF Window!Reset, Windows, Abstracted
  <2> QED
    BY <2>3 DEF Window!Next
<1>3. ASSUME NEW o \in Objects, NEW source \in Objects, Assign(o, source)
      PROVE  Window!Next
  <2>1. Windows' = [Windows EXCEPT ![o] = Abstracted(h[source])]
    BY <1>3, OneWindow DEF Assign
  <2>2. Abstracted(h[source]) = Windows[source]
    BY DEF Windows
  <2>3. Window!Assign(o, source)
    BY <2>1, <2>2 DEF Window!Assign, Windows, Abstracted
  <2> QED
    BY <2>3 DEF Window!Next
<1>4. CASE UNCHANGED h
  BY <1>4 DEF Windows
<1> QED
  BY <1>1, <1>2, <1>3, <1>4 DEF Next, RecordOutOfOrder, vars

\* A History implements a sliding window: whatever the calls, the samples a
\* reader relies on are those recorded in the last Tmax seconds.
THEOREM HistoryIsSlidingWindow == Spec => ImplementsSlidingWindow
<1>1. Init /\ [][Next]_vars /\ []IInv => Window!Spec
  BY InitRefines, NextRefines, PTL DEF Window!Spec, Windows, Abstracted
<1> QED
  BY <1>1, AlwaysIInv, PTL DEF Spec, ImplementsSlidingWindow

-----------------------------------------------------------------------------

(***************************************************************************)
(* What a history remembers of the samples it was given: the pairs of the  *)
(* vector are among them, save the first one, which may be made up for the *)
(* start of the window; and a sample that is not in the vector is before   *)
(* it and before the window.                                               *)
(***************************************************************************)
Recalls(hist, S) ==
  /\ S \subseteq Sample
  /\ hist.L = <<>> => S = {}
  /\ hist.L # <<>> =>
       /\ LastOf(hist.L) \in S
       /\ \/ FirstOf(hist.L) \in S
          \/ FirstOf(hist.L).t = CurrentTime(hist) - hist.Tmax
       /\ \A i \in 2 .. Len(hist.L) : hist.L[i] \in S
       /\ \A s \in S : \/ \E i \in 1 .. Len(hist.L) : hist.L[i] = s
                       \/ /\ s.t < FirstOf(hist.L).t
                          /\ s.t < CurrentTime(hist) - hist.Tmax

(* The samples of a signal once one more is recorded. *)
WithSample(S, new) == {s \in S : s.t # new.t} \union {new}

(***************************************************************************)
(* The inductive invariant of the recorded signal.                         *)
(***************************************************************************)
SignalIInv ==
  /\ IInv
  /\ DOMAIN signal = Objects
  /\ \A o \in Objects : /\ Recalls(h[o], signal[o]) /\ h[o].Tmax \in Lengths
                         /\ signal[o] \subseteq [t : Dates, v : Values]

\* A pair put in the vector is all that the vector gains, and what it loses is
\* no longer part of the signal.
LEMMA ExtendedRecalls ==
  ASSUME NEW hist, WellFormed(hist), NEW S, Recalls(hist, S),
         NEW new \in Sample, hist.L # <<>> => CurrentTime(hist) <= new.t,
         NEW M \in Seq(Sample), Extended(hist.L, M, new)
  PROVE  LET T == WithSample(S, new)
         IN  /\ T \subseteq Sample
             /\ Len(M) >= 1
             /\ \/ M[1] \in T
                \/ hist.L # <<>> /\ M[1].t = CurrentTime(hist) - hist.Tmax
             /\ \A i \in 2 .. Len(M) : M[i] \in T
             /\ \A s \in T : \/ \E i \in 1 .. Len(M) : M[i] = s
                             \/ s.t < M[1].t /\ s.t < new.t - hist.Tmax
<1> DEFINE L == hist.L
           T == WithSample(S, new)
<1>1. /\ L \in Seq(Sample) /\ Len(L) \in Nat /\ hist.Tmax \in Nat /\ new.t \in Int
      /\ L # <<>> => Len(L) >= 1
      /\ \A i \in 1 .. Len(L) : L[i].t \in Int
  BY PairType, EmptySeq, LenProperties DEF WellFormed, HistoryObject, Sample
<1>2. PICK n \in 0 .. Len(L) :
        /\ Len(M) = n + 1 /\ M[n + 1] = new
        /\ \A i \in 1 .. n : M[i] = L[i]
        /\ \A i \in 1 .. Len(L) : IF i <= n THEN L[i].t < new.t ELSE L[i].t = new.t
  BY DEF Extended
<1>3. T \subseteq Sample /\ new \in T
  BY DEF Recalls, WithSample
<1>4. ASSUME NEW i \in 2 .. Len(M)
      PROVE  M[i] \in T
  <2>1. CASE i = n + 1
    BY <1>2, <1>3, <2>1
  <2>2. CASE i # n + 1
    <3>1. i \in 1 .. n /\ i \in 2 .. Len(L) /\ i <= n
      BY <1>1, <1>2, <2>2
    <3>2. L # <<>>
      BY <3>1, EmptySeq
    <3>3. L[i] \in S /\ M[i] = L[i] /\ L[i].t < new.t /\ L[i].t \in Int
      BY <1>1, <1>2, <3>1, <3>2 DEF Recalls
    <3>4. L[i].t # new.t
      BY <1>1, <3>3
    <3> QED
      BY <3>3, <3>4 DEF WithSample
  <2> QED
    BY <2>1, <2>2
<1>6. \/ M[1] \in T
      \/ L # <<>> /\ M[1].t = CurrentTime(hist) - hist.Tmax
  <2>1. CASE n = 0
    BY <1>2, <1>3, <2>1
  <2>2. CASE n # 0
    <3>1. 1 \in 1 .. n /\ 1 \in 1 .. Len(L) /\ 1 <= n
      BY <1>1, <1>2, <2>2
    <3>2. M[1] = L[1] /\ L[1].t < new.t /\ L[1].t \in Int /\ L # <<>>
      BY <1>1, <1>2, <3>1, EmptySeq
    <3>3. L[1] \in S \/ L[1].t = CurrentTime(hist) - hist.Tmax
      BY <3>2 DEF Recalls, FirstOf
    <3>4. L[1].t # new.t
      BY <1>1, <3>2
    <3> QED
      BY <3>2, <3>3, <3>4 DEF WithSample
  <2> QED
    BY <2>1, <2>2
<1>5. ASSUME NEW s \in T
      PROVE  \/ \E i \in 1 .. Len(M) : M[i] = s
             \/ s.t < M[1].t /\ s.t < new.t - hist.Tmax
  <2>1. CASE s = new
    <3>1. n + 1 \in 1 .. Len(M)
      BY <1>2
    <3> QED
      BY <1>2, <2>1, <3>1
  <2>2. CASE s # new
    <3>1. s \in S /\ s.t # new.t /\ s.t \in Int
      BY <2>2 DEF WithSample, Recalls, Sample
    <3>2. L # <<>>
      BY <3>1 DEF Recalls
    <3>3. CASE \E i \in 1 .. Len(L) : L[i] = s
      <4>1. PICK i \in 1 .. Len(L) : L[i] = s
        BY <3>3
      <4>2. i <= n
        BY <1>2, <3>1, <4>1
      <4>3. i \in 1 .. Len(M) /\ M[i] = s
        BY <1>2, <4>1, <4>2
      <4> QED
        BY <4>3
    <3>4. CASE s.t < FirstOf(L).t /\ s.t < CurrentTime(hist) - hist.Tmax
      <4>1. M[1].t = L[1].t
        <5>1. CASE n = 0
          <6>1. L[1].t = new.t /\ M[1] = new
            BY <1>1, <1>2, <3>2, <5>1
          <6> QED
            BY <6>1
        <5>2. CASE n # 0
          BY <1>2, <5>2
        <5> QED
          BY <5>1, <5>2
      <4>2. CurrentTime(hist) \in Int /\ CurrentTime(hist) <= new.t
        BY <1>1, <3>2 DEF CurrentTime, LastOf
      <4>3. s.t < new.t - hist.Tmax
        BY <1>1, <3>1, <3>4, <4>2
      <4> QED
        BY <3>4, <4>1, <4>3 DEF FirstOf
    <3> QED
      BY <3>1, <3>2, <3>3, <3>4 DEF Recalls
  <2> QED
    BY <2>1, <2>2
<1> QED
  BY <1>2, <1>3, <1>4, <1>5, <1>6

\* record keeps the vector true to the signal.
LEMMA RecordedRecalls ==
  ASSUME NEW hist, WellFormed(hist), NEW S, Recalls(hist, S),
         NEW t \in Int, NEW v \in Int, InOrder(hist, t)
  PROVE  Recalls(Recorded(hist, t, v), WithSample(S, [t |-> SnapToBack(hist, t), v |-> v]))
<1> DEFINE r == Recorded(hist, t, v)
           d == SnapToBack(hist, t)
           new == [t |-> d, v |-> v]
           T == WithSample(S, new)
<1>1. PICK M \in Seq(Sample) : Extended(hist.L, M, new) /\ Shortened(M, r.L, d - hist.Tmax)
  BY RecordedPairs
<1>2. /\ r.L # <<>> /\ r.Tmax = hist.Tmax /\ CurrentTime(r) = d /\ LastOf(r.L) = new
      /\ r.L \in Seq(Sample)
  <2>1. /\ WellFormed(r) /\ r.L # <<>> /\ r.Tmax = hist.Tmax
        /\ CurrentTime(r) = d /\ LastOf(r.L) = new
    BY RecordedPairs
  <2> HIDE DEF r
  <2> QED
    BY <2>1 DEF WellFormed, HistoryObject
<1>12. WellFormed(r)
  BY RecordedPairs
<1>3. hist \in HistoryObject
  BY DEF WellFormed
<1>4. /\ d \in Int /\ hist.Tmax \in Nat
      /\ hist.L # <<>> => CurrentTime(hist) <= d
  <2>1. /\ d \in Int
        /\ hist.L # <<>> => /\ CurrentTime(hist) \in Int
                            /\ d = CurrentTime(hist) \/ CurrentTime(hist) + EqTol < d
    BY <1>3, SnapEffect
  <2> HIDE DEF d
  <2> QED
    BY <1>3, <2>1, ToleranceAssumption DEF HistoryObject
<1> HIDE DEF r, d
<1>5. new \in Sample /\ new.t = d
  BY <1>4 DEF Sample
<1> HIDE DEF new
<1>6. /\ T \subseteq Sample /\ Len(M) >= 1
      /\ M[1] \in T \/ (hist.L # <<>> /\ M[1].t = CurrentTime(hist) - hist.Tmax)
      /\ \A i \in 2 .. Len(M) : M[i] \in T
      /\ \A s \in T : \/ \E i \in 1 .. Len(M) : M[i] = s
                      \/ s.t < M[1].t /\ s.t < new.t - hist.Tmax
  BY <1>1, <1>4, <1>5, ExtendedRecalls
<1>7. new \in T
  BY DEF WithSample
<1> HIDE DEF T
<1>8. \A i \in 2 .. Len(r.L) : r.L[i] \in T
  BY <1>1, <1>6 DEF Shortened
<1>9. ASSUME NEW s \in T
      PROVE  \/ \E i \in 1 .. Len(r.L) : r.L[i] = s
             \/ s.t < FirstOf(r.L).t /\ s.t < CurrentTime(r) - r.Tmax
  <2>1. CASE \E i \in 1 .. Len(M) : M[i] = s
    BY <1>1, <1>2, <2>1 DEF Shortened, FirstOf
  <2>2. CASE s.t < M[1].t /\ s.t < new.t - hist.Tmax
    <3>1. M[1].t <= r.L[1].t
      BY <1>1 DEF Shortened
    <3>2. M[1].t \in Int /\ r.L[1].t \in Int /\ s.t \in Int
      <4>1. 1 \in 1 .. Len(M) /\ 1 \in 1 .. Len(r.L)
        BY <1>1, <1>2, <1>6, EmptySeq
      <4> QED
        BY <1>1, <1>2, <1>6, <4>1, PairType DEF Sample
    <3> QED
      BY <1>2, <1>5, <2>2, <3>1, <3>2 DEF FirstOf
  <2> QED
    BY <1>6, <2>1, <2>2
<1>11. FirstOf(r.L) \in T \/ FirstOf(r.L).t = CurrentTime(r) - r.Tmax
  <2>1. CASE r.L[1].t = d - hist.Tmax
    BY <1>2, <2>1 DEF FirstOf
  <2>2. CASE \E j \in 1 .. Len(M) : r.L[1] = M[j]
    <3>1. PICK j \in 1 .. Len(M) : r.L[1] = M[j]
      BY <2>2
    <3>2. CASE j \in 2 .. Len(M)
      BY <1>6, <3>1, <3>2 DEF FirstOf
    <3>3. CASE j = 1 /\ M[1] \in T
      BY <3>1, <3>3 DEF FirstOf
    <3>4. CASE j = 1 /\ hist.L # <<>> /\ M[1].t = CurrentTime(hist) - hist.Tmax
      <4>1. r.L[1].t >= d - hist.Tmax
        <5>1. r.oldest <= r.L[1].t /\ d - r.oldest <= hist.Tmax /\ r.oldest \in Int
          BY <1>2, <1>12 DEF WellFormed, FrontOK, HistoryObject, FirstOf
        <5>2. r.L[1].t \in Int
          <6>1. 1 \in 1 .. Len(r.L)
            BY <1>2, EmptySeq, LenProperties
          <6> QED
            BY <1>2, <6>1, PairType
        <5> QED
          BY <1>4, <5>1, <5>2
      <4>2. CurrentTime(hist) \in Int
        <5>1. Len(hist.L) \in 1 .. Len(hist.L) /\ hist.L \in Seq(Sample)
          BY <1>3, <3>4, EmptySeq, LenProperties DEF HistoryObject
        <5> QED
          BY <3>4, <5>1, PairType DEF CurrentTime, LastOf
      <4>3. r.L[1].t = CurrentTime(hist) - hist.Tmax
        BY <3>1, <3>4
      <4>4. r.L[1].t = d - hist.Tmax
        BY <1>4, <3>4, <4>1, <4>2, <4>3
      <4> QED
        BY <1>2, <4>4 DEF FirstOf
    <3> QED
      BY <1>6, <3>1, <3>2, <3>3, <3>4
  <2> QED
    BY <1>1, <2>1, <2>2 DEF Shortened
<1>10. Recalls(r, T)
  BY <1>2, <1>6, <1>7, <1>8, <1>9, <1>11 DEF Recalls
<1> QED
  BY <1>10 DEF r, d, new, T

\* At the start nothing was recorded.
LEMMA SignalInitInv == SignalInit => SignalIInv
<1> SUFFICES ASSUME SignalInit
             PROVE  SignalIInv
  OBVIOUS
<1>1. IInv
  BY InitIInv DEF SignalInit
<1>2. ASSUME NEW o \in Objects
      PROVE  /\ Recalls(h[o], signal[o]) /\ h[o].Tmax \in Lengths
             /\ signal[o] \subseteq [t : Dates, v : Values]
  <2>1. PICK n \in Lengths : h[o] = NewHistory(n)
    BY DEF SignalInit, Init
  <2>2. h[o].L = <<>> /\ signal[o] = {} /\ h[o].Tmax \in Lengths
    BY <2>1 DEF NewHistory, SignalInit
  <2> QED
    BY <2>2 DEF Recalls
<1> QED
  BY <1>1, <1>2 DEF SignalIInv, SignalInit

\* Every call keeps the histories true to their signals.
LEMMA SignalNextInv == SignalIInv /\ [SignalNext]_sampledVars => SignalIInv'
<1> SUFFICES ASSUME SignalIInv, [SignalNext]_sampledVars
             PROVE  SignalIInv'
  OBVIOUS
<1>1. IInv /\ IInv'
  <2>1. [Next]_vars
    BY DEF SignalNext, Next, SignalRecord, SignalReset, SignalAssign, sampledVars, vars
  <2> QED
    BY <2>1, NextIInv DEF SignalIInv
<1>2. h \in [Objects -> HistoryObject] /\ \A o \in Objects : WellFormed(h[o])
  BY <1>1 DEF IInv
<1>3. ASSUME NEW o \in Objects, NEW hist, NEW S, Recalls(hist, S), hist.Tmax \in Lengths,
             S \subseteq [t : Dates, v : Values],
             h' = [h EXCEPT ![o] = hist], signal' = [signal EXCEPT ![o] = S]
      PROVE  SignalIInv'
  <2>1. ASSUME NEW p \in Objects
        PROVE  /\ Recalls(h'[p], signal'[p]) /\ h'[p].Tmax \in Lengths
               /\ signal'[p] \subseteq [t : Dates, v : Values]
    <3>1. CASE p = o
      BY <1>2, <1>3, <3>1 DEF SignalIInv
    <3>2. CASE p # o
      <4>1. h'[p] = h[p] /\ signal'[p] = signal[p]
        BY <1>2, <1>3, <3>2 DEF SignalIInv
      <4> QED
        BY <4>1 DEF SignalIInv
    <3> QED
      BY <3>1, <3>2
  <2> QED
    BY <1>1, <1>3, <2>1 DEF SignalIInv
<1>4. ASSUME NEW o \in Objects, NEW t \in Dates, NEW v \in Values, SignalRecord(o, t, v)
      PROVE  SignalIInv'
  <2>1. /\ InOrder(h[o], t) /\ t \in Int /\ v \in Int
        /\ h' = [h EXCEPT ![o] = Recorded(h[o], t, v)]
    BY <1>4, HistoriesAssumption DEF SignalRecord, Record
  <2> DEFINE new == [t |-> SnapToBack(h[o], t), v |-> v]
  <2>2. signal' = [signal EXCEPT ![o] = WithSample(signal[o], new)]
    BY <1>4 DEF SignalRecord, WithSample
  <2>3. Recalls(Recorded(h[o], t, v), WithSample(signal[o], new))
    BY <1>2, <2>1, RecordedRecalls DEF SignalIInv
  <2>4. Recorded(h[o], t, v).Tmax = h[o].Tmax
    BY <1>2, <2>1, RecordedEffect
  <2>5. h[o].Tmax \in Lengths
    BY DEF SignalIInv
  <2>6. SnapToBack(h[o], t) \in Dates
    <3>1. h[o].L # <<>> => LastOf(h[o].L) \in [t : Dates, v : Values]
      BY DEF SignalIInv, Recalls
    <3> QED
      BY <3>1 DEF SnapToBack
  <2>7. WithSample(signal[o], new) \subseteq [t : Dates, v : Values]
    BY <2>6 DEF SignalIInv, WithSample
  <2> HIDE DEF new
  <2> QED
    BY <1>3, <2>1, <2>2, <2>3, <2>4, <2>5, <2>7
<1>5. ASSUME NEW o \in Objects, SignalReset(o)
      PROVE  SignalIInv'
  <2>1. Recalls(Cleared(h[o]), {}) /\ Cleared(h[o]).Tmax \in Lengths
    BY <1>2, ClearedEffect DEF Recalls, SignalIInv
  <2> QED
    BY <1>3, <1>5, <2>1 DEF SignalReset, Reset
<1>6. ASSUME NEW o \in Objects, NEW source \in Objects, SignalAssign(o, source)
      PROVE  SignalIInv'
  <2>1. /\ Recalls(h[source], signal[source]) /\ h[source].Tmax \in Lengths
        /\ signal[source] \subseteq [t : Dates, v : Values]
    BY DEF SignalIInv
  <2> QED
    BY <1>3, <1>6, <2>1 DEF SignalAssign, Assign
<1>7. CASE UNCHANGED <<h, signal>>
  BY <1>1, <1>7 DEF SignalIInv
<1> QED
  BY <1>4, <1>5, <1>6, <1>7 DEF SignalNext, RecordOutOfOrder, sampledVars

\* The vectors are always true to the recorded signals.
LEMMA AlwaysSignalIInv == SignalSpec => []SignalIInv
  BY SignalInitInv, SignalNextInv, PTL DEF SignalSpec

-----------------------------------------------------------------------------

\* The line through two pairs goes through the second one.
LEMMA LineThroughSecond ==
  ASSUME NEW a \in Sample, NEW b \in Sample, a.t < b.t
  PROVE  OnLine(a, b, b.t) = b.v
<1> DEFINE width == b.t - a.t
           rise == b.v - a.v
<1>1. width \in Nat \ {0} /\ rise \in Int /\ a.v \in Int /\ b.v \in Int
  BY DEF Sample
<1>2. OnLine(a, b, b.t) = a.v + (width * rise) \div width
  BY DEF OnLine
<1>3. a.v + rise = b.v
  BY <1>1
<1> HIDE DEF width, rise
<1>4. (width * rise) \div width = rise
  BY <1>1
<1> QED
  BY <1>2, <1>3, <1>4

\* Behind the second pair, the vector and the signal have the same samples
\* around any date, so that both are the same line there.
LEMMA InnerIsSignal ==
  ASSUME NEW hist, WellFormed(hist), NEW S, Recalls(hist, S),
         Len(hist.L) > 1, NEW t \in Int, hist.L[2].t <= t, t <= CurrentTime(hist)
  PROVE  InterpolateInInterval(hist.L, BracketingPosition(hist.L, t), t) = SignalAt(S, t)
<1> DEFINE L == hist.L
           n == Len(L)
           k == BracketingPosition(L, t)
           before == {s \in S : s.t <= t}
           after == {s \in S : s.t >= t}
           newest == CHOOSE s \in before : \A r \in before : r.t <= s.t
           oldest == CHOOSE s \in after : \A r \in after : s.t <= r.t
<1>1. /\ L \in Seq(Sample) /\ n \in Nat /\ n > 1 /\ L # <<>> /\ Increasing(L)
      /\ CurrentTime(hist) = L[n].t
  BY EmptySeq, LenProperties DEF WellFormed, HistoryObject, CurrentTime, LastOf
<1>2. \A i \in 1 .. n : L[i] \in Sample /\ L[i].t \in Int
  BY <1>1, PairType
<1>3. \A i, j \in 1 .. n : i < j => L[i].t < L[j].t
  <2>1. \A i, j \in 1 .. n : i < j => L[i].t + EqTol < L[j].t
    BY <1>1 DEF Increasing
  <2> HIDE DEF L, n
  <2> QED
    BY <1>2, <2>1, ToleranceAssumption
<1>4. /\ k \in 0 .. n
      /\ \A i \in 1 .. k : L[i].t < t
      /\ \A i \in k + 1 .. n : L[i].t >= t
  BY <1>1, BracketingPositionCorrect, BracketingPositionSplits
<1>5. /\ S \subseteq Sample
      /\ \A i \in 2 .. n : L[i] \in S
      /\ \A s \in S : (\E i \in 1 .. n : L[i] = s) \/ s.t < L[1].t
  BY <1>1 DEF Recalls, FirstOf
<1>6. L[2].t <= t /\ t <= L[n].t
  BY <1>1
<1> HIDE DEF L, n, k
<1>7. L[1].t < L[2].t /\ L[1].t \in Int /\ L[2].t \in Int /\ L[n].t \in Int
  BY <1>1, <1>2, <1>3
<1>8. k \in 1 .. n - 1
  <2>1. k # n
    <3>1. k = n => L[n].t < t
      BY <1>1, <1>4
    <3> QED
      BY <1>6, <1>7, <3>1
  <2>2. k # 0
    <3>1. k = 0 => L[1].t >= t
      BY <1>1, <1>4
    <3> QED
      BY <1>6, <1>7, <3>1
  <2> QED
    BY <1>1, <1>4, <2>1, <2>2
<1>9. /\ L[k] \in Sample /\ L[k + 1] \in Sample /\ L[k].t \in Int /\ L[k + 1].t \in Int
      /\ L[k].t < t /\ t <= L[k + 1].t /\ L[k + 1] \in S
  <2>1. k \in 1 .. n /\ k + 1 \in 2 .. n /\ k \in 1 .. k /\ k + 1 \in k + 1 .. n /\ k + 1 \in 1 .. n
    BY <1>1, <1>8
  <2> QED
    BY <1>2, <1>4, <1>5, <2>1
<1>10. InterpolateInInterval(L, k, t) = OnLine(L[k], L[k + 1], t)
  <2>1. k # 0 /\ ~ (k >= n) /\ (k - 1) + 1 = k
    BY <1>1, <1>8
  <2> QED
    BY <2>1 DEF InterpolateInInterval, At, n
\* No sample of the signal lies between the two pairs.
<1>11. ASSUME NEW s \in S
       PROVE  /\ s.t \in Int
              /\ s.t <= t /\ t < L[k + 1].t => s.t <= L[k].t
              /\ s.t = L[k].t /\ k > 1 => s = L[k]
              /\ s.t >= t => s.t >= L[k + 1].t
              /\ s.t = L[k + 1].t => s = L[k + 1]
  <2>1. s.t \in Int
    BY <1>5 DEF Sample
  <2>2. CASE s.t < L[1].t
    <3>1. L[1].t <= L[k].t /\ L[1].t < L[k + 1].t
      BY <1>1, <1>3, <1>7, <1>8, <1>9
    <3> QED
      BY <1>6, <1>7, <1>9, <2>1, <2>2, <3>1
  <2>3. CASE \E i \in 1 .. n : L[i] = s
    <3>1. PICK i \in 1 .. n : L[i] = s
      BY <2>3
    <3>2. /\ i < k => L[i].t < L[k].t
          /\ i > k + 1 => L[i].t > L[k + 1].t
          /\ i < k \/ i = k \/ i = k + 1 \/ i > k + 1
      BY <1>1, <1>2, <1>3, <1>8, <1>9, <3>1
    <3> QED
      BY <1>6, <1>9, <2>1, <3>1, <3>2
  <2> QED
    BY <1>5, <2>2, <2>3
<1>12. before # {} /\ \A s \in before : s \in S /\ s.t <= t
  <2>1. L[2] \in S
    BY <1>1, <1>5
  <2> QED
    BY <1>6, <2>1
<1>13. L[k + 1] \in after /\ \A s \in after : s \in S /\ s.t >= t
  BY <1>9
<1> DEFINE answer == IF before = {} THEN oldest.v
                     ELSE IF newest.t = t THEN newest.v ELSE OnLine(newest, oldest, t)
<1>14. SignalAt(S, t) = answer
  BY DEF SignalAt
<1>15. CASE t = L[k + 1].t
  <2>1. L[k + 1] \in before /\ \A r \in before : r.t <= L[k + 1].t
    BY <1>9, <1>12, <1>15
  <2>2. newest \in before /\ \A r \in before : r.t <= newest.t
    <3> HIDE DEF before
    <3> QED
      BY <2>1
  <2> HIDE DEF newest, before, oldest
  <2>3. newest.t = t /\ newest = L[k + 1]
    <3>1. newest \in S /\ newest.t <= t /\ L[k + 1].t <= newest.t
      BY <1>12, <2>1, <2>2
    <3>2. newest.t \in Int
      BY <1>11, <3>1
    <3>3. newest.t = L[k + 1].t
      BY <1>9, <1>15, <3>1, <3>2
    <3> QED
      BY <1>11, <1>15, <3>1, <3>3
  <2>4. answer = L[k + 1].v
    BY <1>12, <2>3
  <2>5. OnLine(L[k], L[k + 1], L[k + 1].t) = L[k + 1].v
    BY <1>9, <1>15, LineThroughSecond
  <2> QED
    BY <1>10, <1>14, <1>15, <2>4, <2>5 DEF k, L
<1>16. CASE t < L[k + 1].t
  <2>1. k \in 2 .. n
    <3>1. k # 1
      BY <1>6, <1>7, <1>16
    <3> QED
      BY <1>1, <1>8, <3>1
  <2>2. L[k] \in before /\ \A r \in before : r.t <= L[k].t
    <3>1. L[k] \in S
      BY <1>5, <2>1
    <3> QED
      BY <1>9, <1>11, <1>16, <3>1
  <2>3. newest \in before /\ \A r \in before : r.t <= newest.t
    <3> HIDE DEF before
    <3> QED
      BY <2>2
  <2>4. \A r \in after : L[k + 1].t <= r.t
    BY <1>11
  <2>5. oldest \in after /\ \A r \in after : oldest.t <= r.t
    <3> HIDE DEF after
    <3> QED
      BY <1>13, <2>4
  <2> HIDE DEF newest, before, oldest, after
  <2>6. newest = L[k] /\ newest.t # t
    <3>1. newest \in S /\ newest.t <= L[k].t /\ L[k].t <= newest.t
      BY <1>12, <2>2, <2>3
    <3>2. newest.t \in Int
      BY <1>11, <3>1
    <3>3. newest.t = L[k].t
      BY <1>9, <3>1, <3>2
    <3> QED
      BY <1>9, <1>11, <2>1, <3>1, <3>3
  <2>7. oldest = L[k + 1]
    <3>1. oldest \in S /\ L[k + 1].t <= oldest.t /\ oldest.t <= L[k + 1].t
      BY <1>13, <2>4, <2>5
    <3>2. oldest.t \in Int
      BY <1>11, <3>1
    <3>3. oldest.t = L[k + 1].t
      BY <1>9, <3>1, <3>2
    <3> QED
      BY <1>11, <3>1, <3>3
  <2>8. answer = OnLine(L[k], L[k + 1], t)
    BY <1>12, <2>6, <2>7
  <2> QED
    BY <1>10, <1>14, <2>8 DEF k, L
<1> QED
  BY <1>9, <1>15, <1>16

\* Whatever the calls, the answers of operator() behind the second pair of the
\* vector are the recorded signal, and zero beyond the window.
THEOREM InnerWindowAlwaysExact == SignalSpec => []InnerWindowIsExact
<1>1. ASSUME SignalIInv, NEW o \in NonEmpty, Len(h[o].L) > 1, NEW tau \in AgoUpTo(h[o], 2)
      PROVE  ValueAgo(h[o], tau) = SignalAt(signal[o], CurrentTime(h[o]) - tau)
  <2> DEFINE t == CurrentTime(h[o]) - tau
  <2>1. WellFormed(h[o]) /\ Recalls(h[o], signal[o]) /\ h[o].L # <<>>
    BY <1>1 DEF SignalIInv, IInv, NonEmpty
  <2>2. /\ h[o].L \in Seq(Sample) /\ h[o].Tmax \in Nat
        /\ CurrentTime(h[o]) = h[o].L[Len(h[o].L)].t
    BY <2>1 DEF WellFormed, HistoryObject, CurrentTime, LastOf
  <2>3. h[o].L[2].t \in Int /\ CurrentTime(h[o]) \in Int
    <3>1. 2 \in 1 .. Len(h[o].L) /\ Len(h[o].L) \in 1 .. Len(h[o].L)
      BY <1>1, <2>2
    <3> QED
      BY <2>2, <3>1, PairType
  <2>4. /\ tau \in Nat /\ h[o].Tmax - tau >= Eps
        /\ t \in Int /\ h[o].L[2].t <= t /\ t <= CurrentTime(h[o])
    <3>1. /\ tau \in 0 .. CurrentTime(h[o]) - h[o].L[2].t
          /\ h[o].Tmax - tau >= Eps
      BY <1>1 DEF AgoUpTo
    <3> QED
      BY <2>3, <3>1
  <2>5. ~ (h[o].Tmax - tau < Eps) /\ ~ (tau > h[o].Tmax)
    BY <2>2, <2>4, ToleranceAssumption
  <2>6. ValueAgo(h[o], tau) = InterpolateInInterval(h[o].L, BracketingPosition(h[o].L, t), t)
    BY <2>1, <2>5 DEF ValueAgo
  <2> HIDE DEF t
  <2>7. InterpolateInInterval(h[o].L, BracketingPosition(h[o].L, t), t) = SignalAt(signal[o], t)
    BY <1>1, <2>1, <2>4, InnerIsSignal
  <2> QED
    BY <2>6, <2>7 DEF t
<1>2. ASSUME SignalIInv, NEW o \in NonEmpty, NEW extra \in Eps .. Eps + 2
      PROVE  ValueAgo(h[o], h[o].Tmax + extra) = 0
  <2>1. h[o].Tmax \in Nat
    BY <1>2 DEF SignalIInv, IInv, WellFormed, HistoryObject, NonEmpty
  <2>2. ~ ((h[o].Tmax + extra) - h[o].Tmax < Eps) /\ h[o].Tmax + extra > h[o].Tmax
    BY <2>1, ToleranceAssumption
  <2> QED
    BY <2>2 DEF ValueAgo
<1>3. SignalIInv => InnerWindowIsExact
  BY <1>1, <1>2 DEF InnerWindowIsExact
<1> QED
  BY <1>3, AlwaysSignalIInv, PTL

-----------------------------------------------------------------------------

(***************************************************************************)
(* No window is shorter than the tolerance of operator() (1E-12 s), unless *)
(* it has no length at all: the age zero would be taken for its length.    *)
(***************************************************************************)
LengthsToldApart == \A n \in Lengths : n = 0 \/ n >= Eps

\* What operator() answers for the age zero is the value recorded last.
LEMMA CurrentValue ==
  ASSUME NEW hist, WellFormed(hist), hist.L # <<>>, hist.Tmax = 0 \/ hist.Tmax >= Eps
  PROVE  ValueAgo(hist, 0) = LastOf(hist.L).v
<1> DEFINE L == hist.L
           n == Len(L)
           now == CurrentTime(hist)
           k == BracketingPosition(L, now)
<1>1. /\ L \in Seq(Sample) /\ n \in Nat \ {0} /\ hist.Tmax \in Nat /\ Increasing(L)
      /\ now = L[n].t
  BY EmptySeq DEF WellFormed, HistoryObject, CurrentTime, LastOf
<1>2. \A i \in 1 .. n : L[i] \in Sample /\ L[i].t \in Int
  BY <1>1, PairType
<1>3. now \in Int
  BY <1>1, <1>2
<1>4. ValueAgo(hist, 0) = InterpolateInInterval(L, k, now)
  <2>1. ~ (0 > hist.Tmax) /\ now - 0 = now
    BY <1>1, <1>3
  <2>2. hist.Tmax = 0 => now - hist.Tmax = now
    BY <1>3
  <2>3. hist.Tmax # 0 => ~ (hist.Tmax - 0 < Eps)
    BY <1>1, ToleranceAssumption
  <2> QED
    BY <2>1, <2>2, <2>3 DEF ValueAgo
<1>5. k \in 0 .. n /\ (k > 0 => L[k].t < now) /\ (k < n => L[k + 1].t >= now)
  BY <1>1, <1>3, BracketingPositionCorrect
<1> HIDE DEF k
<1>6. k = n - 1
  <2>1. k # n
    BY <1>1, <1>3, <1>5
  <2>2. ASSUME k < n - 1
        PROVE  FALSE
    <3>1. k + 1 \in 1 .. n /\ k + 1 < n
      BY <1>1, <1>5, <2>2
    <3>2. L[k + 1].t + EqTol < L[n].t
      BY <1>1, <3>1 DEF Increasing
    <3>3. L[k + 1].t >= now /\ L[k + 1].t \in Int
      BY <1>2, <1>5, <3>1
    <3> HIDE DEF L, n, now
    <3> QED
      BY <1>1, <1>3, <3>2, <3>3, ToleranceAssumption
  <2> HIDE DEF L, n
  <2> QED
    BY <1>1, <1>5, <2>1, <2>2
<1>7. CASE n = 1
  BY <1>4, <1>6, <1>7 DEF InterpolateInInterval, FirstOf, LastOf
<1>8. CASE n # 1
  <2>1. k \in 1 .. n /\ k + 1 = n /\ k # 0 /\ ~ (k >= n) /\ (k - 1) + 1 = k
    <3>1. n \in Nat \ {0} /\ n # 1 /\ k = n - 1
      BY <1>1, <1>6, <1>8
    <3> HIDE DEF n
    <3> QED
      BY <3>1
  <2>2. InterpolateInInterval(L, k, now) = OnLine(L[k], L[n], L[n].t)
    BY <1>1, <2>1 DEF InterpolateInInterval, At
  <2>3. L[k] \in Sample /\ L[n] \in Sample /\ L[k].t < L[n].t
    BY <1>1, <1>2, <1>5, <2>1
  <2> HIDE DEF L, n
  <2>4. OnLine(L[k], L[n], L[n].t) = L[n].v
    BY <2>3, LineThroughSecond
  <2> QED
    BY <1>4, <2>2, <2>4 DEF LastOf, L, n
<1> QED
  BY <1>7, <1>8

\* The dates of a vector are those of distinct instants, in order.
LEMMA DatesInLine ==
  ASSUME NEW L \in Seq(Sample), Increasing(L),
         NEW i \in 1 .. Len(L), NEW j \in 1 .. Len(L)
  PROVE  /\ L[i].t \in Int
         /\ i < j => L[i].t < L[j].t
         /\ i <= j => L[i].t <= L[j].t
<1>1. L[i].t \in Int /\ L[j].t \in Int
  BY PairType
<1>2. i < j => L[i].t + EqTol < L[j].t
  BY DEF Increasing
<1>3. i <= j => i < j \/ i = j
  OBVIOUS
<1> DEFINE x == L[i].t
           y == L[j].t
<1>4. i = j => x = y
  OBVIOUS
<1> HIDE DEF x, y
<1>5. x \in Int /\ y \in Int /\ (i < j => x + EqTol < y)
  BY <1>1, <1>2 DEF x, y
<1>6. (i < j => x < y) /\ (i <= j => x <= y)
  BY <1>3, <1>4, <1>5, ToleranceAssumption
<1> QED
  BY <1>1, <1>6 DEF x, y

\* Each of the two loops has a result after each pair.
LEMMA PushedBackDef ==
  ASSUME NEW item, Len(item) \in Nat, NEW kept
  PROVE  LET pushed == PushedBack(kept, item)
         IN  /\ pushed[0] = <<>>
             /\ \A k \in 1 .. Len(item) :
                  pushed[k] = IF k \in kept THEN Append(pushed[k - 1], item[k])
                                            ELSE pushed[k - 1]
<1> DEFINE n == Len(item)
           Push(k, sent) == IF k \in kept THEN Append(sent, item[k]) ELSE sent
           Is(f, k) == /\ f = [i \in 0 .. k |-> f[i]] /\ f[0] = <<>>
                       /\ \A i \in 1 .. k : f[i] = Push(i, f[i - 1])
           S == {k \in 0 .. n : \E f : Is(f, k)}
           Equation(g) == g = [i \in 0 .. n |-> IF i = 0 THEN <<>> ELSE Push(i, g[i - 1])]
<1>1. n \in Nat
  OBVIOUS
<1> HIDE DEF n, Push
<1>2. 0 \in S
  <2> DEFINE f == [i \in 0 .. 0 |-> <<>>]
  <2>1. f = [i \in 0 .. 0 |-> f[i]] /\ f[0] = <<>> /\ \A i \in 1 .. 0 : f[i] = Push(i, f[i - 1])
    OBVIOUS
  <2>2. 0 \in 0 .. n
    BY <1>1
  <2> HIDE DEF f
  <2> QED
    BY <2>1, <2>2
<1>3. ASSUME NEW k \in 0 .. n - 1, k \in S
      PROVE  k + 1 \in S
  <2>1. PICK f : Is(f, k)
    BY <1>3
  <2> DEFINE g == [i \in 0 .. k + 1 |-> IF i <= k THEN f[i] ELSE Push(k + 1, f[k])]
  <2>2. k \in Nat /\ k + 1 \in 0 .. n
    BY <1>1
  <2>3. g = [i \in 0 .. k + 1 |-> g[i]] /\ g[0] = <<>>
    BY <2>1, <2>2
  <2>4. \A i \in 0 .. k : g[i] = f[i]
    BY <2>2
  <2>5. g[k + 1] = Push(k + 1, f[k])
    BY <2>2
  <2> HIDE DEF g
  <2>6. ASSUME NEW i \in 1 .. k + 1
        PROVE  g[i] = Push(i, g[i - 1])
    <3>1. CASE i = k + 1
      <4>1. i - 1 = k /\ k \in 0 .. k
        BY <2>2, <3>1
      <4>2. g[i - 1] = f[k]
        BY <2>4, <4>1
      <4> QED
        BY <2>5, <3>1, <4>2
    <3>2. CASE i # k + 1
      <4>1. i \in 1 .. k /\ i \in 0 .. k /\ i - 1 \in 0 .. k
        BY <2>2, <3>2
      <4> QED
        BY <2>1, <2>4, <4>1
    <3> QED
      BY <3>1, <3>2
  <2> QED
    BY <2>2, <2>3, <2>6
<1>4. PICK f : Is(f, n)
  <2>1. n \in S
    <3> HIDE DEF S
    <3>1. \A k \in 0 .. n : k \in S
      BY <1>1, <1>2, <1>3, IntervalInduction
    <3> QED
      BY <1>1, <3>1
  <2> QED
    BY <2>1
<1>5. Equation(f)
  <2>1. \A i \in 0 .. n : f[i] = IF i = 0 THEN <<>> ELSE Push(i, f[i - 1])
    <3>1. f[0] = <<>> /\ \A i \in 1 .. n : f[i] = Push(i, f[i - 1])
      BY <1>4
    <3>2. \A i \in 0 .. n : i # 0 => i \in 1 .. n
      BY <1>1
    <3> QED
      BY <3>1, <3>2
  <2>2. f = [i \in 0 .. n |-> f[i]]
    BY <1>4, <1>1
  <2> QED
    BY <2>1, <2>2
<1>6. PushedBack(kept, item) = CHOOSE g : Equation(g)
  BY DEF PushedBack, Push, n
<1>7. Equation(PushedBack(kept, item))
  <2> HIDE DEF Equation
  <2> QED
    BY <1>5, <1>6
<1>8. \A i \in 0 .. n : PushedBack(kept, item)[i] =
                         IF i = 0 THEN <<>> ELSE Push(i, PushedBack(kept, item)[i - 1])
  BY <1>7
<1>9. PushedBack(kept, item)[0] = <<>>
  BY <1>1, <1>8
<1>10. \A k \in 1 .. n : PushedBack(kept, item)[k] = Push(k, PushedBack(kept, item)[k - 1])
  BY <1>1, <1>8
<1> QED
  BY <1>9, <1>10 DEF n, Push

\* A loop that keeps the members from the place j on pushes back those, in
\* order, and nothing else.
LEMMA PushedBackSuffix ==
  ASSUME NEW item \in Seq(Int), NEW j \in 1 .. Len(item)
  PROVE  LET pushed == PushedBack(j .. Len(item), item)[Len(item)]
         IN  /\ Len(pushed) = Len(item) - j + 1
             /\ \A i \in 1 .. Len(item) - j + 1 : pushed[i] = item[j + i - 1]
<1> DEFINE n == Len(item)
           kept == j .. n
           pushed == PushedBack(kept, item)
           Length(k) == IF k < j THEN 0 ELSE k - j + 1
           S == {k \in 0 .. n : /\ pushed[k] \in Seq(Int) /\ Len(pushed[k]) = Length(k)
                                /\ \A i \in 1 .. Length(k) : pushed[k][i] = item[j + i - 1]}
<1>1. n \in Nat /\ j \in 1 .. n
  BY LenProperties
<1>2. \A k \in 1 .. n : item[k] \in Int
  BY ElementOfSeq
<1>3. /\ pushed[0] = <<>>
      /\ \A k \in 1 .. n : pushed[k] = IF k \in kept THEN Append(pushed[k - 1], item[k])
                                                     ELSE pushed[k - 1]
  BY <1>1, PushedBackDef
<1> HIDE DEF n, pushed
<1>4. 0 \in S
  <2>1. /\ pushed[0] \in Seq(Int) /\ Len(pushed[0]) = 0 /\ Length(0) = 0 /\ 0 \in 0 .. n
        /\ 1 .. 0 = {}
    BY <1>1, <1>3, EmptySeq
  <2> QED
    BY <2>1
<1>5. ASSUME NEW k \in 0 .. n - 1, k \in S
      PROVE  k + 1 \in S
  <2>1. /\ k + 1 \in 1 .. n /\ k + 1 \in 0 .. n /\ (k + 1) - 1 = k /\ k \in Nat
        /\ item[k + 1] \in Int
    BY <1>1, <1>2
  <2>2. /\ pushed[k] \in Seq(Int) /\ Len(pushed[k]) = Length(k)
        /\ \A i \in 1 .. Length(k) : pushed[k][i] = item[j + i - 1]
    BY <1>5
  <2>3. CASE k + 1 < j
    <3>1. k + 1 \notin kept /\ Length(k + 1) = 0 /\ Length(k) = 0
      BY <1>1, <2>1, <2>3
    <3>2. pushed[k + 1] = pushed[k]
      BY <1>3, <2>1, <3>1
    <3> HIDE DEF Length
    <3> QED
      BY <2>1, <2>2, <3>1, <3>2
  <2>4. CASE ~ (k + 1 < j)
    <3>1. /\ k + 1 \in kept /\ Length(k + 1) = Length(k) + 1 /\ Length(k) \in Nat
          /\ j + (Length(k) + 1) - 1 = k + 1
      BY <1>1, <2>1, <2>4
    <3>2. pushed[k + 1] = Append(pushed[k], item[k + 1])
      BY <1>3, <2>1, <3>1
    <3> HIDE DEF Length
    <3>3. /\ pushed[k + 1] \in Seq(Int) /\ Len(pushed[k + 1]) = Length(k) + 1
          /\ \A i \in 1 .. Length(k) : pushed[k + 1][i] = pushed[k][i]
          /\ pushed[k + 1][Length(k) + 1] = item[k + 1]
      <4> DEFINE m == Length(k)
                 s == pushed[k]
                 w == item[k + 1]
      <4>1. s \in Seq(Int) /\ Len(s) = m /\ w \in Int /\ pushed[k + 1] = Append(s, w)
        BY <2>1, <2>2, <3>2
      <4> HIDE DEF m, s, w
      <4>2. /\ Append(s, w) \in Seq(Int) /\ Len(Append(s, w)) = Len(s) + 1
            /\ \A i \in 1 .. Len(s) : Append(s, w)[i] = s[i]
            /\ Append(s, w)[Len(s) + 1] = w
        BY <4>1, AppendProperties
      <4> QED
        BY <4>1, <4>2 DEF m, s, w
    <3>4. ASSUME NEW i \in 1 .. Length(k + 1)
          PROVE  pushed[k + 1][i] = item[j + i - 1]
      <4>1. i \in 1 .. Length(k) \/ i = Length(k) + 1
        BY <3>1
      <4> QED
        BY <2>2, <3>1, <3>3, <4>1
    <3> QED
      BY <2>1, <3>1, <3>3, <3>4
  <2> QED
    BY <2>3, <2>4
<1>6. n \in S
  <2> HIDE DEF S
  <2>1. \A k \in 0 .. n : k \in S
    BY <1>1, <1>4, <1>5, IntervalInduction
  <2> QED
    BY <1>1, <2>1
<1>7. Length(n) = n - j + 1
  BY <1>1
<1> HIDE DEF Length
<1> QED
  BY <1>6, <1>7 DEF n, pushed

\* get_dates and get_values answer the dates and the values of the same pairs:
\* those of the vector that are dated tmax ago or later.
LEMMA SentPairs ==
  ASSUME NEW hist, WellFormed(hist), hist.L # <<>>, hist.Tmax = 0 \/ hist.Tmax >= Eps,
         NEW tmax \in Nat
  PROVE  \E j \in 1 .. Len(hist.L) :
           /\ Len(DatesSince(hist, tmax)) = Len(hist.L) - j + 1
           /\ Len(ValuesSince(hist, tmax)) = Len(hist.L) - j + 1
           /\ \A i \in 1 .. Len(hist.L) - j + 1 :
                /\ DatesSince(hist, tmax)[i] = hist.L[j + i - 1].t
                /\ ValuesSince(hist, tmax)[i] = hist.L[j + i - 1].v
           /\ \A i \in 1 .. j - 1 : hist.L[i].t < CurrentTime(hist) - tmax
           /\ \A i \in j .. Len(hist.L) : hist.L[i].t >= CurrentTime(hist) - tmax
<1> DEFINE L == hist.L
           n == Len(L)
           now == CurrentTime(hist)
           dates == DatesSince(hist, tmax)
           values == ValuesSince(hist, tmax)
<1>1. /\ L \in Seq(Sample) /\ n \in Nat \ {0} /\ Increasing(L) /\ now = L[n].t
  BY EmptySeq, LenProperties DEF WellFormed, HistoryObject, CurrentTime, LastOf
<1>2. /\ \A i \in 1 .. n : L[i].t \in Int /\ L[i].v \in Int
      /\ now \in Int
  BY <1>1, PairType
<1>3. CASE tmax = 0
  <2>1. dates = <<now>>
    BY <1>3 DEF DatesSince
  <2>2. values = <<L[n].v>>
    <3>1. ValueAgo(hist, 0) = L[n].v
      BY CurrentValue DEF LastOf
    <3> QED
      BY <1>3, <3>1 DEF ValuesSince
  <2> HIDE DEF dates, values
  <2>3. /\ n - n + 1 = 1 /\ n + 1 - 1 = n /\ n \in 1 .. n /\ now - tmax = now
        /\ Len(dates) = 1 /\ dates[1] = now /\ Len(values) = 1 /\ values[1] = L[n].v
    BY <1>1, <1>2, <1>3, <2>1, <2>2
  <2>4. ASSUME NEW i \in 1 .. n - 1
        PROVE  L[i].t < L[n].t
    <3>1. i \in 1 .. n /\ n \in 1 .. n /\ i < n
      BY <1>1
    <3> QED
      BY <1>1, <3>1, DatesInLine
  <2>5. \A i \in n .. n : L[i].t >= now
    BY <1>1, <1>2
  <2>6. \A i \in 1 .. n - n + 1 : dates[i] = L[n + i - 1].t /\ values[i] = L[n + i - 1].v
    <3>1. \A i \in 1 .. 1 : dates[i] = L[n + i - 1].t /\ values[i] = L[n + i - 1].v
      <4>1. \A i \in 1 .. 1 : i = 1
        OBVIOUS
      <4> HIDE DEF L, n, now
      <4> QED
        BY <1>1, <2>3, <4>1
    <3> HIDE DEF L, n, now
    <3> QED
      BY <2>3, <3>1
  <2> HIDE DEF L, n, now
  <2>7. /\ Len(dates) = n - n + 1 /\ Len(values) = n - n + 1
        /\ \A i \in 1 .. n - 1 : L[i].t < now - tmax
        /\ \A i \in n .. n : L[i].t >= now - tmax
    BY <1>1, <2>3, <2>4, <2>5
  <2> QED
    BY <2>3, <2>6, <2>7 DEF L, n, now, dates, values
<1>4. CASE tmax # 0
  <2> DEFINE k == BracketingPosition(L, now - tmax)
             j == k + 1
             kept == {i \in 1 .. n : tmax >= now - L[i].t}
  <2>1. now - tmax \in Int
    BY <1>2
  <2>2. /\ k \in 0 .. n
        /\ \A i \in 1 .. k : L[i].t < now - tmax
        /\ \A i \in k + 1 .. n : L[i].t >= now - tmax
    BY <1>1, <2>1, BracketingPositionCorrect, BracketingPositionSplits
  <2>3. dates = PushedBack(kept, DatesOf(L))[n] /\ values = PushedBack(kept, ValuesOf(L))[n]
    BY <1>4 DEF DatesSince, ValuesSince
  <2> HIDE DEF k, L, n, now, dates, values
  <2>4. k # n
    <3>1. k = n => L[n].t < now - tmax
      BY <1>1, <2>2
    <3> QED
      BY <1>1, <1>2, <3>1
  <2>5. /\ j \in 1 .. n /\ j - 1 = k
        /\ \A i \in 1 .. j - 1 : L[i].t < now - tmax
        /\ \A i \in j .. n : L[i].t >= now - tmax
    BY <1>1, <2>2, <2>4
  <2> HIDE DEF j
  <2>6. kept = j .. n
    <3>1. ASSUME NEW i \in kept
          PROVE  i \in j .. n
      <4>1. ~ (i <= j - 1)
        BY <1>2, <2>5
      <4> QED
        BY <2>5, <4>1
    <3>2. ASSUME NEW i \in j .. n
          PROVE  i \in kept
      <4>1. i \in 1 .. n /\ L[i].t >= now - tmax
        BY <2>5
      <4> QED
        BY <1>2, <4>1
    <3> QED
      BY <3>1, <3>2
  <2>7. /\ DatesOf(L) \in Seq(Int) /\ Len(DatesOf(L)) = n
        /\ ValuesOf(L) \in Seq(Int) /\ Len(ValuesOf(L)) = n
        /\ \A i \in 1 .. n : DatesOf(L)[i] = L[i].t /\ ValuesOf(L)[i] = L[i].v
    BY <1>1, <1>2 DEF DatesOf, ValuesOf, n
  <2> HIDE DEF kept
  <2>11. ASSUME NEW item \in Seq(Int), Len(item) = n
         PROVE  /\ Len(PushedBack(kept, item)[n]) = n - j + 1
                /\ \A i \in 1 .. n - j + 1 : PushedBack(kept, item)[n][i] = item[j + i - 1]
    <3>1. j \in 1 .. Len(item) /\ kept = j .. Len(item)
      BY <2>5, <2>6, <2>11
    <3> QED
      BY <2>11, <3>1, PushedBackSuffix
  <2>8. /\ Len(dates) = n - j + 1
        /\ \A i \in 1 .. n - j + 1 : dates[i] = DatesOf(L)[j + i - 1]
    BY <2>3, <2>7, <2>11
  <2>9. /\ Len(values) = n - j + 1
        /\ \A i \in 1 .. n - j + 1 : values[i] = ValuesOf(L)[j + i - 1]
    BY <2>3, <2>7, <2>11
  <2>10. ASSUME NEW i \in 1 .. n - j + 1
         PROVE  dates[i] = L[j + i - 1].t /\ values[i] = L[j + i - 1].v
    <3>1. j + i - 1 \in 1 .. n
      BY <1>1, <2>5
    <3> QED
      BY <2>7, <2>8, <2>9, <3>1
  <2> QED
    BY <2>5, <2>8, <2>9, <2>10 DEF L, n, now, dates, values
<1> QED
  BY <1>3, <1>4

\* What a remote force model is sent are recorded samples, or the start of the
\* window, each date with its value, and no sample of the duration it asked
\* for is left out.
THEOREM SentHistoryAlwaysComplete ==
  ASSUME LengthsToldApart
  PROVE  SignalSpec => []SentHistoryIsComplete
<1>1. ASSUME SignalIInv, NEW o \in NonEmpty, NEW tmax \in 0 .. h[o].Tmax
      PROVE  LET dates  == DatesSince(h[o], tmax)
                 values == ValuesSince(h[o], tmax)
                 sent   == [i \in 1 .. Len(dates) |-> [t |-> dates[i], v |-> values[i]]]
                 now    == CurrentTime(h[o])
             IN  /\ Len(values) = Len(dates)
                 /\ \A i, j \in 1 .. Len(dates) : i < j => dates[i] < dates[j]
                 /\ \A i \in 1 .. Len(dates) :
                      /\ dates[i] >= now - tmax
                      /\ sent[i] \in signal[o] \/ dates[i] = now - h[o].Tmax
                 /\ \A s \in signal[o] :
                      s.t >= now - tmax => \E i \in 1 .. Len(dates) : sent[i] = s
  <2> DEFINE L == h[o].L
             n == Len(L)
             S == signal[o]
             now == CurrentTime(h[o])
             dates == DatesSince(h[o], tmax)
             values == ValuesSince(h[o], tmax)
             sent == [i \in 1 .. Len(dates) |-> [t |-> dates[i], v |-> values[i]]]
  <2>1. WellFormed(h[o]) /\ Recalls(h[o], S) /\ L # <<>>
    BY <1>1 DEF SignalIInv, IInv, NonEmpty
  <2>2. /\ L \in Seq(Sample) /\ n \in Nat \ {0} /\ h[o].Tmax \in Nat /\ Increasing(L)
        /\ tmax \in Nat /\ tmax <= h[o].Tmax
        /\ now = L[n].t
    BY <2>1, EmptySeq DEF WellFormed, HistoryObject, CurrentTime, LastOf
  <2>3. \A i \in 1 .. n : L[i] \in Sample /\ L[i].t \in Int
    BY <2>2, PairType
  <2>4. now \in Int
    BY <2>2, <2>3
  <2>5. h[o].Tmax = 0 \/ h[o].Tmax >= Eps
    BY <1>1 DEF SignalIInv, NonEmpty, LengthsToldApart
  <2>6. PICK j \in 1 .. n :
           /\ Len(dates) = n - j + 1 /\ Len(values) = n - j + 1
           /\ \A i \in 1 .. n - j + 1 : dates[i] = L[j + i - 1].t /\ values[i] = L[j + i - 1].v
           /\ \A i \in 1 .. j - 1 : L[i].t < now - tmax
           /\ \A i \in j .. n : L[i].t >= now - tmax
    BY <2>1, <2>2, <2>5, SentPairs
  <2>7. \A i, m \in 1 .. n : i < m => L[i].t < L[m].t
    BY <2>2, DatesInLine
  <2>8. /\ S \subseteq Sample
        /\ L[1] \in S \/ L[1].t = now - h[o].Tmax
        /\ \A i \in 2 .. n : L[i] \in S
        /\ \A s \in S : (\E i \in 1 .. n : L[i] = s) \/ s.t < now - h[o].Tmax
    BY <2>1 DEF Recalls, FirstOf
  <2> HIDE DEF L, n, S, now, dates, values
  <2>9. ASSUME NEW i \in 1 .. Len(dates)
        PROVE  /\ j + i - 1 \in 1 .. n /\ j + i - 1 \in j .. n
               /\ dates[i] = L[j + i - 1].t /\ sent[i] = L[j + i - 1]
    <3>1. j + i - 1 \in 1 .. n /\ j + i - 1 \in j .. n
      BY <2>2, <2>6
    <3>2. dates[i] = L[j + i - 1].t /\ values[i] = L[j + i - 1].v
      BY <2>6
    <3>3. L[j + i - 1] = [t |-> L[j + i - 1].t, v |-> L[j + i - 1].v]
      BY <2>3, <3>1 DEF Sample
    <3> QED
      BY <3>1, <3>2, <3>3
  <2>10. ASSUME NEW i \in 1 .. Len(dates), NEW m \in 1 .. Len(dates), i < m
         PROVE  dates[i] < dates[m]
    <3>1. j + i - 1 < j + m - 1
      BY <2>6, <2>10
    <3> QED
      BY <2>7, <2>9, <3>1
  <2>11. ASSUME NEW i \in 1 .. Len(dates)
         PROVE  dates[i] >= now - tmax /\ (sent[i] \in S \/ dates[i] = now - h[o].Tmax)
    <3>1. dates[i] >= now - tmax
      BY <2>6, <2>9
    <3>2. j + i - 1 = 1 \/ j + i - 1 \in 2 .. n
      <4>1. Len(dates) = n - j + 1 /\ n \in Nat
        BY <2>2, <2>6
      <4> HIDE DEF dates, n
      <4> QED
        BY <4>1
    <3>3. L[j + i - 1] \in S \/ L[j + i - 1].t = now - h[o].Tmax
      BY <2>8, <3>2
    <3> QED
      BY <2>9, <3>1, <3>3
  <2>12. ASSUME NEW s \in S, s.t >= now - tmax
         PROVE  \E i \in 1 .. Len(dates) : sent[i] = s
    <3>1. s.t \in Int
      BY <2>8 DEF Sample
    <3>2. PICK m \in 1 .. n : L[m] = s
      <4>1. ~ (s.t < now - h[o].Tmax)
        BY <2>2, <2>4, <2>12, <3>1
      <4> QED
        BY <2>8, <4>1
    <3>3. ~ (m \in 1 .. j - 1)
      BY <2>2, <2>4, <2>6, <2>12, <3>1, <3>2
    <3>4. m - j + 1 \in 1 .. Len(dates) /\ j + (m - j + 1) - 1 = m
      BY <2>2, <2>6, <3>2, <3>3
    <3>5. sent[m - j + 1] = L[j + (m - j + 1) - 1]
      BY <2>9, <3>4
    <3>6. sent[m - j + 1] = s
      BY <3>2, <3>4, <3>5
    <3> HIDE DEF sent
    <3> QED
      BY <3>4, <3>6
  <2>13. Len(values) = Len(dates)
    BY <2>6
  <2> HIDE DEF sent
  <2> QED
    BY <2>10, <2>11, <2>12, <2>13 DEF sent, dates, values, now, S
<1>2. SignalIInv => SentHistoryIsComplete
  BY <1>1 DEF SentHistoryIsComplete
<1> QED
  BY <1>2, AlwaysSignalIInv, PTL

-----------------------------------------------------------------------------

(***************************************************************************)
(* Values are counted in a unit fine enough for the line through any two   *)
(* samples to have whole values at whole dates.                            *)
(***************************************************************************)
LinesAreWhole ==
  \A s, t \in Dates : \A v, w \in Values :
    s < t => \E slope \in Int : w - v = slope * (t - s)

\* A running sum starts from zero and gains one member at each index.
LEMMA RunningSumDef ==
  ASSUME NEW a \in Int, NEW b \in Int, a <= b, NEW term
  PROVE  LET sum == RunningSum(term, a, b)
         IN  /\ sum[a] = 0
             /\ \A i \in a + 1 .. b : sum[i] = sum[i - 1] + term[i]
<1> DEFINE n == b - a
           Is(f, k) == /\ f = [i \in a .. a + k |-> f[i]] /\ f[a] = 0
                       /\ \A i \in a + 1 .. a + k : f[i] = f[i - 1] + term[i]
           S == {k \in 0 .. n : \E f : Is(f, k)}
           Equation(g) == g = [i \in a .. b |-> IF i = a THEN 0 ELSE g[i - 1] + term[i]]
<1>1. n \in Nat /\ a + n = b
  OBVIOUS
<1> HIDE DEF n
<1>2. 0 \in S
  <2> DEFINE f == [i \in a .. a |-> 0]
  <2>1. f = [i \in a .. a + 0 |-> f[i]] /\ f[a] = 0 /\ \A i \in a + 1 .. a + 0 : f[i] = f[i - 1] + term[i]
    OBVIOUS
  <2>2. 0 \in 0 .. n
    BY <1>1
  <2> HIDE DEF f
  <2> QED
    BY <2>1, <2>2
<1>3. ASSUME NEW k \in 0 .. n - 1, k \in S
      PROVE  k + 1 \in S
  <2>1. PICK f : Is(f, k)
    BY <1>3
  <2> DEFINE e == a + k
             g == [i \in a .. e + 1 |-> IF i <= e THEN f[i] ELSE f[e] + term[e + 1]]
  <2>2. k \in Nat /\ k + 1 \in 0 .. n /\ e \in Int /\ a <= e /\ a + (k + 1) = e + 1
    BY <1>1
  <2>3. /\ f[a] = 0
        /\ \A i \in a + 1 .. e : f[i] = f[i - 1] + term[i]
    BY <2>1
  <2> HIDE DEF e
  <2>4. g = [i \in a .. e + 1 |-> g[i]] /\ g[a] = 0
    BY <2>2, <2>3
  <2>5. \A i \in a .. e : g[i] = f[i]
    BY <2>2
  <2>6. g[e + 1] = f[e] + term[e + 1]
    BY <2>2
  <2> HIDE DEF g
  <2>7. ASSUME NEW i \in a + 1 .. e + 1
        PROVE  g[i] = g[i - 1] + term[i]
    <3>1. CASE i = e + 1
      <4>1. i - 1 = e /\ e \in a .. e
        BY <2>2, <3>1
      <4>2. g[i - 1] = f[e]
        BY <2>5, <4>1
      <4> QED
        BY <2>6, <3>1, <4>2
    <3>2. CASE i # e + 1
      <4>1. i \in a + 1 .. e /\ i \in a .. e /\ i - 1 \in a .. e
        BY <2>2, <3>2
      <4> QED
        BY <2>3, <2>5, <4>1
    <3> QED
      BY <3>1, <3>2
  <2>8. Is(g, k + 1)
    BY <2>2, <2>4, <2>7
  <2> QED
    BY <2>2, <2>8
<1>4. PICK f : Is(f, n)
  <2>1. n \in S
    <3> HIDE DEF S
    <3>1. \A k \in 0 .. n : k \in S
      BY <1>1, <1>2, <1>3, IntervalInduction
    <3> QED
      BY <1>1, <3>1
  <2> QED
    BY <2>1
<1>5. Equation(f)
  <2>1. f = [i \in a .. b |-> f[i]] /\ f[a] = 0 /\ \A i \in a + 1 .. b : f[i] = f[i - 1] + term[i]
    BY <1>1, <1>4
  <2>2. \A i \in a .. b : f[i] = IF i = a THEN 0 ELSE f[i - 1] + term[i]
    <3>1. f[a] = 0 /\ \A i \in a + 1 .. b : f[i] = f[i - 1] + term[i]
      BY <2>1
    <3> QED
      BY <3>1
  <2> QED
    BY <2>1, <2>2
<1>6. RunningSum(term, a, b) = CHOOSE g : Equation(g)
  BY DEF RunningSum
<1>7. Equation(RunningSum(term, a, b))
  <2> HIDE DEF Equation
  <2> QED
    BY <1>5, <1>6
<1>8. \A i \in a .. b : RunningSum(term, a, b)[i] =
                         IF i = a THEN 0 ELSE RunningSum(term, a, b)[i - 1] + term[i]
  BY <1>7
<1>9. RunningSum(term, a, b)[a] = 0
  BY <1>8
<1>10. \A i \in a + 1 .. b : RunningSum(term, a, b)[i] = RunningSum(term, a, b)[i - 1] + term[i]
  BY <1>8
<1> QED
  BY <1>9, <1>10

(* The values V are those of a line from p to e. *)
Straight(V, p, e) ==
  \E x, c, q \in Int : \A t \in p .. e : V[t] = c + q * (t - x)

(* The function sum adds the unit trapezes of V from p to e. *)
Sums(sum, V, p, e) ==
  \A t \in p + 1 .. e : sum[t] = sum[t - 1] + Trapeze2(t - 1, V[t - 1], t, V[t])

\* The unit trapezes under a line make one trapeze.
LEMMA TrapezesUnderLine ==
  ASSUME NEW p \in Int, NEW e \in Int, p <= e,
         NEW V, Straight(V, p, e), NEW sum, sum[p] \in Int, Sums(sum, V, p, e)
  PROVE  sum[e] = sum[p] + Trapeze2(p, V[p], e, V[e])
<1>a. PICK x \in Int, c \in Int, q \in Int : \A t \in p .. e : V[t] = c + q * (t - x)
  BY DEF Straight
<1>b. \A t \in p + 1 .. e : sum[t] = sum[t - 1] + Trapeze2(t - 1, V[t - 1], t, V[t])
  BY DEF Sums
<1> DEFINE n == e - p
           b == c + q * (p - x)
           S == {k \in 0 .. n : sum[p + k] = sum[p] + k * (2 * b + q * k)}
<1>1. n \in Nat /\ b \in Int /\ p + n = e
  OBVIOUS
<1>2. \A k \in 0 .. n : V[p + k] = b + q * k
  <2> TAKE k \in 0 .. n
  <2>1. p + k \in p .. e
    BY <1>1
  <2>2. V[p + k] = c + q * ((p + k) - x)
    BY <1>a, <2>1
  <2>3. (p + k) - x = (p - x) + k /\ k \in Int /\ p - x \in Int
    BY <1>1
  <2>4. q * ((p - x) + k) = q * (p - x) + q * k
    BY <2>3
  <2> QED
    BY <2>2, <2>3, <2>4
<1> HIDE DEF n, b
<1>3. 0 \in S
  BY <1>1
<1>4. ASSUME NEW k \in 0 .. n - 1, k \in S
      PROVE  k + 1 \in S
  <2>1. k \in Nat /\ k \in 0 .. n /\ k + 1 \in 0 .. n /\ p + (k + 1) \in p + 1 .. e
        /\ (p + (k + 1)) - 1 = p + k
    BY <1>1
  <2>2. sum[p + (k + 1)] = sum[p + k] + Trapeze2(p + k, V[p + k], p + (k + 1), V[p + (k + 1)])
    BY <1>b, <2>1
  <2>3. Trapeze2(p + k, V[p + k], p + (k + 1), V[p + (k + 1)])
          = (b + q * k) + (b + q * (k + 1))
    <3>1. V[p + k] = b + q * k /\ V[p + (k + 1)] = b + q * (k + 1)
      BY <1>2, <2>1
    <3>2. (p + (k + 1)) - (p + k) = 1
      BY <2>1
    <3>3. (b + q * k) + (b + q * (k + 1)) \in Int
      BY <1>1, <2>1
    <3> QED
      BY <3>1, <3>2, <3>3 DEF Trapeze2
  <2>4. sum[p + k] = sum[p] + k * (2 * b + q * k)
    BY <1>4
  <2>5. k * (2 * b + q * k) + ((b + q * k) + (b + q * (k + 1)))
          = (k + 1) * (2 * b + q * (k + 1))
    BY <1>1, <2>1
  <2>6. sum[p + (k + 1)] = sum[p] + (k + 1) * (2 * b + q * (k + 1))
    BY <1>1, <2>1, <2>2, <2>3, <2>4, <2>5
  <2> QED
    BY <2>1, <2>6
<1>5. n \in S
  <2> HIDE DEF S
  <2>1. \A k \in 0 .. n : k \in S
    BY <1>1, <1>3, <1>4, IntervalInduction
  <2> QED
    BY <1>1, <2>1
<1>6. Trapeze2(p, V[p], e, V[e]) = n * (2 * b + q * n)
  <2>1. V[p] = b /\ V[e] = b + q * n
    <3>1. V[p + 0] = b + q * 0 /\ V[p + n] = b + q * n
      BY <1>1, <1>2
    <3> QED
      BY <1>1, <3>1
  <2>2. e - p = n
    BY <1>1
  <2> QED
    BY <1>1, <2>1, <2>2 DEF Trapeze2
<1> QED
  BY <1>1, <1>5, <1>6

\* Behind the second pair, the signal is the line through the pairs around a
\* date.
LEMMA SignalBetween ==
  ASSUME NEW hist, WellFormed(hist), NEW S, Recalls(hist, S),
         NEW j \in 2 .. Len(hist.L), NEW t \in Int,
         hist.L[2].t <= t, hist.L[j - 1].t < t, t <= hist.L[j].t
  PROVE  /\ BracketingPosition(hist.L, t) = j - 1
         /\ SignalAt(S, t) = OnLine(hist.L[j - 1], hist.L[j], t)
<1> DEFINE L == hist.L
           n == Len(L)
           k == BracketingPosition(L, t)
<1>1. /\ L \in Seq(Sample) /\ n \in Nat /\ Increasing(L) /\ j \in 2 .. n
      /\ L[j - 1].t < t /\ t <= L[j].t
  BY LenProperties DEF WellFormed, HistoryObject
<1>2. L # <<>> /\ CurrentTime(hist) = L[n].t
  BY <1>1, EmptySeq DEF CurrentTime, LastOf
<1>3. \A i \in 1 .. n : L[i].t \in Int
  BY <1>1, PairType
<1>4. \A i, m \in 1 .. n : i <= m => L[i].t <= L[m].t
  BY <1>1, DatesInLine
<1>5. k \in 0 .. n /\ (k > 0 => L[k].t < t) /\ (k < n => L[k + 1].t >= t)
  BY <1>1, BracketingPositionCorrect
<1>6. k = j - 1
  <2> HIDE DEF L, n, k
  <2>1. ASSUME k > j - 1
        PROVE  FALSE
    <3>1. k > 0 /\ k \in 1 .. n /\ j \in 1 .. n /\ j <= k
      BY <1>1, <1>5, <2>1
    <3>2. L[j].t <= L[k].t /\ L[k].t < t /\ L[j].t \in Int /\ L[k].t \in Int
      BY <1>3, <1>4, <1>5, <3>1
    <3> QED
      BY <1>1, <3>2
  <2>2. ASSUME k < j - 1
        PROVE  FALSE
    <3>1. k < n /\ k + 1 \in 1 .. n /\ j - 1 \in 1 .. n /\ k + 1 <= j - 1
      BY <1>1, <1>5, <2>2
    <3>2. /\ L[k + 1].t <= L[j - 1].t /\ L[k + 1].t >= t
          /\ L[k + 1].t \in Int /\ L[j - 1].t \in Int
      BY <1>3, <1>4, <1>5, <3>1
    <3>3. L[j - 1].t < t
      BY <1>1
    <3> QED
      BY <3>2, <3>3
  <2> QED
    BY <1>1, <1>5, <2>1, <2>2
<1>7. InterpolateInInterval(L, j - 1, t) = OnLine(L[j - 1], L[j], t)
  <2>1. j - 1 # 0 /\ ~ (j - 1 >= n) /\ ((j - 1) - 1) + 1 = j - 1 /\ (j - 1) + 1 = j
    BY <1>1
  <2> QED
    BY <2>1 DEF InterpolateInInterval, At, n
<1>8. SignalAt(S, t) = InterpolateInInterval(L, k, t)
  <2>1. t <= CurrentTime(hist) /\ Len(hist.L) > 1
    <3>1. L[j].t <= L[n].t /\ L[n].t \in Int /\ L[j].t \in Int
      <4>1. j \in 1 .. n /\ n \in 1 .. n /\ j <= n
        BY <1>1
      <4> QED
        BY <1>3, <1>4, <4>1
    <3>2. t <= L[n].t
      <4>1. t <= L[j].t
        BY <1>1
      <4> HIDE DEF L, n
      <4> QED
        BY <3>1, <4>1
    <3>3. n > 1
      BY <1>1
    <3> QED
      BY <1>2, <3>2, <3>3
  <2> QED
    BY <2>1, InnerIsSignal
<1> QED
  BY <1>6, <1>7, <1>8

\* At a pair other than the first one, the signal has the value of the pair.
LEMMA SignalAtPair ==
  ASSUME NEW hist, WellFormed(hist), NEW S, Recalls(hist, S), NEW j \in 2 .. Len(hist.L)
  PROVE  SignalAt(S, hist.L[j].t) = hist.L[j].v
<1> DEFINE L == hist.L
           n == Len(L)
<1>1. L \in Seq(Sample) /\ n \in Nat /\ Increasing(L) /\ j \in 2 .. n
  BY LenProperties DEF WellFormed, HistoryObject
<1>2. \A i \in 1 .. n : L[i] \in Sample /\ L[i].t \in Int
  BY <1>1, PairType
<1>3. \A i, m \in 1 .. n : (i < m => L[i].t < L[m].t) /\ (i <= m => L[i].t <= L[m].t)
  BY <1>1, DatesInLine
<1>4. /\ L[j - 1] \in Sample /\ L[j] \in Sample /\ L[j - 1].t < L[j].t
      /\ L[j].t \in Int /\ L[2].t <= L[j].t
  <2> HIDE DEF L, n
  <2>1. j \in 1 .. n /\ j - 1 \in 1 .. n /\ 2 \in 1 .. n /\ j - 1 < j /\ 2 <= j
    BY <1>1
  <2> QED
    BY <1>2, <1>3, <2>1
<1>5. L[j].t <= L[j].t
  BY <1>4
<1>6. SignalAt(S, L[j].t) = OnLine(L[j - 1], L[j], L[j].t)
  BY <1>4, <1>5, SignalBetween
<1> QED
  BY <1>4, <1>6, LineThroughSecond

\* Where the slope of the line through two pairs is whole, it has no rounding.
LEMMA OnWholeLine ==
  ASSUME NEW a \in Sample, NEW b \in Sample, a.t < b.t,
         NEW q \in Int, b.v - a.v = q * (b.t - a.t), NEW t \in Int
  PROVE  OnLine(a, b, t) = a.v + q * (t - a.t)
<1> DEFINE width == b.t - a.t
           u == t - a.t
<1>1. width \in Nat \ {0} /\ u \in Int
  BY DEF Sample
<1>2. OnLine(a, b, t) = a.v + (u * (q * width)) \div width
  BY DEF OnLine
<1> HIDE DEF width, u
<1>3. (u * (q * width)) \div width = q * u
  <2>1. u * (q * width) = (q * u) * width /\ q * u \in Int
    BY <1>1
  <2>2. ((q * u) * width) \div width = q * u
    <3> DEFINE x == q * u
    <3>1. x \in Int
      BY <2>1
    <3> HIDE DEF x
    <3>2. (x * width) \div width = x
      BY <1>1, <3>1
    <3> QED
      BY <3>2 DEF x
  <2> QED
    BY <2>1, <2>2
<1> QED
  BY <1>2, <1>3 DEF u

\* When the first pair is on the signal, the signal rises with one slope up to
\* the second one.
LEMMA SignalOnFirstPiece ==
  ASSUME LinesAreWhole, NEW hist, WellFormed(hist),
         NEW S \in SUBSET [t : Dates, v : Values], Recalls(hist, S),
         Len(hist.L) > 1, hist.L[1].v = SignalAt(S, hist.L[1].t)
  PROVE  \E q \in Int : \A t \in hist.L[1].t .. hist.L[2].t :
           SignalAt(S, t) = hist.L[1].v + q * (t - hist.L[1].t)
<1> DEFINE L == hist.L
           n == Len(L)
           a == L[1]
           b == L[2]
           P == {s \in S : s.t <= a.t}
           Q == {s \in S : s.t >= b.t}
           before(t) == {s \in S : s.t <= t}
           after(t) == {s \in S : s.t >= t}
           newest == CHOOSE s \in P : \A r \in P : r.t <= s.t
           oldest == CHOOSE s \in Q : \A r \in Q : s.t <= r.t
<1>1. /\ L \in Seq(Sample) /\ n \in Nat /\ n > 1 /\ Increasing(L) /\ L # <<>>
      /\ 1 \in 1 .. n /\ 2 \in 1 .. n /\ 2 \in 2 .. n
  BY LenProperties, EmptySeq DEF WellFormed, HistoryObject
<1>2. \A i \in 1 .. n : L[i] \in Sample /\ L[i].t \in Int /\ L[i].v \in Int
  BY <1>1, PairType
<1>3. \A i, m \in 1 .. n : i < m => L[i].t < L[m].t
  BY <1>1, DatesInLine
<1>4. /\ a \in Sample /\ b \in Sample /\ a.t \in Int /\ b.t \in Int
      /\ a.v \in Int /\ b.v \in Int /\ a.t < b.t /\ b \in S
  BY <1>1, <1>2, <1>3 DEF Recalls
<1>5. \A s \in S : s \in Sample /\ s.t \in Int /\ s.v \in Int
  BY DEF Recalls, Sample
<1>6. ASSUME NEW s \in S
      PROVE  s.t <= a.t \/ s = b \/ s.t > b.t
  <2>1. CASE s.t < L[1].t
    BY <1>4, <1>5, <2>1
  <2>2. CASE \E i \in 1 .. n : L[i] = s
    <3>1. PICK i \in 1 .. n : L[i] = s
      BY <2>2
    <3>2. i = 1 \/ i = 2 \/ (2 < i /\ L[2].t < L[i].t)
      BY <1>1, <1>3
    <3> QED
      BY <1>2, <1>4, <3>1, <3>2
  <2> QED
    BY <1>1, <2>1, <2>2 DEF Recalls, FirstOf
<1>7. SignalAt(S, b.t) = b.v
  BY <1>1, SignalAtPair
<1>8. a.v = SignalAt(S, a.t)
  OBVIOUS
<1>9. oldest = b
  <2>1. b \in Q /\ \A r \in Q : b.t <= r.t
    BY <1>4, <1>5
  <2>2. oldest \in Q /\ \A r \in Q : oldest.t <= r.t
    <3> HIDE DEF Q
    <3> QED
      BY <2>1
  <2>3. oldest \in S /\ oldest.t <= b.t /\ oldest.t >= b.t
    BY <2>1, <2>2
  <2> HIDE DEF oldest
  <2> QED
    BY <1>4, <1>5, <1>6, <2>3
<1> HIDE DEF L, n, a, b
<1>10. ASSUME NEW t \in a.t .. b.t - 1
       PROVE  before(t) = P
  <2>1. \A s \in S : s.t <= t <=> s.t <= a.t
    BY <1>4, <1>5, <1>6
  <2> QED
    BY <2>1
<1>11. ASSUME NEW t \in a.t .. b.t - 1, t # a.t \/ \A s \in P : s.t # a.t
       PROVE  after(t) = Q
  <2>1. \A s \in S : s.t >= t <=> s.t >= b.t
    BY <1>4, <1>5, <1>6, <1>11
  <2> QED
    BY <2>1
<1> HIDE DEF P, Q, before, after
<1>12. ASSUME NEW t \in a.t .. b.t - 1, t # a.t \/ \A s \in P : s.t # a.t
       PROVE  SignalAt(S, t) = IF P = {} THEN b.v
                               ELSE IF newest.t = t THEN newest.v ELSE OnLine(newest, b, t)
  <2>1. SignalAt(S, t) =
          LET bef == before(t)
              aft == after(t)
              new == CHOOSE s \in bef : \A r \in bef : r.t <= s.t
              old == CHOOSE s \in aft : \A r \in aft : s.t <= r.t
          IN  IF bef = {} THEN old.v ELSE IF new.t = t THEN new.v ELSE OnLine(new, old, t)
    BY DEF SignalAt, before, after
  <2>2. before(t) = P /\ after(t) = Q
    BY <1>10, <1>11, <1>12
  <2> QED
    BY <1>9, <2>1, <2>2
<1>13. CASE P = {}
  <2>1. ASSUME NEW t \in a.t .. b.t
        PROVE  SignalAt(S, t) = a.v + 0 * (t - a.t)
    <3>1. a.t \in a.t .. b.t - 1 /\ \A s \in P : s.t # a.t
      BY <1>4, <1>13
    <3>2. a.v = b.v
      BY <1>8, <1>12, <1>13, <3>1
    <3>3. SignalAt(S, t) = b.v
      <4>1. t = b.t \/ t \in a.t .. b.t - 1
        BY <1>4
      <4> QED
        BY <1>7, <1>12, <1>13, <3>1, <4>1
    <3>4. a.v + 0 * (t - a.t) = a.v
      BY <1>4
    <3> QED
      BY <3>2, <3>3, <3>4
  <2>2. \E q \in Int : \A t \in a.t .. b.t : SignalAt(S, t) = a.v + q * (t - a.t)
    <3>1. 0 \in Int
      OBVIOUS
    <3> WITNESS 0 \in Int
    <3> QED
      BY <2>1
  <2> QED
    BY <2>2 DEF a, b, L
<1>14. CASE P # {}
  <2>1. newest \in P /\ \A r \in P : r.t <= newest.t
    <3> DEFINE ages == {a.t - s.t : s \in P}
    <3>1. \A s \in P : s.t \in Int /\ s.t <= a.t
      BY <1>5 DEF P
    <3>2. ages \in SUBSET Nat /\ ages # {}
      BY <1>4, <1>14, <3>1
    <3>3. PICK m \in ages : \A k \in ages : m <= k
      BY <3>2, LeastNatural
    <3>4. PICK p \in P : m = a.t - p.t
      BY <3>3
    <3>5. ASSUME NEW r \in P
          PROVE  r.t <= p.t
      <4>1. a.t - p.t <= a.t - r.t
        BY <3>3, <3>4
      <4> QED
        BY <1>4, <3>1, <4>1
    <3> QED
      BY <3>5
  <2> HIDE DEF newest
  <2> DEFINE p == newest
  <2>2. p \in S /\ p \in Sample /\ p.t \in Int /\ p.v \in Int /\ p.t <= a.t /\ p.t < b.t
    <3>1. p \in S /\ p.t <= a.t
      BY <2>1 DEF P
    <3> QED
      BY <1>4, <1>5, <3>1
  <2>3. PICK q \in Int : b.v - p.v = q * (b.t - p.t)
    <3>1. p.t \in Dates /\ b.t \in Dates /\ p.v \in Values /\ b.v \in Values
      BY <1>4, <2>2
    <3> QED
      BY <2>2, <3>1 DEF LinesAreWhole
  <2> HIDE DEF p
  <2>4. ASSUME NEW t \in Int
        PROVE  OnLine(p, b, t) = p.v + q * (t - p.t)
    BY <1>4, <2>2, <2>3, OnWholeLine
  <2>5. p.v + q * (p.t - p.t) = p.v
    <3>1. p.t - p.t = 0 /\ q * 0 = 0
      BY <2>2
    <3> QED
      BY <2>2, <3>1
  <2>6. ASSUME NEW t \in a.t .. b.t - 1
        PROVE  SignalAt(S, t) = p.v + q * (t - p.t)
    <3>1. CASE t = a.t /\ p.t = a.t
      <4>1. before(t) = P
        BY <1>10
      <4>2. SignalAt(S, t) = newest.v
        BY <1>14, <3>1, <4>1 DEF SignalAt, before, newest, p
      <4> QED
        BY <2>5, <3>1, <4>2 DEF p
    <3>2. CASE ~ (t = a.t /\ p.t = a.t)
      <4>1. t # a.t \/ \A s \in P : s.t # a.t
        <5>1. ASSUME t = a.t, NEW s \in P
              PROVE  s.t # a.t
          <6>1. s.t <= p.t /\ p.t # a.t /\ s.t \in Int
            BY <1>5, <2>1, <3>2, <5>1 DEF p, P
          <6> QED
            BY <1>4, <2>2, <6>1
        <5> QED
          BY <5>1
      <4>2. SignalAt(S, t) = IF p.t = t THEN p.v ELSE OnLine(p, b, t)
        BY <1>12, <1>14, <4>1 DEF p
      <4> QED
        BY <1>4, <2>4, <2>5, <4>2
    <3> QED
      BY <3>1, <3>2
  <2>7. SignalAt(S, b.t) = p.v + q * (b.t - p.t)
    <3>1. b.v = p.v + (b.v - p.v)
      BY <1>4, <2>2
    <3> QED
      BY <1>7, <2>3, <3>1
  <2>8. a.v = p.v + q * (a.t - p.t)
    <3>1. a.t \in a.t .. b.t - 1
      BY <1>4
    <3> QED
      BY <1>8, <2>6, <3>1
  <2>9. ASSUME NEW t \in a.t .. b.t
        PROVE  SignalAt(S, t) = a.v + q * (t - a.t)
    <3>1. SignalAt(S, t) = p.v + q * (t - p.t)
      <4>1. t = b.t \/ t \in a.t .. b.t - 1
        BY <1>4
      <4> QED
        BY <2>6, <2>7, <4>1
    <3>2. q * (t - p.t) = q * (a.t - p.t) + q * (t - a.t)
      <4>1. t - p.t = (a.t - p.t) + (t - a.t) /\ t \in Int
        BY <1>4, <2>2
      <4>2. a.t - p.t \in Int /\ t - a.t \in Int
        BY <1>4, <2>2, <4>1
      <4>3. \A y, z \in Int : q * (y + z) = q * y + q * z
        OBVIOUS
      <4> QED
        BY <4>1, <4>2, <4>3
    <3>3. \A y, z \in Int : p.v + (y + z) = (p.v + y) + z
      BY <2>2
    <3>4. q * (a.t - p.t) \in Int /\ q * (t - a.t) \in Int
      <4>1. a.t - p.t \in Int /\ t - a.t \in Int
        BY <1>4, <2>2
      <4>2. \A y \in Int : q * y \in Int
        OBVIOUS
      <4> QED
        BY <4>1, <4>2
    <3> QED
      BY <2>8, <3>1, <3>2, <3>3, <3>4
  <2> QED
    BY <2>9 DEF a, b, L
<1> QED
  BY <1>13, <1>14

\* Between two pairs that were recorded the signal rises with one slope.
LEMMA SignalOnPiece ==
  ASSUME LinesAreWhole, NEW hist, WellFormed(hist),
         NEW S \in SUBSET [t : Dates, v : Values], Recalls(hist, S),
         NEW j \in 2 .. Len(hist.L) - 1
  PROVE  \E q \in Int : \A t \in hist.L[j].t .. hist.L[j + 1].t :
           SignalAt(S, t) = hist.L[j].v + q * (t - hist.L[j].t)
<1> DEFINE L == hist.L
           n == Len(L)
           a == L[j]
           b == L[j + 1]
<1>1. L \in Seq(Sample) /\ n \in Nat /\ Increasing(L) /\ j \in 2 .. n - 1 /\ L # <<>>
  BY LenProperties, EmptySeq DEF WellFormed, HistoryObject
<1>2. \A i \in 1 .. n : L[i] \in Sample /\ L[i].t \in Int
  BY <1>1, PairType
<1>3. \A i, m \in 1 .. n : (i < m => L[i].t < L[m].t) /\ (i <= m => L[i].t <= L[m].t)
  BY <1>1, DatesInLine
<1>4. /\ a \in Sample /\ b \in Sample /\ a.t < b.t /\ a.t \in Int /\ b.t \in Int
      /\ L[2].t <= a.t /\ L[2].t \in Int
  <2> HIDE DEF L, n
  <2>1. j \in 1 .. n /\ j + 1 \in 1 .. n /\ 2 \in 1 .. n /\ j < j + 1 /\ 2 <= j
    BY <1>1
  <2> QED
    BY <1>2, <1>3, <2>1
<1>5. a \in S /\ b \in S
  <2>1. j \in 2 .. n /\ j + 1 \in 2 .. n
    BY <1>1
  <2> QED
    BY <1>1, <2>1 DEF Recalls
<1>6. a.t \in Dates /\ b.t \in Dates /\ a.v \in Values /\ b.v \in Values
      /\ a.v \in Int /\ b.v \in Int
  BY <1>4, <1>5 DEF Sample
<1>7. PICK q \in Int : b.v - a.v = q * (b.t - a.t)
  BY <1>4, <1>6 DEF LinesAreWhole
<1> HIDE DEF a, b
<1>8. ASSUME NEW t \in a.t .. b.t
      PROVE  SignalAt(S, t) = a.v + q * (t - a.t)
  <2>1. CASE t = a.t
    <3>1. SignalAt(S, a.t) = a.v
      <4>1. j \in 2 .. Len(hist.L)
        BY <1>1
      <4> QED
        BY <4>1, SignalAtPair DEF a
    <3>2. q * (a.t - a.t) = 0 /\ a.v + 0 = a.v
      <4>1. a.t - a.t = 0 /\ a.v + 0 = a.v
        <5>1. a.t \in Int /\ a.v \in Int
          BY <1>4, <1>6
        <5> QED
          BY <5>1
      <4>2. q * 0 = 0
        OBVIOUS
      <4> QED
        BY <4>1, <4>2
    <3> QED
      BY <2>1, <3>1, <3>2
  <2>2. CASE t # a.t
    <3>1. SignalAt(S, t) = OnLine(a, b, t)
      <4>1. j + 1 \in 2 .. Len(hist.L) /\ (j + 1) - 1 = j
        BY <1>1
      <4>2. t \in Int /\ a.t < t /\ t <= b.t /\ L[2].t <= t
        BY <1>4, <2>2
      <4> QED
        BY <4>1, <4>2, SignalBetween DEF a, b
    <3>2. t \in Int
      BY <1>4
    <3>3. OnLine(a, b, t) = a.v + q * (t - a.t)
      BY <1>4, <1>7, <3>2, OnWholeLine
    <3> QED
      BY <3>1, <3>3
  <2> QED
    BY <2>1, <2>2
<1> QED
  BY <1>8 DEF a, b

\* The average adds the part of a trapeze and the whole ones up to the last
\* pair: together they are the integral of the signal.
LEMMA AverageOfSignal ==
  ASSUME LinesAreWhole, NEW hist, WellFormed(hist),
         NEW S \in SUBSET [t : Dates, v : Values], Recalls(hist, S), Len(hist.L) > 1,
         NEW lo \in 1 .. 2, lo = 1 => hist.L[1].v = SignalAt(S, hist.L[1].t),
         NEW T \in 0 .. CurrentTime(hist) - hist.L[lo].t
  PROVE  IntegralSince2(hist, CurrentTime(hist) - T)
           = Integral2(S, CurrentTime(hist) - T, CurrentTime(hist))
<1> DEFINE L == hist.L
           n == Len(L)
           now == CurrentTime(hist)
           from == now - T
           k == BracketingPosition(L, from)
           V == [t \in from .. now |-> SignalAt(S, t)]
           unit == [t \in from + 1 .. now |->
                      Trapeze2(t - 1, SignalAt(S, t - 1), t, SignalAt(S, t))]
           F == RunningSum(unit, from, now)
           I == Integrals2(L, k)
           first == Trapeze2(from, V[from], L[k + 1].t, L[k + 1].v)
<1>1. /\ L \in Seq(Sample) /\ n \in Nat /\ n > 1 /\ L # <<>> /\ Increasing(L)
      /\ now = L[n].t
  BY EmptySeq, LenProperties DEF WellFormed, HistoryObject, CurrentTime, LastOf
<1>2. \A i \in 1 .. n : L[i].t \in Int /\ L[i].v \in Int
  BY <1>1, PairType
<1>3. \A i, m \in 1 .. n : (i < m => L[i].t < L[m].t) /\ (i <= m => L[i].t <= L[m].t)
  BY <1>1, DatesInLine
<1>4. /\ L[1].t \in Int /\ L[2].t \in Int /\ now \in Int /\ L[1].t < L[2].t
      /\ T \in Nat /\ from \in Int /\ L[lo].t <= from /\ from <= now /\ L[lo].t \in Int
      /\ L[1].t <= from
  <2>1. 1 \in 1 .. n /\ 2 \in 1 .. n /\ n \in 1 .. n /\ (lo = 1 \/ lo = 2)
    BY <1>1
  <2>2. /\ L[1].t \in Int /\ L[2].t \in Int /\ now \in Int /\ L[1].t < L[2].t
        /\ L[lo].t \in Int /\ L[1].t <= L[lo].t
    BY <1>1, <1>2, <1>3, <2>1
  <2>3. T \in 0 .. now - L[lo].t
    OBVIOUS
  <2> HIDE DEF now, L
  <2> QED
    BY <2>2, <2>3
<1>6. /\ k \in 0 .. n - 1
      /\ k # 0 => L[k].t < from
      /\ from <= L[k + 1].t
  <2>1. /\ k \in 0 .. n
        /\ \A i \in 1 .. k : L[i].t < from
        /\ \A i \in k + 1 .. n : L[i].t >= from
    BY <1>1, <1>4, BracketingPositionCorrect, BracketingPositionSplits
  <2> HIDE DEF L, n, now, from, k
  <2>2. k # n
    <3>1. k = n => L[n].t < from
      BY <1>1, <2>1
    <3> QED
      BY <1>1, <1>4, <3>1
  <2>3. k \in 0 .. n - 1 /\ k + 1 \in k + 1 .. n /\ k + 1 \in 1 .. n /\ (k # 0 => k \in 1 .. k)
    BY <1>1, <2>1, <2>2
  <2>4. L[k + 1].t >= from /\ L[k + 1].t \in Int /\ (k # 0 => L[k].t < from)
    BY <1>2, <2>1, <2>3
  <2> QED
    BY <1>4, <2>3, <2>4
<1>23. k + 1 \in lo .. n /\ (k # 0 /\ from # L[k + 1].t => k \in lo .. n - 1)
  <2>1. lo = 2 => k # 0
    <3>1. 1 \in 1 .. n /\ 2 \in 1 .. n
      BY <1>1
    <3> HIDE DEF from, k
    <3>2. k = 0 => from <= L[1].t
      BY <1>6
    <3> QED
      BY <1>4, <3>2
  <2>2. lo = 2 /\ from # L[k + 1].t => k # 1
    <3> HIDE DEF from, k
    <3>1. k = 1 => from <= L[2].t
      BY <1>6
    <3> QED
      BY <1>4, <3>1
  <2> HIDE DEF L, n, now, from, k
  <2> QED
    BY <1>1, <1>6, <2>1, <2>2
<1>7. InterpolateInInterval(L, k, from) = V[from] /\ V[from] \in Int
  <2>1. InterpolateInInterval(L, k, from) = SignalAt(S, from)
    <3>1. CASE L[2].t <= from
      BY <1>1, <1>4, <3>1, InnerIsSignal
    <3>2. CASE ~ (L[2].t <= from)
      <4>1. lo = 1 /\ from < L[2].t
        <5>1. lo = 1 \/ lo = 2
          OBVIOUS
        <5> HIDE DEF from
        <5> QED
          BY <1>4, <3>2, <5>1
      <4>2. k = 0 \/ k = 1
        <5>1. k > 1 => L[2].t <= L[k].t /\ L[k].t \in Int
          <6>1. k > 1 => 2 \in 1 .. n /\ k \in 1 .. n /\ 2 <= k
            <7> HIDE DEF k
            <7> QED
              BY <1>1, <1>6
          <6> QED
            BY <1>2, <1>3, <6>1
        <5>2. k \in Nat /\ (k > 1 => L[k].t < from)
          <6> HIDE DEF k, from
          <6> QED
            BY <1>1, <1>6
        <5> HIDE DEF k, from
        <5> QED
          BY <1>4, <4>1, <5>1, <5>2
      <4>3. CASE k = 0
        <5>1. from = L[1].t
          <6>1. from <= L[1].t
            <7> HIDE DEF from, k
            <7> QED
              BY <1>6, <4>3
          <6> HIDE DEF from
          <6> QED
            BY <1>4, <6>1
        <5>2. InterpolateInInterval(L, k, from) = L[1].v
          BY <4>3 DEF InterpolateInInterval, FirstOf
        <5> QED
          BY <4>1, <5>1, <5>2
      <4>4. CASE k = 1
        <5>1. InterpolateInInterval(L, k, from) = OnLine(L[1], L[2], from)
          <6>1. k # 0 /\ ~ (k >= n) /\ (k - 1) + 1 = 1 /\ k + 1 = 2
            <7> HIDE DEF k, n
            <7> QED
              BY <1>1, <4>4
          <6> QED
            BY <6>1 DEF InterpolateInInterval, At
        <5>2. PICK q \in Int : \A t \in L[1].t .. L[2].t :
                                 SignalAt(S, t) = L[1].v + q * (t - L[1].t)
          BY <1>1, <4>1, SignalOnFirstPiece
        <5>3. SignalAt(S, L[2].t) = L[2].v
          <6>1. 2 \in 2 .. Len(hist.L)
            BY <1>1
          <6> QED
            BY <6>1, SignalAtPair
        <5>4. L[1] \in Sample /\ L[2] \in Sample /\ L[1].v \in Int /\ L[2].v \in Int
          BY <1>1, <1>2, PairType
        <5>5. L[2].t \in L[1].t .. L[2].t /\ from \in L[1].t .. L[2].t
          <6> HIDE DEF L, from
          <6> QED
            BY <1>4, <4>1
        <5>6. L[2].v - L[1].v = q * (L[2].t - L[1].t)
          <6>1. L[2].v = L[1].v + q * (L[2].t - L[1].t)
            BY <5>2, <5>3, <5>5
          <6>2. q * (L[2].t - L[1].t) \in Int
            <7>1. L[2].t - L[1].t \in Int
              BY <1>4
            <7>2. \A y \in Int : q * y \in Int
              OBVIOUS
            <7> QED
              BY <7>1, <7>2
          <6>3. \A x, y, z \in Int : x = y + z => x - y = z
            OBVIOUS
          <6> QED
            BY <5>4, <6>1, <6>2, <6>3
        <5>7. OnLine(L[1], L[2], from) = L[1].v + q * (from - L[1].t)
          <6> DEFINE a == L[1]
                     b == L[2]
          <6>1. /\ a \in Sample /\ b \in Sample /\ a.t < b.t /\ b.v - a.v = q * (b.t - a.t)
                /\ from \in Int
            BY <1>4, <5>4, <5>6
          <6> HIDE DEF a, b, from
          <6>2. OnLine(a, b, from) = a.v + q * (from - a.t)
            BY <6>1, OnWholeLine
          <6> QED
            BY <6>2 DEF a, b
        <5> QED
          BY <5>1, <5>2, <5>5, <5>7
      <4> QED
        BY <4>2, <4>3, <4>4
    <3> QED
      BY <3>1, <3>2
  <2>2. V[from] = SignalAt(S, from)
    <3>1. from \in from .. now
      BY <1>4
    <3> QED
      BY <3>1
  <2>3. k \in Nat
    BY <1>6
  <2>4. InterpolateInInterval(L, k, from) \in Int
    BY <1>1, <1>4, <2>3, InterpolationType
  <2> QED
    BY <2>1, <2>2, <2>4
<1>8. IntegralSince2(hist, from) = first + I[n - 1]
  <2>1. IntegralSince2(hist, from)
          = Trapeze2(from, InterpolateInInterval(L, k, from), At(L, k).t, At(L, k).v)
              + Integrate2(L, k)
    BY DEF IntegralSince2
  <2> HIDE DEF k, V, from
  <2> QED
    BY <1>7, <2>1 DEF At, Integrate2
<1>9. Integral2(S, from, now) = F[now]
  BY DEF Integral2
<1>10. /\ F[from] = 0
       /\ \A t \in from + 1 .. now : F[t] = F[t - 1] + Trapeze2(t - 1, V[t - 1], t, V[t])
  <2>1. F[from] = 0 /\ \A t \in from + 1 .. now : F[t] = F[t - 1] + unit[t]
    <3> HIDE DEF from, now, unit
    <3> QED
      BY <1>4, RunningSumDef
  <2>2. ASSUME NEW t \in from + 1 .. now
        PROVE  unit[t] = Trapeze2(t - 1, V[t - 1], t, V[t])
    <3>1. t \in from .. now /\ t - 1 \in from .. now
      <4> HIDE DEF from, now
      <4> QED
        BY <1>4
    <3> QED
      BY <3>1
  <2> HIDE DEF F, unit, V
  <2> QED
    BY <2>1, <2>2
<1>11. /\ I[k] = 0
       /\ \A i \in k + 1 .. n - 1 :
            I[i] = I[i - 1] + Trapeze2(L[i].t, L[i].v, L[i + 1].t, L[i + 1].v)
  <2> DEFINE term == [i \in k + 1 .. n - 1 |->
                        Trapeze2(At(L, i - 1).t, At(L, i - 1).v, At(L, i).t, At(L, i).v)]
  <2>1. I = RunningSum(term, k, n - 1)
    BY DEF Integrals2
  <2>2. k \in Int /\ n - 1 \in Int /\ k <= n - 1
    BY <1>1, <1>6
  <2>3. \A i \in k + 1 .. n - 1 :
          term[i] = Trapeze2(L[i].t, L[i].v, L[i + 1].t, L[i + 1].v)
    <3> TAKE i \in k + 1 .. n - 1
    <3>1. (i - 1) + 1 = i
      <4>1. k + 1 \in Int
        BY <2>2
      <4> HIDE DEF k, n
      <4> QED
        BY <2>2, <4>1
    <3> HIDE DEF k
    <3> QED
      BY <3>1 DEF At
  <2> HIDE DEF term, I, k
  <2>4. I[k] = 0 /\ \A i \in k + 1 .. n - 1 : I[i] = I[i - 1] + term[i]
    BY <2>1, <2>2, RunningSumDef
  <2> QED
    BY <2>3, <2>4
<1>12. \A j \in lo .. n : L[j].t \in from .. now => V[L[j].t] = L[j].v
  <2> TAKE j \in lo .. n
  <2>1. SignalAt(S, L[j].t) = L[j].v
    <3>1. j \in 2 .. n \/ (j = 1 /\ lo = 1)
      OBVIOUS
    <3>2. j \in 2 .. n => SignalAt(S, L[j].t) = L[j].v
      BY SignalAtPair
    <3> QED
      BY <3>1, <3>2
  <2> QED
    BY <2>1
<1>13. ASSUME NEW j \in lo .. n - 1, NEW p \in Int,
              from <= p, L[j].t <= p, p <= L[j + 1].t, F[p] \in Int
       PROVE  F[L[j + 1].t] = F[p] + Trapeze2(p, V[p], L[j + 1].t, L[j + 1].v)
  <2> DEFINE x == L[j].t
             e == L[j + 1].t
             c == L[j].v
  <2>1. PICK q \in Int : \A t \in x .. e : SignalAt(S, t) = c + q * (t - x)
    <3>1. j \in 2 .. n - 1 \/ (j = 1 /\ lo = 1 /\ j + 1 = 2)
      OBVIOUS
    <3>2. CASE j \in 2 .. n - 1
      BY <3>2, SignalOnPiece
    <3>3. CASE j = 1 /\ lo = 1 /\ j + 1 = 2
      BY <1>1, <3>3, SignalOnFirstPiece
    <3> QED
      BY <3>1, <3>2, <3>3
  <2>2. /\ x \in Int /\ e \in Int /\ c \in Int /\ e <= now /\ j + 1 \in lo .. n
    <3>1. j \in 1 .. n /\ j + 1 \in 1 .. n /\ n \in 1 .. n /\ j + 1 <= n /\ j + 1 \in lo .. n
      BY <1>1
    <3> QED
      BY <1>1, <1>2, <1>3, <3>1
  <2>3. x <= p /\ p <= e
    BY <1>13
  <2>4. V[e] = L[j + 1].v
    <3>1. e \in from .. now
      <4> HIDE DEF e, from, now
      <4> QED
        BY <1>4, <1>13, <2>2, <2>3
    <3> QED
      BY <1>12, <2>2, <3>1
  <2> HIDE DEF x, e, c, from, now
  <2>5. Straight(V, p, e)
    <3> SUFFICES ASSUME NEW t \in p .. e PROVE V[t] = c + q * (t - x)
      BY <2>2 DEF Straight
    <3>1. t \in x .. e /\ t \in from .. now
      <4>1. from \in Int /\ now \in Int /\ from <= p
        BY <1>4, <1>13
      <4>2. x \in Int /\ e \in Int /\ e <= now
        BY <2>2
      <4> QED
        BY <2>3, <4>1, <4>2
    <3> QED
      BY <2>1, <3>1
  <2>6. Sums(F, V, p, e)
    <3> SUFFICES ASSUME NEW t \in p + 1 .. e
                 PROVE  F[t] = F[t - 1] + Trapeze2(t - 1, V[t - 1], t, V[t])
      BY DEF Sums
    <3>1. t \in from + 1 .. now
      <4>1. from \in Int /\ now \in Int /\ from <= p
        BY <1>4, <1>13
      <4>2. e \in Int /\ e <= now
        BY <2>2
      <4> QED
        BY <2>3, <4>1, <4>2
    <3> QED
      BY <1>10, <3>1
  <2> HIDE DEF V, F
  <2>7. F[e] = F[p] + Trapeze2(p, V[p], e, V[e])
    <3>1. F[p] \in Int
      BY <1>13
    <3>2. p <= e
      BY <2>3
    <3>3. e \in Int
      BY <2>2
    <3>4. \A g, f : Straight(g, p, e) /\ f[p] \in Int /\ Sums(f, g, p, e)
                     => f[e] = f[p] + Trapeze2(p, g[p], e, g[e])
      BY <3>2, <3>3, TrapezesUnderLine
    <3> QED
      BY <2>5, <2>6, <3>1, <3>4
  <2> QED
    BY <2>4, <2>7 DEF e
<1> HIDE DEF L, n, now, from, k, V, F, I, unit
<1>14. k + 1 \in 1 .. n /\ k + 1 \in lo .. n /\ L[k + 1].t \in Int /\ L[k + 1].v \in Int
  <2>1. k + 1 \in 1 .. n /\ k + 1 \in lo .. n
    BY <1>1, <1>6, <1>23
  <2> QED
    BY <1>2, <2>1
<1>15. first \in Int
  <2>1. L[k + 1].t - from \in Int
    BY <1>4, <1>14
  <2>2. V[from] + L[k + 1].v \in Int
    BY <1>7, <1>14
  <2>3. \A d, e \in Int : d * e \in Int
    OBVIOUS
  <2> QED
    BY <2>1, <2>2, <2>3 DEF Trapeze2
<1>16. F[L[k + 1].t] = first
  <2>1. CASE from = L[k + 1].t
    <3>1. L[k + 1].t - from = 0
      BY <1>4, <2>1
    <3>2. V[from] + L[k + 1].v \in Int
      BY <1>7, <1>14
    <3> QED
      BY <1>10, <2>1, <3>1, <3>2 DEF Trapeze2
  <2>2. CASE from # L[k + 1].t
    <3>1. k # 0
      <4>1. k = 0 => from <= L[1].t
        BY <1>6
      <4> QED
        BY <1>4, <2>2, <4>1
    <3>2. k \in lo .. n - 1 /\ k \in 1 .. n
      BY <1>1, <1>6, <1>23, <2>2, <3>1
    <3>3. L[k].t \in Int
      BY <1>2, <3>2
    <3>4. from <= from /\ L[k].t <= from /\ F[from] \in Int
      <4>1. L[k].t < from /\ from \in Int
        BY <1>4, <1>6, <3>1
      <4> QED
        BY <1>10, <3>3, <4>1
    <3>5. F[L[k + 1].t] = F[from] + first
      BY <1>4, <1>6, <1>13, <3>2, <3>4
    <3> QED
      BY <1>10, <1>15, <3>5
  <2> QED
    BY <2>1, <2>2
<1> HIDE DEF first
<1> DEFINE last == (n - 1) - k
           U == {m \in 0 .. last : /\ I[k + m] \in Int
                                   /\ F[L[k + 1 + m].t] = first + I[k + m]}
<1>17. last \in Nat /\ k \in Int /\ k + last = n - 1 /\ (k + 1) + last = n
  BY <1>1, <1>6
<1>18. 0 \in U
  <2>1. k + 0 = k /\ k + 1 + 0 = k + 1 /\ 0 \in 0 .. last
    BY <1>17
  <2>2. I[k] \in Int /\ first + I[k] = first
    BY <1>11, <1>15
  <2> QED
    BY <1>16, <2>1, <2>2
<1>19. ASSUME NEW m \in 0 .. last - 1, m \in U
       PROVE  m + 1 \in U
  <2> DEFINE i == k + m + 1
  <2>1. /\ i \in Int /\ i \in k + 1 .. n - 1 /\ i \in lo .. n - 1 /\ i \in 1 .. n /\ i + 1 \in 1 .. n
        /\ i - 1 = k + m /\ k + (m + 1) = i /\ k + 1 + m = i /\ k + 1 + (m + 1) = i + 1
        /\ m + 1 \in 0 .. last /\ k + 1 <= i /\ k + 1 \in 1 .. n
    BY <1>1, <1>6, <1>17, <1>23
  <2> HIDE DEF i
  <2>2. I[i - 1] \in Int /\ F[L[i].t] = first + I[i - 1]
    BY <1>19, <2>1
  <2>3. /\ L[i].t \in Int /\ L[i].v \in Int /\ L[i + 1].t \in Int /\ L[i + 1].v \in Int
        /\ L[k + 1].t <= L[i].t /\ L[i].t <= L[i + 1].t /\ L[i].t <= now
    <3>1. /\ L[i].t \in Int /\ L[i].v \in Int /\ L[i + 1].t \in Int /\ L[i + 1].v \in Int
      BY <1>2, <2>1
    <3>2. i <= i + 1 /\ i <= n /\ n \in 1 .. n
      <4>1. i \in 1 .. n /\ n \in Nat
        BY <1>1, <2>1
      <4> QED
        BY <4>1
    <3> QED
      BY <1>1, <1>3, <2>1, <3>1, <3>2
  <2> DEFINE trapeze == Trapeze2(L[i].t, L[i].v, L[i + 1].t, L[i + 1].v)
  <2>4. trapeze \in Int
    <3> DEFINE x == L[i].t
               y == L[i + 1].t
    <3>1. x \in Int /\ y \in Int /\ L[i].v \in Int /\ L[i + 1].v \in Int
      BY <2>3
    <3>2. L[i].v + L[i + 1].v \in Int
      BY <3>1
    <3> HIDE DEF x, y
    <3>3. y - x \in Int
      BY <3>1
    <3> QED
      BY <3>2, <3>3 DEF Trapeze2, x, y
  <2>5. I[i] = I[i - 1] + trapeze
    BY <1>11, <2>1
  <2>6. from <= L[i].t
    <3>1. from <= L[k + 1].t
      BY <1>6
    <3>2. L[k + 1].t <= L[i].t /\ L[i].t \in Int
      BY <2>3
    <3>3. from \in Int /\ L[k + 1].t \in Int
      BY <1>4, <1>14
    <3> QED
      BY <3>1, <3>2, <3>3
  <2>7. V[L[i].t] = L[i].v
    <3>1. L[i].t \in from .. now
      BY <1>4, <2>3, <2>6
    <3>2. i \in lo .. n
      BY <1>1, <2>1
    <3> QED
      BY <1>12, <3>1, <3>2
  <2>8. F[L[i].t] \in Int /\ L[i].t <= L[i].t
    <3>1. first + I[i - 1] \in Int
      BY <1>15, <2>2
    <3>2. L[i].t \in Int
      BY <2>3
    <3>3. L[i].t <= L[i].t
      BY <3>2
    <3> QED
      BY <2>2, <3>1, <3>3
  <2>9. F[L[i + 1].t] = F[L[i].t] + trapeze
    BY <1>13, <2>1, <2>3, <2>6, <2>7, <2>8
  <2> HIDE DEF trapeze
  <2>10. I[i] \in Int /\ F[L[i + 1].t] = first + I[i]
    <3> DEFINE before == I[i - 1]
    <3>1. before \in Int /\ first \in Int /\ trapeze \in Int
      BY <1>15, <2>2, <2>4
    <3>2. I[i] = before + trapeze /\ F[L[i + 1].t] = (first + before) + trapeze
      BY <2>2, <2>5, <2>9
    <3> HIDE DEF before
    <3>3. (first + before) + trapeze = first + (before + trapeze) /\ before + trapeze \in Int
      BY <3>1
    <3> QED
      BY <3>2, <3>3
  <2> QED
    BY <2>1, <2>10
<1>20. last \in U
  <2> HIDE DEF U
  <2>1. \A m \in 0 .. last : m \in U
    BY <1>17, <1>18, <1>19, IntervalInduction
  <2> QED
    BY <1>17, <2>1
<1>21. F[now] = first + I[n - 1]
  BY <1>1, <1>17, <1>20
<1> QED
  BY <1>8, <1>9, <1>21 DEF now, from

\* average(T) is the mean of the recorded signal over the last T seconds, or
\* over all the window holds when that is shorter, as soon as the duration it
\* covers is clear of the first interval or the window starts on the signal,
\* and when interpolated values are whole.
THEOREM AverageAlwaysExact ==
  ASSUME LinesAreWhole
  PROVE  SignalSpec => []AverageIsExact
<1>1. ASSUME SignalIInv, NEW o \in NonEmpty, NEW T \in 0 .. Duration(h[o]) + 1
      PROVE  LET now      == CurrentTime(h[o])
                 recorded == now - FirstOf(h[o].L).t
                 covered  == IF T <= recorded THEN T ELSE recorded
                 clear    == Len(h[o].L) > 1 /\ now - covered >= h[o].L[2].t
             IN  clear \/ StartsOnSignal(o) =>
                   Average(h[o], T) =
                     IF covered = 0 THEN [sum |-> SignalAt(signal[o], now), over |-> 1]
                     ELSE [sum  |-> Integral2(signal[o], now - covered, now),
                           over |-> 2 * covered]
  <2> DEFINE hist == h[o]
             L == hist.L
             n == Len(L)
             S == signal[o]
             now == CurrentTime(hist)
             recorded == now - FirstOf(L).t
             covered == IF T <= recorded THEN T ELSE recorded
             clear == n > 1 /\ now - covered >= L[2].t
             Exact == Average(hist, T) =
                        IF covered = 0 THEN [sum |-> SignalAt(S, now), over |-> 1]
                        ELSE [sum  |-> Integral2(S, now - covered, now), over |-> 2 * covered]
  <2>1. WellFormed(hist) /\ Recalls(hist, S) /\ S \in SUBSET [t : Dates, v : Values]
    BY <1>1 DEF SignalIInv, IInv, NonEmpty
  <2>2. /\ L \in Seq(Sample) /\ n \in Nat \ {0} /\ L # <<>> /\ Increasing(L)
        /\ now = L[n].t /\ FirstOf(L) = L[1]
    BY <2>1, EmptySeq, LenProperties
       DEF WellFormed, HistoryObject, CurrentTime, LastOf, FirstOf, NonEmpty
  <2>3. /\ L[1].t \in Int /\ L[n].t \in Int /\ L[1].t <= L[n].t
        /\ n > 1 => L[2].t \in Int /\ L[1].t < L[2].t
    <3>1. 1 \in 1 .. n /\ n \in 1 .. n /\ 1 <= n /\ (n > 1 => 2 \in 1 .. n)
      BY <2>2
    <3> QED
      BY <2>2, <3>1, DatesInLine
  <2>4. recorded = L[n].t - L[1].t /\ recorded \in Nat /\ Duration(hist) = recorded
    <3>1. Duration(hist) = recorded
      BY <2>2 DEF Duration, CurrentTime
    <3>2. recorded = L[n].t - L[1].t
      BY <2>2
    <3> DEFINE x == L[1].t
               y == L[n].t
    <3>3. x \in Int /\ y \in Int /\ x <= y
      BY <2>3
    <3> HIDE DEF x, y
    <3>4. y - x \in Nat
      BY <3>3
    <3> QED
      BY <3>1, <3>2, <3>4 DEF x, y
  <2>5. T \in Nat
    BY <2>4
  <2>6. AveragedDuration(hist, T) = covered /\ covered \in Nat /\ covered <= recorded
    <3> HIDE DEF recorded
    <3> QED
      BY <2>4, <2>5 DEF AveragedDuration
  <2>7. ASSUME clear \/ L[1].v = SignalAt(S, L[1].t)
        PROVE  Exact
    <3> HIDE DEF covered, recorded
    <3>1. CASE n = 1
      <4>1. covered = 0
        <5>1. recorded = 0
          BY <2>3, <2>4, <3>1
        <5> QED
          BY <2>6, <5>1
      <4>2. L[1].v = SignalAt(S, now)
        BY <2>2, <2>7, <3>1
      <4> QED
        BY <2>2, <3>1, <4>1, <4>2 DEF Average
    <3>2. CASE n > 1 /\ covered = 0
      <4>1. SignalAt(S, now) = L[n].v
        <5>1. n \in 2 .. Len(hist.L)
          BY <2>2, <3>2
        <5> QED
          BY <2>1, <2>2, <5>1, SignalAtPair
      <4>2. n # 1
        BY <2>2, <3>2
      <4> QED
        BY <2>2, <2>6, <3>2, <4>1, <4>2 DEF Average, LastOf
    <3>3. CASE n > 1 /\ covered # 0
      <4>1. Average(hist, T) = [sum |-> IntegralSince2(hist, now - covered),
                                over |-> 2 * covered]
        <5>1. n # 1
          BY <2>2, <3>3
        <5> HIDE DEF now
        <5> QED
          BY <2>2, <2>6, <3>3, <5>1 DEF Average, now
      <4>2. PICK lo \in 1 .. 2 : /\ lo = 1 => L[1].v = SignalAt(S, L[1].t)
                                 /\ covered \in 0 .. now - L[lo].t
        <5>1. CASE clear
          <6>1. covered \in 0 .. now - L[2].t
            <7> DEFINE y == L[2].t
                       x == L[n].t
            <7>1. x \in Int /\ y \in Int /\ covered \in Nat /\ x - covered >= y /\ now = x
              BY <2>2, <2>3, <2>6, <3>3, <5>1
            <7> HIDE DEF x, y
            <7>2. covered \in 0 .. x - y
              BY <7>1
            <7> QED
              BY <7>1, <7>2 DEF y
          <6>2. 2 \in 1 .. 2 /\ 2 # 1
            OBVIOUS
          <6> QED
            BY <6>1, <6>2
        <5>2. CASE L[1].v = SignalAt(S, L[1].t)
          <6>1. covered \in 0 .. now - L[1].t
            BY <2>2, <2>4, <2>6
          <6>2. 1 \in 1 .. 2
            OBVIOUS
          <6> QED
            BY <5>2, <6>1, <6>2
        <5> QED
          BY <2>7, <5>1, <5>2
      <4>3. IntegralSince2(hist, now - covered) = Integral2(S, now - covered, now)
        BY <2>1, <3>3, <4>2, AverageOfSignal
      <4> QED
        BY <3>3, <4>1, <4>3
    <3>4. n = 1 \/ n > 1
      <4>1. n \in Nat \ {0}
        BY <2>2
      <4> HIDE DEF n
      <4> QED
        BY <4>1
    <3> HIDE DEF n, Exact
    <3> QED
      BY <3>1, <3>2, <3>3, <3>4
  <2>8. StartsOnSignal(o) <=> L[1].v = SignalAt(S, L[1].t)
    BY <2>2 DEF StartsOnSignal
  <2> QED
    BY <2>7, <2>8
<1>2. SignalIInv => AverageIsExact
  BY <1>1 DEF AverageIsExact
<1> QED
  BY <1>2, AlwaysSignalIInv, PTL
=============================================================================
