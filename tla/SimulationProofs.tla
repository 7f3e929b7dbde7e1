-------------------------- MODULE SimulationProofs --------------------------
(***************************************************************************)
(* For every stepper: a NaN never enters a history, and one that appears   *)
(* stops the run.  For every stepper whose evaluations never go back in    *)
(* time: no history refuses a date during a run.                           *)
(***************************************************************************)
EXTENDS Simulation, HistoryLemmas

(* A history without a NaN among its samples. *)
Sound(past) ==
  /\ WellFormed(past)
  /\ \A s \in Samples(past) : s.v # NaN

(* A history that holds nothing later than t. *)
UpTo(past, t) == past.L # <<>> => CurrentTime(past) <= t

Clean(i) == \A b \in Bodies : rows[i].u[b] # NaN

(***************************************************************************)
(* The inductive invariant, for every stepper.  A row may show a NaN only  *)
(* between its observation and the next evaluation, which starts from the  *)
(* same states.                                                            *)
(***************************************************************************)
SimIInv ==
  /\ SimTypeOK
  /\ pc = "observe" => stage = 0
  /\ stage > 0 => step < Steps
  /\ \A b \in Bodies : Sound(hist[b])
  /\ \A i \in 1 .. Len(rows) - 1 : Clean(i)
  /\ pc = "observe" \/ stage > 0 => \A i \in 1 .. Len(rows) : Clean(i)
  /\ pc = "solve" /\ stage = 0 => 
       /\ Len(rows) > 0
       /\ \A b \in Bodies : rows[Len(rows)].u[b] = NaN => state[b] = NaN

(* The date of the last evaluation of the current step, or its start. *)
Reached == IF stage = 0 THEN Now ELSE Now + Nodes[stage]

(* What is added to it when the nodes never go back. *)
OrderIInv ==
  /\ pc # "failed" => \A b \in Bodies : UpTo(hist[b], Reached)
  /\ failure # "history"

-----------------------------------------------------------------------------

\* The nodes of a step are dates between its start and its end.
LEMMA NodeType ==
  ASSUME NEW i \in 1 .. Len(Nodes)
  PROVE  Nodes[i] \in Int /\ 0 <= Nodes[i] /\ Nodes[i] <= Dt
<1>1. Nodes[i] \in 0 .. Dt
  BY SimulationAssumption, ElementOfSeq
<1> QED
  BY <1>1, SimulationAssumption

\* The current date is an integer.
LEMMA NowType == SimTypeOK => Now \in Int
  BY SimulationAssumption DEF SimTypeOK, Now

\* The count of stages indexes the nodes.
LEMMA StageType ==
  SimTypeOK => /\ stage \in Nat /\ Len(Nodes) \in Nat \ {0}
               /\ stage # 0 => stage \in 1 .. Len(Nodes)
               /\ stage < Len(Nodes) => stage + 1 \in 1 .. Len(Nodes)
<1>1. Len(Nodes) \in Nat \ {0}
  BY SimulationAssumption, LenProperties
<1> QED
  BY <1>1 DEF SimTypeOK

\* The date reached in a step is an integer.
LEMMA ReachedType == SimTypeOK => Reached \in Int
<1> SUFFICES ASSUME SimTypeOK
             PROVE  Reached \in Int
  OBVIOUS
<1>1. CASE stage = 0
  BY <1>1, NowType DEF Reached
<1>2. CASE stage # 0
  <2>1. Nodes[stage] \in Int /\ Now \in Int
    BY <1>2, StageType, NodeType, NowType
  <2> QED
    BY <1>2, <2>1 DEF Reached
<1> QED
  BY <1>1, <1>2

\* Forcing replaces a value by a finite one, or leaves it.
LEMMA ForcedValue ==
  ASSUME NEW b \in Bodies, NEW v, NEW t \in Int
  PROVE  Forced(b, v, t) \in Values \/ Forced(b, v, t) = v
<1>1. CASE IsBlocked(b, t)
  <2>1. t \in Table[b].first .. Table[b].last
    BY <1>1, SimulationAssumption DEF IsBlocked, Bodies
  <2> QED
    BY <1>1, <2>1, SimulationAssumption DEF Forced, Bodies
<1> QED
  BY <1>1 DEF Forced

\* The finite values are not the NaN.
LEMMA FiniteIsNotNaN == \A v \in Values : v \in Int /\ v # NaN
  BY SimulationAssumption

\* What a history that accepts a date and a finite value becomes.
LEMMA RecordKeepsSound ==
  ASSUME NEW past, NEW t \in Int, NEW v \in Values, Sound(past), InOrder(past, t)
  PROVE  /\ Sound(Recorded(past, t, v))
         /\ CurrentTime(Recorded(past, t, v)) = SnapToBack(past, t)
<1> DEFINE r == Recorded(past, t, v)
           d == SnapToBack(past, t)
<1>1. v \in Int /\ v # NaN
  BY FiniteIsNotNaN
<1>2. /\ WellFormed(r)
      /\ CurrentTime(r) = d
      /\ Samples(r) = {s \in Samples(past) : s.t > d - past.Tmax /\ s.t # d}
                        \union {[t |-> d, v |-> v]}
  BY <1>1, RecordedEffect DEF Sound
<1>3. \A s \in Samples(r) : s.v # NaN
  BY <1>1, <1>2 DEF Sound
<1> HIDE DEF r, d
<1> QED
  BY <1>2, <1>3 DEF Sound, r, d

\* The current date of a history that is not empty is that of its last pair.
LEMMA LastDateType ==
  ASSUME NEW past, WellFormed(past), past.L # <<>>
  PROVE  LastOf(past.L).t \in Int /\ CurrentTime(past) = LastOf(past.L).t
<1>1. past.L \in Seq(Sample) /\ Len(past.L) \in 1 .. Len(past.L)
  BY EmptySeq, LenProperties DEF WellFormed, HistoryObject
<1> QED
  BY <1>1, PairType DEF CurrentTime, LastOf

\* A date not before what a history holds is accepted, as itself or as the
\* last one.
LEMMA UpToInOrder ==
  ASSUME NEW past, WellFormed(past), NEW t \in Int, UpTo(past, t)
  PROVE  InOrder(past, t) /\ SnapToBack(past, t) <= t
  BY LastDateType DEF UpTo, InOrder, SnapToBack

\* What holds nothing later than a date holds nothing later than a later one.
LEMMA UpToLater ==
  ASSUME NEW past, WellFormed(past), NEW t \in Int, NEW u \in Int,
         UpTo(past, t), t <= u
  PROVE  UpTo(past, u)
  BY LastDateType DEF UpTo

\* The pasts a run may start with hold no NaN and nothing after the start.
LEMMA PastsAreSound ==
  ASSUME NEW v \in Values, NEW past \in Pasts(v)
  PROVE  Sound(past) /\ UpTo(past, Start)
<1>1. Tmax \in Nat /\ Start \in Int /\ Start - Dt \in Int /\ Start - Dt <= Start
  BY SimulationAssumption
<1> DEFINE new == NewHistory(Tmax)
<1>2. \A t \in Int : Sound(new) /\ UpTo(new, t) /\ WellFormed(new)
  BY <1>1, NewHistoryEffect DEF Sound, UpTo
<1> HIDE DEF new
<1>3. ASSUME NEW p, Sound(p), NEW t \in Int, UpTo(p, t), NEW w \in Values
      PROVE  Sound(Recorded(p, t, w)) /\ UpTo(Recorded(p, t, w), t)
  <2>1. InOrder(p, t) /\ SnapToBack(p, t) <= t
    BY <1>3, UpToInOrder DEF Sound
  <2> QED
    BY <1>3, <2>1, RecordKeepsSound DEF UpTo
<1>4. ASSUME NEW old \in Values
      PROVE  LET p == Recorded(Recorded(new, Start - Dt, old), Start, v)
             IN  Sound(p) /\ UpTo(p, Start)
  <2> DEFINE first == Recorded(new, Start - Dt, old)
  <2>1. Sound(first) /\ UpTo(first, Start - Dt)
    BY <1>1, <1>2, <1>3
  <2> HIDE DEF first
  <2>2. UpTo(first, Start)
    BY <1>1, <2>1, UpToLater DEF Sound
  <2>3. Sound(Recorded(first, Start, v)) /\ UpTo(Recorded(first, Start, v), Start)
    BY <1>1, <1>3, <2>1, <2>2
  <2> QED
    BY <2>3 DEF first
<1>5. Sound(Recorded(new, Start, v)) /\ UpTo(Recorded(new, Start, v), Start)
  BY <1>1, <1>2, <1>3
<1> QED
  BY <1>1, <1>2, <1>4, <1>5 DEF Pasts, new

-----------------------------------------------------------------------------

(* The rows of the observer: what the type invariant says of them. *)
RowType == [t : Int, u : [Bodies -> Values \union {NaN}], forces : Int]

\* The invariants hold before the first row.
LEMMA SimInitIInv == SimInit => SimIInv /\ OrderIInv
<1> SUFFICES ASSUME SimInit
             PROVE  SimIInv /\ OrderIInv
  OBVIOUS
<1>1. Start \in Int /\ Now = Start /\ NotYet \in Int /\ Steps \in Nat
  BY SimulationAssumption DEF SimInit, Now, NotYet
<1>2. ASSUME NEW b \in Bodies
      PROVE  Sound(hist[b]) /\ UpTo(hist[b], Start) /\ hist[b] \in HistoryObject
  <2>1. Sound(hist[b]) /\ UpTo(hist[b], Start)
    BY PastsAreSound DEF SimInit
  <2> QED
    BY <2>1 DEF Sound, WellFormed
<1>3. hist \in [Bodies -> HistoryObject]
  BY <1>2 DEF SimInit
<1>4. 0 \in 0 .. Len(Nodes) /\ 0 \in 0 .. Steps
  BY <1>1, SimulationAssumption, LenProperties
<1>5. rows \in Seq(RowType) /\ Len(rows) = 0
  BY EmptySeq DEF SimInit
<1>6. SimTypeOK
  BY <1>1, <1>3, <1>4, <1>5 DEF SimInit, SimTypeOK, RowType
<1>7. Reached = Start
  BY <1>1 DEF SimInit, Reached
<1> QED
  BY <1>2, <1>5, <1>6, <1>7 DEF SimInit, SimIInv, OrderIInv

\* The row of an observation shows the states themselves, but for the forced
\* ones of the last body, which are finite.
LEMMA RowShowsStates ==
  ASSUME SimTypeOK
  PROVE  /\ Row \in RowType
         /\ \A b \in Bodies : Row.u[b] = NaN => state[b] = NaN
<1>1. Now \in Int /\ forces \in Int
  BY NowType DEF SimTypeOK
<1>2. \A b \in Bodies : /\ Row.u[b] \in Values \union {NaN}
                        /\ Row.u[b] = NaN => state[b] = NaN
  BY <1>1, ForcedValue, FiniteIsNotNaN DEF Row, OutputStates, SimTypeOK
<1>3. Row.u = [b \in Bodies |-> Row.u[b]]
  BY DEF Row, OutputStates
<1>4. Row.u \in [Bodies -> Values \union {NaN}]
  BY <1>2, <1>3
<1> QED
  BY <1>1, <1>2, <1>4 DEF Row, RowType

\* An observation keeps the invariant: the row shows the states themselves.
LEMMA ObserveKeeps ==
  ASSUME SimIInv, Observe
  PROVE  SimIInv'
<1>1. SimTypeOK /\ rows \in Seq(RowType)
  BY DEF SimIInv, SimTypeOK, RowType
<1>2. /\ Len(rows) \in Nat
      /\ rows' \in Seq(RowType)
      /\ Len(rows') = Len(rows) + 1
      /\ rows'[Len(rows) + 1] = Row
      /\ \A i \in 1 .. Len(rows) : rows'[i] = rows[i]
  <2>1. Row \in RowType
    BY <1>1, RowShowsStates
  <2> QED
    BY <1>1, <2>1, AppendProperties, LenProperties DEF Observe
<1>3. \A i \in 1 .. Len(rows') - 1 : i \in 1 .. Len(rows)
  BY <1>2
<1>4. SimTypeOK'
  BY <1>1, <1>2 DEF SimTypeOK, Observe, RowType
<1>5. \A i \in 1 .. Len(rows') - 1 : \A b \in Bodies : rows'[i].u[b] # NaN
  BY <1>2, <1>3 DEF SimIInv, Observe, Clean
<1>6. /\ Len(rows') > 0
      /\ \A b \in Bodies : rows'[Len(rows')].u[b] = NaN => state[b] = NaN
  BY <1>1, <1>2, RowShowsStates
<1> QED
  BY <1>4, <1>5, <1>6 DEF SimIInv, Observe, Clean

\* An evaluation leaves sound histories that end at its date at the latest.
LEMMA EvaluateHist ==
  ASSUME SimIInv, NEW y \in [Bodies -> Values \union {NaN}], Evaluate(y),
         NEW b \in Bodies
  PROVE  LET t == Now + Nodes[stage + 1]
         IN  /\ t \in Int
             /\ Sound(hist'[b])
             /\ InOrder(hist[b], t) =>
                  (UpTo(hist[b], t) => UpTo(hist'[b], t))
<1> DEFINE t == Now + Nodes[stage + 1]
<1>1. t \in Int
  BY NowType, NodeType, StageType DEF SimIInv, Evaluate, Abort
<1>2. hist'[b] = Updated(y, t)[b] /\ Sound(hist[b])
  BY DEF Evaluate, Abort, SimIInv
<1> HIDE DEF t
<1>3. CASE \E c \in 1 .. b : Throws(c, y, t)
  <2>1. hist'[b] = hist[b]
    BY <1>2, <1>3 DEF Updated
  <2> QED
    BY <1>1, <1>2, <2>1 DEF t
<1>4. CASE ~ \E c \in 1 .. b : Throws(c, y, t)
  <2>1. b \in 1 .. b
    BY SimulationAssumption DEF Bodies
  <2>2. y[b] \in Values /\ InOrder(hist[b], t)
    BY <1>4, <2>1 DEF Throws
  <2>3. hist'[b] = Recorded(hist[b], t, Forced(b, y[b], t))
    BY <1>2, <1>4 DEF Updated
  <2>4. Forced(b, y[b], t) \in Values
    BY <1>1, <2>2, ForcedValue
  <2>5. Sound(hist'[b]) /\ CurrentTime(hist'[b]) = SnapToBack(hist[b], t)
    BY <1>1, <1>2, <2>2, <2>3, <2>4, RecordKeepsSound
  <2>6. UpTo(hist[b], t) => UpTo(hist'[b], t)
    BY <1>1, <1>2, <2>5, UpToInOrder DEF UpTo, Sound
  <2> QED
    BY <1>1, <2>5, <2>6 DEF t
<1> QED
  BY <1>3, <1>4

\* An evaluation keeps the invariant: a NaN stops it.
LEMMA EvaluateKeeps ==
  ASSUME SimIInv, NEW y \in [Bodies -> Values \union {NaN}], Evaluate(y)
  PROVE  SimIInv'
<1> DEFINE t == Now + Nodes[stage + 1]
<1>1. /\ step' = step /\ rows' = rows
      /\ pc = "solve" /\ step < Steps /\ stage < Len(Nodes)
      /\ SimTypeOK
  BY DEF Evaluate, Abort, SimIInv
<1>2. \A b \in Bodies : Sound(hist'[b]) /\ hist'[b] \in HistoryObject
  BY EvaluateHist DEF Sound, WellFormed
<1>3. hist' \in [Bodies -> HistoryObject]
  <2>1. hist' = [b \in Bodies |-> hist'[b]]
    BY DEF Evaluate, Abort, Updated
  <2> QED
    BY <1>2, <2>1
<1>4. t \in Int
  BY <1>1, NowType, NodeType, StageType
<1> HIDE DEF t
<1>5. CASE \E b \in Bodies : Throws(b, y, t)
  <2>1. /\ failure' \in {"NaN", "history"} /\ pc' = "failed"
        /\ stage' = stage /\ forces' = forces /\ state' = state
    BY <1>5 DEF Evaluate, Abort, t
  <2>2. SimTypeOK'
    BY <1>1, <1>3, <2>1 DEF SimTypeOK
  <2> QED
    BY <1>1, <1>2, <2>1, <2>2 DEF SimIInv, Clean
<1>6. CASE ~ \E b \in Bodies : Throws(b, y, t)
  <2>1. /\ stage' = stage + 1 /\ forces' = t
        /\ pc' = pc /\ failure' = failure /\ state' = y
    BY <1>6 DEF Evaluate, Abort, t
  <2>2. stage' \in 0 .. Len(Nodes) /\ stage' > 0
    BY <1>1, <2>1, StageType
  <2>3. SimTypeOK'
    BY <1>1, <1>3, <1>4, <2>1, <2>2 DEF SimTypeOK
  \* No NaN was evaluated: if the step was starting, none was shown.
  <2>4. \A i \in 1 .. Len(rows) : Clean(i)
    <3>1. CASE stage > 0
      BY <3>1 DEF SimIInv
    <3>2. CASE ~ (stage > 0)
      <4>1. stage = 0
        BY <1>1, <3>2, StageType
      <4>2. \A b \in Bodies : state[b] # NaN
        BY <1>6, <4>1 DEF Evaluate, Abort, Throws
      <4>3. Clean(Len(rows))
        BY <1>1, <4>1, <4>2 DEF SimIInv, Clean
      <4>4. \A i \in 1 .. Len(rows) : i # Len(rows) => i \in 1 .. Len(rows) - 1
        BY <1>1, LenProperties DEF SimTypeOK
      <4> QED
        BY <4>3, <4>4 DEF SimIInv
    <3> QED
      BY <3>1, <3>2
  <2> QED
    BY <1>1, <1>2, <2>1, <2>2, <2>3, <2>4 DEF SimIInv, Clean
<1> QED
  BY <1>5, <1>6

\* The end of a step keeps the invariant.
LEMMA FinishStepKeeps ==
  ASSUME SimIInv, NEW u \in [Bodies -> Values \union {NaN}], FinishStep(u)
  PROVE  SimIInv'
<1>1. /\ step' = step + 1 /\ stage' = 0 /\ pc' = "observe"
      /\ state' = ForcedStates(u, Now) /\ stage = Len(Nodes)
      /\ hist' = hist /\ rows' = rows /\ forces' = forces /\ failure' = failure
      /\ SimTypeOK
  BY DEF FinishStep, SimIInv
<1>2. stage > 0 /\ step < Steps /\ 0 \in 0 .. Len(Nodes)
  BY <1>1, StageType DEF SimIInv
<1>3. step + 1 \in 0 .. Steps
  BY <1>1, <1>2, SimulationAssumption DEF SimTypeOK
<1>4. state' \in [Bodies -> Values \union {NaN}]
  <2>1. \A b \in Bodies : Forced(b, u[b], Now) \in Values \union {NaN}
    <3>1. \A b \in Bodies : u[b] \in Values \union {NaN}
      OBVIOUS
    <3>2. Now \in Int
      BY <1>1, NowType
    <3> QED
      BY <3>1, <3>2, ForcedValue
  <2> QED
    BY <1>1, <2>1 DEF ForcedStates
<1>5. SimTypeOK'
  BY <1>1, <1>2, <1>3, <1>4 DEF SimTypeOK
<1> QED
  BY <1>1, <1>2, <1>5 DEF SimIInv, Clean

\* The end of the run keeps the invariant and the rows: it drops the one it adds.
LEMMA FinishKeeps ==
  ASSUME SimIInv, Finish
  PROVE  SimIInv' /\ rows' = rows
<1>1. SimTypeOK /\ rows \in Seq(RowType)
  BY DEF SimIInv, SimTypeOK, RowType
<1>2. rows' = rows
  <2> DEFINE all == Append(rows, Row)
  <2>1. Row \in RowType
    BY <1>1, RowShowsStates
  <2>2. /\ all \in Seq(RowType) /\ Len(all) = Len(rows) + 1 /\ Len(rows) \in Nat
        /\ \A i \in 1 .. Len(rows) : all[i] = rows[i]
    BY <1>1, <2>1, AppendProperties, LenProperties
  <2>3. rows' = SubSeq(all, 1, Len(all) - 1)
    BY DEF Finish
  <2> HIDE DEF all
  <2>4. Len(all) - 1 = Len(rows)
    BY <2>2
  <2>5. \A i \in 1 .. Len(rows) : all[i] \in RowType
    BY <1>1, <2>2, ElementOfSeq
  <2>6. /\ SubSeq(all, 1, Len(rows)) \in Seq(RowType)
        /\ Len(SubSeq(all, 1, Len(rows))) = Len(rows)
        /\ \A i \in 1 .. Len(rows) : SubSeq(all, 1, Len(rows))[i] = all[i]
    BY <2>2, <2>5, SubSeqProperties
  <2> QED
    BY <1>1, <2>2, <2>3, <2>4, <2>6, SeqEqual
<1> QED
  BY <1>1, <1>2 DEF Finish, SimIInv, SimTypeOK, Clean

\* Every step of a run keeps the invariant.
LEMMA SimNextIInv == SimIInv /\ [SimNext]_simVars => SimIInv'
<1> SUFFICES ASSUME SimIInv, [SimNext]_simVars
             PROVE  SimIInv'
  OBVIOUS
<1>1. CASE Observe
  BY <1>1, ObserveKeeps
<1>2. ASSUME NEW y \in [Bodies -> Values \union {NaN}], Evaluate(y)
      PROVE  SimIInv'
  BY <1>2, EvaluateKeeps
<1>3. ASSUME NEW u \in [Bodies -> Values \union {NaN}], FinishStep(u)
      PROVE  SimIInv'
  BY <1>3, FinishStepKeeps
<1>4. CASE Finish
  BY <1>4, FinishKeeps
<1>5. CASE UNCHANGED simVars
  BY <1>5 DEF simVars, SimIInv, SimTypeOK, Clean
<1> QED
  BY <1>1, <1>2, <1>3, <1>4, <1>5 DEF SimNext, Ended

\* The invariant holds throughout a run.
LEMMA AlwaysSimIInv == SimSpec => []SimIInv
<1>1. SimInit => SimIInv
  BY SimInitIInv
<1> QED
  BY <1>1, SimNextIInv, PTL DEF SimSpec

-----------------------------------------------------------------------------

\* An evaluation is not before the one that precedes it, and is not refused.
LEMMA EvaluateInOrder ==
  ASSUME NodesNeverGoBack, SimIInv, OrderIInv,
         NEW y \in [Bodies -> Values \union {NaN}], Evaluate(y)
  PROVE  OrderIInv'
<1> DEFINE t == Now + Nodes[stage + 1]
<1>1. SimTypeOK /\ stage < Len(Nodes) /\ pc = "solve" /\ step' = step
  BY DEF SimIInv, Evaluate, Abort
<1>2. t \in Int /\ Reached \in Int /\ Reached <= t
  <2>1. Now \in Int /\ Nodes[stage + 1] \in Int /\ 0 <= Nodes[stage + 1]
    BY <1>1, NodeType, NowType, StageType
  <2>2. CASE stage = 0
    BY <2>1, <2>2 DEF Reached
  <2>3. CASE stage # 0
    <3>1. /\ stage \in 1 .. Len(Nodes) /\ stage + 1 \in 1 .. Len(Nodes)
          /\ stage <= stage + 1
      BY <1>1, <2>3, StageType
    <3>2. Nodes[stage] <= Nodes[stage + 1] /\ Nodes[stage] \in Int
      BY <3>1, NodeType DEF NodesNeverGoBack
    <3> QED
      BY <2>1, <2>3, <3>2 DEF Reached
  <2> QED
    BY <2>2, <2>3
<1>3. ASSUME NEW b \in Bodies
      PROVE  InOrder(hist[b], t) /\ UpTo(hist'[b], t)
  <2>1. UpTo(hist[b], t) /\ WellFormed(hist[b])
    BY <1>1, <1>2, UpToLater DEF SimIInv, OrderIInv, Sound
  <2>2. InOrder(hist[b], t)
    BY <1>2, <2>1, UpToInOrder
  <2> QED
    BY <2>1, <2>2, EvaluateHist
<1> HIDE DEF t
<1>4. CASE \E b \in Bodies : Throws(b, y, t)
  \* The first body to throw does not do so for its history.
  <2> DEFINE First(b) == Throws(b, y, t) /\ \A d \in 1 .. b - 1 : ~ Throws(d, y, t)
             b0 == CHOOSE c \in Bodies : First(c)
  <2>1. \E c \in Bodies : First(c)
    <3> DEFINE S == {c \in Bodies : Throws(c, y, t)}
    <3>0. Bodies \subseteq Nat
      BY SimulationAssumption DEF Bodies
    <3>1. S \in SUBSET Nat /\ S # {}
      <4>1. S \subseteq Bodies
        OBVIOUS
      <4>2. S # {}
        BY <1>4
      <4> QED BY <3>0, <4>1, <4>2
    <3>2. PICK c \in S : \A n \in S : c <= n
      <4> HIDE DEF S
      <4> QED BY <3>1, LeastNatural
    <3>3. \A d \in 1 .. c - 1 : d \in Bodies /\ ~ (c <= d)
      BY SimulationAssumption DEF Bodies
    <3> QED
      BY <3>2, <3>3
  <2>2. b0 \in Bodies /\ First(b0)
    <3> HIDE DEF First
    <3> QED BY <2>1
  <2>3. y[b0] = NaN
    BY <1>3, <2>2 DEF Throws
  <2>4. failure' = (IF y[b0] = NaN THEN "NaN" ELSE "history") /\ pc' = "failed"
    BY <1>4 DEF Evaluate, Abort, t
  <2> HIDE DEF b0
  <2> QED
    BY <2>3, <2>4 DEF OrderIInv
<1>5. CASE ~ \E b \in Bodies : Throws(b, y, t)
  <2>1. stage' = stage + 1 /\ failure' = failure /\ pc' = pc
    BY <1>5 DEF Evaluate, Abort, t
  <2>2. Reached' = t
    BY <1>1, <2>1, StageType DEF Reached, Now, t
  <2> QED
    BY <1>3, <2>1, <2>2 DEF OrderIInv
<1> QED
  BY <1>4, <1>5

\* The next step starts where this one ends.
LEMMA FinishStepInOrder ==
  ASSUME SimIInv, OrderIInv, NEW u \in [Bodies -> Values \union {NaN}],
         FinishStep(u)
  PROVE  OrderIInv'
<1>1. /\ SimTypeOK /\ step' = step + 1 /\ stage' = 0 /\ pc = "solve"
      /\ stage = Len(Nodes) /\ hist' = hist /\ failure' = failure
  BY DEF FinishStep, SimIInv
<1>2. Now \in Int /\ Now' = Now + Dt /\ Dt \in Int /\ Now + Dt \in Int
  BY <1>1, SimulationAssumption DEF Now, SimTypeOK
<1>3. Reached \in Int /\ Reached <= Now + Dt
  <2>1. stage \in 1 .. Len(Nodes) /\ stage # 0
    BY <1>1, StageType
  <2> QED
    BY <1>2, <2>1, NodeType DEF Reached
<1>4. Reached' = Now + Dt
  BY <1>1, <1>2 DEF Reached
<1>5. \A b \in Bodies : UpTo(hist[b], Now + Dt)
  BY <1>1, <1>2, <1>3, UpToLater DEF SimIInv, OrderIInv, Sound
<1> QED
  BY <1>1, <1>4, <1>5 DEF OrderIInv

\* No step of a run goes back in time, if the nodes of the stepper do not.
LEMMA SimNextInOrder ==
  ASSUME NodesNeverGoBack
  PROVE  SimIInv /\ OrderIInv /\ [SimNext]_simVars => OrderIInv'
<1> SUFFICES ASSUME SimIInv, OrderIInv, [SimNext]_simVars
             PROVE  OrderIInv'
  OBVIOUS
<1>1. CASE Observe
  BY <1>1 DEF Observe, OrderIInv, Reached, Now
<1>2. ASSUME NEW y \in [Bodies -> Values \union {NaN}], Evaluate(y)
      PROVE  OrderIInv'
  BY <1>2, EvaluateInOrder
<1>3. ASSUME NEW u \in [Bodies -> Values \union {NaN}], FinishStep(u)
      PROVE  OrderIInv'
  BY <1>3, FinishStepInOrder
<1>4. CASE Finish
  BY <1>4 DEF Finish, OrderIInv, Reached, Now
<1>5. CASE UNCHANGED simVars
  BY <1>5 DEF simVars, OrderIInv, Reached, Now
<1> QED
  BY <1>1, <1>2, <1>3, <1>4, <1>5 DEF SimNext, Ended

-----------------------------------------------------------------------------

(***************************************************************************)
(* What is remembered against what is shown.                               *)
(***************************************************************************)

(* The tables of a run in which only the last body is ever forced. *)
OnlyLastForced == \A b \in Bodies : b # N => \A t \in Int : ~ IsBlocked(b, t)

(* Only the first evaluation of a step is at its start. *)
LaterStagesAreLater == \A i \in 1 .. Len(Nodes) : i > 1 => Nodes[i] > 0

(***************************************************************************)
(* No row is later than the current step, and the row of the current date, *)
(* once observed and until the first evaluation, shows the states that     *)
(* this evaluation starts from.                                            *)
(***************************************************************************)
RowIInv ==
  /\ RowsAreRemembered
  /\ \A i \in 1 .. Len(rows) : rows[i].t <= Now
  /\ pc = "observe" => \A i \in 1 .. Len(rows) : rows[i].t < Now
  /\ pc = "solve" /\ stage = 0 =>
       \A i \in 1 .. Len(rows) : rows[i].t = Now => rows[i].u = OutputStates(state, Now)

\* The samples of a history after an evaluation: those it had, without the
\* one of the date evaluated unless an update threw, and the forced value for
\* that date.
LEMMA EvaluateSamples ==
  ASSUME SimIInv, NEW y \in [Bodies -> Values \union {NaN}], Evaluate(y),
         NEW b \in Bodies, NEW s \in Samples(hist'[b])
  PROVE  LET t == Now + Nodes[stage + 1]
             d == SnapToBack(hist[b], t)
         IN  \/ s \in Samples(hist[b]) /\ \E c \in Bodies : Throws(c, y, t)
             \/ s \in Samples(hist[b]) /\ s.t # d
             \/ s = [t |-> d, v |-> Forced(b, y[b], t)]
<1> DEFINE t == Now + Nodes[stage + 1]
<1>1. t \in Int
  BY NowType, NodeType, StageType DEF SimIInv, Evaluate, Abort
<1>2. hist'[b] = Updated(y, t)[b] /\ WellFormed(hist[b])
  BY DEF Evaluate, Abort, SimIInv, Sound
<1> HIDE DEF t
<1>3. CASE \E c \in 1 .. b : Throws(c, y, t)
  <2>1. hist'[b] = hist[b]
    BY <1>2, <1>3 DEF Updated
  <2>2. \E c \in Bodies : Throws(c, y, t)
    BY <1>3, SimulationAssumption DEF Bodies
  <2> QED
    BY <2>1, <2>2 DEF t
<1>4. CASE ~ \E c \in 1 .. b : Throws(c, y, t)
  <2>1. b \in 1 .. b
    BY SimulationAssumption DEF Bodies
  <2>2. y[b] \in Values /\ InOrder(hist[b], t)
    BY <1>4, <2>1 DEF Throws
  <2>3. hist'[b] = Recorded(hist[b], t, Forced(b, y[b], t))
    BY <1>2, <1>4 DEF Updated
  <2>4. Forced(b, y[b], t) \in Int
    BY <1>1, <2>2, ForcedValue, FiniteIsNotNaN
  <2>5. Samples(hist'[b]) =
          {r \in Samples(hist[b]) : /\ r.t > SnapToBack(hist[b], t) - hist[b].Tmax
                                    /\ r.t # SnapToBack(hist[b], t)}
            \union {[t |-> SnapToBack(hist[b], t), v |-> Forced(b, y[b], t)]}
    BY <1>1, <1>2, <2>2, <2>3, <2>4, RecordedEffect
  <2> QED
    BY <2>5 DEF t
<1> QED
  BY <1>3, <1>4

\* The current pair of a history is one of its samples.
LEMMA LastIsSample ==
  ASSUME NEW past, WellFormed(past), past.L # <<>>
  PROVE  LastOf(past.L) \in Samples(past) /\ CurrentTime(past) = LastOf(past.L).t
<1>1. Len(past.L) \in 1 .. Len(past.L)
  BY EmptySeq, LenProperties DEF WellFormed, HistoryObject
<1> QED
  BY <1>1, LastDateType DEF Samples, LastOf

\* Every evaluation that ends leaves the forced value in each history.
LEMMA SimNextForced ==
  ASSUME SimIInv, pc # "failed" => ForceModelsSeeForcedStates, [SimNext]_simVars,
         pc' # "failed"
  PROVE  ForceModelsSeeForcedStates'
<1>1. CASE Observe
  BY <1>1 DEF Observe, ForceModelsSeeForcedStates
<1>2. ASSUME NEW y \in [Bodies -> Values \union {NaN}], Evaluate(y)
      PROVE  ForceModelsSeeForcedStates'
  <2> DEFINE t == Now + Nodes[stage + 1]
  <2>1. /\ forces' = t /\ hist' = Updated(y, t)
        /\ ~ \E b \in Bodies : Throws(b, y, t)
    BY <1>2 DEF Evaluate, Abort
  <2>2. t \in Int
    BY <1>2, NowType, NodeType, StageType DEF SimIInv, Evaluate, Abort
  <2> HIDE DEF t
  <2>3. ASSUME NEW b \in Bodies, CurrentTime(hist'[b]) = t, IsBlocked(b, t)
        PROVE  LastOf(hist'[b].L).v = Table[b].f[t]
    <3>1. WellFormed(hist[b])
      BY DEF SimIInv, Sound
    <3>2. y[b] \in Values /\ InOrder(hist[b], t)
      BY <2>1 DEF Throws
    <3>3. ~ \E c \in 1 .. b : Throws(c, y, t)
      BY <2>1, SimulationAssumption DEF Bodies
    <3>4. hist'[b] = Recorded(hist[b], t, Forced(b, y[b], t))
      BY <2>1, <3>3 DEF Updated
    <3>5. Forced(b, y[b], t) = Table[b].f[t] /\ Forced(b, y[b], t) \in Int
      BY <2>2, <2>3, <3>2, ForcedValue, FiniteIsNotNaN DEF Forced
    <3> DEFINE r == hist'[b]
               d == SnapToBack(hist[b], t)
               v == Forced(b, y[b], t)
    <3>6. /\ WellFormed(r) /\ r.L # <<>> /\ CurrentTime(r) = d
          /\ Samples(r) = {s \in Samples(hist[b]) : s.t > d - hist[b].Tmax /\ s.t # d}
                            \union {[t |-> d, v |-> v]}
      BY <2>2, <3>1, <3>2, <3>4, <3>5, RecordedEffect
    <3> HIDE DEF r, d, v
    <3>7. LastOf(r.L) \in Samples(r) /\ LastOf(r.L).t = d
      BY <3>6, LastIsSample
    <3>8. LastOf(r.L) = [t |-> d, v |-> v]
      BY <3>6, <3>7
    <3> QED
      BY <3>5, <3>8 DEF r, v
  <2> QED
    BY <2>1, <2>3 DEF ForceModelsSeeForcedStates
<1>3. ASSUME NEW u \in [Bodies -> Values \union {NaN}], FinishStep(u)
      PROVE  ForceModelsSeeForcedStates'
  BY <1>3 DEF FinishStep, ForceModelsSeeForcedStates
<1>4. CASE Finish
  BY <1>4 DEF Finish, ForceModelsSeeForcedStates
<1>5. CASE UNCHANGED simVars
  BY <1>5 DEF simVars, ForceModelsSeeForcedStates
<1> QED
  BY <1>1, <1>2, <1>3, <1>4, <1>5 DEF SimNext, Ended

\* Without a tolerance, a date is recorded as itself.
LEMMA ExactDate ==
  ASSUME EqTol = 0, NEW past, WellFormed(past), NEW t \in Int
  PROVE  SnapToBack(past, t) = t
BY LastDateType DEF SnapToBack, AlmostEqual

\* The date of a row.
LEMMA RowDate ==
  ASSUME SimTypeOK, NEW i \in 1 .. Len(rows)
  PROVE  rows[i] \in RowType /\ rows[i].t \in Int
<1>1. rows \in Seq(RowType)
  BY DEF SimTypeOK, RowType
<1>2. rows[i] \in RowType
  BY <1>1, ElementOfSeq
<1> QED
  BY <1>2 DEF RowType

\* The new row is of the current date, of which histories say nothing yet.
LEMMA ObserveRemembers ==
  ASSUME SimIInv, RowIInv, Observe
  PROVE  RowIInv'
<1>1. /\ SimTypeOK /\ rows \in Seq(RowType) /\ pc = "observe" /\ pc' = "solve"
      /\ stage = 0 /\ stage' = stage /\ hist' = hist /\ state' = state
      /\ step' = step
  BY DEF SimIInv, SimTypeOK, RowType, Observe
<1>2. /\ Len(rows) \in Nat
      /\ Len(rows') = Len(rows) + 1
      /\ rows'[Len(rows) + 1] = Row
      /\ \A i \in 1 .. Len(rows) : rows'[i] = rows[i]
  <2>1. Row \in RowType
    BY <1>1, RowShowsStates
  <2> QED
    BY <1>1, <2>1, AppendProperties, LenProperties DEF Observe
<1>3. Now' = Now /\ Now \in Int /\ Row.t = Now /\ Row.u = OutputStates(state, Now)
  BY <1>1, NowType DEF Now, Row
<1>4. OutputStates(state, Now)' = OutputStates(state, Now)
  BY <1>1, <1>3 DEF OutputStates, Forced, IsBlocked
<1>5. \A i \in 1 .. Len(rows') : i \in 1 .. Len(rows) \/ i = Len(rows) + 1
  BY <1>2
<1>6. \A i \in 1 .. Len(rows) : rows[i].t < Now
  BY <1>1 DEF RowIInv
<1>7. RowsAreRemembered'
  <2> SUFFICES ASSUME NEW b \in Bodies, NEW s \in Samples(hist[b]),
                      NEW i \in 1 .. Len(rows'), rows'[i].t = s.t, s.t < Now
               PROVE  s.v = rows'[i].u[b]
    BY <1>1, <1>3 DEF RowsAreRemembered
  <2>1. i \in 1 .. Len(rows) /\ rows'[i] = rows[i]
    BY <1>2, <1>3, <1>5
  <2> QED
    BY <2>1 DEF RowIInv, RowsAreRemembered
<1>8. \A i \in 1 .. Len(rows') : /\ rows'[i].t <= Now
                                 /\ rows'[i].t = Now => rows'[i] = Row
  <2>1. \A i \in 1 .. Len(rows) : rows[i].t \in Int
    BY <1>1, RowDate
  <2> QED
    BY <1>2, <1>3, <1>5, <1>6, <2>1
<1> QED
  BY <1>1, <1>3, <1>4, <1>7, <1>8 DEF RowIInv

\* An evaluation at the start of a step records what the row shows; a later
\* one records a date that no row has yet.
LEMMA EvaluateRemembers ==
  ASSUME EqTol = 0, OnlyLastForced, LaterStagesAreLater, SimIInv, RowIInv,
         NEW y \in [Bodies -> Values \union {NaN}], Evaluate(y)
  PROVE  RowIInv'
<1> DEFINE t == Now + Nodes[stage + 1]
           Thrown == \E c \in Bodies : Throws(c, y, t)
<1>1. /\ SimTypeOK /\ pc = "solve" /\ stage < Len(Nodes)
      /\ step' = step /\ rows' = rows /\ Now' = Now
      /\ stage = 0 => y = state
  BY DEF SimIInv, Evaluate, Abort, Now
<1>2. /\ Now \in Int /\ t \in Int
      /\ stage = 0 => t = Now
      /\ stage # 0 => t > Now
  <2>1. Now \in Int /\ Nodes[stage + 1] \in Int /\ stage + 1 \in 1 .. Len(Nodes)
    BY <1>1, NodeType, NowType, StageType
  <2>2. stage = 0 => Nodes[stage + 1] = 0
    BY SimulationAssumption
  <2>3. stage # 0 => Nodes[stage + 1] > 0
    BY <1>1, <2>1, StageType DEF LaterStagesAreLater
  <2> QED
    BY <2>1, <2>2, <2>3
<1>3. \A i \in 1 .. Len(rows) : rows[i].t \in Int /\ rows[i].t <= Now
  BY <1>1, RowDate DEF RowIInv
<1>4. IF Thrown THEN stage' = stage /\ pc' = "failed"
                ELSE stage' = stage + 1 /\ pc' = pc
  BY DEF Evaluate, Abort
<1>5. stage \in Nat
  BY <1>1, StageType
<1> HIDE DEF t, Thrown
<1>6. RowsAreRemembered'
  <2> SUFFICES ASSUME NEW b \in Bodies, NEW s \in Samples(hist'[b]),
                      NEW i \in 1 .. Len(rows), rows[i].t = s.t,
                      s.t < Now \/ stage' > 0
               PROVE  s.v = rows[i].u[b]
    BY <1>1 DEF RowsAreRemembered
  <2>1. SnapToBack(hist[b], t) = t
    BY <1>2, ExactDate DEF SimIInv, Sound
  <2>2. \/ s \in Samples(hist[b]) /\ Thrown
        \/ s \in Samples(hist[b]) /\ s.t # t
        \/ s = [t |-> t, v |-> Forced(b, y[b], t)]
    BY <2>1, EvaluateSamples DEF t, Thrown
  <2>3. s.t \in Int /\ s.t <= Now
    BY <1>3
  <2>4. CASE s \in Samples(hist[b]) /\ (s.t < Now \/ stage > 0)
    BY <2>4 DEF RowIInv, RowsAreRemembered
  \* The row of the current date shows what was recorded for it.
  <2>5. CASE stage = 0 /\ s = [t |-> t, v |-> Forced(b, y[b], t)]
    <3>1. rows[i].u = OutputStates(state, Now)
      BY <1>1, <1>2, <2>5 DEF RowIInv
    <3>2. b # N => Forced(b, y[b], Now) = y[b]
      BY <1>2 DEF OnlyLastForced, Forced
    <3>3. OutputStates(state, Now)[b] = Forced(b, y[b], Now)
      BY <1>1, <2>5, <3>2 DEF OutputStates
    <3> QED
      BY <1>2, <2>5, <3>1, <3>3
  <2> QED
    BY <1>2, <1>4, <1>5, <2>2, <2>3, <2>4, <2>5
<1> QED
  BY <1>1, <1>3, <1>4, <1>5, <1>6 DEF RowIInv

\* The integrated states are of the end of the step, where no row is yet.
LEMMA FinishStepRemembers ==
  ASSUME SimIInv, RowIInv, NEW u \in [Bodies -> Values \union {NaN}], FinishStep(u)
  PROVE  RowIInv'
<1>1. /\ SimTypeOK /\ step' = step + 1 /\ stage' = 0 /\ stage = Len(Nodes)
      /\ hist' = hist /\ rows' = rows /\ pc' = "observe"
  BY DEF FinishStep, SimIInv
<1>2. Now \in Int /\ Now' = Now + Dt /\ Dt \in Int /\ Dt > 0 /\ stage > 0
  <2>1. Now \in Int /\ Now' = Now + Dt
    BY <1>1, SimulationAssumption DEF Now, SimTypeOK
  <2>2. Len(Nodes) > 0
    BY SimulationAssumption
  <2> QED
    BY <1>1, <2>1, <2>2, SimulationAssumption
<1>3. \A i \in 1 .. Len(rows) : rows[i].t \in Int /\ rows[i].t <= Now
  BY <1>1, RowDate DEF RowIInv
<1>4. RowsAreRemembered'
  BY <1>1, <1>2 DEF RowIInv, RowsAreRemembered
<1> QED
  BY <1>1, <1>2, <1>3, <1>4 DEF RowIInv

\* Every step of a run keeps what is remembered equal to what is shown.
LEMMA SimNextRemembers ==
  ASSUME EqTol = 0, OnlyLastForced, LaterStagesAreLater
  PROVE  SimIInv /\ RowIInv /\ [SimNext]_simVars => RowIInv'
<1> SUFFICES ASSUME SimIInv, RowIInv, [SimNext]_simVars
             PROVE  RowIInv'
  OBVIOUS
<1>1. CASE Observe
  BY <1>1, ObserveRemembers
<1>2. ASSUME NEW y \in [Bodies -> Values \union {NaN}], Evaluate(y)
      PROVE  RowIInv'
  BY <1>2, EvaluateRemembers
<1>3. ASSUME NEW u \in [Bodies -> Values \union {NaN}], FinishStep(u)
      PROVE  RowIInv'
  BY <1>3, FinishStepRemembers
<1>4. CASE Finish
  <2>1. /\ rows' = rows /\ Now' = Now /\ hist' = hist /\ stage' = stage
        /\ pc' = "done"
    BY <1>4, FinishKeeps DEF Finish, Now
  <2> QED
    BY <2>1 DEF RowIInv, RowsAreRemembered
<1>5. CASE UNCHANGED simVars
  <2>1. Now' = Now
    BY <1>5 DEF simVars, Now
  <2> QED
    BY <1>5, <2>1 DEF simVars, RowIInv, RowsAreRemembered, OutputStates, Forced, IsBlocked
<1> QED
  BY <1>1, <1>2, <1>3, <1>4, <1>5 DEF SimNext, Ended

-----------------------------------------------------------------------------

\* The variables of a run keep the types the code declares.
THEOREM SimTypeCorrect == SimSpec => []SimTypeOK
<1>1. SimIInv => SimTypeOK
  BY DEF SimIInv
<1> QED
  BY <1>1, AlwaysSimIInv, PTL

\* A NaN is never recorded into a history, whatever the stepper, the number of
\* bodies and the forced states.
THEOREM NaNStaysOut == SimSpec => []NaNNeverRemembered
<1>1. SimIInv => NaNNeverRemembered
  BY DEF SimIInv, NaNNeverRemembered, Sound
<1> QED
  BY <1>1, AlwaysSimIInv, PTL

\* A NaN is shown in the last row only: the next evaluation stops the run.
THEOREM NaNAlwaysStops == SimSpec => []NaNStopsTheRun
<1>1. SimIInv => NaNStopsTheRun
  BY DEF SimIInv, NaNStopsTheRun, Clean
<1> QED
  BY <1>1, AlwaysSimIInv, PTL

\* No history refuses a date during a run of a stepper whose evaluations never
\* go back in time, whatever the past a client sent, the length of the window
\* and the tolerances.
THEOREM RunNeverRefused ==
  ASSUME NodesNeverGoBack
  PROVE  SimSpec => []HistoryAccepts
<1>1. SimInit => OrderIInv
  BY SimInitIInv
<1>2. SimIInv /\ OrderIInv /\ [SimNext]_simVars => OrderIInv'
  BY SimNextInOrder
<1>3. OrderIInv => HistoryAccepts
  BY DEF OrderIInv, HistoryAccepts
<1> QED
  BY <1>1, <1>2, <1>3, AlwaysSimIInv, PTL DEF SimSpec

\* Force models are called with the forced states, at every stage of every
\* step: the current value of each history is the forced one, whatever the
\* tables, the stepper and the tolerances.  (After an exception some bodies
\* are updated and others not, but no force model is called any more.)
THEOREM ForcesAlwaysSeeForced ==
  SimSpec => [](pc # "failed" => ForceModelsSeeForcedStates)
<1>1. SimInit => (pc # "failed" => ForceModelsSeeForcedStates)
  BY DEF SimInit, ForceModelsSeeForcedStates
<1>2. SimIInv /\ (pc # "failed" => ForceModelsSeeForcedStates) /\ [SimNext]_simVars
        => (pc # "failed" => ForceModelsSeeForcedStates)'
  BY SimNextForced
<1> QED
  BY <1>1, <1>2, AlwaysSimIInv, PTL DEF SimSpec

\* The states remembered for the dates of the rows are those shown, whatever
\* the stepper predicts, the length of the window and the past a client sent,
\* when only the first evaluation of a step is at its start and no body but
\* the last is forced: Sim::output shows the others unforced.
THEOREM PastIsTheAcceptedPast ==
  ASSUME EqTol = 0, OnlyLastForced, LaterStagesAreLater
  PROVE  SimSpec => []RowsAreRemembered
<1>1. SimInit => RowIInv
  <2> SUFFICES ASSUME SimInit
               PROVE  RowIInv
    OBVIOUS
  <2>1. 1 .. Len(rows) = {}
    BY EmptySeq DEF SimInit
  <2> QED
    BY <2>1 DEF SimInit, RowIInv, RowsAreRemembered
<1>2. SimIInv /\ RowIInv /\ [SimNext]_simVars => RowIInv'
  BY SimNextRemembers
<1>3. RowIInv => RowsAreRemembered
  BY DEF RowIInv
<1> QED
  BY <1>1, <1>2, <1>3, AlwaysSimIInv, PTL DEF SimSpec
=============================================================================
