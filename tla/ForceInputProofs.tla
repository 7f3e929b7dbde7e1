-------------------------- MODULE ForceInputProofs --------------------------
(***************************************************************************)
(* What force models are given, for every sea, fleet and number of         *)
(* evaluations, whatever the servers do: a row observed after a step is    *)
(* made of one evaluation, and a run stops for a reason.  And for every    *)
(* list of bodies and tables: the states are forced as they are tabulated, *)
(* and histories are as long as the models of their body need.             *)
(*                                                                         *)
(* An evaluation goes through the bodies, and through the models of each,  *)
(* in an order; the invariant is that those before the current one are     *)
(* done.                                                                   *)
(***************************************************************************)
EXTENDS RemoteModels, HistoryLengths, HistoryLemmas

(* What is kept of the waves sent to a model, and of the heights. *)
Sent == [elevations : Int, pressures : Int, velocities : Int, spectrum : BOOLEAN]
KeptWaves == [asked : Ask, sent : Sent, short : BOOLEAN]
HeightsOf == [body : Nat, evaluation : Nat]

DoneModel(m) ==
  /\ force[m] = evaluation
  /\ extra[m] = evaluation
  /\ needs[m] => waves[m].short \/ waves[m].sent = waves[m].asked

DoneBody(b) ==
  fleet[b].surface /\ fleet[b].points > 0 /\ sea.kind # "none" =>
    immersions[b] = [body |-> b, evaluation |-> evaluation]

ModelBefore(m) == m[1] < at[1] \/ (m[1] = at[1] /\ m[2] < at[2])
BodyBefore(b) == b < at[1] \/ (b = at[1] /\ at[2] > 0)

RemoteTypeOK ==
  /\ sea \in Seas /\ fleet \in Fleets
  /\ mode \in {"read", "refused", "idle", "solving", "evaluating"}
  /\ evaluation \in Nat
  /\ at \in Nat \X Nat
  /\ mode = "evaluating" => at[1] \in DOMAIN fleet /\ at[2] \in 0 .. fleet[at[1]].models
  /\ force \in [Models -> Nat] /\ extra \in [Models -> Nat]
  /\ waves \in [Models -> KeptWaves]
  /\ heights \in HeightsOf
  /\ immersions \in [DOMAIN fleet -> HeightsOf]
  /\ row.evaluation \in Nat

(* What an evaluation has done so far. *)
Progress ==
  mode = "evaluating" =>
    /\ \A m \in Models : ModelBefore(m) => DoneModel(m)
    /\ \A b \in DOMAIN fleet : BodyBefore(b) => DoneBody(b)

(* An evaluation that ended is whole. *)
Whole ==
  mode = "solving" /\ row.evaluation < evaluation =>
    /\ \A m \in Models : DoneModel(m)
    /\ \A b \in DOMAIN fleet : DoneBody(b)

RemoteIInv ==
  /\ RemoteTypeOK
  /\ mode = "read" => row.first
  /\ Progress
  /\ Whole
  /\ RowsOfOneEvaluation

-----------------------------------------------------------------------------

\* Fleets are lists of hulls, and each hull a record.
LEMMA FleetType ==
  ASSUME fleet \in Fleets
  PROVE  /\ Len(fleet) \in Nat \ {0}
         /\ DOMAIN fleet = 1 .. Len(fleet)
         /\ \A b \in DOMAIN fleet : fleet[b].models \in Nat /\ fleet[b].points \in Nat
<1>1. fleet \in Seq(Hull) /\ fleet # <<>>
  BY RemoteAssumption
<1>2. Len(fleet) \in Nat /\ DOMAIN fleet = 1 .. Len(fleet)
  BY <1>1, LenProperties
<1>3. Len(fleet) # 0
  BY <1>1, EmptySeq
<1>4. \A b \in 1 .. Len(fleet) : fleet[b] \in Hull
  BY <1>1, ElementOfSeq
<1>5. \A b \in 1 .. Len(fleet) : fleet[b].models \in Nat /\ fleet[b].points \in Nat
  BY <1>4 DEF Hull
<1> QED
  BY <1>2, <1>3, <1>5

\* A model is a body and the rank of one of its force models.
LEMMA ModelType ==
  ASSUME fleet \in Fleets
  PROVE  \A m : m \in Models <=>
           \E b \in DOMAIN fleet : \E i \in 1 .. fleet[b].models : m = <<b, i>>
BY DEF Models

\* The models before the next one are those before the current one, and the
\* current one.
LEMMA NextInOrder ==
  ASSUME RemoteTypeOK, mode = "evaluating", NEW throws \in BOOLEAN,
         Continue(throws)
  PROVE  /\ at' \in Nat \X Nat
         /\ mode' = "evaluating" =>
              at'[1] \in DOMAIN fleet /\ at'[2] \in 0 .. fleet[at'[1]].models
         /\ \A m \in Models : m[1] < at'[1] \/ (m[1] = at'[1] /\ m[2] < at'[2]) =>
              ModelBefore(m) \/ m = at
         /\ \A b \in DOMAIN fleet : b < at'[1] \/ (b = at'[1] /\ at'[2] > 0) =>
              BodyBefore(b) \/ (b = at[1] /\ at[2] = 0)
         /\ mode' = "solving" =>
              /\ \A m \in Models : m[1] < at'[1]
              /\ \A b \in DOMAIN fleet : b < at'[1]
         /\ mode' \in {"idle", "solving", "evaluating"}
         /\ throws => mode' = "idle"
<1> DEFINE n == Len(fleet)
<1>1. /\ n \in Nat \ {0} /\ DOMAIN fleet = 1 .. n
      /\ \A b \in 1 .. n : fleet[b].models \in Nat
  BY FleetType DEF RemoteTypeOK
<1>2. PICK c \in 1 .. n, i \in Nat : at = <<c, i>> /\ i <= fleet[c].models
  BY <1>1 DEF RemoteTypeOK
<1>3. \A m \in Models : \E b \in 1 .. n : \E j \in 1 .. fleet[b].models : m = <<b, j>>
  BY <1>1, ModelType DEF RemoteTypeOK
<1> HIDE DEF n
<1>4. CASE i < fleet[c].models
  <2>1. at' = <<c, i + 1>>
    BY <1>2, <1>4 DEF Continue
  <2>2. mode' = IF throws THEN "idle" ELSE "evaluating"
    BY <1>1, <1>2, <1>4 DEF Continue, n
  <2>3. \A m \in Models : m[1] < c \/ (m[1] = c /\ m[2] < i + 1) =>
          ModelBefore(m) \/ m = at
    BY <1>1, <1>2, <1>3 DEF ModelBefore
  <2>4. \A b \in 1 .. n : b < c \/ b = c => BodyBefore(b) \/ (b = c /\ i = 0)
    BY <1>2 DEF BodyBefore
  <2> QED
    BY <1>1, <1>2, <1>4, <2>1, <2>2, <2>3, <2>4
<1>5. CASE i = fleet[c].models
  <2>1. at' = <<c + 1, 0>>
    BY <1>1, <1>2, <1>5 DEF Continue
  <2>2. mode' = IF throws THEN "idle" ELSE IF c + 1 > n THEN "solving" ELSE "evaluating"
    BY <1>1, <1>2, <1>5 DEF Continue, n
  <2>3. \A m \in Models : m[1] \in 1 .. n
    BY <1>3
  <2>4. \A m \in Models : m[1] < c + 1 \/ (m[1] = c + 1 /\ m[2] < 0) =>
          ModelBefore(m) \/ m = at
    BY <1>1, <1>2, <1>3, <1>5 DEF ModelBefore
  <2>5. \A b \in 1 .. n : b < c + 1 => BodyBefore(b) \/ (b = c /\ i = 0)
    BY <1>2 DEF BodyBefore
  <2>6. c + 1 > n => (\A m \in Models : m[1] < c + 1) /\ \A b \in 1 .. n : b < c + 1
    BY <1>1, <2>3
  <2>7. c + 1 <= n => c + 1 \in 1 .. n /\ 0 \in 0 .. fleet[c + 1].models
    BY <1>1
  <2> QED
    BY <1>1, <1>2, <2>1, <2>2, <2>4, <2>5, <2>6, <2>7
<1> QED
  BY <1>1, <1>2, <1>4, <1>5

-----------------------------------------------------------------------------

\* Of the requests that do not throw, those whose calls go well are answered
\* what was asked: a request for pressures always throws.
LEMMA SentAsAsked ==
  ASSUME NEW ask \in Ask, ~ WavesThrow(WaveRequest(ask), Fine)
  PROVE  WavesSent(WaveRequest(ask), Fine) = ask
<1>1. /\ Answered("elevations", ask.elevations, Fine) = ask.elevations
      /\ Answered("pressures", 0, Fine) = 0
  BY DEF Answered, Fine
<1>2. /\ ask = [elevations |-> ask.elevations, pressures |-> ask.pressures,
                velocities |-> ask.velocities, spectrum |-> ask.spectrum]
      /\ ask.pressures \in Nat
  BY DEF Ask
<1>3. ask.pressures = 0
  BY <1>2 DEF WavesThrow, SameSizes, WaveRequest
<1>4. /\ WaveRequest(ask).elevations.x = ask.elevations
      /\ WaveRequest(ask).pressures.x = 0
      /\ WaveRequest(ask).velocities.x = ask.velocities
      /\ WaveRequest(ask).spectrum = ask.spectrum
  BY <1>3 DEF WaveRequest
<1> QED
  BY <1>1, <1>2, <1>3, <1>4 DEF WavesSent

\* Nothing is evaluated before the models are constructed.
LEMMA RemoteInitInv == RemoteInit => RemoteIInv
<1>1. RemoteInit => RemoteTypeOK
  BY DEF RemoteInit, RemoteTypeOK, NoWaves, NoAsk, NoHeights, KeptWaves, Sent, Ask,
         HeightsOf
<1>2. RemoteInit => (mode = "read" => row.first) /\ Progress /\ Whole
  BY DEF RemoteInit, Progress, Whole
<1>3. RemoteInit => RowsOfOneEvaluation
  BY DEF RemoteInit, RowsOfOneEvaluation
<1> QED
  BY <1>1, <1>2, <1>3 DEF RemoteIInv

\* The models are those of the fleet.
LEMMA SameModels == fleet' = fleet => Models' = Models
BY DEF Models

\* What a step needs to leave to preserve what was done, and the row.
LEMMA RowStays ==
  ASSUME RowsOfOneEvaluation, row' = row, fleet' = fleet, sea' = sea,
         needs' = needs
  PROVE  RowsOfOneEvaluation'
BY SameModels DEF RowsOfOneEvaluation

\* A body or a model that is done stays done while a later one is evaluated.
LEMMA DoneStays ==
  ASSUME fleet' = fleet, sea' = sea, needs' = needs, evaluation' = evaluation
  PROVE  /\ \A m \in Models : DoneModel(m) /\ force'[m] = force[m] /\
              extra'[m] = extra[m] /\ waves'[m] = waves[m] => DoneModel(m)'
         /\ \A b \in DOMAIN fleet : DoneBody(b) /\ immersions'[b] = immersions[b]
              => DoneBody(b)'
BY DEF DoneModel, DoneBody

\* Constructing the models keeps the invariant.
LEMMA ConstructStep ==
  ASSUME RemoteIInv, NEW wanted, NEW refused \in BOOLEAN,
         Construct(wanted, refused)
  PROVE  RemoteIInv'
<1> USE DEF Construct, modelVars
<1>1. RemoteTypeOK'
  BY SameModels DEF RemoteIInv, RemoteTypeOK
<1>2. (mode = "read" => row.first)' /\ Progress' /\ Whole'
  BY DEF Progress, Whole
<1>3. RowsOfOneEvaluation'
  BY DEF RemoteIInv, RowsOfOneEvaluation
<1> QED
  BY <1>1, <1>2, <1>3 DEF RemoteIInv

\* The start of an evaluation keeps the invariant: it forgets what is done.
LEMMA BeginStep ==
  ASSUME RemoteIInv, Begin
  PROVE  RemoteIInv'
<1> USE DEF Begin, Observed, modelVars
<1>1. RemoteTypeOK'
  BY SameModels DEF RemoteIInv, RemoteTypeOK
<1>2. (mode = "read" => row.first)' /\ Progress' /\ Whole'
  BY DEF RemoteIInv, RemoteTypeOK, Progress, Whole
<1>3. RowsOfOneEvaluation'
  BY DEF RowsOfOneEvaluation
<1> QED
  BY <1>1, <1>2, <1>3 DEF RemoteIInv

\* Nothing is before the first body.
LEMMA EvaluateStep ==
  ASSUME RemoteIInv, EvaluateForces
  PROVE  RemoteIInv'
<1> USE DEF EvaluateForces, solvedVars, modelVars
<1>1. fleet \in Fleets
  BY DEF RemoteIInv, RemoteTypeOK
<1>2. 1 \in DOMAIN fleet /\ 0 \in 0 .. fleet[1].models
  BY <1>1, FleetType
<1>3. \A m \in Models : ~ (m[1] < 1 \/ (m[1] = 1 /\ m[2] < 0))
  BY <1>1, FleetType, ModelType
<1>4. \A b \in DOMAIN fleet : ~ (b < 1)
  BY <1>1, FleetType
<1>5. RemoteTypeOK'
  BY <1>2, SameModels DEF RemoteIInv, RemoteTypeOK
<1>6. (mode = "read" => row.first)' /\ Whole'
  BY DEF Whole
<1>7. Progress'
  BY <1>3, <1>4, SameModels DEF Progress, ModelBefore, BodyBefore
<1>8. RowsOfOneEvaluation'
  BY RowStays DEF RemoteIInv
<1> QED
  BY <1>5, <1>6, <1>7, <1>8 DEF RemoteIInv

\* The row that is observed is of an evaluation that ended.
LEMMA OutputStep ==
  ASSUME RemoteIInv, Output
  PROVE  RemoteIInv'
<1> USE DEF Output, Observed, modelVars
<1>1. (\A m \in Models : DoneModel(m)) /\ \A b \in DOMAIN fleet : DoneBody(b)
  BY DEF RemoteIInv, Whole
<1>2. RowsOfOneEvaluation'
  BY <1>1, SameModels DEF RowsOfOneEvaluation, DoneModel, DoneBody
<1>3. RemoteTypeOK'
  BY SameModels DEF RemoteIInv, RemoteTypeOK
<1>4. (mode = "read" => row.first)' /\ Progress' /\ Whole'
  BY DEF RemoteIInv, RemoteTypeOK, Progress, Whole
<1> QED
  BY <1>2, <1>3, <1>4 DEF RemoteIInv

\* The end of an evaluation keeps the invariant: a row is of that evaluation.
LEMMA EndStep ==
  ASSUME RemoteIInv, End
  PROVE  RemoteIInv'
<1> USE DEF End, solvedVars, modelVars
<1>1. RemoteTypeOK'
  BY SameModels DEF RemoteIInv, RemoteTypeOK
<1>2. (mode = "read" => row.first)' /\ Progress' /\ Whole'
  BY DEF Progress, Whole
<1>3. RowsOfOneEvaluation'
  BY RowStays DEF RemoteIInv
<1> QED
  BY <1>1, <1>2, <1>3 DEF RemoteIInv

-----------------------------------------------------------------------------

\* What an update of the current body or model leaves, and what it does, are
\* together what is before the next one, or all if there is none.
LEMMA NextIsDone ==
  ASSUME RemoteIInv, mode = "evaluating", NEW throws \in BOOLEAN, Continue(throws),
         UNCHANGED <<solvedVars, evaluation>>,
         ~ throws => /\ \A m \in Models : ModelBefore(m) \/ m = at => DoneModel(m)'
                     /\ \A b \in DOMAIN fleet :
                          BodyBefore(b) \/ (b = at[1] /\ at[2] = 0) => DoneBody(b)'
  PROVE  /\ (mode = "read" => row.first)'
         /\ Progress' /\ Whole' /\ RowsOfOneEvaluation'
<1> USE DEF solvedVars
<1>1. RemoteTypeOK
  BY DEF RemoteIInv
<1>2. /\ \A m \in Models : m[1] < at'[1] \/ (m[1] = at'[1] /\ m[2] < at'[2]) =>
           ModelBefore(m) \/ m = at
      /\ \A b \in DOMAIN fleet : b < at'[1] \/ (b = at'[1] /\ at'[2] > 0) =>
           BodyBefore(b) \/ (b = at[1] /\ at[2] = 0)
      /\ mode' = "solving" =>
           /\ \A m \in Models : m[1] < at'[1]
           /\ \A b \in DOMAIN fleet : b < at'[1]
      /\ mode' \in {"idle", "solving", "evaluating"}
      /\ throws => mode' = "idle"
  BY <1>1, NextInOrder
<1>3. Progress'
  BY <1>2, SameModels DEF Progress, ModelBefore, BodyBefore
<1>4. Whole'
  BY <1>2, SameModels DEF Whole
<1>5. RowsOfOneEvaluation'
  BY RowStays DEF RemoteIInv
<1> QED
  BY <1>2, <1>3, <1>4, <1>5

\* A body gets the heights above its own points, or the evaluation ends.
LEMMA UpdateBodyStep ==
  ASSUME RemoteIInv, NEW call \in HeightCalls, UpdateBody(call)
  PROVE  RemoteIInv'
<1> USE DEF solvedVars, modelVars
<1>1. RemoteTypeOK /\ mode = "evaluating" /\ at[2] = 0 /\ Continue(call # Fine)
  BY DEF RemoteIInv, UpdateBody
<1>2. fleet[at[1]].points \in Nat /\ at[1] \in Nat /\ at[1] \in DOMAIN fleet
  BY <1>1, FleetType DEF RemoteTypeOK
<1>3. heights' \in HeightsOf /\ immersions' \in [DOMAIN fleet -> HeightsOf]
  BY <1>1, <1>2 DEF UpdateBody, RemoteTypeOK, Heights, NoHeights, HeightsOf
<1>4. RemoteTypeOK'
  BY <1>1, <1>3, NextInOrder, SameModels DEF UpdateBody, RemoteTypeOK
<1>5. \A m \in Models : ModelBefore(m) \/ m = at => DoneModel(m)'
  <2>1. \A m \in Models : m # at
    BY <1>1, FleetType, ModelType DEF RemoteTypeOK
  <2>2. \A m \in Models : ModelBefore(m) => DoneModel(m)
    BY <1>1 DEF RemoteIInv, Progress
  <2> QED
    BY <2>1, <2>2 DEF UpdateBody, DoneModel
<1>6. call = Fine => \A b \in DOMAIN fleet :
        BodyBefore(b) \/ (b = at[1] /\ at[2] = 0) => DoneBody(b)'
  <2> SUFFICES ASSUME call = Fine, NEW b \in DOMAIN fleet,
                      BodyBefore(b) \/ b = at[1]
               PROVE  DoneBody(b)'
    BY <1>1
  <2>1. CASE b = at[1]
    BY <1>1, <1>2, <2>1 DEF UpdateBody, DoneBody, Heights, RemoteTypeOK
  <2>2. CASE b # at[1]
    <3>1. DoneBody(b)
      BY <1>1, <2>2 DEF RemoteIInv, Progress
    <3>2. immersions'[b] = immersions[b]
      BY <1>1, <1>2, <2>2 DEF UpdateBody, RemoteTypeOK
    <3> QED
      BY <3>1, <3>2 DEF UpdateBody, DoneBody
  <2> QED
    BY <2>1, <2>2
<1>7. UNCHANGED <<solvedVars, evaluation>>
  BY DEF UpdateBody
<1>8. /\ (mode = "read" => row.first)'
      /\ Progress' /\ Whole' /\ RowsOfOneEvaluation'
  BY <1>1, <1>5, <1>6, <1>7, NextIsDone
<1> QED
  BY <1>4, <1>8 DEF RemoteIInv

\* A model gets what it asked for and its force is kept, or the evaluation
\* ends.
LEMMA UpdateForceStep ==
  ASSUME RemoteIInv, NEW ask \in Asks(sea.kind), NEW call \in Wrongs,
         UpdateForce(ask, call)
  PROVE  RemoteIInv'
<1> USE DEF solvedVars, modelVars
<1> DEFINE request == WaveRequest(ask)
           throws == \/ call = <<"force", "fails">>
                     \/ needs[at] /\ (call = <<"required_wave_information", "fails">>
                                       \/ WavesThrow(request, call))
           sentNow == [asked |-> ask, sent |-> WavesSent(request, call),
                       short |-> call # Fine]
           keptNow == IF needs[at] THEN sentNow ELSE NoWaves
<1>1. RemoteTypeOK /\ mode = "evaluating" /\ at[2] > 0 /\ Continue(throws)
  BY DEF RemoteIInv, UpdateForce
<1>2. throws \in BOOLEAN
  OBVIOUS
<1>3. ask \in Ask
  BY <1>1, RemoteAssumption DEF RemoteTypeOK
<1>4. at \in Models
  <2>1. at[1] \in DOMAIN fleet /\ at[2] \in 1 .. fleet[at[1]].models /\ at = <<at[1], at[2]>>
    BY <1>1, FleetType DEF RemoteTypeOK
  <2> QED
    BY <1>1, <2>1, ModelType DEF RemoteTypeOK
<1>5. keptNow \in KeptWaves
  <2>1. \A c, n : n \in Int => Answered(c, n, call) \in Int
    BY DEF Answered
  <2>2. /\ request.elevations.x \in Int /\ request.pressures.x \in Int
        /\ request.velocities.x \in Int /\ request.spectrum \in BOOLEAN
    BY <1>3 DEF WaveRequest, Ask
  <2>3. WavesSent(request, call) \in Sent
    BY <2>1, <2>2 DEF WavesSent, Sent
  <2>4. NoWaves \in KeptWaves
    BY DEF NoWaves, NoAsk, KeptWaves, Sent, Ask
  <2> QED
    BY <1>3, <2>3, <2>4 DEF KeptWaves
<1>6. IF throws THEN UNCHANGED modelVars
      ELSE /\ waves' = [waves EXCEPT ![at] = keptNow]
           /\ force' = [force EXCEPT ![at] = evaluation]
           /\ extra' = [extra EXCEPT ![at] = evaluation]
  BY DEF UpdateForce
<1>7. RemoteTypeOK'
  <2>1. waves' \in [Models -> KeptWaves] /\ force' \in [Models -> Nat] /\ extra' \in [Models -> Nat]
    BY <1>1, <1>4, <1>5, <1>6 DEF RemoteTypeOK
  <2> QED
    BY <1>1, <1>2, <2>1, NextInOrder, SameModels DEF UpdateForce, RemoteTypeOK
<1>8. ~ throws => \A m \in Models : ModelBefore(m) \/ m = at => DoneModel(m)'
  <2> SUFFICES ASSUME ~ throws, NEW m \in Models, ModelBefore(m) \/ m = at
               PROVE  DoneModel(m)'
    OBVIOUS
  <2>1. CASE m = at
    <3>1. force'[m] = evaluation /\ extra'[m] = evaluation /\ waves'[m] = keptNow
      BY <1>1, <1>4, <1>6, <2>1 DEF RemoteTypeOK
    <3>2. needs[m] => keptNow.short \/ keptNow.sent = keptNow.asked
      BY <1>3, <2>1, SentAsAsked
    <3> QED
      BY <3>1, <3>2 DEF UpdateForce, DoneModel
  <2>2. CASE m # at
    <3>1. DoneModel(m)
      BY <1>1, <2>2 DEF RemoteIInv, Progress
    <3>2. force'[m] = force[m] /\ extra'[m] = extra[m] /\ waves'[m] = waves[m]
      BY <1>1, <1>6, <2>2 DEF RemoteTypeOK
    <3> QED
      BY <3>1, <3>2 DEF UpdateForce, DoneModel
  <2> QED
    BY <2>1, <2>2
<1>9. \A b \in DOMAIN fleet : BodyBefore(b) \/ (b = at[1] /\ at[2] = 0) => DoneBody(b)'
  <2>1. \A b \in DOMAIN fleet : BodyBefore(b) => DoneBody(b)
    BY <1>1 DEF RemoteIInv, Progress
  <2> QED
    BY <1>1, <2>1 DEF UpdateForce, DoneBody
<1>10. UNCHANGED <<solvedVars, evaluation>>
  BY DEF UpdateForce
<1>11. /\ (mode = "read" => row.first)'
       /\ Progress' /\ Whole' /\ RowsOfOneEvaluation'
  BY <1>1, <1>2, <1>8, <1>9, <1>10, NextIsDone
<1> QED
  BY <1>7, <1>11 DEF RemoteIInv

\* A step that changes nothing keeps the invariant.
LEMMA RemoteIdleStep ==
  ASSUME RemoteIInv, UNCHANGED remoteVars
  PROVE  RemoteIInv'
BY SameModels DEF remoteVars, solvedVars, modelVars, RemoteIInv, RemoteTypeOK,
   Progress, Whole, RowsOfOneEvaluation, ModelBefore, BodyBefore, DoneModel, DoneBody

-----------------------------------------------------------------------------

\* What the bodies and the models before the current one hold is of the current
\* evaluation, and so is every row, whole.
THEOREM RemoteInvariant == RemoteSpec => []RemoteIInv
<1>1. RemoteInit => RemoteIInv
  BY RemoteInitInv
<1>2. RemoteIInv /\ [RemoteNext]_remoteVars => RemoteIInv'
  BY ConstructStep, BeginStep, EvaluateStep, OutputStep, EndStep, UpdateBodyStep,
     UpdateForceStep, RemoteIdleStep DEF RemoteNext
<1> QED
  BY <1>1, <1>2, PTL DEF RemoteSpec

\* For every sea, every fleet and every number of evaluations, and whatever
\* the servers refuse, fail at or answer too little: a row observed after a
\* step is of one evaluation, the last one (Sim::output after Sim::dx_dt).
THEOREM RowsAlwaysOfOneEvaluation == RemoteSpec => []RowsOfOneEvaluation
<1>1. RemoteIInv => RowsOfOneEvaluation
  BY DEF RemoteIInv
<1> QED
  BY <1>1, RemoteInvariant, PTL

-----------------------------------------------------------------------------

(***************************************************************************)
(* The inputs a simulation does not stop for: a depth that is given and    *)
(* phases for each direction of each spectrum, no dynamic pressures, and   *)
(* one velocity where the waves come from a server.  The runs wave_depth   *)
(* and remote_pressures show that infinite depths and pressures do not     *)
(* belong here, although they are documented.                              *)
(***************************************************************************)
UsualInputs ==
  \A s \in Seas :
    /\ \A i \in DOMAIN s.spectra : s.spectra[i].depth > 0 /\ HasPhases(s.spectra[i])
    /\ \A ask \in Asks(s.kind) :
         ask.pressures = 0 /\ (s.kind = "remote" => ask.velocities = 1)

(* A simulation that goes on has not been stopped. *)
StopIInv ==
  /\ sea \in Seas
  /\ mode \in {"read", "solving", "evaluating"} => ~ threw
  /\ StopsForAReason

\* A request that asks for what a sea can give is refused by no sea but the
\* one that is not there.
LEMMA UsualWaves ==
  ASSUME UsualInputs, sea \in Seas, NEW ask \in Asks(sea.kind),
         WavesThrow(WaveRequest(ask), Fine)
  PROVE  sea.kind = "none"
<1>1. ask.pressures = 0 /\ (sea.kind = "remote" => ask.velocities = 1)
  BY DEF UsualInputs
<1>2. \A c, n : Answered(c, n, Fine) = n
  BY DEF Answered, Fine
<1>3. Fine \notin {<<c, "fails">> : c \in WaveCalls}
  BY DEF Fine, WaveCalls
<1>4. /\ SameSizes(WaveRequest(ask).velocities, WaveRequest(ask).velocities.x)
      /\ SameSizes(WaveRequest(ask).pressures, WaveRequest(ask).pressures.x)
      /\ WaveRequest(ask).velocities.x = ask.velocities
  BY <1>1 DEF SameSizes, WaveRequest
<1> HIDE DEF UsualInputs
<1> QED
  BY <1>1, <1>2, <1>3, <1>4 DEF WavesThrow

\* The models are constructed, unless a server refuses its parameters.
LEMMA StopConstruct ==
  ASSUME UsualInputs, StopIInv, NEW wanted, NEW refused \in BOOLEAN, Construct(wanted, refused)
  PROVE  StopIInv'
<1>1. \A i \in DOMAIN sea.spectra : Made(sea.spectra[i])
  BY DEF UsualInputs, StopIInv, Made, Discretized
<1>2. threw' = refused /\ sea' = sea
  BY <1>1 DEF Construct
<1>3. mode' = IF threw' THEN "refused" ELSE "idle"
  BY DEF Construct
<1>4. refused => wrong' # Fine
  BY DEF Construct, Fine
<1> QED
  BY <1>2, <1>3, <1>4 DEF StopIInv, StopsForAReason

\* A model that stops the run has a reason to.
LEMMA StopUpdateForce ==
  ASSUME UsualInputs, StopIInv, NEW ask \in Asks(sea.kind), NEW call \in Wrongs,
         UpdateForce(ask, call)
  PROVE  StopIInv'
<1> DEFINE waveless == needs[at] /\ (call = <<"required_wave_information", "fails">>
                                       \/ WavesThrow(WaveRequest(ask), call))
           throws == call = <<"force", "fails">> \/ waveless
<1>1. wrong' = call /\ sea' = sea /\ Continue(throws)
  BY DEF UpdateForce, solvedVars
<1>2. throws => call # Fine \/ sea.kind = "none"
  <2> SUFFICES ASSUME throws, call = Fine
               PROVE  sea.kind = "none"
    OBVIOUS
  <2>1. WavesThrow(WaveRequest(ask), Fine)
    BY DEF Fine
  <2> QED
    BY <2>1, UsualWaves DEF StopIInv
<1> HIDE DEF throws
<1>3. threw' = throws /\ (throws => mode' = "idle")
  BY <1>1 DEF Continue
<1> QED
  BY <1>1, <1>2, <1>3 DEF StopIInv, StopsForAReason

\* Every step that stops the run has a reason to.
LEMMA StopStep ==
  ASSUME UsualInputs, StopIInv, [RemoteNext]_remoteVars
  PROVE  StopIInv'
<1>1. CASE Begin
  BY <1>1 DEF Begin, StopIInv, StopsForAReason
<1>2. CASE EvaluateForces \/ Output \/ End
  <2>1. sea' = sea /\ threw' = threw /\ mode = "solving"
    BY <1>2 DEF EvaluateForces, Output, End, solvedVars
  <2> QED
    BY <2>1 DEF StopIInv, StopsForAReason
<1>3. ASSUME NEW call \in HeightCalls, UpdateBody(call)
      PROVE  StopIInv'
  <2>1. wrong' = call /\ sea' = sea /\ threw' = (call # Fine)
        /\ (threw' => mode' = "idle")
    BY <1>3 DEF UpdateBody, Continue, solvedVars
  <2> QED
    BY <2>1 DEF StopIInv, StopsForAReason
<1>4. CASE UNCHANGED remoteVars
  BY <1>4 DEF remoteVars, solvedVars, StopIInv, StopsForAReason
<1> QED
  BY <1>1, <1>2, <1>3, <1>4, StopConstruct, StopUpdateForce DEF RemoteNext

\* For every sea, every fleet and every number of evaluations, a simulation
\* whose inputs are the usual ones stops only because a server refused, failed
\* or answered too little, or because there are no waves where a model needs
\* them.
THEOREM AlwaysStopsForAReason ==
  ASSUME UsualInputs
  PROVE  RemoteSpec => []StopsForAReason
<1>1. RemoteInit => StopIInv
  BY DEF RemoteInit, StopIInv, StopsForAReason
<1>2. StopIInv /\ [RemoteNext]_remoteVars => StopIInv'
  BY StopStep
<1>3. StopIInv => StopsForAReason
  BY DEF StopIInv
<1> QED
  BY <1>1, <1>2, <1>3, PTL DEF RemoteSpec

-----------------------------------------------------------------------------
(* The tables of the blocked degrees of freedom.                            *)

(* What a file gives is u, the state its table is taken for. *)
FilesGiveU ==
  \A input \in Inputs : \A b \in DOMAIN input : \A i \in DOMAIN input[b].csv :
    input[b].csv[i].state = "u"

GivenTables(body) == body.yaml \o body.csv

(* The velocities now, at date t, are those of the tables of a body. *)
AsTabulated(body, t, now) ==
  LET given == GivenTables(body)
      covers(i) == \E k, l \in DOMAIN given[i].t : given[i].t[k] <= t /\ t <= given[i].t[l]
  IN  \A s \in Velocities :
        LET tables == {i \in DOMAIN given : given[i].state = s /\ covers(i)}
        IN  /\ \A i \in tables : now[s] = PiecewiseConstant(given[i], t)
            /\ tables = {} => now[s] = Free

(* The invariant: the tables a body keeps are those given for it, and its   *)
(* velocity is the last one that was forced.                                *)
ForcedIInv ==
  /\ bodies \in Inputs
  /\ date \in Nat
  /\ pc = "read" => date = 0
  /\ pc = "refused" => date = 0
  /\ pc = "built" =>
       /\ \A b \in DOMAIN bodies : ~ DefinedTwice(bodies[b])
       /\ blocked = [b \in DOMAIN bodies |-> TablesOf(bodies[b])]
  /\ pc \in {"read", "refused", "built"}
  /\ date > 0 =>
       velocity = [b \in DOMAIN bodies |-> Forced([s \in Velocities |-> Free], blocked[b], date)]

\* The dates of a table have a least and a greatest one.
LEMMA BoundsOfDates ==
  ASSUME NEW table \in Table
  PROVE  /\ \A k \in DOMAIN table.t : /\ table.t[k] \in Int
                                      /\ Min(DatesOf(table)) <= table.t[k]
                                      /\ table.t[k] <= Max(DatesOf(table))
         /\ \E k \in DOMAIN table.t : table.t[k] = Min(DatesOf(table))
         /\ \E k \in DOMAIN table.t : table.t[k] = Max(DatesOf(table))
<1> DEFINE t == table.t
           n == Len(t)
           highest == {i \in 0 .. n : i = 0 \/ \E k \in 1 .. i : \A j \in 1 .. i : t[k] >= t[j]}
           lowest == {i \in 0 .. n : i = 0 \/ \E k \in 1 .. i : \A j \in 1 .. i : t[k] <= t[j]}
<1>1. t \in Seq(Int) /\ t # <<>>
  BY DEF Table
<1>2. n \in Nat /\ n # 0 /\ DOMAIN t = 1 .. n /\ \A k \in 1 .. n : t[k] \in Int
  BY <1>1, LenProperties, EmptySeq, ElementOfSeq
<1> HIDE DEF t, n
<1>3. \A i \in 0 .. n - 1 : i \in highest => i + 1 \in highest
  <2> SUFFICES ASSUME NEW i \in 0 .. n - 1, i \in highest
               PROVE  i + 1 \in highest
    BY DEF highest
  <2>1. i \in Nat /\ i + 1 \in 1 .. n /\ i + 1 \in 1 .. i + 1
    BY <1>2
  <2>2. \A j \in 1 .. i + 1 : j \in 1 .. i \/ j = i + 1
    BY <2>1
  <2>3. 1 .. i \subseteq 1 .. i + 1 /\ 1 .. i + 1 \subseteq 1 .. n
    BY <1>2, <2>1
  <2>4. CASE i = 0
    <3>1. \A j \in 1 .. i + 1 : t[i + 1] >= t[j]
      BY <1>2, <2>1, <2>4
    <3> QED
      BY <2>1, <3>1
  <2>5. CASE i # 0
    <3>1. PICK k \in 1 .. i : \A j \in 1 .. i : t[k] >= t[j]
      BY <2>5
    <3>2. k \in 1 .. i + 1 /\ t[k] \in Int /\ t[i + 1] \in Int /\ \A j \in 1 .. i + 1 : t[j] \in Int
      BY <1>2, <2>1, <2>3
    <3>3. CASE t[k] >= t[i + 1]
      BY <2>1, <2>2, <3>1, <3>2, <3>3
    <3>4. CASE t[k] < t[i + 1]
      <4>1. \A j \in 1 .. i + 1 : t[i + 1] >= t[j]
        BY <2>2, <3>1, <3>2, <3>4
      <4> QED
        BY <2>1, <4>1
    <3> QED
      BY <3>2, <3>3, <3>4
  <2> QED
    BY <2>4, <2>5
<1>4. \A i \in 0 .. n - 1 : i \in lowest => i + 1 \in lowest
  <2> SUFFICES ASSUME NEW i \in 0 .. n - 1, i \in lowest
               PROVE  i + 1 \in lowest
    BY DEF lowest
  <2>1. i \in Nat /\ i + 1 \in 1 .. n /\ i + 1 \in 1 .. i + 1
    BY <1>2
  <2>2. \A j \in 1 .. i + 1 : j \in 1 .. i \/ j = i + 1
    BY <2>1
  <2>3. 1 .. i \subseteq 1 .. i + 1 /\ 1 .. i + 1 \subseteq 1 .. n
    BY <1>2, <2>1
  <2>4. CASE i = 0
    <3>1. \A j \in 1 .. i + 1 : t[i + 1] <= t[j]
      BY <1>2, <2>1, <2>4
    <3> QED
      BY <2>1, <3>1
  <2>5. CASE i # 0
    <3>1. PICK k \in 1 .. i : \A j \in 1 .. i : t[k] <= t[j]
      BY <2>5
    <3>2. k \in 1 .. i + 1 /\ t[k] \in Int /\ t[i + 1] \in Int /\ \A j \in 1 .. i + 1 : t[j] \in Int
      BY <1>2, <2>1, <2>3
    <3>3. CASE t[k] <= t[i + 1]
      BY <2>1, <2>2, <3>1, <3>2, <3>3
    <3>4. CASE t[k] > t[i + 1]
      <4>1. \A j \in 1 .. i + 1 : t[i + 1] <= t[j]
        BY <2>2, <3>1, <3>2, <3>4
      <4> QED
        BY <2>1, <4>1
    <3> QED
      BY <3>2, <3>3, <3>4
  <2> QED
    BY <2>4, <2>5
<1>5. n \in highest /\ n \in lowest
  <2>1. 0 \in highest /\ 0 \in lowest /\ n \in 0 .. n
    BY <1>2
  <2> HIDE DEF highest, lowest
  <2> QED
    BY <1>2, <1>3, <1>4, <2>1, IntervalInduction
<1>6. PICK k \in 1 .. n : \A j \in 1 .. n : t[k] >= t[j]
  BY <1>2, <1>5
<1>7. PICK l \in 1 .. n : \A j \in 1 .. n : t[l] <= t[j]
  BY <1>2, <1>5
<1>8. DatesOf(table) = {t[j] : j \in 1 .. n}
  BY <1>2 DEF DatesOf, t
<1>9. Max(DatesOf(table)) \in DatesOf(table) /\ \A d \in DatesOf(table) : Max(DatesOf(table)) >= d
  BY <1>6, <1>8 DEF Max
<1>10. Min(DatesOf(table)) \in DatesOf(table) /\ \A d \in DatesOf(table) : Min(DatesOf(table)) <= d
  BY <1>7, <1>8 DEF Min
<1> QED
  BY <1>2, <1>8, <1>9, <1>10 DEF t

\* When no state is given twice and files give u, the table kept of a state is
\* the one given for it.
LEMMA TablesKept ==
  ASSUME NEW body, body.yaml \in Seq(Table), body.csv \in Seq(Table),
         \A i \in DOMAIN body.csv : body.csv[i].state = "u",
         ~ DefinedTwice(body)
  PROVE  /\ \A i \in DOMAIN GivenTables(body) :
              LET table == GivenTables(body)[i]
              IN  /\ table \in Table
                  /\ table.state \in DOMAIN TablesOf(body)
                  /\ TablesOf(body)[table.state] =
                       [table |-> table, tmin |-> Min(DatesOf(table)), tmax |-> Max(DatesOf(table))]
         /\ \A s \in DOMAIN TablesOf(body) :
              \E i \in DOMAIN GivenTables(body) : GivenTables(body)[i].state = s
<1> DEFINE given == GivenTables(body)
<1>1. \A table \in Table : table.state = "u" => FromCsv(table) = table
  BY DEF Table, FromCsv
<1>2. \A i \in DOMAIN body.csv : body.csv[i] \in Table
  BY ElementOfSeq, LenProperties
<1>3. [i \in DOMAIN body.csv |-> FromCsv(body.csv[i])] = body.csv
  <2>1. body.csv = [i \in DOMAIN body.csv |-> body.csv[i]]
    BY LenProperties
  <2>2. \A i \in DOMAIN body.csv : FromCsv(body.csv[i]) = body.csv[i]
    BY <1>1, <1>2
  <2> QED
    BY <2>1, <2>2
<1>4. Tables(body) = given
  BY <1>3 DEF Tables, GivenTables
<1>5. given \in Seq(Table)
  BY ConcatProperties DEF GivenTables
<1>6. DOMAIN given \subseteq Int /\ \A i \in DOMAIN given : given[i] \in Table
  BY <1>5, ElementOfSeq, LenProperties
<1>7. \A i, j \in DOMAIN given : i # j => given[i].state # given[j].state
  BY DEF DefinedTwice, GivenTables
<1> HIDE DEF given
<1> DEFINE last(s) == CHOOSE i \in DOMAIN given :
                        given[i].state = s /\ \A j \in DOMAIN given : j > i => given[j].state # s
           kept(i) == [table |-> given[i],
                       tmin  |-> Min(DatesOf(given[i])), tmax |-> Max(DatesOf(given[i]))]
<1>8. ASSUME NEW i \in DOMAIN given
      PROVE  last(given[i].state) = i
  <2>1. \A j \in DOMAIN given : j > i => given[j].state # given[i].state
    BY <1>6, <1>7
  <2>2. \A j \in DOMAIN given : given[j].state = given[i].state => j = i
    BY <1>7
  <2> QED
    BY <2>1, <2>2
<1>9. TablesOf(body) = [s \in {given[i].state : i \in DOMAIN given} |-> kept(last(s))]
  BY <1>4 DEF TablesOf
<1> HIDE DEF last, kept
<1>10. \A i \in DOMAIN given : /\ given[i].state \in DOMAIN TablesOf(body)
                               /\ TablesOf(body)[given[i].state] = kept(i)
  BY <1>8, <1>9
<1>11. \A s \in DOMAIN TablesOf(body) : \E i \in DOMAIN given : given[i].state = s
  BY <1>9
<1> QED
  BY <1>6, <1>10, <1>11 DEF given, kept

\* What is forced is what is tabulated.
LEMMA ForcedFromTables ==
  ASSUME NEW body, body.yaml \in Seq(Table), body.csv \in Seq(Table),
         \A i \in DOMAIN body.csv : body.csv[i].state = "u",
         ~ DefinedTwice(body),
         NEW t \in Int
  PROVE  AsTabulated(body, t, Forced([s \in Velocities |-> Free], TablesOf(body), t))
<1> SUFFICES ASSUME NEW s \in Velocities
             PROVE  LET given == GivenTables(body)
                        covers(i) == \E k, l \in DOMAIN given[i].t :
                                       given[i].t[k] <= t /\ t <= given[i].t[l]
                        tables == {i \in DOMAIN given : given[i].state = s /\ covers(i)}
                        now == Forced([r \in Velocities |-> Free], TablesOf(body), t)
                    IN  /\ \A i \in tables : now[s] = PiecewiseConstant(given[i], t)
                        /\ tables = {} => now[s] = Free
  BY DEF AsTabulated
<1> DEFINE given == GivenTables(body)
           dof == TablesOf(body)
           covers(i) == \E k, l \in DOMAIN given[i].t : given[i].t[k] <= t /\ t <= given[i].t[l]
           tables == {i \in DOMAIN given : given[i].state = s /\ covers(i)}
           now == Forced([r \in Velocities |-> Free], dof, t)
           blocks == s \in DOMAIN dof /\ dof[s].tmin <= t /\ t <= dof[s].tmax
<1>1. now[s] = IF blocks THEN PiecewiseConstant(dof[s].table, t) ELSE Free
  BY DEF Forced
<1>2. \A i \in DOMAIN given :
        /\ given[i] \in Table /\ given[i].state \in DOMAIN dof
        /\ dof[given[i].state] = [table |-> given[i], tmin |-> Min(DatesOf(given[i])),
                                  tmax |-> Max(DatesOf(given[i]))]
  BY TablesKept
<1>3. \A r \in DOMAIN dof : \E i \in DOMAIN given : given[i].state = r
  BY TablesKept
<1> HIDE DEF given, dof, now
<1>4. ASSUME NEW i \in DOMAIN given, given[i].state = s
      PROVE  blocks <=> covers(i)
  <2> DEFINE table == given[i]
  <2>1. /\ \A k \in DOMAIN table.t : /\ table.t[k] \in Int
                                     /\ Min(DatesOf(table)) <= table.t[k]
                                     /\ table.t[k] <= Max(DatesOf(table))
        /\ \E k \in DOMAIN table.t : table.t[k] = Min(DatesOf(table))
        /\ \E k \in DOMAIN table.t : table.t[k] = Max(DatesOf(table))
    BY <1>2, BoundsOfDates
  <2>2. s \in DOMAIN dof /\ dof[s].tmin = Min(DatesOf(table)) /\ dof[s].tmax = Max(DatesOf(table))
    <3>1. s \in DOMAIN dof
      BY <1>2, <1>4
    <3>2. dof[s] = [table |-> table, tmin |-> Min(DatesOf(table)), tmax |-> Max(DatesOf(table))]
      BY <1>2, <1>4
    <3> QED
      BY <3>1, <3>2
  <2>3. Min(DatesOf(table)) \in Int /\ Max(DatesOf(table)) \in Int
    BY <2>1
  <2> HIDE DEF table
  <2>4. blocks <=> \E k, l \in DOMAIN table.t : table.t[k] <= t /\ t <= table.t[l]
    BY <2>1, <2>2, <2>3
  <2> QED
    BY <2>4 DEF table
<1>5. ASSUME NEW i \in tables
      PROVE  blocks /\ dof[s].table = given[i]
  <2>1. i \in DOMAIN given /\ given[i].state = s /\ covers(i)
    OBVIOUS
  <2>2. dof[s] = [table |-> given[i], tmin |-> Min(DatesOf(given[i])),
                  tmax |-> Max(DatesOf(given[i]))]
    BY <1>2, <2>1
  <2>3. dof[s].table = given[i]
    BY <2>2
  <2> HIDE DEF blocks, covers
  <2> QED
    BY <1>4, <2>1, <2>3
<1>6. blocks => tables # {}
  BY <1>3, <1>4
<1> HIDE DEF blocks, tables
<1>7. /\ \A i \in tables : now[s] = PiecewiseConstant(given[i], t)
      /\ tables = {} => now[s] = Free
  BY <1>1, <1>5, <1>6
<1> QED
  BY <1>7 DEF given, tables, now, dof

\* The tables are kept as long as the simulator lives.
LEMMA ForcedStep ==
  ASSUME ForcedIInv, [ForcedNext]_forcedVars
  PROVE  ForcedIInv'
<1>1. CASE BuildTables
  <2>1. pc = "read" /\ date = 0 /\ bodies' = bodies /\ date' = date
    BY <1>1 DEF BuildTables, ForcedIInv
  <2>2. CASE pc' = "refused"
    BY <2>1, <2>2 DEF ForcedIInv
  <2>3. CASE pc' = "built"
    BY <1>1, <2>1, <2>3 DEF BuildTables, ForcedIInv
  <2> QED
    BY <1>1, <2>2, <2>3 DEF BuildTables
<1>2. CASE ForceStates
  <2>1. /\ pc = "built" /\ pc' = pc /\ date' = date + 1
        /\ bodies' = bodies /\ blocked' = blocked
    BY <1>2 DEF ForceStates
  <2>2. velocity' = [b \in DOMAIN bodies |->
                       Forced([s \in Velocities |-> Free], blocked[b], date')]
    BY <1>2 DEF ForceStates
  <2> QED
    BY <2>1, <2>2 DEF ForcedIInv
<1>3. CASE UNCHANGED forcedVars
  BY <1>3 DEF forcedVars, ForcedIInv
<1> QED
  BY <1>1, <1>2, <1>3 DEF ForcedNext

\* At each date each velocity of each body has the value of the table given for
\* it that covers the date, and is free if there is none: for any number of
\* bodies, tables and dates, provided what files give is u.
THEOREM AlwaysForcedAsTabulated ==
  ASSUME FilesGiveU
  PROVE  ForcedSpec => []ForcedAsTabulated
<1>1. ForcedInit => ForcedIInv
  BY DEF ForcedInit, ForcedIInv
<1>2. ForcedIInv => ForcedAsTabulated
  <2> SUFFICES ASSUME ForcedIInv, date > 0, NEW b \in DOMAIN bodies
               PROVE  AsTabulated(bodies[b], date, velocity[b])
    BY DEF ForcedAsTabulated, AsTabulated, GivenTables
  <2>1. pc = "built" /\ date \in Int /\ bodies \in Inputs
    BY DEF ForcedIInv
  <2>2. /\ velocity[b] = Forced([r \in Velocities |-> Free], TablesOf(bodies[b]), date)
        /\ ~ DefinedTwice(bodies[b])
    BY <2>1 DEF ForcedIInv
  <2>3. bodies[b].yaml \in Seq(Table) /\ bodies[b].csv \in Seq(Table)
    BY <2>1, ForcedAssumption
  <2>4. \A i \in DOMAIN bodies[b].csv : bodies[b].csv[i].state = "u"
    BY <2>1 DEF FilesGiveU
  <2> QED
    BY <2>1, <2>2, <2>3, <2>4, ForcedFromTables
<1> QED
  BY <1>1, <1>2, ForcedStep, PTL DEF ForcedSpec

-----------------------------------------------------------------------------
(* The length of the histories.                                             *)

\* A finite set of integers that is not empty has a greatest element.
LEMMA GreatestOf ==
  ASSUME NEW S, IsFiniteSet(S), S # {}, \A s \in S : s \in Int
  PROVE  Max(S) \in S /\ \A s \in S : s <= Max(S)
<1> DEFINE n == Cardinality(S)
<1>1. n \in Nat /\ n # 0
  BY FS_CardinalityType, FS_EmptySet
<1>2. PICK f \in [1 .. n -> S] : \A s \in S : \E k \in 1 .. n : f[k] = s
  <2>1. ExistsBijection(1 .. n, S)
    BY FS_CardinalityType
  <2> QED
    BY <2>1 DEF ExistsBijection, Bijection, Surjection
<1> HIDE DEF n
<1> DEFINE T == {i \in 0 .. n : i = 0 \/ \E k \in 1 .. i : \A j \in 1 .. i : f[j] <= f[k]}
<1>3. \A k \in 1 .. n : f[k] \in S /\ f[k] \in Int
  BY <1>2
<1>4. ASSUME NEW i \in 0 .. n - 1, i \in T
      PROVE  i + 1 \in T
  <2>1. i \in Nat /\ i + 1 \in 0 .. n /\ i + 1 \in 1 .. n /\ i + 1 \in 1 .. i + 1
    BY <1>1
  <2>2. \A j \in 1 .. i + 1 : j \in 1 .. n /\ (j \in 1 .. i \/ j = i + 1)
    BY <1>1, <2>1
  <2>3. CASE i = 0
    <3>1. \A j \in 1 .. i + 1 : f[j] <= f[i + 1]
      BY <1>3, <2>1, <2>2, <2>3
    <3> QED
      BY <2>1, <3>1
  <2>4. CASE i # 0
    <3>1. PICK k \in 1 .. i : \A j \in 1 .. i : f[j] <= f[k]
      BY <1>4, <2>4
    <3>2. k \in 1 .. i + 1 /\ f[k] \in Int /\ f[i + 1] \in Int
      BY <1>3, <2>1, <2>2
    <3>3. CASE f[i + 1] <= f[k]
      <4>1. \A j \in 1 .. i + 1 : f[j] <= f[k]
        BY <2>2, <3>1, <3>3
      <4> QED
        BY <2>1, <3>2, <4>1
    <3>4. CASE f[k] <= f[i + 1]
      <4>1. \A j \in 1 .. i + 1 : f[j] <= f[i + 1]
        <5> SUFFICES ASSUME NEW j \in 1 .. i + 1
                     PROVE  f[j] <= f[i + 1]
          OBVIOUS
        <5>1. f[j] \in Int
          BY <1>3, <2>2
        <5>2. j = i + 1 \/ f[j] <= f[k]
          BY <2>2, <3>1
        <5> QED
          BY <3>2, <3>4, <5>1, <5>2
      <4> QED
        BY <2>1, <4>1
    <3> QED
      BY <3>2, <3>3, <3>4
  <2> QED
    BY <2>3, <2>4
<1>5. n \in T
  <2>1. 0 \in T /\ n \in 0 .. n
    BY <1>1
  <2> HIDE DEF T
  <2> QED
    BY <1>1, <1>4, <2>1, IntervalInduction
<1>6. PICK k \in 1 .. n : \A j \in 1 .. n : f[j] <= f[k]
  BY <1>1, <1>5
<1>7. f[k] \in S /\ \A s \in S : s <= f[k]
  BY <1>2, <1>3, <1>6
<1> QED
  BY <1>7 DEF Max

\* The greatest of a number and of the values of an operator over a finite set.
LEMMA GreatestValue ==
  ASSUME NEW A, IsFiniteSet(A), NEW S, NEW f \in [A -> Nat], NEW a \in Nat,
         S = {a} \union {f[i] : i \in A}
  PROVE  Max(S) \in Nat /\ a <= Max(S) /\ \A i \in A : f[i] <= Max(S)
<1> DEFINE R == {f[i] : i \in A}
<1>1. IsFiniteSet(R)
  <2>1. f \in Surjection(A, R)
    BY DEF Surjection
  <2> HIDE DEF R
  <2> QED
    BY <2>1, FS_Surjection
<1>2. IsFiniteSet(R \union {a})
  BY <1>1, FS_AddElement
<1>3. S = R \union {a} /\ \A s \in S : s \in Nat
  OBVIOUS
<1>4. a \in S /\ \A i \in A : f[i] \in S
  OBVIOUS
<1> HIDE DEF R
<1>5. Max(S) \in S /\ \A s \in S : s <= Max(S)
  <2>1. IsFiniteSet(S) /\ S # {} /\ \A s \in S : s \in Int
    BY <1>2, <1>3, <1>4
  <2> QED
    BY <2>1, GreatestOf
<1> QED
  BY <1>3, <1>4, <1>5

(* A history of this length covers all that the models of a body ask for. *)
Covers(length, body) ==
  /\ length \in Nat
  /\ \A i \in DOMAIN body.external : body.external[i].tmax <= length
  /\ \A i \in DOMAIN body.controlled :
       /\ body.controlled[i].asks <= length
       /\ \A k \in DOMAIN body.controlled[i].keys : Delay(body.controlled[i].keys[k]) <= length

(* Once built, a body has such a history. *)
AllCovered == pc = "built" => \A b \in DOMAIN bodies : Covers(lengths[b], bodies[b])

\* get_max_history_length: the length covers the models of both loops.
LEMMA LengthCovers ==
  ASSUME NEW input \in Inputs, NEW b \in DOMAIN input
  PROVE  Covers(HistoryLength(input[b]), input[b])
<1> DEFINE body == input[b]
           E == DOMAIN body.external
           M == DOMAIN body.controlled
           tmax == [i \in E |-> body.external[i].tmax]
           asked == [i \in M |-> ControlledTmax(body.controlled[i])]
           first == LongestExternal(body)
           second == LongestControlled(body)
<1>1. /\ body.external \in Seq(DelayWindow) /\ IsFiniteSet(M)
      /\ \A i \in M : /\ body.controlled[i].asks \in Nat
                      /\ IsFiniteSet(DOMAIN body.controlled[i].keys)
                      /\ \A k \in DOMAIN body.controlled[i].keys :
                           Delay(body.controlled[i].keys[k]) \in Nat
  BY HistoryLengthsAssumption
<1>2. IsFiniteSet(E) /\ \A i \in E : body.external[i].tmax \in Nat
  <2> DEFINE n == Len(body.external)
  <2>1. n \in Nat /\ E = 1 .. n /\ \A i \in 1 .. n : body.external[i] \in DelayWindow
    BY <1>1, LenProperties, ElementOfSeq
  <2> HIDE DEF n
  <2>2. IsFiniteSet(1 .. n)
    BY <2>1, FS_Interval
  <2> QED
    BY <2>1, <2>2 DEF DelayWindow
<1>3. first \in Nat /\ \A i \in E : tmax[i] <= first
  <2>1. first = Max({0} \union {body.external[i].tmax : i \in E})
    BY DEF LongestExternal
  <2>2. {body.external[i].tmax : i \in E} = {tmax[i] : i \in E}
    OBVIOUS
  <2>3. tmax \in [E -> Nat]
    BY <1>2
  <2> HIDE DEF E, tmax, first, body
  <2> QED
    BY <1>2, <2>1, <2>2, <2>3, GreatestValue
<1>4. ASSUME NEW i \in M
      PROVE  /\ asked[i] \in Nat /\ body.controlled[i].asks <= asked[i]
             /\ \A k \in DOMAIN body.controlled[i].keys :
                  /\ Delay(body.controlled[i].keys[k]) \in Nat
                  /\ Delay(body.controlled[i].keys[k]) <= asked[i]
  <2> DEFINE model == body.controlled[i]
             K == DOMAIN model.keys
             delay == [k \in K |-> Delay(model.keys[k])]
  <2>1. asked[i] = Max({model.asks} \union {delay[k] : k \in K})
    <3>1. {delay[k] : k \in K} = {Delay(model.keys[k]) : k \in K}
      OBVIOUS
    <3> QED
      BY <3>1 DEF ControlledTmax
  <2>3. delay \in [K -> Nat] /\ \A k \in K : delay[k] = Delay(model.keys[k])
    BY <1>1
  <2>4. IsFiniteSet(K) /\ model.asks \in Nat
    BY <1>1
  <2> HIDE DEF K, delay, model, asked, M
  <2>5. /\ asked[i] \in Nat /\ model.asks <= asked[i]
        /\ \A k \in K : delay[k] <= asked[i]
    BY <2>1, <2>3, <2>4, GreatestValue
  <2> QED
    <3>1. \A k \in K : Delay(model.keys[k]) \in Nat /\ Delay(model.keys[k]) <= asked[i]
      BY <2>3, <2>5
    <3> QED
      BY <2>5, <3>1 DEF K, model
<1>5. second \in Nat /\ \A i \in M : asked[i] <= second
  <2>1. second = Max({0} \union {ControlledTmax(body.controlled[i]) : i \in M})
    BY DEF LongestControlled
  <2>2. {ControlledTmax(body.controlled[i]) : i \in M} = {asked[i] : i \in M}
    OBVIOUS
  <2>3. asked \in [M -> Nat]
    <3>1. \A i \in M : asked[i] \in Nat
      BY <1>4
    <3> QED
      BY <3>1
  <2> HIDE DEF M, asked, second, body
  <2> QED
    BY <1>1, <2>1, <2>2, <2>3, GreatestValue
<1> DEFINE l == HistoryLength(body)
<1>6. l = LongestFound(first, second, body.controlled # <<>>)
  BY DEF HistoryLength
<1>7. body.controlled = <<>> => M = {}
  OBVIOUS
<1>8. \A i \in E : tmax[i] = body.external[i].tmax
  OBVIOUS
<1> HIDE DEF l, first, second, tmax, asked, E, M
<1>9. l \in Nat /\ first <= l /\ (body.controlled # <<>> => second <= l)
  <2>1. Max({first, second}) \in {first, second} /\ \A s \in {first, second} : s <= Max({first, second})
    <3>1. IsFiniteSet({first, second})
      <4>1. IsFiniteSet({first} \union {second})
        BY FS_Singleton, FS_AddElement
      <4>2. {first} \union {second} = {first, second}
        OBVIOUS
      <4> QED
        BY <4>1, <4>2
    <3>2. {first, second} # {} /\ \A s \in {first, second} : s \in Int
      BY <1>3, <1>5
    <3> QED
      BY <3>1, <3>2, GreatestOf
  <2>2. CASE body.controlled # <<>>
    <3>1. l = Max({first, second})
      BY <1>6, <2>2 DEF LongestFound
    <3> QED
      BY <1>3, <1>5, <2>1, <3>1
  <2>3. CASE body.controlled = <<>>
    <3>1. l = first
      BY <1>6, <2>3 DEF LongestFound
    <3> QED
      BY <1>3, <2>3, <3>1
  <2> QED
    BY <2>2, <2>3
<1>10. \A i \in E : body.external[i].tmax <= l
  BY <1>2, <1>3, <1>8, <1>9
<1>11. ASSUME NEW i \in M
       PROVE  /\ body.controlled[i].asks <= l
              /\ \A k \in DOMAIN body.controlled[i].keys : Delay(body.controlled[i].keys[k]) <= l
  <2>1. asked[i] \in Nat /\ asked[i] <= l
    BY <1>4, <1>5, <1>7, <1>9
  <2>2. body.controlled[i].asks \in Nat /\ body.controlled[i].asks <= l
    BY <1>1, <1>4, <1>9, <2>1
  <2>3. ASSUME NEW k \in DOMAIN body.controlled[i].keys
        PROVE  Delay(body.controlled[i].keys[k]) <= l
    <3>1. Delay(body.controlled[i].keys[k]) \in Nat /\ Delay(body.controlled[i].keys[k]) <= asked[i]
      BY <1>4
    <3> QED
      BY <1>9, <2>1, <3>1
  <2> QED
    BY <2>2, <2>3
<1> QED
  BY <1>9, <1>10, <1>11 DEF Covers, l, E, M

\* The least of two numbers is the one that is not above the other.
LEMMA LesserOf ==
  ASSUME NEW a \in Nat, NEW b \in Nat
  PROVE  Min({a, b}) = IF a <= b THEN a ELSE b
<1> DEFINE m == IF a <= b THEN a ELSE b
<1>1. m \in {a, b} /\ \A x \in {a, b} : m <= x
  OBVIOUS
<1>2. \A x \in {a, b} : (\A y \in {a, b} : x <= y) => x = m
  OBVIOUS
<1> HIDE DEF m
<1>3. Min({a, b}) = m
  BY <1>1, <1>2 DEF Min
<1> QED
  BY <1>3 DEF m

\* A history that is as long as a past that is asked for gives as much of it
\* as one without end.
LEMMA LesserOfThree ==
  ASSUME NEW asks \in Nat, NEW length \in Nat, NEW elapsed \in Nat, asks <= length
  PROVE  /\ Min({length, elapsed}) \in Nat
         /\ Min({asks, Min({length, elapsed})}) = Min({asks, elapsed})
         /\ \A least \in Nat : least <= asks =>
              (Min({length, elapsed}) >= least <=> elapsed >= least)
<1>1. Min({length, elapsed}) = IF length <= elapsed THEN length ELSE elapsed
  BY LesserOf
<1> DEFINE duration == Min({length, elapsed})
<1>2. duration \in Nat
  BY <1>1
<1> HIDE DEF duration
<1>3. Min({asks, duration}) = IF asks <= duration THEN asks ELSE duration
  BY <1>2, LesserOf
<1>4. Min({asks, elapsed}) = IF asks <= elapsed THEN asks ELSE elapsed
  BY LesserOf
<1>5. duration = IF length <= elapsed THEN length ELSE elapsed
  BY <1>1 DEF duration
<1>6. Min({asks, duration}) = Min({asks, elapsed})
  BY <1>2, <1>3, <1>4, <1>5
<1>7. \A least \in Nat : least <= asks => (duration >= least <=> elapsed >= least)
  BY <1>2, <1>5
<1> QED
  BY <1>2, <1>6, <1>7 DEF duration

(* The invariant: the bodies are as given, and covered once they are built. *)
LengthsIInv ==
  /\ bodies \in Inputs
  /\ date \in Nat /\ known \in Nat
  /\ pc # "built" => date = 0
  /\ AllCovered
  /\ WholeWindows

\* Forces that read histories that cover them read whole windows.
LEMMA WindowsRead ==
  ASSUME LengthsIInv, NEW given, Evaluate(given)
  PROVE  WholeWindows'
<1>1. /\ pc = "built" /\ bodies' = bodies /\ known' = known
      /\ date' = date + 1
      /\ forces' = [b \in DOMAIN bodies |-> ForcesAt(bodies[b], lengths[b], given, date')]
  BY DEF Evaluate, ForceStates
<1> DEFINE elapsed == known + date' - 1
<1>2. elapsed \in Nat /\ Elapsed(date') = elapsed /\ (Elapsed(date))' = elapsed
  BY <1>1 DEF Elapsed, LengthsIInv
<1>3. ASSUME NEW b \in DOMAIN bodies
      PROVE  /\ \A i \in DOMAIN bodies[b].external :
                  forces'[b].windows[i] = Integrated(bodies[b].external[i], elapsed)
             /\ \A i \in DOMAIN bodies[b].controlled :
                  forces'[b].sent[i] = Min({bodies[b].controlled[i].asks, elapsed})
  <2> DEFINE body == bodies[b]
             l == lengths[b]
             duration == Min({l, elapsed})
  <2>1. Covers(l, body) /\ bodies \in Inputs
    BY <1>1 DEF LengthsIInv, AllCovered
  <2>2. /\ forces'[b].windows = [i \in DOMAIN body.external |->
                                   Integrated(body.external[i], duration)]
        /\ forces'[b].sent = [i \in DOMAIN body.controlled |->
                                Min({body.controlled[i].asks, duration})]
    <3>1. forces'[b] = ForcesAt(body, l, given, date')
      BY <1>1
    <3>2. RecordedDuration(l, date') = duration
      BY <1>2 DEF RecordedDuration
    <3> HIDE DEF duration, body, l, elapsed
    <3> QED
      BY <3>1, <3>2 DEF ForcesAt
  <2>3. \A i \in DOMAIN body.external :
          /\ body.external[i].tmin \in Nat /\ body.external[i].tmax \in Nat
          /\ body.external[i].tmin <= body.external[i].tmax
    <3>1. body.external \in Seq(DelayWindow)
      BY <2>1, HistoryLengthsAssumption
    <3>2. \A i \in DOMAIN body.external : body.external[i] \in DelayWindow
      BY <3>1, LenProperties, ElementOfSeq
    <3> QED
      BY <3>2 DEF DelayWindow
  <2>4. \A i \in DOMAIN body.controlled : body.controlled[i].asks \in Nat
    BY <2>1, HistoryLengthsAssumption
  <2>5. l \in Nat
    BY <2>1 DEF Covers
  <2> HIDE DEF body, l, elapsed
  <2>6. ASSUME NEW i \in DOMAIN body.external
        PROVE  Integrated(body.external[i], duration) = Integrated(body.external[i], elapsed)
    <3> DEFINE window == body.external[i]
               tmin == window.tmin
               tmax == window.tmax
    <3>1. tmin \in Nat /\ tmax \in Nat /\ tmin <= tmax /\ tmax <= l
      BY <2>1, <2>3 DEF Covers
    <3> HIDE DEF tmin, tmax
    <3> HIDE DEF window
    <3>2. /\ Min({tmax, Min({l, elapsed})}) = Min({tmax, elapsed})
          /\ \A least \in Nat : least <= tmax =>
               (Min({l, elapsed}) >= least <=> elapsed >= least)
      BY <1>2, <2>5, <3>1, LesserOfThree
    <3>3. Min({tmax, duration}) = Min({tmax, elapsed}) /\ (duration >= tmin <=> elapsed >= tmin)
      BY <3>1, <3>2
    <3> HIDE DEF duration
    <3> QED
      BY <3>3 DEF Integrated, tmin, tmax, window
  <2>7. ASSUME NEW i \in DOMAIN body.controlled
        PROVE  Min({body.controlled[i].asks, duration}) = Min({body.controlled[i].asks, elapsed})
    <3>1. body.controlled[i].asks \in Nat /\ body.controlled[i].asks <= l
      BY <2>1, <2>4 DEF Covers
    <3> QED
      BY <1>2, <2>5, <3>1, LesserOfThree
  <2> HIDE DEF duration
  <2> QED
    BY <2>2, <2>6, <2>7 DEF body
<1> HIDE DEF elapsed
<1> QED
  BY <1>1, <1>2, <1>3 DEF WholeWindows

\* The lengths found when the simulator is built are kept.
LEMMA LengthsInductive ==
  /\ BuildInit => LengthsIInv
  /\ LengthsIInv /\ [BuildNext]_buildVars => LengthsIInv'
<1>1. BuildInit => LengthsIInv
  <2> SUFFICES ASSUME BuildInit
               PROVE  LengthsIInv
    OBVIOUS
  <2>1. bodies \in Inputs /\ date = 0 /\ pc = "read" /\ known \in Knowns
    BY DEF BuildInit, ForcedInit
  <2>2. known \in Nat
    BY <2>1, HistoryLengthsAssumption
  <2> QED
    BY <2>1, <2>2 DEF LengthsIInv, AllCovered, WholeWindows
<1>2. ASSUME LengthsIInv, [BuildNext]_buildVars
      PROVE  LengthsIInv'
  <2>1. ASSUME Build
        PROVE  LengthsIInv'
    <3>1. /\ pc = "read" /\ bodies' = bodies /\ date' = date /\ date = 0 /\ bodies \in Inputs
          /\ known' = known
      BY <1>2, <2>1 DEF Build, BuildTables, LengthsIInv
    <3>2. pc' = "built" => lengths' = [b \in DOMAIN bodies |-> HistoryLength(bodies[b])]
      BY <2>1 DEF Build
    <3>3. \A b \in DOMAIN bodies : Covers(HistoryLength(bodies[b]), bodies[b])
      BY <3>1, LengthCovers
    <3>4. AllCovered'
      BY <3>1, <3>2, <3>3 DEF AllCovered, Covers
    <3>5. WholeWindows'
      BY <3>1 DEF WholeWindows
    <3> QED
      BY <1>2, <3>1, <3>4, <3>5 DEF LengthsIInv
  <2>2. ASSUME NEW given \in Commands, Evaluate(given)
        PROVE  LengthsIInv'
    <3>1. /\ pc = "built" /\ pc' = pc /\ bodies' = bodies /\ lengths' = lengths
          /\ known' = known /\ date' = date + 1
      BY <2>2 DEF Evaluate, ForceStates
    <3>2. WholeWindows'
      BY <1>2, <2>2, WindowsRead
    <3>3. AllCovered'
      BY <1>2, <3>1 DEF LengthsIInv, AllCovered, Covers
    <3> QED
      BY <1>2, <3>1, <3>2, <3>3 DEF LengthsIInv
  <2>3. ASSUME UNCHANGED buildVars
        PROVE  LengthsIInv'
    <3>1. /\ pc' = pc /\ bodies' = bodies /\ lengths' = lengths /\ date' = date /\ forces' = forces
          /\ known' = known
      BY <2>3 DEF buildVars
    <3> QED
      BY <1>2, <3>1 DEF LengthsIInv, AllCovered, Covers, WholeWindows, Elapsed
  <2> QED
    BY <1>2, <2>1, <2>2, <2>3 DEF BuildNext
<1> QED
  BY <1>1, <1>2

\* For any bodies, models, past and dates, whatever delay a key asks for and
\* whatever its value is: each convolution of the radiation damping and each
\* past that is sent to a remote model is at each date what it would be with a
\* history without end (SimulatorBuilder::get_max_history_length,
\* RadiationDampingForceModel, History::get_duration).
THEOREM WindowsAlwaysWhole == BuildSpec => []WholeWindows
<1>1. LengthsIInv => WholeWindows
  BY DEF LengthsIInv
<1> QED
  BY <1>1, LengthsInductive, PTL DEF BuildSpec

\* Once a simulator is built the history of each body is as long as the longest
\* delay, window or past that a model of the body asks for, in either list: no
\* delay that a key was found to have reads as zero.
THEOREM HistoriesAlwaysLongEnough == BuildSpec => []AllCovered
<1>1. LengthsIInv => AllCovered
  BY DEF LengthsIInv
<1> QED
  BY <1>1, LengthsInductive, PTL DEF BuildSpec
=============================================================================
