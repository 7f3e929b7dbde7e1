---------------------------- MODULE RemoteModels ----------------------------
(***************************************************************************)
(* The waves of a simulation and the remote force models: the wave model   *)
(* is built, the servers of the force models are asked for their           *)
(* parameters, and at each evaluation of Sim::dx_dt the bodies get the     *)
(* heights of the waves above their points, and the force models the waves *)
(* they asked for.  A wave server or a force server may fail at each call, *)
(* or answer less than it was asked.                                       *)
(*                                                                         *)
(* A list of points or values is its length; values are known by the       *)
(* evaluation they are of.  Wave requests are for the current date.  In    *)
(* one step of a model at most one call goes wrong.                        *)
(***************************************************************************)
EXTENDS Integers, Sequences, FiniteSets

CONSTANTS
  Seas,           \* the wave model of the YAML file
  Fleets,         \* sequences of bodies
  Asks(_),        \* what a force model may ask of a kind of sea
  Shallow,        \* discretize wants k h to be at least this (PI/10)
  MaxEvaluations  \* bound on the number of evaluations

(***************************************************************************)
(* "still" is the constant height of "no waves"; "none" is the absence of  *)
(* any model.  A spectrum has the wave numbers and the number of the       *)
(* directions it is made discrete with, which are alone if their           *)
(* distribution is a Dirac.                                                *)
(***************************************************************************)
Spectrum == [depth : Int, k : SUBSET Nat, directions : Nat, seed : BOOLEAN]
Sea  == [kind : {"none", "still", "spectra", "remote"}, spectra : Seq(Spectrum)]
Hull == [surface : BOOLEAN, points : Nat, models : Nat]
Ask  == [elevations : Nat, pressures : Nat, velocities : Nat, spectrum : BOOLEAN]

ASSUME RemoteAssumption ==
  /\ Seas \subseteq Sea
  /\ Fleets \subseteq Seq(Hull) \ {<<>>}
  /\ \A s \in Seas : Asks(s.kind) \subseteq Ask
  /\ MaxEvaluations \in Nat /\ Shallow \in Nat

VARIABLES
  sea, fleet,
  mode,         \* "read", "refused", "idle", "solving" or "evaluating"
  at,         \* <<b, i>>: body b is to be updated (i = 0), or its model i
  evaluation, \* how many were begun
  needs,      \* needs[m]: needs_wave_outputs of the model m
  heights,    \* the members of SurfaceElevationInterface, one for all bodies
  immersions, \* immersions[b]: the heights the intersector of b was given
  waves,      \* waves[m]: what was asked by and sent to the server of m
  force,      \* force[m]: latest_force_in_body_frame
  extra,      \* extra[m]: extra_observations of the last answer
  row,        \* what was observed last
  threw,     \* did the last operation throw?
  wrong       \* which of its calls, if any, did a server not answer as asked?

solvedVars == <<sea, fleet, needs, row>>
modelVars  == <<waves, force, extra>>
remoteVars == <<solvedVars, modelVars, mode, at, evaluation, heights, immersions,
                threw, wrong>>

Models == UNION {{<<b, i>> : i \in 1 .. fleet[b].models} : b \in DOMAIN fleet}

NoHeights == [body |-> 0, evaluation |-> 0]
NoAsk == [elevations |-> 0, pressures |-> 0, velocities |-> 0, spectrum |-> FALSE]
NoWaves == [asked |-> NoAsk, sent |-> NoAsk, short |-> FALSE]
Fine == <<"none", "fine">>

RemoteInit ==
  /\ sea \in Seas /\ fleet \in Fleets
  /\ mode = "read" /\ at = <<1, 0>> /\ evaluation = 0
  /\ needs = [m \in Models |-> FALSE]
  /\ heights = NoHeights
  /\ immersions = [b \in DOMAIN fleet |-> NoHeights]
  /\ waves = [m \in Models |-> NoWaves]
  /\ force = [m \in Models |-> 0] /\ extra = [m \in Models |-> 0]
  /\ row = [first |-> TRUE, evaluation |-> 0, immersions |-> immersions,
            waves |-> waves, force |-> force, extra |-> extra]
  /\ threw = FALSE /\ wrong = Fine

-----------------------------------------------------------------------------
(* Construction: SimulatorBuilder::get_environment and get_controlled_forces *)

LongWave(spectrum) == \E k \in spectrum.k : k * spectrum.depth < Shallow

(***************************************************************************)
(* parse_directional_spectrum: a positive depth goes to the discretize of  *)
(* infinite depth, which checks nothing.                                   *)
(***************************************************************************)
Discretized(spectrum) == spectrum.depth > 0 \/ ~ LongWave(spectrum)

(***************************************************************************)
(* flatten reads a phase for each frequency and direction.  Without a seed *)
(* add_constant_phases makes one for each frequency and frequency.         *)
(***************************************************************************)
HasPhases(spectrum) ==
  spectrum.seed \/ spectrum.directions <= Cardinality(spectrum.k)

Made(spectrum) == Discretized(spectrum) /\ HasPhases(spectrum)

(* Each server is sent its parameters, and may refuse them. *)
Construct(wanted, refused) ==
  /\ mode = "read"
  /\ refused => sea.kind = "remote" \/ Models # {}
  /\ needs' = wanted
  /\ wrong' = IF refused THEN <<"set_parameters", "fails">> ELSE Fine
  /\ threw' = (refused \/ \E i \in DOMAIN sea.spectra : ~ Made(sea.spectra[i]))
  /\ mode' = IF threw' THEN "refused" ELSE "idle"
  /\ UNCHANGED <<sea, fleet, row, modelVars, at, evaluation, heights, immersions>>

-----------------------------------------------------------------------------
(* The solver *)

Observed(first) ==
  [first |-> first, evaluation |-> evaluation, immersions |-> immersions,
   waves |-> waves, force |-> force, extra |-> extra]

(* quicksolve observes before its first step. *)
Begin ==
  /\ mode = "idle"
  /\ mode' = "solving"
  /\ row' = Observed(TRUE)
  /\ threw' = FALSE /\ wrong' = Fine
  /\ UNCHANGED <<sea, fleet, needs, modelVars, at, evaluation, heights, immersions>>

EvaluateForces ==
  /\ mode = "solving" /\ evaluation < MaxEvaluations
  /\ mode' = "evaluating"
  /\ at' = <<1, 0>>
  /\ evaluation' = evaluation + 1
  /\ UNCHANGED <<solvedVars, modelVars, heights, immersions, threw, wrong>>

(* After a step, which evaluates the derivatives one or several times. *)
Output ==
  /\ mode = "solving" /\ row.evaluation < evaluation
  /\ row' = Observed(FALSE)
  /\ UNCHANGED <<sea, fleet, needs, modelVars, mode, at, evaluation, heights, immersions>>
  /\ UNCHANGED <<threw, wrong>>

End ==
  /\ mode = "solving" /\ row.evaluation = evaluation
  /\ mode' = "idle"
  /\ UNCHANGED <<solvedVars, modelVars, at, evaluation, heights, immersions>>
  /\ UNCHANGED <<threw, wrong>>

(* The next body or model; an exception ends the run. *)
Continue(throws) ==
  LET following == IF at[2] < fleet[at[1]].models THEN <<at[1], at[2] + 1>>
                                                  ELSE <<at[1] + 1, 0>>
  IN  /\ threw' = throws
      /\ at' = following
      /\ mode' = IF throws THEN "idle"
               ELSE IF following[1] > Len(fleet) THEN "solving" ELSE "evaluating"

-----------------------------------------------------------------------------
(* The bodies *)

(***************************************************************************)
(* A slip: heights already computed in this evaluation are not computed    *)
(* again.                                                                  *)
(***************************************************************************)
HeightsOnce(b) ==
  IF fleet[b].points = 0 \/ heights.evaluation = evaluation
    THEN heights ELSE [body |-> b, evaluation |-> evaluation]

(* update_surface_elevation leaves what it had for a mesh without points. *)
Heights(b) ==
  IF fleet[b].points = 0 THEN heights ELSE [body |-> b, evaluation |-> evaluation]

(***************************************************************************)
(* update_intersection_with_free_surface, for a body with surface forces.  *)
(* A wave server may fail, or answer too few heights.                      *)
(***************************************************************************)
HeightCalls == {Fine, <<"heights", "fails">>, <<"heights", "short">>}

UpdateBody(call) ==
  LET b == at[1]
      floats == fleet[b].surface /\ sea.kind # "none"
  IN  /\ mode = "evaluating" /\ at[2] = 0
      /\ call # Fine => floats /\ fleet[b].points > 0 /\ sea.kind = "remote"
      /\ wrong' = call
      /\ IF floats /\ call = Fine
           THEN /\ heights' = Heights(b)
                /\ immersions' = [immersions EXCEPT ![b] = heights']
           ELSE /\ heights' = IF call = Fine THEN heights ELSE NoHeights
                /\ UNCHANGED immersions
      /\ Continue(call # Fine)
      /\ UNCHANGED <<solvedVars, modelVars, evaluation>>

-----------------------------------------------------------------------------
(* The remote models *)

(* A slip: the depths of the velocities are not copied, either. *)
RequestWithoutDepths(ask) ==
  [elevations |-> [x |-> ask.elevations, y |-> ask.elevations],
   pressures  |-> [x |-> ask.pressures, y |-> ask.pressures, z |-> 0],
   velocities |-> [x |-> ask.velocities, y |-> ask.velocities, z |-> 0],
   spectrum   |-> ask.spectrum]

(* FromGRPC::to_wave_request does not copy the z of the pressures. *)
WaveRequest(ask) ==
  [elevations |-> [x |-> ask.elevations, y |-> ask.elevations],
   pressures  |-> [x |-> ask.pressures, y |-> ask.pressures, z |-> 0],
   velocities |-> [x |-> ask.velocities, y |-> ask.velocities, z |-> ask.velocities],
   spectrum   |-> ask.spectrum]

(***************************************************************************)
(* The calls of get_wave_information and force, in this order: what goes   *)
(* wrong is that a server fails, or that the wave server answers one value *)
(* less than it was asked for.                                             *)
(***************************************************************************)
ForceCalls == {"required_wave_information", "force"}
WaveCalls  == {"spectrum", "heights of velocities", "velocities", "elevations",
               "heights of pressures", "pressures"}
Wrongs == {Fine} \union {<<c, "fails">> : c \in ForceCalls \union WaveCalls}
                 \union {<<c, "short">> : c \in WaveCalls \ {"spectrum"}}

(* How many values the sea gives for n points, if asked by this call. *)
Answered(call, n, goesWrong) == IF goesWrong = <<call, "short">> THEN n - 1 ELSE n

(* The call is made, and with enough points for its answer to be short. *)
Possible(call, m, request) ==
  \/ call \in {Fine, <<"force", "fails">>}
  \/ needs[m] /\ call = <<"required_wave_information", "fails">>
  \/ /\ needs[m] /\ sea.kind = "remote"
     /\ call[1] \in WaveCalls
     /\ call[1] = "spectrum" => request.spectrum
     /\ call[2] = "short" =>
          CASE call[1] \in {"heights of velocities", "velocities"} -> request.velocities.x > 0
            [] call[1] = "elevations" -> request.elevations.x > 0
            [] call[1] \in {"heights of pressures", "pressures"} -> request.pressures.x > 0

(***************************************************************************)
(* get_and_check_orbital_velocity and get_and_check_dynamic_pressure: the  *)
(* coordinates and the heights must be of the same number.                 *)
(***************************************************************************)
SameSizes(points, eta) == points.x = points.y /\ points.x = points.z /\ points.x = eta

(***************************************************************************)
(* ToGRPC::from_wave_information throws.  A wave server must answer one    *)
(* velocity, no more and no less.                                          *)
(***************************************************************************)
WavesThrow(request, call) ==
  \/ sea.kind = "none"
  \/ call \in {<<c, "fails">> : c \in WaveCalls}
  \/ ~ SameSizes(request.velocities,
                 Answered("heights of velocities", request.velocities.x, call))
  \/ sea.kind = "remote" /\ Answered("velocities", request.velocities.x, call) # 1
  \/ ~ SameSizes(request.pressures,
                 Answered("heights of pressures", request.pressures.x, call))

WavesSent(request, call) ==
  [elevations |-> Answered("elevations", request.elevations.x, call),
   pressures  |-> Answered("pressures", request.pressures.x, call),
   velocities |-> request.velocities.x,
   spectrum   |-> request.spectrum]

(***************************************************************************)
(* GRPCForceModel::Impl::force, then ControllableForceModel keeps what it  *)
(* answered.                                                               *)
(***************************************************************************)
UpdateForce(ask, call) ==
  LET m == at
      request == WaveRequest(ask)
      throws == \/ call = <<"force", "fails">>
                \/ needs[m] /\ (call = <<"required_wave_information", "fails">>
                                  \/ WavesThrow(request, call))
  IN  /\ mode = "evaluating" /\ at[2] > 0
      /\ Possible(call, m, request)
      /\ wrong' = call
      /\ IF throws
           THEN UNCHANGED modelVars
           ELSE /\ waves' = [waves EXCEPT ![m] =
                      IF needs[m] THEN [asked |-> ask, sent |-> WavesSent(request, call),
                                        short |-> call # Fine]
                                  ELSE NoWaves]
                /\ force' = [force EXCEPT ![m] = evaluation]
                /\ extra' = [extra EXCEPT ![m] = evaluation]
      /\ Continue(throws)
      /\ UNCHANGED <<solvedVars, evaluation, heights, immersions>>

RemoteNext ==
  \/ \E wanted \in [Models -> BOOLEAN], refused \in BOOLEAN : Construct(wanted, refused)
  \/ Begin \/ EvaluateForces \/ Output \/ End
  \/ \E call \in HeightCalls : UpdateBody(call)
  \/ \E ask \in Asks(sea.kind), call \in Wrongs : UpdateForce(ask, call)

RemoteSpec == RemoteInit /\ [][RemoteNext]_remoteVars

-----------------------------------------------------------------------------

\* What is observed after a step is of one evaluation, the last one, whatever
\* failed before it in this run or in an earlier one: the forces and the extra
\* observations of all remote models, the intersection of each hull with the
\* waves above its own points, and the waves each model asked for and no
\* others.  The objects keep what they were given by an evaluation that was
\* left halfway, and the bodies share the members the heights are read from.
RowsOfOneEvaluation ==
  ~ row.first =>
    /\ \A m \in Models :
         /\ row.force[m] = row.evaluation
         /\ row.extra[m] = row.evaluation
         /\ needs[m] => row.waves[m].short \/ row.waves[m].sent = row.waves[m].asked
    /\ \A b \in DOMAIN fleet :
         fleet[b].surface /\ fleet[b].points > 0 /\ sea.kind # "none" =>
           row.immersions[b] = [body |-> b, evaluation |-> row.evaluation]

\* Of the documented inputs, a simulation refuses those whose servers refuse
\* their parameters and those with waves too long for their depth, where 0
\* means infinite depth (modeles_environnementaux.md:474); and it stops only
\* if a server failed or answered less than it was asked, or if a model needs
\* waves and there are none.  "Points at which the force model requires
\* dynamic pressures" (force.proto:24) are as good as the others.
StopsForAReason ==
  threw =>
    \/ wrong # Fine
    \/ mode = "refused" /\ \E i \in DOMAIN sea.spectra :
         sea.spectra[i].depth > 0 /\ LongWave(sea.spectra[i])
    \/ mode = "idle" /\ sea.kind = "none"
=============================================================================
