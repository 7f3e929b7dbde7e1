--------------------------- MODULE HistoryLengths ---------------------------
(***************************************************************************)
(* How long the histories of each body are (SimulatorBuilder), and how     *)
(* much of them its forces read at each date.  The tables of the blocked   *)
(* degrees of freedom are those of ForcedStates.                           *)
(*                                                                         *)
(* What the keys of a model are is left to Construction: here the delay     *)
(* that a key asks for, and the values of the keys of a model at a date,   *)
(* are constants.                                                          *)
(*                                                                         *)
(* One second goes by between two dates, and the first is 1.  Some past is *)
(* known at the first date, as it is for a server that was sent one: a     *)
(* history holds that and what was recorded since, within its length.      *)
(***************************************************************************)
EXTENDS ForcedStates

CONSTANTS
  Commands,      \* the commands a controller may give: name -> value
  Knowns,        \* for how long the past may be known at the first date
  Delay(_),      \* how long ago the values may be that a key asks for
  KeyValues(_, _, _, _, _) \* of a model, for its histories' length and what
                           \* they hold of it, its commands and the date

(***************************************************************************)
(* An external model asks for a window of the past (tmin = tmax = 0 if it  *)
(* does not; the code does not check that a window runs forwards).  A      *)
(* controlled model has its keys by name, or is remote and has none but a  *)
(* length that it asks for.                                                *)
(***************************************************************************)
DelayWindow == {window \in [tmin : Nat, tmax : Nat] : window.tmin <= window.tmax}

ASSUME HistoryLengthsAssumption ==
  /\ Knowns \subseteq Nat
  /\ \A input \in Inputs : \A b \in DOMAIN input :
       /\ input[b].external \in Seq(DelayWindow)
       /\ IsFiniteSet(DOMAIN input[b].controlled)
       /\ \A i \in DOMAIN input[b].controlled :
            LET model == input[b].controlled[i]
            IN  /\ model.asks \in Nat
                /\ IsFiniteSet(DOMAIN model.keys)
                /\ \A k \in DOMAIN model.keys : Delay(model.keys[k]) \in Nat

VARIABLES
  lengths,   \* lengths[b]: length of the histories of body b
  known,     \* for how long the past is known at the first date
  forces     \* forces[b]: windows integrated, windows sent, values of the keys

buildVars == <<bodies, pc, lengths, known, blocked, date, forces, velocity>>

BuildInit == ForcedInit /\ lengths = <<>> /\ known \in Knowns /\ forces = <<>>

-----------------------------------------------------------------------------

(* ManeuveringForceModel::get_Tmax, GRPCForceModel::get_Tmax *)
ControlledTmax(model) ==
  Max({model.asks} \union {Delay(model.keys[k]) : k \in DOMAIN model.keys})

LongestExternal(body) ==
  Max({0} \union {body.external[i].tmax : i \in DOMAIN body.external})

LongestControlled(body) ==
  Max({0} \union {ControlledTmax(body.controlled[i]) : i \in DOMAIN body.controlled})

(* A slip: the second loop forgets what the first one found. *)
LastFound(first, second, secondFound) == IF secondFound THEN second ELSE first

(* What the two loops leave in the map, the second one over the first. *)
LongestFound(first, second, secondFound) ==
  IF secondFound THEN Max({first, second}) ELSE first

(***************************************************************************)
(* get_max_history_length: a body without external, or without controlled  *)
(* forces has no entry from that loop.                                     *)
(***************************************************************************)
HistoryLength(body) ==
  LongestFound(LongestExternal(body), LongestControlled(body), body.controlled # <<>>)

(* SimulatorBuilder::build *)
Build ==
  /\ BuildTables
  /\ \/ pc' = "refused" /\ UNCHANGED lengths
     \/ pc' = "built" /\ lengths' = [b \in DOMAIN bodies |-> HistoryLength(bodies[b])]
  /\ UNCHANGED <<known, forces>>

-----------------------------------------------------------------------------

(* How much of the past there is to remember at date t. *)
Elapsed(t) == known + t - 1

(* History::get_duration *)
RecordedDuration(length, t) == Min({length, Elapsed(t)})

(***************************************************************************)
(* get_convolution_for_axis: the interval the integral is over, from the   *)
(* shortest to the longest delay, empty if the integral is left out.       *)
(***************************************************************************)
Integrated(window, duration) ==
  IF duration >= window.tmin THEN <<window.tmin, Min({window.tmax, duration})>> ELSE <<>>

ForcesAt(body, length, given, t) ==
  LET duration == RecordedDuration(length, t)
  IN  [given |-> given,
       windows |-> [i \in DOMAIN body.external |-> Integrated(body.external[i], duration)],
       sent |-> [i \in DOMAIN body.controlled |-> Min({body.controlled[i].asks, duration})],
       keys |-> [i \in DOMAIN body.controlled |->
                   KeyValues(body.controlled[i], length, duration, given, t)]]

(* The next date: the controllers give commands, the models are evaluated. *)
Evaluate(given) ==
  /\ ForceStates
  /\ forces' = [b \in DOMAIN bodies |-> ForcesAt(bodies[b], lengths[b], given, date')]
  /\ UNCHANGED <<lengths, known>>

BuildNext == Build \/ \E given \in Commands : Evaluate(given)

BuildSpec == BuildInit /\ [][BuildNext]_buildVars

-----------------------------------------------------------------------------

\* The length of a history never costs a force anything: whatever the models
\* of a body, in either list, each convolution of the radiation damping is
\* over the part of its window that the simulation has been through, or that
\* was known before it, as it would be with a history without end, and it is
\* left out only as long as that is not even the start of the window; and each
\* remote model is sent all there is of the past it asked for.
WholeWindows ==
  date > 0 => \A b \in DOMAIN bodies :
    /\ \A i \in DOMAIN bodies[b].external :
         forces[b].windows[i] = Integrated(bodies[b].external[i], Elapsed(date))
    /\ \A i \in DOMAIN bodies[b].controlled :
         forces[b].sent[i] = Min({bodies[b].controlled[i].asks, Elapsed(date)})
=============================================================================
