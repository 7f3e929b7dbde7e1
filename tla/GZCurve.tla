------------------------------- MODULE GZCurve -------------------------------
(***************************************************************************)
(* The program gz: for each roll angle of a curve, the immersion at which  *)
(* a hull floats (GZ::Curve, ResultantForceComputer, newton_raphson).      *)
(*                                                                         *)
(* Lengths, weights and angles are integers; z points downwards.  Of a     *)
(* hull, what the search sees is kept: the ordinates between which it lies *)
(* when the origin of the body is at the surface, and the weight of water  *)
(* displaced, as if it were wall-sided.  The trim is left out: it is the   *)
(* one get_Xeq starts from, zero, because that starting point is what it   *)
(* returns; of the iteration the evaluations and the exception remain.     *)
(***************************************************************************)
EXTENDS Integers, Sequences, FiniteSets

CONSTANTS
  Ships,     \* [weight, at]: at[a], for a roll of a, is [low, high, area]
  CurveAsks, \* the angles asked for: [step, max], dphi and phi_max
  Precision, \* width of the interval at which the bisection ends, 1E-10 m
  MaxTurns   \* bound on the turns of newton_raphson, a hundred in the code

ASSUME GZAssumption ==
  /\ Precision \in Nat \ {0} /\ MaxTurns \in Nat \ {0}
  /\ \A s \in Ships :
       /\ s.weight \in Nat
       /\ \A a \in DOMAIN s.at :
            s.at[a] \in [low : Int, high : Int, area : Nat] /\ s.at[a].low < s.at[a].high
  /\ \A a \in CurveAsks :
       a.step \in Int /\ a.max \in Int /\ \A s \in Ships : 0 .. a.max \subseteq DOMAIN s.at

VARIABLES
  ship,     \* the simulator and its only body
  ask,      \* the command line
  stage,    \* what the program is doing, or why it stopped
  bounds,   \* MinMax z of zeq
  upright,  \* is it the search of get_Xeq?
  instant,  \* current_instant, the date of the next evaluation
  recorded, \* the last date in the body's histories
  curve     \* the rows written: [phi, z]

gzVars == <<ship, ask, stage, bounds, upright, instant, recorded, curve>>

-----------------------------------------------------------------------------

(* compute_phi: std::round, then one angle every step, and the ends. *)
Phis(a) ==
  LET N == (2 * a.max + a.step) \div (2 * a.step)
  IN  <<-a.max>> \o [i \in 1 .. 2 * N - 1 |-> (i - N) * a.step] \o <<a.max>>

Phi == IF upright THEN 0 ELSE Phis(ask)[Len(curve) + 1]

Rolled(phi) == ship.at[IF phi < 0 THEN -phi ELSE phi]

Displaced(h, z) ==
  LET depth == IF z < -h.high THEN 0 ELSE IF z > -h.low THEN h.high - h.low ELSE z + h.high
  IN  h.area * depth

(* resultant: the vertical force on the body at z, downwards. *)
FZ(z, phi) == ship.weight - Displaced(Rolled(phi), z)

(***************************************************************************)
(* n updates of the body, each with a date of its own, so that they are    *)
(* all recorded; a date before the last recorded one would be refused.     *)
(***************************************************************************)
EvaluateTimes(n) ==
  /\ recorded <= instant
  /\ instant' = instant + n
  /\ recorded' = instant + n - 1

-----------------------------------------------------------------------------

GZInit ==
  /\ ship \in Ships /\ ask \in CurveAsks
  /\ stage = "options" /\ upright = TRUE
  /\ bounds = [min |-> 0, max |-> 0]
  /\ instant = 0 /\ recorded = 0
  /\ curve = <<>>

(* invalid(GZOptions), then Curve::Impl: the body is updated at date zero. *)
Open ==
  /\ stage = "options"
  /\ stage' = IF ask.step <= 0 \/ ask.max < ask.step THEN "usage"
              ELSE IF ship.weight > Displaced(Rolled(0), -Rolled(0).low) THEN "sinks"
              ELSE "search"
  /\ UNCHANGED <<ship, ask, bounds, upright, instant, recorded, curve>>

(***************************************************************************)
(* zeq, before its loop: get_zmin_zmax and the forces at both ends.  If    *)
(* the body would sink even at the lowest position, the highest one is     *)
(* the answer.                                                             *)
(***************************************************************************)
Search ==
  LET h == Rolled(Phi)
  IN  /\ stage = "search"
      /\ EvaluateTimes(3)
      /\ IF FZ(h.high, Phi) > 0
           THEN bounds' = [min |-> h.low, max |-> h.low] /\ stage' = "bisect"
         ELSE IF FZ(h.low, Phi) < 0 THEN stage' = "emerged" /\ UNCHANGED bounds
         ELSE bounds' = [min |-> h.low, max |-> h.high] /\ stage' = "bisect"
      /\ UNCHANGED <<ship, ask, upright, curve>>

Average == (bounds.min + bounds.max) \div 2

(* Slip: the other half is kept. *)
OtherHalf(force) ==
  IF force > 0 THEN [bounds EXCEPT !.max = Average] ELSE [bounds EXCEPT !.min = Average]

(* The half that holds the position of balance. *)
HalfKept(force) ==
  IF force < 0 THEN [bounds EXCEPT !.max = Average] ELSE [bounds EXCEPT !.min = Average]

HalveInterval ==
  /\ stage = "bisect" /\ bounds.max - bounds.min > Precision
  /\ EvaluateTimes(1)
  /\ bounds' = HalfKept(FZ(Average, Phi))
  /\ UNCHANGED <<ship, ask, stage, upright, curve>>

(* zeq returns; gz(phi) evaluates the resultant there and a row is written. *)
Answer ==
  /\ stage = "bisect" /\ bounds.max - bounds.min <= Precision
  /\ IF upright
       THEN stage' = "newton" /\ UNCHANGED <<instant, recorded, curve>>
       ELSE /\ EvaluateTimes(1)
            /\ curve' = Append(curve, [phi |-> Phi, z |-> Average])
            /\ stage' = IF Len(curve) + 1 = Len(Phis(ask)) THEN "done" ELSE "search"
  /\ UNCHANGED <<ship, ask, bounds, upright>>

(***************************************************************************)
(* newton_raphson from the position just found: four evaluations a turn    *)
(* for the stiffness matrix, which may be singular, and one for the force. *)
(* It ends when the precision is reached or after the last turn, with a    *)
(* state that nobody reads.                                                *)
(***************************************************************************)
Iterate ==
  /\ stage = "newton"
  /\ \E turn \in 1 .. MaxTurns :
       \/ EvaluateTimes(5 * turn) /\ stage' = "search"
       \/ EvaluateTimes(5 * turn - 1) /\ stage' = "singular"
  /\ upright' = FALSE
  /\ UNCHANGED <<ship, ask, bounds, curve>>

GZEnded ==
  /\ stage \in {"usage", "sinks", "emerged", "singular", "done"}
  /\ UNCHANGED gzVars

GZNext == Open \/ Search \/ HalveInterval \/ Answer \/ Iterate \/ GZEnded

GZSpec == GZInit /\ [][GZNext]_gzVars

-----------------------------------------------------------------------------

(* A position of balance lies between the ordinates of the hull. *)
InReach(phi) == FZ(Rolled(phi).high, phi) <= 0 /\ FZ(Rolled(phi).low, phi) >= 0

Balanced(z, phi) == FZ(z - Precision, phi) >= 0 /\ FZ(z + Precision, phi) <= 0

\* Each point of the curve is at a position where weight and buoyancy balance
\* up to the precision of the bisection, if there is one between the ordinates
\* of the hull; the angles increase from one end to the other, no further
\* apart than one step and a half; and the program only gives up a hull that
\* sinks, an angle without such a position, or at a singular matrix.
CurveIsOfEquilibria ==
  /\ \A k \in DOMAIN curve :
       /\ InReach(curve[k].phi) => Balanced(curve[k].z, curve[k].phi)
       /\ k > 1 => LET gap == curve[k].phi - curve[k - 1].phi
                   IN  0 < gap /\ 2 * gap <= 3 * ask.step
  /\ stage = "done" => curve[1].phi = -ask.max /\ curve[Len(curve)].phi = ask.max
  /\ stage = "emerged" => ~ InReach(Phi)
=============================================================================
