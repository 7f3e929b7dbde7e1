---------------------------- MODULE MCSimulation ----------------------------
(***************************************************************************)
(* A simulation and its outputs for TLC: either a run (Simulation), or the *)
(* observers of one (Observers).                                           *)
(*                                                                         *)
(* The nodes are those of Runge-Kutta 4 in ssc, in units that make them    *)
(* whole numbers.                                                          *)
(***************************************************************************)
EXTENDS Simulation, MCObservers

MCRK4 == <<0, 1, 1, 2>> \* Dt = 2

(* Free everywhere, or forced to 0, 1, 0, 1, ... on some dates. *)
Free == [first |-> 1, last |-> 0, f |-> <<>>]
Alternating(from, to) ==
  [first |-> from, last |-> to, f |-> [t \in from .. to |-> (t \div Dt) % 2]]

MCLast == [b \in 1 .. N |-> IF b = N THEN Alternating(Start + Dt, Start + 2 * Dt)
                                     ELSE Free]

NoRun ==
  /\ state = [b \in Bodies |-> 0] /\ hist = [b \in Bodies |-> NewHistory(Tmax)]
  /\ step = 0 /\ stage = 0 /\ rows = <<>> /\ forces = NotYet
  /\ pc = "done" /\ failure = "none"

NoObservers ==
  /\ list = <<>> /\ date = 1 /\ turn = 1 /\ remote = {}
  /\ serialize = <<>> /\ initialized = <<>> /\ out = <<>>
  /\ failed = FALSE /\ written = <<Steady>>

RunInit == (SimInit /\ NoObservers) \/ (NoRun /\ ObsInit)

RunNext ==
  \/ list = <<>> /\ SimNext /\ UNCHANGED obsVars
  \/ list # <<>> /\ ObsNext /\ UNCHANGED simVars

RunSpec == RunInit /\ [][RunNext]_<<simVars, obsVars>> /\ WF_progress(Proceeds)
=============================================================================
