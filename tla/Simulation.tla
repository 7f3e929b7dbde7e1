----------------------------- MODULE Simulation -----------------------------
(***************************************************************************)
(* One run of a simulation: quicksolve drives a stepper, which evaluates   *)
(* the derivatives of the system several times per step; every evaluation  *)
(* records the states of each body into its history and evaluates the      *)
(* forces; an observer keeps one row per step.                             *)
(*                                                                         *)
(* The state of a body is one velocity, the u of body b: it may be forced  *)
(* ("blocked") over an interval of time, and it may become NaN.  The other *)
(* states take the same path and are never forced or forced alike.  What   *)
(* the steppers of the ssc library and the forces compute is arbitrary;    *)
(* when the steppers evaluate, and what is done with the results, is not.  *)
(***************************************************************************)
EXTENDS History

CONSTANTS
  N,      \* the bodies are 1 .. N, updated in this order
  Values, \* the finite values of u
  NaN,    \* stands for the not-a-number value
  Nodes,  \* dates of the evaluations of one step, after its start
  Dt,     \* the time step
  Steps,  \* the number of steps to the end of the run
  Start,  \* the date of the start of the run
  Tmax,   \* length of the histories, the longest any force model asks for
  Table   \* Table[b]: the forced values of u, [first, last : dates, f : values]

ASSUME SimulationAssumption ==
  /\ N \in Nat \ {0} /\ Dt \in Nat \ {0} /\ Steps \in Nat
  /\ Start \in Int /\ Tmax \in Nat
  /\ Values \subseteq Int /\ NaN \in Int \ Values
  /\ Nodes \in Seq(0 .. Dt) /\ Len(Nodes) > 0 /\ Nodes[1] = 0
  /\ DOMAIN Table = 1 .. N
  /\ \A b \in 1 .. N :
       /\ Table[b].first \in Int /\ Table[b].last \in Int
       /\ \A t \in Table[b].first .. Table[b].last : Table[b].f[t] \in Values

(* What the fixed-step methods have and an embedded one has not. *)
NodesNeverGoBack ==
  \A i, j \in 1 .. Len(Nodes) : i <= j => Nodes[i] <= Nodes[j]

VARIABLES
  state,   \* Sim::state: the accepted states, or those of the last evaluation
  hist,    \* hist[b]: BodyStates::u of body b
  step,    \* number of steps done
  stage,   \* number of evaluations done in the current step
  rows,    \* what the observer keeps: [t, u, forces] for each observation
  forces,  \* date of the last evaluation of the forces, or NotYet
  pc,      \* "observe", "solve", "done" or "failed"
  failure  \* why the run failed: "none", "NaN" or "history"

simVars == <<state, hist, step, stage, rows, forces, pc, failure>>

Bodies == 1 .. N
NotYet == Start - 1

(* A slip: time events are appended one step late. *)
NowLate == IF step = 0 THEN Start ELSE Start + (step - 1) * Dt

(* DefaultScheduler::get_time: time events are multiples of Dt after Start. *)
Now == Start + step * Dt

(* BlockedDOF: u is free outside the interval of its table. *)
IsBlocked(b, t) == Table[b].first <= t /\ t <= Table[b].last

(* BlockedDOF::force_states *)
Forced(b, v, t) == IF IsBlocked(b, t) THEN Table[b].f[t] ELSE v

(* Sim::force_states *)
ForcedStates(u, t) == [b \in Bodies |-> Forced(b, u[b], t)]

(***************************************************************************)
(* The states Sim::output shows the observer: the copy in which the states *)
(* are forced is made anew for each body, so that only the last body's     *)
(* forcing is in it.                                                       *)
(***************************************************************************)
OutputStates(u, t) == [b \in Bodies |-> IF b = N THEN Forced(b, u[b], t) ELSE u[b]]

-----------------------------------------------------------------------------

(***************************************************************************)
(* The histories a run may start with: empty, or the past that a server's  *)
(* client sent, which ends with the state the run starts from.             *)
(***************************************************************************)
Pasts(v) ==
  {NewHistory(Tmax), Recorded(NewHistory(Tmax), Start, v)}
    \union {Recorded(Recorded(NewHistory(Tmax), Start - Dt, old), Start, v) :
              old \in Values}

SimInit ==
  /\ state \in [Bodies -> Values]
  /\ hist \in [Bodies -> UNION {Pasts(v) : v \in Values}]
  /\ \A b \in Bodies : hist[b] \in Pasts(state[b])
  /\ step = 0 /\ stage = 0
  /\ rows = <<>>
  /\ forces = NotYet
  /\ pc = "observe"
  /\ failure = "none"

Row == [t |-> Now, u |-> OutputStates(state, Now), forces |-> forces]

(* observer.observe, before the first step and after each of them. *)
Observe ==
  /\ pc = "observe"
  /\ rows' = Append(rows, Row)
  /\ pc' = "solve"
  /\ UNCHANGED <<state, hist, step, stage, forces, failure>>

(* Slips: no check of the states, or of those of one body only. *)
ThrowsOnDates(b, y, t) == ~ InOrder(hist[b], t)
ThrowsForLastBody(b, y, t) == (b = N /\ y[b] = NaN) \/ ~ InOrder(hist[b], t)

(***************************************************************************)
(* Body::update of each body in turn, until one throws: on a NaN before    *)
(* anything is changed, or when the history refuses the date.              *)
(***************************************************************************)
Throws(b, y, t) == y[b] = NaN \/ ~ InOrder(hist[b], t)

(* A slip: what throws is caught, and the step starts again. *)
StartAgain(reason) == stage' = 0 /\ UNCHANGED <<state, forces, pc, failure>>

(* The exception leaves quicksolve: there is no handler inside the run. *)
Abort(reason) ==
  /\ failure' = reason
  /\ pc' = "failed"
  /\ UNCHANGED <<state, stage, forces>>

(* A slip: the states are recorded as the stepper gives them. *)
UpdatedUnforced(y, t) ==
  [b \in Bodies |->
     IF \E c \in 1 .. b : Throws(c, y, t) THEN hist[b] ELSE Recorded(hist[b], t, y[b])]

Updated(y, t) ==
  [b \in Bodies |->
     IF \E c \in 1 .. b : Throws(c, y, t)
       THEN hist[b]
       ELSE Recorded(hist[b], t, Forced(b, y[b], t))]

(***************************************************************************)
(* Sim::operator(), called by the stepper with the states y, which become  *)
(* Sim::state once the forces are known.  The first evaluation of a step   *)
(* is at its start, with the accepted states; what the others get is the   *)
(* stepper's affair.                                                       *)
(***************************************************************************)
Evaluate(y) ==
  LET t == Now + Nodes[stage + 1]
  IN  /\ pc = "solve" /\ step < Steps /\ stage < Len(Nodes)
      /\ stage = 0 => y = state
      /\ hist' = Updated(y, t)
      /\ IF \E b \in Bodies : Throws(b, y, t)
           THEN LET b == CHOOSE c \in Bodies :
                            Throws(c, y, t) /\ \A d \in 1 .. c - 1 : ~ Throws(d, y, t)
                IN  Abort(IF y[b] = NaN THEN "NaN" ELSE "history")
           ELSE /\ stage' = stage + 1
                /\ forces' = t
                /\ state' = y
                /\ UNCHANGED <<pc, failure>>
      /\ UNCHANGED <<step, rows>>

(* A slip: the count of stages is not started again. *)
FinishStepKeepingStage(u) ==
  /\ pc = "solve" /\ stage = Len(Nodes)
  /\ state' = ForcedStates(u, Now)
  /\ step' = step + 1
  /\ pc' = "observe"
  /\ UNCHANGED <<stage, hist, rows, forces, failure>>

(***************************************************************************)
(* The end of do_step: the stepper leaves the integrated states, which are *)
(* forced, for the date at which the step started.                         *)
(***************************************************************************)
FinishStep(u) ==
  /\ pc = "solve" /\ stage = Len(Nodes)
  /\ state' = ForcedStates(u, Now)
  /\ step' = step + 1
  /\ stage' = 0
  /\ pc' = "observe"
  /\ UNCHANGED <<hist, rows, forces, failure>>

(***************************************************************************)
(* No time event left: simulate observes once more, at the end of the run, *)
(* and drops the last row.                                                 *)
(***************************************************************************)
Finish ==
  /\ pc = "solve" /\ step = Steps
  /\ LET all == Append(rows, Row) IN rows' = SubSeq(all, 1, Len(all) - 1)
  /\ pc' = "done"
  /\ UNCHANGED <<state, hist, step, stage, forces, failure>>

(* The program has returned: nothing happens any more. *)
Ended == pc \in {"done", "failed"} /\ UNCHANGED simVars

SimNext ==
  \/ Observe
  \/ \E y \in [Bodies -> Values \union {NaN}] : Evaluate(y)
  \/ \E u \in [Bodies -> Values \union {NaN}] : FinishStep(u)
  \/ Finish
  \/ Ended

(***************************************************************************)
(* One thread runs the loop, and nothing in it waits: as long as the run   *)
(* is neither done nor failed, its counters or its pc go on.               *)
(***************************************************************************)
progress == <<step, stage, pc>>

Proceeds ==
  /\ pc \in {"observe", "solve"}
  /\ step' \in {step, step + 1}
  /\ stage' \in 0 .. Len(Nodes)
  /\ pc' \in {"observe", "solve", "done", "failed"}

SimSpec == SimInit /\ [][SimNext]_simVars /\ WF_progress(Proceeds)

-----------------------------------------------------------------------------

SimTypeOK ==
  /\ state \in [Bodies -> Values \union {NaN}]
  /\ hist \in [Bodies -> HistoryObject]
  /\ step \in 0 .. Steps
  /\ stage \in 0 .. Len(Nodes)
  /\ rows \in Seq([t : Int, u : [Bodies -> Values \union {NaN}], forces : Int])
  /\ forces \in Int
  /\ pc \in {"observe", "solve", "done", "failed"}
  /\ failure \in {"none", "NaN", "history"}

\* A run never fails because a history refuses a date: the dates at which a
\* stepper evaluates, from one stage to the next and from one step to the
\* next, never go back, whatever the client's past and the tolerances.
HistoryAccepts == failure # "history"

\* The states recorded at the dates of the rows are those of the rows: what a
\* stepper only predicted for such a date, in its last stage, is replaced
\* when the next step starts and is never what a force model remembers.
RowsAreRemembered ==
  \A b \in Bodies : \A s \in Samples(hist[b]) : \A i \in 1 .. Len(rows) :
    rows[i].t = s.t /\ (s.t < Now \/ stage > 0) => s.v = rows[i].u[b]

\* The user documentation on blocked degrees of freedom: "Les modèles d'effort
\* sont appelés avec les états forcés" (reperes_et_conventions.md:597).  The
\* current value in a history, the one a force model reads after an update,
\* is the forced one, at every stage of every step.
ForceModelsSeeForcedStates ==
  forces # NotYet => \A b \in Bodies :
    CurrentTime(hist[b]) = forces /\ IsBlocked(b, forces)
      => LastOf(hist[b].L).v = Table[b].f[forces]

\* A NaN is never recorded into a history, hence never reaches a force model,
\* also when it appears between two stages or in one body of several.
NaNNeverRemembered ==
  \A b \in Bodies : \A s \in Samples(hist[b]) : s.v # NaN

\* A NaN the stepper leaves in the states is found at the next evaluation: it
\* is shown in the last row only.
NaNStopsTheRun ==
  \A i \in 1 .. Len(rows) - 1 : \A b \in Bodies : rows[i].u[b] # NaN

\* Every run ends, after its last step or when an exception stops it.
RunEnds == <>(pc \in {"done", "failed"})
=============================================================================
