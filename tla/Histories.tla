----------------------------- MODULE Histories -----------------------------
(***************************************************************************)
(* The History objects of a running program: the one of a body's state and *)
(* the one a server builds from a request, which is then assigned to the   *)
(* body.  Any of them may be recorded into, reset, or assigned another     *)
(* one: operator= copies the pairs, the oldest instant and the length of   *)
(* the window.                                                             *)
(***************************************************************************)
EXTENDS History

CONSTANTS
  Objects, \* the History objects of the program
  Lengths, \* the window lengths they are built with
  Dates,   \* the dates callers record at
  Values   \* the values they record

ASSUME HistoriesAssumption ==
  /\ Objects # {}
  /\ Lengths \subseteq Nat
  /\ Dates \subseteq Int
  /\ Values \subseteq Int

VARIABLES
  h,     \* h[o] is the object o
  raised \* did the last call throw InternalErrorException?

vars == <<h, raised>>

Init ==
  /\ h \in [Objects -> {NewHistory(n) : n \in Lengths}]
  /\ raised = FALSE

Record(o, t, v) ==
  /\ InOrder(h[o], t)
  /\ h' = [h EXCEPT ![o] = Recorded(h[o], t, v)]
  /\ raised' = FALSE

RecordOutOfOrder(o, t) ==
  /\ ~ InOrder(h[o], t)
  /\ raised' = TRUE
  /\ UNCHANGED h

Reset(o) ==
  /\ h' = [h EXCEPT ![o] = Cleared(h[o])]
  /\ raised' = FALSE

(* A slip: an assignment that copies the pairs, not the length. *)
AssignPairs(o, source) ==
  /\ h' = [h EXCEPT ![o] = [h[source] EXCEPT !.Tmax = h[o].Tmax]]
  /\ raised' = FALSE

Assign(o, source) ==
  /\ h' = [h EXCEPT ![o] = h[source]]
  /\ raised' = FALSE

Next ==
  \E o \in Objects :
    \/ \E t \in Dates, v \in Values : Record(o, t, v)
    \/ \E t \in Dates : RecordOutOfOrder(o, t)
    \/ Reset(o)
    \/ \E source \in Objects : Assign(o, source)

Spec == Init /\ [][Next]_vars

-----------------------------------------------------------------------------

TypeOK ==
  /\ h \in [Objects -> HistoryObject]
  /\ raised \in BOOLEAN

\* Two successive dates are never the same instant: the bisection has one
\* answer and the interpolation never divides by zero, whatever the calls
\* (record, the shift of the window, reset, assignment) that led there.
DatesIncrease == \A o \in Objects : Increasing(h[o].L)

\* History.hpp, get_duration: "maximum value is Tmax".  A history never spans
\* more than its window, also after being assigned one of another length.
DurationBounded ==
  \A o \in Objects : Duration(h[o]) <= h[o].Tmax

\* oldest_recorded_instant, which record reads to decide whether to forget,
\* and the first pair, which queries read, never drift apart by more than the
\* tolerance of the comparison that was meant to keep them together.
OldestIsFront ==
  \A o \in Objects : h[o].L # <<>> =>
    /\ h[o].oldest <= FirstOf(h[o].L).t
    /\ FirstOf(h[o].L).t <= h[o].oldest + FrontTol
    /\ CurrentTime(h[o]) - h[o].oldest <= h[o].Tmax

Window == INSTANCE SlidingWindow WITH
  window <- [o \in Objects |-> [length  |-> h[o].Tmax,
                                samples |-> Samples(h[o])]]

\* A history forgets nothing it was given in the last Tmax seconds, alters
\* none of it, and keeps nothing older: the vector, its insertions, erasures
\* and made-up first pair implement a plain sliding window.
ImplementsSlidingWindow == Window!Spec
=============================================================================
