------------------------------ MODULE History ------------------------------
(***************************************************************************)
(* The class History of hdb_interpolators: the recent past of one scalar   *)
(* signal (one of the thirteen states of a body), kept as a vector of      *)
(* (date, value) pairs over a sliding window of Tmax seconds.              *)
(*                                                                         *)
(* A History object is a record                                            *)
(*   Tmax    length of the window                                          *)
(*   L       the pairs, oldest first                                       *)
(*   oldest  oldest_recorded_instant                                       *)
(* and this module holds the member functions as operators on such a       *)
(* record.  Dates and values are integers: dates count ticks, values a     *)
(* unit the models choose fine enough for every interpolated value they    *)
(* meet to be a whole number.  Positions are the code's, from zero: the    *)
(* pair L[idx] of the code is At(L, idx).                                  *)
(***************************************************************************)
EXTENDS Integers, Sequences

CONSTANTS
  EqTol,    \* two dates at most EqTol ticks apart are the same instant (4 ulps)
  FrontTol, \* the same for the first date and the start of the window (32 ulps)
  Eps       \* two durations less than Eps ticks apart are equal (1E-12 s)

ASSUME ToleranceAssumption ==
  /\ EqTol \in Nat
  /\ FrontTol \in Nat
  /\ EqTol <= FrontTol
  /\ Eps \in Nat \ {0}

(* A pair of the vector, and what a History object is made of. *)
Sample == [t : Int, v : Int]

HistoryObject == [Tmax : Nat, L : Seq(Sample), oldest : Int]

(* History::History(Tmax) *)
NewHistory(Tmax) == [Tmax |-> Tmax, L |-> <<>>, oldest |-> 0]

At(L, idx) == L[idx + 1]
FirstOf(L) == L[1]
LastOf(L) == L[Len(L)]

(* almost_equal(a, b, tol) *)
AlmostEqual(a, b, tol) == a - b <= tol /\ b - a <= tol

(* get_current_time *)
CurrentTime(h) == IF h.L = <<>> THEN h.oldest ELSE LastOf(h.L).t

(* get_duration *)
Duration(h) == IF h.L = <<>> THEN 0 ELSE LastOf(h.L).t - FirstOf(h.L).t

(***************************************************************************)
(* find_braketing_position: the number of pairs dated before t, which is   *)
(* the position of the first pair dated t or later.  Module BracketSearch  *)
(* models the bisection that computes it.                                  *)
(***************************************************************************)
BracketingPosition(L, t) ==
  CHOOSE idx \in 0 .. Len(L) :
    /\ idx > 0      => At(L, idx - 1).t < t
    /\ idx < Len(L) => At(L, idx).t >= t

(* No two dates are the same instant, and they are in order. *)
Increasing(L) ==
  \A i, j \in 1 .. Len(L) : i < j => L[i].t + EqTol < L[j].t

(* The value at t of the line through the pairs a and b. *)
OnLine(a, b, t) == a.v + ((t - a.t) * (b.v - a.v)) \div (b.t - a.t)

(* A slip the queries must notice: the recorded value before t, held. *)
HoldInInterval(L, idx, t) ==
  IF idx = 0 \/ idx >= Len(L) THEN FirstOf(L).v ELSE At(L, idx - 1).v

(***************************************************************************)
(* interpolate_value_in_interval.  At either end of the interval the code  *)
(* returns the recorded value itself, as OnLine does.                      *)
(***************************************************************************)
InterpolateInInterval(L, idx, t) ==
  IF idx = 0 \/ idx >= Len(L)
    THEN FirstOf(L).v
    ELSE OnLine(At(L, idx - 1), At(L, idx), t)

(* A slip: dates within EqTol of the last one are not taken for it. *)
SnapToNothing(h, t) == t

(***************************************************************************)
(* record.  A date within EqTol of the last one is the last one; a date    *)
(* before it is refused (the code throws and changes nothing).             *)
(***************************************************************************)
SnapToBack(h, t) ==
  IF h.L # <<>> /\ AlmostEqual(t, LastOf(h.L).t, EqTol) THEN LastOf(h.L).t ELSE t

InOrder(h, t) == h.L # <<>> => SnapToBack(h, t) >= LastOf(h.L).t

(* update_oldest_recorded_instant *)
UpdateOldest(h, t) ==
  [h EXCEPT !.oldest = IF h.L = <<>> \/ t < h.oldest THEN t ELSE h.oldest]

(* A slip: the first value given for an instant stays. *)
KeepFirstValue(h, t, v) ==
  LET idx    == BracketingPosition(h.L, t)
      sample == [t |-> t, v |-> v]
  IN  IF idx # Len(h.L) /\ AlmostEqual(At(h.L, idx).t, t, EqTol)
        THEN h
        ELSE [h EXCEPT !.L = SubSeq(h.L, 1, idx) \o <<sample>>
                               \o SubSeq(h.L, idx + 1, Len(h.L))]

(* add_value_to_history *)
AddValue(h, t, v) ==
  LET idx    == BracketingPosition(h.L, t)
      sample == [t |-> t, v |-> v]
  IN  IF idx # Len(h.L) /\ AlmostEqual(At(h.L, idx).t, t, EqTol)
        THEN [h EXCEPT !.L = [h.L EXCEPT ![idx + 1] = sample]]
        ELSE [h EXCEPT !.L = SubSeq(h.L, 1, idx) \o <<sample>>
                               \o SubSeq(h.L, idx + 1, Len(h.L))]

(* Slips of the shift: nothing erased, no pair made up, the pair at the end. *)
ShiftErasingNothing(h) ==
  IF CurrentTime(h) - h.oldest >= h.Tmax
    THEN [h EXCEPT !.oldest = CurrentTime(h) - h.Tmax]
    ELSE h

Kept(h) ==
  SubSeq(h.L, BracketingPosition(h.L, CurrentTime(h) - h.Tmax) + 1, Len(h.L))

ShiftMakingUpNothing(h) ==
  IF CurrentTime(h) - h.oldest >= h.Tmax
    THEN [h EXCEPT !.oldest = CurrentTime(h) - h.Tmax, !.L = Kept(h)]
    ELSE h

(***************************************************************************)
(* shift_oldest_recorded_instant_if_necessary.  The pairs that left the    *)
(* window are erased and a pair is made up at its start.  The value of     *)
(* that pair is read from the interval number 1 of the vector as it is     *)
(* before anything is erased, wherever the window now starts.              *)
(***************************************************************************)
Shift(h) ==
  LET start == CurrentTime(h) - h.Tmax
      vmin  == InterpolateInInterval(h.L, 1, start)
      kept  == SubSeq(h.L, BracketingPosition(h.L, start) + 1, Len(h.L))
  IN  IF CurrentTime(h) - h.oldest >= h.Tmax
        THEN [h EXCEPT
               !.oldest = start,
               !.L = IF AlmostEqual(FirstOf(kept).t, start, FrontTol)
                       THEN kept
                       ELSE <<[t |-> start, v |-> vmin]>> \o kept]
        ELSE h

Recorded(h, t, v) ==
  LET date == SnapToBack(h, t)
  IN  Shift(AddValue(UpdateOldest(h, date), date, v))

(* A slip: the cleared history has no length any more. *)
ClearedWithoutLength(h) == [L |-> <<>>, oldest |-> 0]

(* reset: the window keeps its length. *)
Cleared(h) == NewHistory(h.Tmax)

(***************************************************************************)
(* The samples a reader may rely on: those strictly inside the window, and *)
(* the current one.  What stands at the very start of the window may be a  *)
(* pair made up by Shift.                                                  *)
(***************************************************************************)
Samples(hist) ==
  {hist.L[i] : i \in {j \in 1 .. Len(hist.L) :
                        \/ hist.L[j].t > CurrentTime(hist) - hist.Tmax
                        \/ j = Len(hist.L)}}

(***************************************************************************)
(* operator()(tau), for tau >= 0: the value tau before the last date.  A   *)
(* negative tau throws.                                                    *)
(***************************************************************************)
ValueAgo(h, tau) ==
  LET ago == IF tau - h.Tmax < Eps /\ h.Tmax - tau < Eps THEN h.Tmax ELSE tau
      t   == CurrentTime(h) - ago
  IN  IF ago > h.Tmax \/ h.L = <<>>
        THEN 0
        ELSE InterpolateInInterval(h.L, BracketingPosition(h.L, t), t)
=============================================================================
