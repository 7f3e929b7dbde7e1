--------------------------- MODULE SlidingWindow ---------------------------
(***************************************************************************)
(* What a History promises its readers: the samples of the last `length`   *)
(* seconds, each exactly as it was recorded, none older, and one value per *)
(* date.  The current instant is the date of the newest sample.            *)
(***************************************************************************)
EXTENDS Integers

CONSTANTS
  Objects, \* the History objects of the program
  Lengths, \* the window lengths they are built with
  Dates,   \* the dates callers record at
  Values   \* the values they record

VARIABLE window

NewWindow(length) == [length |-> length, samples |-> {}]

Init == window \in [Objects -> {NewWindow(n) : n \in Lengths}]

(* Samples at least `length` before t leave the window; t gets value v. *)
Record(o, t, v) ==
  LET w == window[o]
  IN  /\ \A s \in w.samples : s.t <= t
      /\ window' = [window EXCEPT ![o].samples =
                      {s \in w.samples : s.t > t - w.length /\ s.t # t}
                        \union {[t |-> t, v |-> v]}]

Reset(o) == window' = [window EXCEPT ![o].samples = {}]

Assign(o, source) == window' = [window EXCEPT ![o] = window[source]]

Next ==
  \E o \in Objects :
    \/ \E t \in Dates, v \in Values : Record(o, t, v)
    \/ Reset(o)
    \/ \E source \in Objects : Assign(o, source)

Spec == Init /\ [][Next]_window
=============================================================================
