---------------------------- MODULE MCHistories ----------------------------
(***************************************************************************)
(* Histories for TLC: a body's history and the one built from a request,   *)
(* with windows of different lengths (zero is the default of the class).   *)
(* Dates are ticks of a few ulps: those a tick apart are one instant.      *)
(***************************************************************************)
EXTENDS Histories

(* No date 2: the window may start where nothing was ever recorded. *)
MCDates == {0, 1, 3, 4, 5, 6}
=============================================================================
