-------------------------- MODULE MCHistorySignal --------------------------
(***************************************************************************)
(* The queries of a History for TLC: either a history is recorded into and *)
(* queried (HistorySignal), or one vector is searched for one date         *)
(* (BracketSearch).                                                        *)
(*                                                                         *)
(* Values are multiples of 60, which every gap between two dates of the    *)
(* models divides: the values met at whole dates are whole numbers.        *)
(* Tolerances are below one tick.  The vectors that are searched are those *)
(* whose dates are a subset of 1 .. LastSearched, and they are searched    *)
(* for every date from before their first one to after their last one.     *)
(***************************************************************************)
EXTENDS HistorySignal, BracketSearch, FiniteSets

CONSTANTS LastDate, LastSearched

MCDates == 0 .. LastDate
MCSearched == 0 .. LastSearched + 1

MCVectors ==
  LET Increasingly(S) ==
        SelectSeq([d \in 1 .. LastSearched |-> d], LAMBDA d : d \in S)
  IN  {[i \in 1 .. Cardinality(S) |-> [t |-> Increasingly(S)[i], v |-> 0]] :
         S \in SUBSET (1 .. LastSearched)}

NoSearch ==
  /\ L = <<>> /\ t = -1
  /\ lower = 0 /\ upper = 0
  /\ pc = "done" /\ answer = 0

QueryInit == SignalInit /\ (NoSearch \/ SearchInit)

QueryNext ==
  \/ NoSearch /\ SignalNext /\ UNCHANGED searchVars
  \/ ~ NoSearch /\ SearchNext /\ UNCHANGED sampledVars

QuerySpec ==
  QueryInit /\ [][QueryNext]_<<sampledVars, searchVars>>
    /\ WF_searchVars(SearchNext)
=============================================================================
