--------------------------- MODULE BracketSearch ---------------------------
(***************************************************************************)
(* The bisection of History::find_braketing_position, one turn of its loop *)
(* at a time.  Every query and every record of a History goes through it.  *)
(***************************************************************************)
EXTENDS History

CONSTANTS
  Vectors,       \* the vectors a History may hold
  SearchedDates  \* the dates they are searched for

ASSUME SearchAssumption ==
  /\ \A L \in Vectors : L \in Seq(Sample) /\ Increasing(L)
  /\ SearchedDates \subseteq Int

VARIABLES
  L, t,         \* the vector and the date
  lower, upper, \* idx_lower and idx_greater
  pc,           \* "start", "loop" or "done"
  answer        \* what was returned, once pc is "done"

searchVars == <<L, t, lower, upper, pc, answer>>

SearchInit ==
  /\ L \in Vectors
  /\ t \in SearchedDates
  /\ lower = 0 /\ upper = 0
  /\ pc = "start"
  /\ answer = 0

Return(idx) ==
  /\ pc' = "done"
  /\ answer' = idx
  /\ UNCHANGED <<L, t, lower, upper>>

(* The early returns: empty vector, after the last date, not after the first. *)
ReturnEarly ==
  /\ pc = "start"
  /\ \/ L = <<>> /\ Return(0)
     \/ L # <<>> /\ LastOf(L).t < t /\ Return(Len(L))
     \/ L # <<>> /\ LastOf(L).t >= t /\ FirstOf(L).t >= t /\ Return(0)

EnterLoop ==
  /\ pc = "start"
  /\ L # <<>>
  /\ LastOf(L).t >= t
  /\ FirstOf(L).t < t
  /\ lower' = 0
  /\ upper' = Len(L) - 1
  /\ pc' = "loop"
  /\ UNCHANGED <<L, t, answer>>

(* A slip: only one of the bounds is halved. *)
MiddleUngrouped == lower + upper \div 2

Middle == (lower + upper) \div 2

(* A slip: the loop goes on until its bounds meet. *)
FoundWhenBoundsMeet ==
  \/ t = At(L, lower).t
  \/ t = At(L, upper).t
  \/ upper <= lower
  \/ t = At(L, Middle).t

(* The returns of the loop, tested in this order. *)
Found ==
  \/ t = At(L, lower).t
  \/ t = At(L, upper).t
  \/ upper <= lower + 1
  \/ t = At(L, Middle).t

(* A slip: between two pairs, the one before. *)
ReturnBefore ==
  /\ pc = "loop"
  /\ Found
  /\ Return(IF t = At(L, upper).t THEN upper
            ELSE IF t = At(L, lower).t \/ upper <= lower + 1 THEN lower
            ELSE Middle)

ReturnFound ==
  /\ pc = "loop"
  /\ Found
  /\ Return(IF t = At(L, lower).t THEN lower
            ELSE IF t = At(L, upper).t \/ upper <= lower + 1 THEN upper
            ELSE Middle)

Halve ==
  /\ pc = "loop"
  /\ ~ Found
  /\ IF t < At(L, Middle).t
       THEN upper' = Middle /\ UNCHANGED lower
       ELSE lower' = Middle /\ UNCHANGED upper
  /\ UNCHANGED <<L, t, pc, answer>>

SearchNext == ReturnEarly \/ EnterLoop \/ ReturnFound \/ Halve

(* A function that is called runs until it returns. *)
SearchSpec ==
  SearchInit /\ [][SearchNext]_searchVars /\ WF_searchVars(SearchNext)

-----------------------------------------------------------------------------

\* What the bisection returns is the number of pairs dated before t, which is
\* what insertion, erasure and interpolation take it for.
AnswerIsBracketingPosition ==
  pc = "done" => answer = BracketingPosition(L, t)

\* Every turn of the loop that does not return leaves at most half of the
\* interval, rounded up: the rounding of the middle never gives back the
\* interval itself, and the number of turns is logarithmic.
HalvingHalves ==
  [][Halve => 2 * (upper' - lower') <= upper - lower + 1]_searchVars

\* The loop has no other exit than its returns, and reaches one.
SearchEnds == <>(pc = "done")
=============================================================================
