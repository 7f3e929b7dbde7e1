---------------------------- MODULE Construction ----------------------------
(***************************************************************************)
(* The keys of the maneuvering models: how long ago the values may be that *)
(* a key asks for, which says how long the histories of HistoryLengths     *)
(* are, and what the keys are at each date, read in these histories.       *)
(***************************************************************************)
EXTENDS Maneuvering, HistoryLengths

CONSTANTS
  Constants,     \* g, nu, rho: name -> value
  Past(_, _)     \* what a state was, at a date

(* FindTmax, of the tree of a text. *)
DelayOf(text) == TmaxOf(Compiled(text))

-----------------------------------------------------------------------------

(* The keys of a model, evaluated when they are needed, with the values its *)
(* commands are given at date t.                                            *)
KeysAt(model, given, t, Value(_, _, _, _), ago) ==
  LET key[k \in DOMAIN model.keys] ==
        Value(model.keys[k], t,
              [n \in DOMAIN given \union DOMAIN Constants \union DOMAIN model.keys |->
                 IF n \in DOMAIN given THEN given[n]
                 ELSE IF n \in DOMAIN Constants THEN Constants[n] ELSE key[n]], ago)
  IN  [k \in DOMAIN model.keys |-> key[k]]

(* A slip: the end of the window is beyond it. *)
RememberedBefore(length, recorded, t) ==
  [s \in StateNames |-> [d \in Nat |->
     IF d >= length THEN 0 ELSE Past(s, t - Min({d, recorded}))]]

(***************************************************************************)
(* What a history answers for a delay: zero if it is longer than the       *)
(* window, and the oldest value if it is longer than what was recorded.    *)
(***************************************************************************)
Remembered(length, recorded, t) ==
  [s \in StateNames |-> [d \in Nat |->
     IF d > length THEN 0 ELSE Past(s, t - Min({d, recorded}))]]

CompiledValue(text, t, ds, ago) == ValueOf(Compiled(text), t, ds, ago)

(* ManeuveringForceModel::get_force *)
CompiledKeys(model, given, t, ago) == KeysAt(model, given, t, CompiledValue, ago)

RememberedKeys(model, length, recorded, given, t) ==
  CompiledKeys(model, given, t, Remembered(length, recorded, t))

-----------------------------------------------------------------------------

WholePast(t) ==
  [s \in StateNames |-> [d \in Nat |-> Past(s, t - Min({d, Elapsed(t)}))]]

\* "On peut évaluer ces valeurs retardées des états [...] en écrivant
\* x(t-tau) (par exemple) ou tau désigne une expression dont la valeur est
\* positive" (modeles_efforts_commandes_et_non_commandes.md:1003): each key of
\* a maneuvering model has the value its text means, with the past as a history
\* without end would have it, whatever the other models of the body.  It is so
\* of delays made of numbers, and under x of functions of them.  Under another
\* state the length is that of the least value a function may have, and under
\* any state an identifier counts as zero.
ForcesAsWritten ==
  date > 0 => \A b \in DOMAIN bodies : \A i \in DOMAIN bodies[b].controlled :
    forces[b].keys[i] = KeysAt(bodies[b].controlled[i], forces[b].given, date,
                               Meaning, WholePast(date))
=============================================================================
