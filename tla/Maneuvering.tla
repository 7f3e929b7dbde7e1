----------------------------- MODULE Maneuvering -----------------------------
(***************************************************************************)
(* The expressions of the maneuvering force model: how a text becomes a    *)
(* tree, what the tree evaluates to, and what bounds of the tree say of    *)
(* the length of the histories it needs.                                   *)
(*                                                                         *)
(* Texts and nodes are tuples whose first element is their kind:           *)
(*   texts  <<"number", v>>, <<"name", n>>, <<"call", f, text>>,           *)
(*          <<"chain", first, <<<<op, text>>, ...>>>> for the terms of an  *)
(*          expression and for the factors of a term,                      *)
(*          <<"powers", base, <<exponent, ...>>>>;                         *)
(*   nodes  <<"constant", v>>, <<"time">>, <<"unknown", n>>,               *)
(*          <<f, node>> for a function or a state f, <<op, node, node>>.   *)
(*                                                                         *)
(* Numbers are whole: the texts to study only divide, and only call the    *)
(* functions of Exact, where the result is whole.                          *)
(***************************************************************************)
EXTENDS Integers, Sequences, SequencesExt

CONSTANT Huge \* the bound of the value of a state, 1E15 in the code

ASSUME HugeAssumption == Huge \in Nat

StateNames == {"x", "y", "z", "u", "v", "w", "p", "q", "r", "qr", "qi", "qj", "qk",
               "phi", "theta", "psi"}

(* The functions from whole numbers to whole numbers. *)
Exact == [cos  |-> 0 :> 1, sin |-> 0 :> 0, exp |-> 0 :> 1, log |-> 1 :> 0,
          sqrt |-> 0 :> 0 @@ 1 :> 1 @@ 4 :> 2 @@ 9 :> 3]

MagnitudeOf(v) == IF v < 0 THEN - v ELSE v

Apply(f, v) == IF f = "abs" THEN MagnitudeOf(v) ELSE Exact[f][v]

Combine(op, l, r) ==
  CASE op = "+" -> l + r [] op = "-" -> l - r [] op = "*" -> l * r
    [] op = "/" -> l \div r [] op = "^" -> l ^ r

Functions1 == DOMAIN Exact \union {"abs"}
Operators == {"+", "-", "*", "/", "^"}

-----------------------------------------------------------------------------

(* The loops of Evaluator over the terms, the factors and the exponents. *)
FoldFromLeft(first, rest) ==
  FoldLeft(LAMBDA tree, pair : <<pair[1], tree, pair[2]>>, first, rest)

(* Evaluator; a function it does not know becomes an unknown identifier. *)
RECURSIVE Compiled(_)
Compiled(text) ==
  CASE text[1] = "number" -> <<"constant", text[2]>>
    [] text[1] = "name" -> IF text[2] = "t" THEN <<"time">> ELSE <<"unknown", text[2]>>
    [] text[1] = "call" ->
         IF text[2] \in Functions1 \union StateNames
           THEN <<text[2], Compiled(text[3])>> ELSE <<"unknown", text[2]>>
    [] text[1] = "powers" ->
         FoldFromLeft(Compiled(text[2]),
                      [i \in DOMAIN text[3] |-> <<"^", Compiled(text[3][i])>>])
    [] text[1] = "chain" ->
         FoldFromLeft(Compiled(text[2]),
                      [i \in DOMAIN text[3] |-> <<text[3][i][1], Compiled(text[3][i][2])>>])

-----------------------------------------------------------------------------

(***************************************************************************)
(* get_min and get_max: [min, max] of a node.  Of a product only the pairs *)
(* of minima and of maxima are multiplied; time counts as zero, and so     *)
(* does an identifier, whatever it stands for.                             *)
(***************************************************************************)
CornerPowers(l, r) == {a ^ b : a \in {l.min, l.max}, b \in {r.min, r.max}}

RECURSIVE Bounds(_)
Bounds(node) ==
  LET kind == node[1]
      l == Bounds(node[2])
      r == Bounds(node[3])
      both(a, b) == [min |-> a, max |-> b]
  IN  CASE kind = "constant" -> both(node[2], node[2])
        [] kind \in {"time", "unknown"} -> both(0, 0)
        [] kind \in {"cos", "sin"} -> both(-1, 1)
        [] kind = "abs" -> both(0, Max({MagnitudeOf(l.min), MagnitudeOf(l.max)}))
        [] kind \in {"exp", "log", "sqrt"} -> both(Apply(kind, l.min), Apply(kind, l.max))
        [] kind \in StateNames -> both(- Huge, Huge)
        [] kind = "+" -> both(l.min + r.min, l.max + r.max)
        [] kind = "-" -> both(l.min - r.max, l.max - r.min)
        [] kind = "*" -> both(l.min * r.min, l.max * r.max)
        [] kind = "/" -> both(l.min \div r.max, l.max \div r.min)
        [] kind = "^" -> both(Min(CornerPowers(l, r)), Max(CornerPowers(l, r)))

(***************************************************************************)
(* FindTmax.  Under x the bound is that of the earliest date, under every  *)
(* other state that of the latest; what is below a state is not visited.   *)
(***************************************************************************)
RECURSIVE TmaxOf(_)
TmaxOf(node) ==
  CASE node[1] = "x" -> Max({0, - Bounds(node[2]).min})
    [] node[1] \in StateNames \ {"x"} -> Max({0, - Bounds(node[2]).max})
    [] node[1] \in Functions1 -> TmaxOf(node[2])
    [] node[1] \in Operators -> Max({TmaxOf(node[2]), TmaxOf(node[3])})
    [] OTHER -> 0

(***************************************************************************)
(* get_lambda: the value of a node at a date.  ds says what identifiers    *)
(* stand for in the data source (commands, constants and the model's other *)
(* keys), ago[s][d] what the history of state s answers for a delay d.     *)
(***************************************************************************)
RECURSIVE ValueOf(_, _, _, _)
ValueOf(node, date, ds, ago) ==
  LET value(n) == ValueOf(n, date, ds, ago)
  IN  CASE node[1] = "constant" -> node[2]
        [] node[1] = "time" -> date
        [] node[1] = "unknown" -> ds[node[2]]
        [] node[1] \in Functions1 -> Apply(node[1], value(node[2]))
        [] node[1] \in StateNames -> ago[node[1]][date - value(node[2])]
        [] OTHER -> Combine(node[1], value(node[2]), value(node[3]))

-----------------------------------------------------------------------------

(***************************************************************************)
(* What a text means by the grammar of the documentation: terms are added  *)
(* or subtracted, factors multiply or divide, each by its own operator.    *)
(***************************************************************************)
RECURSIVE Meaning(_, _, _, _)
Meaning(text, date, ds, ago) ==
  LET value(s) == Meaning(s, date, ds, ago)
      rest == text[3]
      under(op) == LET operands == SelectSeq(rest, LAMBDA pair : pair[1] = op)
                   IN  [i \in DOMAIN operands |-> value(operands[i][2])]
      sum(op) == FoldLeft(LAMBDA a, b : a + b, 0, under(op))
      product(values) == FoldLeft(LAMBDA a, b : a * b, 1, values)
  IN  CASE text[1] = "number" -> text[2]
        [] text[1] = "name" -> IF text[2] = "t" THEN date ELSE ds[text[2]]
        [] text[1] = "call" ->
             IF text[2] \in StateNames THEN ago[text[2]][date - value(text[3])]
                                       ELSE Apply(text[2], value(text[3]))
        [] text[1] = "powers" ->
             value(text[2]) ^ product([i \in DOMAIN rest |-> value(rest[i])])
        [] text[1] = "chain" ->
             IF \E i \in DOMAIN rest : rest[i][1] \in {"*", "/"}
               THEN (value(text[2]) * product(under("*"))) \div product(under("/"))
               ELSE value(text[2]) + sum("+") - sum("-")
=============================================================================
