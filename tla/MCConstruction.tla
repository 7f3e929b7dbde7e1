--------------------------- MODULE MCConstruction ---------------------------
(***************************************************************************)
(* Construction for TLC.  In MCInputs delays are numbers, or combinations  *)
(* of numbers, or functions of them under x, and only u is read from       *)
(* files.  The documented inputs of MCFiles give other states, and that of *)
(* MCDelays has a function under y, and a delay that is a key.             *)
(***************************************************************************)
EXTENDS Construction

N(v) == <<"number", v>>
Name(n) == <<"name", n>>
Call(f, text) == <<"call", f, text>>
Chain(first, rest) == <<"chain", first, rest>>
Powers(base, exponents) == <<"powers", base, exponents>>

Minus(l, r) == Chain(l, << <<"-", r>> >>)
Times(l, r) == Chain(l, << <<"*", r>> >>)
Ago(s, rest) == Call(s, Chain(Name("t"), rest))

(* x(t-6), y(t-2-3), y(t-9/3*2), z(t-2^2^1), x(t-abs(3-8)), cos(0)*u(t-4) *)
MCNumbers ==
  {Ago("x", << <<"-", N(6)>> >>),
   Ago("y", << <<"-", N(2)>>, <<"-", N(3)>> >>),
   Ago("y", << <<"-", Chain(N(9), << <<"/", N(3)>>, <<"*", N(2)>> >>)>> >>),
   Ago("z", << <<"-", Powers(N(2), <<N(2), N(1)>>)>> >>),
   Ago("x", << <<"-", Call("abs", Minus(N(3), N(8)))>> >>),
   Times(Call("cos", N(0)), Ago("u", << <<"-", N(4)>>, <<"+", N(1)>> >>)),
   Minus(Ago("psi", <<>>), Ago("x", << <<"-", Call("sqrt", N(4))>> >>))}

(* 10*(x(t-6) + rpm*x(t-5) + 2*b*y(t-4) + z(t-3)/a), with b = a^2 and a = 1 *)
MCDocumented ==
  [X |-> Times(N(10),
           Chain(Ago("x", << <<"-", N(6)>> >>),
             << <<"+", Times(Name("rpm"), Ago("x", << <<"-", N(5)>> >>))>>,
                <<"+", Chain(N(2), << <<"*", Name("b")>>,
                                     <<"*", Ago("y", << <<"-", N(4)>> >>)>> >>)>>,
                <<"+", Chain(Ago("z", << <<"-", N(3)>> >>), << <<"/", Name("a")>> >>)>> >>)),
   a |-> N(1),
   b |-> Powers(Name("a"), <<N(2)>>)]

Model(keys) == [keys |-> keys, asks |-> 0]
RemoteModel(n) == [keys |-> [k \in {} |-> N(0)], asks |-> n]

MCModels ==
  {<<>>, <<Model(MCDocumented)>>, <<RemoteModel(2), Model([X |-> N(3)])>>}
    \union {<<Model([X |-> text])>> : text \in MCNumbers}

Damping(tmin, tmax) == [tmin |-> tmin, tmax |-> tmax]
MCExternals == {<<>>, <<Damping(0, 0)>>, <<Damping(0, 0), Damping(1, 5)>>}

Tabulated(s, t, v) == [state |-> s, t |-> t, value |-> v]
Early(s) == Tabulated(s, <<1, 2>>, <<1, 2>>)
Late(s)  == Tabulated(s, <<2, 3>>, <<3, 4>>)

Body(external, controlled, yaml, csv) ==
  [external |-> external, controlled |-> controlled, yaml |-> yaml, csv |-> csv]

MCYaml == {<<>>, <<Early("u")>>, <<Early("v"), Late("u")>>, <<Early("v"), Late("v")>>}
MCCsv  == {<<>>, <<Late("u")>>, <<Late("u"), Early("u")>>}

MCInputs ==
  {<<Body(e, c, <<>>, <<>>)>> : e \in MCExternals, c \in MCModels}
    \union {<<Body(<<>>, <<>>, y, f)>> : y \in MCYaml, f \in MCCsv}
    \union {<<Body(e, <<>>, <<Early("r")>>, <<>>), Body(<<>>, c, <<>>, <<Late("u")>>)>> :
              e \in MCExternals, c \in MCModels}

(* A file that gives another state than u. *)
MCFiles == {<<Body(<<>>, <<>>, y, <<Late("p")>>)>> : y \in MCYaml}

(* x(t-tau) and y(t-(2+cos(0))), with tau = 5 *)
MCDelays ==
  {<<Body(<<>>, <<Model([X |-> Ago("x", << <<"-", Name("tau")>> >>),
                         Y |-> Ago("y", << <<"-", Chain(N(2), << <<"+", Call("cos", N(0))>> >>)>> >>),
                         tau |-> N(5)])>>, <<>>, <<>>)>>}

MCKnowns == {0, 2, 9}

MCCommands == {[rpm |-> 0], [rpm |-> 2]}
MCConstants == [g |-> 10]
MCPast(s, t) == IF s = "x" THEN 100 + t ELSE 200 + t
=============================================================================
