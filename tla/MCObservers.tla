---------------------------- MODULE MCObservers ----------------------------
(***************************************************************************)
(* Observers for TLC: one name of each kind, one that only a remote force  *)
(* model writes, and every list of at most two requests.                   *)
(***************************************************************************)
EXTENDS Observers

Request(format, data) == [format |-> format, data |-> data]

MCRequests ==
  {Request(f, d) : f \in {"csv", "h5", "map"},
                   d \in {<<"t", "x">>, <<"x", "k", "t">>, <<"t", "waves">>}}
    \union {Request("json", d) : d \in {<<"t", "x", "Fx">>, <<"k", "t", "waves">>,
                                       <<"x", "Fx">>, <<"Fx", "t">>}}

MCLists ==
  {<<r>> : r \in MCRequests} \union {<<r, s>> : r, s \in MCRequests}
    \union {<<Request("everything", <<>>)>>}

(* The states of a body, as in test_data::falling_ball_example. *)
MCFallingBall == {<<Request("json", <<"x">>)>>}
=============================================================================
