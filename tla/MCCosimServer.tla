--------------------------- MODULE MCCosimServer ---------------------------
(***************************************************************************)
(* CosimServer for TLC.  The force mixes the state, the memory and the     *)
(* command so that no two of them are mistaken for one another; one force  *)
(* makes the integration diverge.                                          *)
(***************************************************************************)
EXTENDS CosimServer

CONSTANTS Pasts, Durations, Orders

MCCommands == [n \in Names |-> Unset]

MCEffort(v, memory, given) ==
  (v + 2 * memory + (CHOOSE x \in {given[n] : n \in Names} : TRUE)) % 4

MCIntegrated(v, force) == IF force = 3 THEN NaN ELSE (v + force) % 2

Sent(dates) == [i \in 1 .. Len(dates) |-> [t |-> dates[i][1], v |-> dates[i][2]]]

MCPasts ==
  {Sent(<<>>), Sent(<< <<3, 1>> >>), Sent(<< <<1, 1>>, <<2, 0>> >>),
   Sent(<< <<2, 0>>, <<1, 1>> >>), Sent(<< <<2, 0>>, <<2, 1>> >>)}

MCOrders == {<<>>} \union [Names -> CommandValues]

MCRequests ==
  {[states |-> s, steps |-> n, commands |-> o] :
     s \in Pasts, n \in Durations, o \in Orders}
=============================================================================
