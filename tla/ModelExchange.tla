---------------------------- MODULE ModelExchange ----------------------------
(***************************************************************************)
(* xdyn-for-me: a server that does not integrate, but answers the          *)
(* derivative of the last state a client sent.  It reads its requests and  *)
(* keeps its simulator as the co-simulation server does; it does not reset *)
(* the histories but gives the body those of the request, without its last *)
(* point, which the evaluation of the derivative records.                  *)
(*                                                                         *)
(* A behaviour is that of one server, of either kind.  Of the procedures   *)
(* of the gRPC front end, what the answer adds for Euler angles is left    *)
(* out.                                                                    *)
(***************************************************************************)
EXTENDS CosimServer

CONSTANT Services \* "cs", "me": the servers to study

ASSUME ExchangeAssumption == Services \subseteq {"cs", "me"} /\ 0 \in Values

VARIABLES
  service, \* the kind of the server
  answer   \* answer[c]: the last derivative c was sent, or an error

serverVars == <<cosimVars, service, answer>>

NoAnswer == [kind |-> "none", dx |-> 0]
ErrorAnswer == [kind |-> "error", dx |-> 0]

ServerInit ==
  /\ CosimInit
  /\ service \in Services
  /\ answer = [c \in Clients |-> NoAnswer]

(* state_at_t: zeros if the request has no states. *)
StateAtT(r) == IF r.states = <<>> THEN 0 ELSE r.states[Len(r.states)].v

-----------------------------------------------------------------------------

ReceiveForExchange(c, r) ==
  /\ MayStart(c)
  /\ sent' = [sent EXCEPT ![c] = r]
  /\ request' = [request EXCEPT ![c] = ReadRequest(r)]
  /\ answer' = [answer EXCEPT ![c] = NoAnswer]
  /\ pc' = [pc EXCEPT ![c] = "read"]
  /\ UNCHANGED <<simulator, step, rows, reply, basis, service>>

AcceptForExchange(c) ==
  /\ pc[c] = "read"
  /\ DatesInOrder(request[c])
  /\ pc' = [pc EXCEPT ![c] = "states"]
  /\ UNCHANGED <<simulator, sent, request, step, rows, reply, basis>>
  /\ UNCHANGED <<service, answer>>

(* The duration of a request is not read, only its dates can be wrong. *)
RefuseForExchange(c) ==
  /\ pc[c] = "read"
  /\ ~ DatesInOrder(request[c])
  /\ answer' = [answer EXCEPT ![c] = ErrorAnswer]
  /\ pc' = [pc EXCEPT ![c] = "idle"]
  /\ UNCHANGED <<simulator, sent, request, step, rows, reply, basis, service>>

(* A slip: a request with one state does not replace the history. *)
SetPastIfAny(c) ==
  LET past == HistoryExceptLast(request[c].states)
  IN  /\ pc[c] = "states"
      /\ hist' = IF past.L = <<>> THEN hist ELSE past
      /\ state' = IF past.L = <<>> THEN state ELSE LastOf(past.L).v
      /\ pc' = [pc EXCEPT ![c] = "commands"]
      /\ UNCHANGED <<commands, effort, sent, request, step, rows, reply, basis>>
      /\ UNCHANGED <<service, answer>>

(* sim.set_bodystates(state_history_except_last_point) *)
SetPast(c) ==
  LET past == HistoryExceptLast(request[c].states)
  IN  /\ pc[c] = "states"
      /\ hist' = past
      /\ state' = IF past.L = <<>> THEN state ELSE LastOf(past.L).v
      /\ pc' = [pc EXCEPT ![c] = "commands"]
      /\ UNCHANGED <<commands, effort, sent, request, step, rows, reply, basis>>
      /\ UNCHANGED <<service, answer>>

(* sim.set_command_listener(commands) *)
SetExchangeCommands(c) ==
  /\ pc[c] = "commands"
  /\ commands' = CommandsAfter(request[c].commands, commands)
  /\ basis' = [basis EXCEPT ![c] = [state |-> state, commands |-> commands']]
  /\ pc' = [pc EXCEPT ![c] = "solve"]
  /\ UNCHANGED <<state, hist, effort, sent, request, step, rows, reply>>
  /\ UNCHANGED <<service, answer>>

(***************************************************************************)
(* sim.dx_dt(state_at_t, dx_dt, t): neither Sim::state nor _dx_dt changes. *)
(* It throws before it records if another call has recorded a later date,  *)
(* and after if a command is missing.                                      *)
(***************************************************************************)
Derive(c) ==
  LET r == request[c]
      past == Recorded(hist, StartDate(r), StateAtT(r))
      force == Effort(StateAtT(r), Memory(past), commands)
  IN  /\ pc[c] = "solve"
      /\ hist' = IF InOrder(hist, StartDate(r)) THEN past ELSE hist
      /\ pc' = [pc EXCEPT ![c] = "idle"]
      /\ IF InOrder(hist, StartDate(r)) /\ AllCommandsSet
           THEN /\ effort' = force
                /\ answer' = [answer EXCEPT ![c] = [kind |-> "ok", dx |-> force]]
           ELSE /\ answer' = [answer EXCEPT ![c] = ErrorAnswer]
                /\ UNCHANGED effort
      /\ UNCHANGED <<state, commands, sent, request, step, rows, reply, basis>>
      /\ UNCHANGED service

ExchangeNext ==
  \E c \in Clients :
    \/ AcceptForExchange(c) \/ RefuseForExchange(c)
    \/ SetPast(c) \/ SetExchangeCommands(c) \/ Derive(c)
    \/ \E r \in Requests : ReceiveForExchange(c, r)

ServerNext ==
  \/ service = "cs" /\ CosimNext /\ UNCHANGED <<service, answer>>
  \/ service = "me" /\ ExchangeNext

ServerSpec ==
  ServerInit /\ [][ServerNext]_serverVars
    /\ \A c \in Clients : WF_pc(Proceeds(c))

-----------------------------------------------------------------------------

\* The derivative a client is sent depends on its request and on the commands
\* in force only, and a force model sees the past it would see in the first
\* step of a co-simulation of that request, although the two servers give the
\* body different histories and one of them does not reset it.
DerivativeIsOfRequest ==
  \A c \in Clients : pc[c] = "idle" /\ answer[c].kind # "none" =>
    LET r == request[c]
        past == IF r.states = <<>> THEN Recorded(NewHistory(Tmax), 0, 0)
                                   ELSE FullHistory(r.states)
    IN  IF DatesInOrder(r) /\ \A n \in Names : basis[c].commands[n] # Unset
          THEN /\ answer[c].kind = "ok"
               /\ answer[c].dx = Effort(StateAtT(r), Memory(past), basis[c].commands)
          ELSE answer[c].kind = "error"

\* Every message a server reads is answered: whatever the request, whatever
\* was done to the simulator before, and wherever an exception stops the call,
\* the client is sent a result or an error of this very call.
EveryRequestAnswered ==
  \A c \in Clients :
    pc[c] = "read" ~> /\ pc[c] = "idle"
                      /\ reply[c].kind # "none" \/ answer[c].kind # "none"
=============================================================================
