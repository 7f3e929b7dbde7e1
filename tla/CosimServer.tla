---------------------------- MODULE CosimServer ----------------------------
(***************************************************************************)
(* xdyn-for-cs: a server holds one simulator and plays, request after      *)
(* request, the simulation of the last state the client sent over the      *)
(* duration the client asked for.  Between two requests the simulator      *)
(* keeps everything: its states, the history of the body, the commands of  *)
(* the actuators and the last efforts.                                     *)
(*                                                                         *)
(* The JSON server of the ssc library handles one message at a time; the   *)
(* gRPC server has a pool of threads, each of which calls the same         *)
(* simulator.  A client stands for a connection or for a thread.           *)
(*                                                                         *)
(* The model has one body with one state, integrated by Euler's method;    *)
(* module Simulation models the other steppers and the forced states.      *)
(***************************************************************************)
EXTENDS History

CONSTANTS
  Clients,
  Requests,          \* what a client may send: [states, steps, commands]
  FrontEnd,          \* "json" or "grpc"
  Names,             \* the commands the force models read
  CommandValues,
  Unset,             \* a command that has no value
  InitialCommands,   \* the commands of the server's YAML file
  Values,            \* the finite values of the state
  NaN,               \* stands for the not-a-number value
  InitialState,      \* the initial state of the server's YAML file
  NoEffort,          \* the efforts before the first evaluation
  Tmax,              \* length of the histories
  Dt,                \* the time step
  Effort(_, _, _),   \* the force, of the state, of its past and of the commands
  Integrated(_, _)   \* the state a step later, of the state and of the force

Commands == [Names -> CommandValues \union {Unset}]

ASSUME CosimAssumption ==
  /\ Clients # {} /\ FrontEnd \in {"json", "grpc"}
  /\ Tmax \in Nat /\ Dt \in Nat \ {0}
  /\ Values \subseteq Int /\ NaN \in Int \ Values
  /\ InitialState \in Values /\ InitialCommands \in Commands
  /\ \A r \in Requests :
       /\ DOMAIN r = {"states", "steps", "commands"}
       /\ r.states \in Seq([t : Int, v : Values]) /\ r.steps \in Int
       /\ DOMAIN r.commands \subseteq Names
       /\ \A n \in DOMAIN r.commands : r.commands[n] \in CommandValues

VARIABLES
  state,    \* Sim::state
  hist,     \* the history of the body
  commands, \* the command listener of the simulator
  effort,   \* the efforts of the last evaluation
  pc,       \* pc[c]: where the call of client c stands in SimStepper::step
  sent,     \* sent[c]: the request as c sent it
  request,  \* request[c]: the request as the server read it
  step,     \* step[c]: number of steps done
  rows,     \* rows[c]: what the observer keeps
  reply,    \* reply[c]: the last reply to c
  basis     \* basis[c]: the state and commands when the run of c started

simulator == <<state, hist, commands, effort>>
cosimVars == <<simulator, pc, sent, request, step, rows, reply, basis>>

NoRequest == [states |-> <<>>, steps |-> 0, commands |-> <<>>]
NoReply   == [kind |-> "none", rows |-> <<>>]
ErrorReply == [kind |-> "error", rows |-> <<>>]

-----------------------------------------------------------------------------

(* from_grpc copies every field of a state but its date, which stays zero. *)
ReadRequest(r) ==
  IF FrontEnd = "grpc"
    THEN [r EXCEPT !.states = [i \in DOMAIN r.states |-> [r.states[i] EXCEPT !.t = 0]]]
    ELSE r

(* SimServerInputs: the states sent, recorded one by one. *)
HistoriesOf(states) ==
  LET past[i \in 0 .. Len(states)] ==
        IF i = 0 THEN NewHistory(Tmax)
                 ELSE Recorded(past[i - 1], states[i].t, states[i].v)
  IN  past

(* The history without its last point, which model exchange needs (here, a *)
(* slip).                                                                  *)
HistoryExceptLast(states) ==
  IF states = <<>> THEN NewHistory(Tmax) ELSE HistoriesOf(states)[Len(states) - 1]

FullHistory(states) == HistoriesOf(states)[Len(states)]

(* The constructor throws when a date goes back, play_one_step when Dt <= 0. *)
DatesInOrder(r) ==
  \A i \in DOMAIN r.states : InOrder(HistoriesOf(r.states)[i - 1], r.states[i].t)

Valid(r) == DatesInOrder(r) /\ r.steps > 0

StartDate(r) == IF r.states = <<>> THEN 0 ELSE r.states[Len(r.states)].t

(* Slips: a request replaces all commands, or resets those it leaves out. *)
CommandsReplaced(given, current) == given
CommandsReset(given, current) ==
  [n \in Names |-> IF n \in DOMAIN given THEN given[n] ELSE InitialCommands[n]]

(* Sim::set_command_listener: only the commands of the request are set. *)
CommandsAfter(given, current) ==
  [n \in Names |-> IF n \in DOMAIN given THEN given[n] ELSE current[n]]

(* What a force model sees once the body is updated: the oldest value. *)
Memory(past) == ValueAgo(past, Tmax)

-----------------------------------------------------------------------------

CosimInit ==
  /\ state = InitialState
  /\ hist = Recorded(NewHistory(Tmax), 0, InitialState)
  /\ commands = InitialCommands
  /\ effort = NoEffort
  /\ pc = [c \in Clients |-> "idle"]
  /\ sent = [c \in Clients |-> NoRequest]
  /\ request = [c \in Clients |-> NoRequest]
  /\ step = [c \in Clients |-> 0]
  /\ rows = [c \in Clients |-> <<>>]
  /\ reply = [c \in Clients |-> NoReply]
  /\ basis = [c \in Clients |-> [state |-> InitialState, commands |-> InitialCommands]]

(* One message at a time for the JSON server, one per thread for gRPC. *)
MayStart(c) ==
  IF FrontEnd = "json" THEN \A d \in Clients : pc[d] = "idle" ELSE pc[c] = "idle"

(* The message is read: what was answered to the one before it is no more. *)
Receive(c, r) ==
  /\ MayStart(c)
  /\ sent' = [sent EXCEPT ![c] = r]
  /\ request' = [request EXCEPT ![c] = ReadRequest(r)]
  /\ reply' = [reply EXCEPT ![c] = NoReply]
  /\ pc' = [pc EXCEPT ![c] = "read"]
  /\ UNCHANGED <<simulator, step, rows, basis>>

Accept(c) ==
  /\ pc[c] = "read"
  /\ Valid(request[c])
  /\ pc' = [pc EXCEPT ![c] = "reset"]
  /\ UNCHANGED <<simulator, sent, request, step, rows, reply, basis>>

(* The request is refused before the simulator is touched. *)
Refuse(c) ==
  /\ pc[c] = "read"
  /\ ~ Valid(request[c])
  /\ reply' = [reply EXCEPT ![c] = ErrorReply]
  /\ pc' = [pc EXCEPT ![c] = "idle"]
  /\ UNCHANGED <<simulator, sent, request, step, rows, basis>>

(* sim.reset_history() *)
ResetHistory(c) ==
  /\ pc[c] = "reset"
  /\ hist' = Cleared(hist)
  /\ pc' = [pc EXCEPT ![c] = "states"]
  /\ UNCHANGED <<state, commands, effort, sent, request, step, rows, reply, basis>>

(* A slip: the assignment of a history leaves the length of the window. *)
SetBodyStatesNotLength(c) ==
  LET past == FullHistory(request[c].states)
  IN  /\ pc[c] = "states"
      /\ hist' = [past EXCEPT !.Tmax = hist.Tmax]
      /\ state' = IF past.L = <<>> THEN state ELSE LastOf(past.L).v
      /\ pc' = [pc EXCEPT ![c] = "commands"]
      /\ UNCHANGED <<commands, effort, sent, request, step, rows, reply, basis>>

(* sim.set_bodystates(full_state_history) *)
SetBodyStates(c) ==
  LET past == FullHistory(request[c].states)
  IN  /\ pc[c] = "states"
      /\ hist' = past
      /\ state' = IF past.L = <<>> THEN state ELSE LastOf(past.L).v
      /\ pc' = [pc EXCEPT ![c] = "commands"]
      /\ UNCHANGED <<commands, effort, sent, request, step, rows, reply, basis>>

(* sim.set_command_listener(commands), and the start of simulate *)
SetCommands(c) ==
  /\ pc[c] = "commands"
  /\ commands' = CommandsAfter(request[c].commands, commands)
  /\ basis' = [basis EXCEPT ![c] = [state |-> state, commands |-> commands']]
  /\ step' = [step EXCEPT ![c] = 0]
  /\ rows' = [rows EXCEPT ![c] = <<>>]
  /\ pc' = [pc EXCEPT ![c] = "observe"]
  /\ UNCHANGED <<state, hist, effort, sent, request, reply>>

DateOf(c) == StartDate(request[c]) + step[c] * Dt

Observe(c) ==
  /\ pc[c] = "observe"
  /\ rows' = [rows EXCEPT ![c] =
                Append(@, [t |-> DateOf(c), v |-> state, effort |-> effort])]
  /\ pc' = [pc EXCEPT ![c] = IF step[c] = request[c].steps THEN "reply" ELSE "solve"]
  /\ UNCHANGED <<simulator, sent, request, step, reply, basis>>

(* The current states are recorded, after a check that they are numbers. *)
Recordable(c) == state # NaN /\ InOrder(hist, DateOf(c))

AllCommandsSet == \A n \in Names : commands[n] # Unset

DoStep(c) ==
  LET past  == Recorded(hist, DateOf(c), state)
      force == Effort(state, Memory(past), commands)
  IN  /\ pc[c] = "solve"
      /\ Recordable(c) /\ AllCommandsSet
      /\ hist' = past
      /\ effort' = force
      /\ state' = Integrated(state, force)
      /\ step' = [step EXCEPT ![c] = @ + 1]
      /\ pc' = [pc EXCEPT ![c] = "observe"]
      /\ UNCHANGED <<commands, sent, request, rows, reply, basis>>

(* A slip: the exception is logged, and the client is sent nothing. *)
FailSilently(c) ==
  /\ pc[c] = "solve"
  /\ ~ (Recordable(c) /\ AllCommandsSet)
  /\ hist' = IF Recordable(c) THEN Recorded(hist, DateOf(c), state) ELSE hist
  /\ pc' = [pc EXCEPT ![c] = "idle"]
  /\ UNCHANGED <<state, commands, effort, sent, request, step, rows, reply, basis>>

(***************************************************************************)
(* An exception in the middle of the run: the client is sent an error, and *)
(* the simulator stays as it is.  A missing command is found only after    *)
(* the states were recorded.                                               *)
(***************************************************************************)
Fail(c) ==
  /\ pc[c] = "solve"
  /\ ~ (Recordable(c) /\ AllCommandsSet)
  /\ hist' = IF Recordable(c) THEN Recorded(hist, DateOf(c), state) ELSE hist
  /\ reply' = [reply EXCEPT ![c] = ErrorReply]
  /\ pc' = [pc EXCEPT ![c] = "idle"]
  /\ UNCHANGED <<state, commands, effort, sent, request, step, rows, basis>>

(***************************************************************************)
(* The rows are converted for the client by way of the body: its history   *)
(* becomes the last row, at date zero, in a window of length zero.         *)
(***************************************************************************)
Reply(c) ==
  /\ pc[c] = "reply"
  /\ hist' = Recorded(NewHistory(0), 0, rows[c][Len(rows[c])].v)
  /\ reply' = [reply EXCEPT ![c] = [kind |-> "ok", rows |-> rows[c]]]
  /\ pc' = [pc EXCEPT ![c] = "idle"]
  /\ UNCHANGED <<state, commands, effort, sent, request, step, rows, basis>>

Work(c) ==
  \/ Accept(c) \/ Refuse(c)
  \/ ResetHistory(c) \/ SetBodyStates(c) \/ SetCommands(c)
  \/ Observe(c) \/ DoStep(c) \/ Fail(c) \/ Reply(c)

CosimNext ==
  \E c \in Clients : Work(c) \/ \E r \in Requests : Receive(c, r)

(***************************************************************************)
(* A call that was started runs on; clients need not send anything.  Only  *)
(* Work moves a pc from a place other than "idle", and it always can.      *)
(***************************************************************************)
Places == {"idle", "read", "reset", "states", "commands", "observe", "solve", "reply"}

Proceeds(c) ==
  /\ pc[c] # "idle"
  /\ \E place \in Places \ {pc[c]} : pc' = [pc EXCEPT ![c] = place]

CosimSpec ==
  CosimInit /\ [][CosimNext]_cosimVars
    /\ \A c \in Clients : WF_pc(Proceeds(c))

-----------------------------------------------------------------------------

Row == [t : Int, v : Values \union {NaN}, effort : Int \union {NoEffort}]

CosimTypeOK ==
  /\ state \in Values \union {NaN}
  /\ hist \in HistoryObject
  /\ commands \in Commands
  /\ effort \in Int \union {NoEffort}
  /\ pc \in [Clients -> Places]
  /\ step \in [Clients -> Nat]
  /\ \A c \in Clients : rows[c] \in Seq(Row)
  /\ \A c \in Clients :
       reply[c].kind \in {"none", "error", "ok"} /\ reply[c].rows \in Seq(Row)

(***************************************************************************)
(* The run a server that was just started would make of request r, from    *)
(* the state and with the commands of b: FreshRuns(r, b)[k] is what k      *)
(* steps lead to.                                                          *)
(***************************************************************************)
Shown(r, k, v, force) == [t |-> StartDate(r) + k * Dt, v |-> v, effort |-> force]

FreshStart(r, b) ==
  LET first == IF r.states = <<>> THEN b.state ELSE r.states[Len(r.states)].v
  IN  [ok |-> TRUE, past |-> FullHistory(r.states), v |-> first,
       rows |-> <<Shown(r, 0, first, NoEffort)>>]

FreshStep(r, b, last, k) ==
  LET past  == Recorded(last.past, StartDate(r) + (k - 1) * Dt, last.v)
      force == Effort(last.v, Memory(past), b.commands)
      next  == Integrated(last.v, force)
  IN  IF last.ok /\ last.v # NaN /\ \A n \in Names : b.commands[n] # Unset
        THEN [ok |-> TRUE, past |-> past, v |-> next,
              rows |-> Append(last.rows, Shown(r, k, next, force))]
        ELSE [last EXCEPT !.ok = FALSE]

FreshRuns(r, b) ==
  LET run[k \in 0 .. r.steps] ==
        IF k = 0 THEN FreshStart(r, b) ELSE FreshStep(r, b, run[k - 1], k)
  IN  run

FreshRun(r, b) == FreshRuns(r, b)[r.steps]

(* The efforts of the first row are those of an earlier run, or of none. *)
ForgetFirstEffort(shown) == [shown EXCEPT ![1].effort = NoEffort]

\* The reply to a request depends on the request, on the commands in force,
\* and on nothing else that earlier requests left in the simulator: not on
\* their histories or shrunk windows, nor on where an exception stopped them,
\* and not on what other clients ask meanwhile.  Only a request without any
\* state goes on from the state of the simulator.
ReplyIsOfRequest ==
  \A c \in Clients : pc[c] = "idle" /\ reply[c].kind # "none" =>
    LET fresh == FreshRun(request[c], basis[c])
    IN  IF Valid(request[c]) /\ fresh.ok
          THEN reply[c].kind = "ok" /\ ForgetFirstEffort(reply[c].rows) = fresh.rows
          ELSE reply[c].kind = "error"

\* A command that was once given keeps its value until it is given again: no
\* refused or failed request, and no reply, ever takes it back.
CommandsPersist ==
  [][\A n \in Names : commands'[n] # commands[n] =>
       \E c \in Clients : /\ pc[c] = "commands"
                          /\ n \in DOMAIN sent[c].commands
                          /\ commands'[n] = sent[c].commands[n]]_cosimVars

\* "t0 is therefore present both in the request and the response, with the
\* same associated values" (cosimulation.proto:11): a reply starts at the
\* date of the last state sent, with its value.
ReplyStartsWithLastState ==
  \A c \in Clients : reply[c].kind = "ok" /\ pc[c] = "idle" =>
    LET states == sent[c].states
    IN  states # <<>> =>
          /\ reply[c].rows[1].t = states[Len(states)].t
          /\ reply[c].rows[1].v = states[Len(states)].v
=============================================================================
