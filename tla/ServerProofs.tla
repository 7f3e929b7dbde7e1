---------------------------- MODULE ServerProofs ----------------------------
(***************************************************************************)
(* Theorems about the two servers, for any number of clients:              *)
(*   - only a request changes a command, and only those it gives (both     *)
(*     front ends, whatever the interleaving of the calls);                *)
(*   - the variables keep their types (both front ends);                   *)
(*   - the derivative, or the reply, a client is sent depends on its       *)
(*     request and on the commands in force only (JSON front end).         *)
(***************************************************************************)
EXTENDS ModelExchange, HistoryLemmas

(***************************************************************************)
(* The inductive invariant: a call that was started works on the commands  *)
(* its client sent, although the server may have read its states wrongly   *)
(* and other calls run at the same time.                                   *)
(***************************************************************************)
OfItsRequest(c) ==
  pc[c] # "idle" => sent[c] \in Requests /\ request[c].commands = sent[c].commands

CommandsIInv ==
  /\ commands \in Commands
  /\ DOMAIN pc = Clients /\ DOMAIN sent = Clients /\ DOMAIN request = Clients
  /\ \A c \in Clients : OfItsRequest(c)

(* What a step may do to the commands. *)
OrdersFollowed ==
  \A n \in Names : commands'[n] # commands[n] =>
    \E c \in Clients : /\ pc[c] = "commands"
                       /\ n \in DOMAIN sent[c].commands
                       /\ commands'[n] = sent[c].commands[n]

-----------------------------------------------------------------------------

\* Reading a request drops the dates of its states at most.
LEMMA ReadKeepsCommands ==
  ASSUME NEW r \in Requests
  PROVE  ReadRequest(r).commands = r.commands
BY CosimAssumption DEF ReadRequest

\* The commands after a request are those it gives and, of the others, those
\* before it.
LEMMA CommandsAfterType ==
  ASSUME NEW r \in Requests, commands \in Commands
  PROVE  CommandsAfter(r.commands, commands) \in Commands
BY CosimAssumption DEF CommandsAfter, Commands

\* No client has a call when the server starts.
LEMMA CommandsInitIInv == ServerInit => CommandsIInv
BY CosimAssumption DEF ServerInit, CosimInit, CommandsIInv, OfItsRequest

\* A new call keeps the invariant: the request is read before the call starts.
LEMMA ReceiveStep ==
  ASSUME CommandsIInv, NEW c \in Clients, NEW r \in Requests,
         Receive(c, r) \/ ReceiveForExchange(c, r)
  PROVE  CommandsIInv' /\ commands' = commands
<1>1. /\ sent' = [sent EXCEPT ![c] = r]
      /\ request' = [request EXCEPT ![c] = ReadRequest(r)]
      /\ commands' = commands
  BY DEF Receive, ReceiveForExchange, simulator
<1>2. pc' = [pc EXCEPT ![c] = "read"]
  BY DEF Receive, ReceiveForExchange
<1>3. DOMAIN pc' = Clients /\ \A d \in Clients \ {c} : pc'[d] = pc[d]
  BY <1>2 DEF CommandsIInv
<1>4. request'[c].commands = sent'[c].commands /\ sent'[c] \in Requests
  BY <1>1, ReadKeepsCommands DEF CommandsIInv
<1>5. \A d \in Clients : OfItsRequest(d)'
  BY <1>1, <1>3, <1>4 DEF CommandsIInv, OfItsRequest
<1> QED
  BY <1>1, <1>3, <1>5 DEF CommandsIInv

\* The step that sets the commands follows the request of its own client.
LEMMA SetCommandsStep ==
  ASSUME CommandsIInv, NEW c \in Clients, SetCommands(c) \/ SetExchangeCommands(c)
  PROVE  CommandsIInv' /\ OrdersFollowed
<1>1. /\ pc[c] = "commands"
      /\ commands' = CommandsAfter(request[c].commands, commands)
      /\ sent' = sent /\ request' = request
      /\ \E place \in Places : pc' = [pc EXCEPT ![c] = place]
  BY DEF SetCommands, SetExchangeCommands, Places
<1>2. sent[c] \in Requests /\ request[c].commands = sent[c].commands
  BY <1>1 DEF CommandsIInv, OfItsRequest
<1>3. commands' \in Commands
  BY <1>1, <1>2, CommandsAfterType DEF CommandsIInv
<1>4. OrdersFollowed
  BY <1>1, <1>2 DEF OrdersFollowed, CommandsAfter
<1>5. \A d \in Clients : OfItsRequest(d)'
  BY <1>1, <1>2 DEF CommandsIInv, OfItsRequest
<1> QED
  BY <1>1, <1>3, <1>4, <1>5 DEF CommandsIInv

\* The other steps of a call leave the commands and the requests alone.
LEMMA OtherStep ==
  ASSUME CommandsIInv, NEW c \in Clients,
         commands' = commands, sent' = sent, request' = request,
         pc[c] # "idle", NEW place \in Places, pc' = [pc EXCEPT ![c] = place]
  PROVE  CommandsIInv' /\ OrdersFollowed
<1>1. \A d \in Clients : OfItsRequest(d)'
  BY DEF CommandsIInv, OfItsRequest
<1> QED
  BY <1>1 DEF CommandsIInv, OrdersFollowed

\* Every step of a co-simulation server keeps the invariant.
LEMMA CosimStep ==
  ASSUME CommandsIInv, CosimNext
  PROVE  CommandsIInv' /\ OrdersFollowed
<1>1. ASSUME NEW c \in Clients, NEW r \in Requests, Receive(c, r)
      PROVE  CommandsIInv' /\ OrdersFollowed
  BY <1>1, ReceiveStep DEF OrdersFollowed
<1>2. ASSUME NEW c \in Clients, SetCommands(c)
      PROVE  CommandsIInv' /\ OrdersFollowed
  BY <1>2, SetCommandsStep
<1>3. ASSUME NEW c \in Clients,
             \/ Accept(c) \/ Refuse(c) \/ ResetHistory(c) \/ SetBodyStates(c)
             \/ Observe(c) \/ DoStep(c) \/ Fail(c) \/ Reply(c)
      PROVE  CommandsIInv' /\ OrdersFollowed
  <2>1. /\ commands' = commands /\ sent' = sent /\ request' = request
        /\ pc[c] # "idle"
        /\ \E place \in Places : pc' = [pc EXCEPT ![c] = place]
    <3>1. CASE ResetHistory(c)
      BY <3>1 DEF ResetHistory, Places
    <3>2. CASE SetBodyStates(c)
      BY <3>2 DEF SetBodyStates, Places
    <3>3. CASE Observe(c)
      BY <3>3 DEF Observe, Places, simulator
    <3>4. CASE DoStep(c)
      BY <3>4 DEF DoStep, Places
    <3>5. CASE Fail(c)
      BY <3>5 DEF Fail, Places
    <3>6. CASE Reply(c)
      BY <3>6 DEF Reply, Places
    <3>7. CASE Accept(c) \/ Refuse(c)
      BY <3>7 DEF Accept, Refuse, Places, simulator
    <3> QED
      BY <1>3, <3>1, <3>2, <3>3, <3>4, <3>5, <3>6, <3>7
  <2> QED
    BY <2>1, OtherStep
<1> QED
  BY <1>1, <1>2, <1>3 DEF CosimNext, Work

\* Every step of a model-exchange server keeps the invariant.
LEMMA ExchangeStep ==
  ASSUME CommandsIInv, ExchangeNext
  PROVE  CommandsIInv' /\ OrdersFollowed
<1>1. ASSUME NEW c \in Clients, NEW r \in Requests, ReceiveForExchange(c, r)
      PROVE  CommandsIInv' /\ OrdersFollowed
  BY <1>1, ReceiveStep DEF OrdersFollowed
<1>2. ASSUME NEW c \in Clients, SetExchangeCommands(c)
      PROVE  CommandsIInv' /\ OrdersFollowed
  BY <1>2, SetCommandsStep
<1>3. ASSUME NEW c \in Clients,
             AcceptForExchange(c) \/ RefuseForExchange(c) \/ SetPast(c) \/ Derive(c)
      PROVE  CommandsIInv' /\ OrdersFollowed
  <2>1. /\ commands' = commands /\ sent' = sent /\ request' = request
        /\ pc[c] # "idle"
        /\ \E place \in Places : pc' = [pc EXCEPT ![c] = place]
    BY <1>3 DEF AcceptForExchange, RefuseForExchange, SetPast, Derive, Places, simulator
  <2> QED
    BY <2>1, OtherStep
<1> QED
  BY <1>1, <1>2, <1>3 DEF ExchangeNext

\* Every step of either server, or none, keeps the invariant.
LEMMA ServerStep ==
  CommandsIInv /\ [ServerNext]_serverVars => CommandsIInv' /\ [OrdersFollowed]_cosimVars
<1> SUFFICES ASSUME CommandsIInv, [ServerNext]_serverVars
             PROVE  CommandsIInv' /\ [OrdersFollowed]_cosimVars
  OBVIOUS
<1>1. CASE CosimNext
  BY <1>1, CosimStep
<1>2. CASE ExchangeNext
  BY <1>2, ExchangeStep
<1>3. CASE UNCHANGED serverVars
  BY <1>3 DEF serverVars, cosimVars, simulator, CommandsIInv, OfItsRequest
<1> QED
  BY <1>1, <1>2, <1>3 DEF ServerNext

-----------------------------------------------------------------------------

\* A command keeps its value until a client gives it another: nothing that a
\* server does, refuses or fails to do takes it back, for both servers, both
\* front ends, any number of clients and any interleaving of their calls.
THEOREM CommandsAlwaysPersist == ServerSpec => CommandsPersist
<1>1. ServerInit => CommandsIInv
  BY CommandsInitIInv
<1>2. CommandsIInv /\ [ServerNext]_serverVars
        => CommandsIInv' /\ [OrdersFollowed]_cosimVars
  BY ServerStep
<1>3. ServerSpec => [][OrdersFollowed]_cosimVars
  BY <1>1, <1>2, PTL DEF ServerSpec
<1> QED
  BY <1>3 DEF CommandsPersist, OrdersFollowed

-----------------------------------------------------------------------------

\* The histories of a list of states are defined by their recursion.
LEMMA HistoriesOfDef ==
  ASSUME NEW states, Len(states) \in Nat
  PROVE  HistoriesOf(states) =
           [i \in 0 .. Len(states) |->
              IF i = 0 THEN NewHistory(Tmax)
                       ELSE Recorded(HistoriesOf(states)[i - 1], states[i].t, states[i].v)]
<1> DEFINE n == Len(states)
           Next(i, h) == Recorded(h, states[i].t, states[i].v)
           Is(f, k) == /\ f = [i \in 0 .. k |-> f[i]]
                       /\ \A i \in 0 .. k :
                            f[i] = IF i = 0 THEN NewHistory(Tmax) ELSE Next(i, f[i - 1])
           S == {k \in 0 .. n : \E f : Is(f, k)}
<1>0. n \in Nat
  OBVIOUS
<1>1. 0 \in S
  <2>1. Is([i \in 0 .. 0 |-> NewHistory(Tmax)], 0)
    OBVIOUS
  <2> HIDE DEF Is
  <2> QED
    BY <2>1, <1>0
<1>2. ASSUME NEW k \in 0 .. n - 1, k \in S
      PROVE  k + 1 \in S
  <2>1. PICK f : Is(f, k)
    BY <1>2
  <2> DEFINE g == [i \in 0 .. k + 1 |-> IF i <= k THEN f[i] ELSE Next(i, f[i - 1])]
  <2>2. g = [i \in 0 .. k + 1 |-> g[i]]
    OBVIOUS
  <2>3. ASSUME NEW i \in 0 .. k + 1
        PROVE  g[i] = IF i = 0 THEN NewHistory(Tmax) ELSE Next(i, g[i - 1])
    <3> HIDE DEF Next
    <3>1. CASE i = 0
      <4>1. 0 \in 0 .. k /\ g[i] = f[0]
        BY <3>1
      <4>2. f[0] = NewHistory(Tmax)
        BY <2>1, <4>1
      <4> QED
        BY <3>1, <4>1, <4>2
    <3>2. CASE i # 0
      <4>1. i - 1 \in 0 .. k /\ g[i - 1] = f[i - 1]
        BY <3>2
      <4>2. ASSUME i <= k
            PROVE  f[i] = Next(i, f[i - 1])
        <5>1. i \in 0 .. k
          BY <4>2
        <5> QED
          BY <2>1, <3>2, <5>1
      <4>3. g[i] = Next(i, f[i - 1])
        BY <4>2
      <4> QED
        BY <3>2, <4>1, <4>3
    <3> QED
      BY <3>1, <3>2
  <2>4. Is(g, k + 1)
    <3> HIDE DEF g, Next
    <3> QED
      BY <2>2, <2>3
  <2>5. k + 1 \in 0 .. n
    BY <1>0
  <2> HIDE DEF Is
  <2> QED
    BY <2>4, <2>5
<1>3. PICK f : Is(f, n)
  <2> HIDE DEF Is
  <2>1. \A k \in 0 .. n : k \in S
    <3> HIDE DEF S
    <3> QED
      BY <1>1, <1>2, IntervalInduction
  <2> QED
    BY <2>1
<1>4. f = [i \in 0 .. n |-> IF i = 0 THEN NewHistory(Tmax) ELSE Next(i, f[i - 1])]
  <2> HIDE DEF Next
  <2> QED
    BY <1>3
<1> DEFINE Equation(g) ==
      g = [i \in 0 .. n |-> IF i = 0 THEN NewHistory(Tmax) ELSE Next(i, g[i - 1])]
<1>5. HistoriesOf(states) = CHOOSE g : Equation(g)
  BY DEF HistoriesOf
<1>6. Equation(HistoriesOf(states))
  <2>1. Equation(f)
    BY <1>4
  <2> HIDE DEF Equation
  <2> QED
    BY <1>5, <2>1
<1> QED
  BY <1>6

\* Recording the states of a request one by one: nothing at first, then one more.
LEMMA HistoriesOfStep ==
  ASSUME NEW states, Len(states) \in Nat
  PROVE  /\ HistoriesOf(states)[0] = NewHistory(Tmax)
         /\ \A i \in 1 .. Len(states) :
              HistoriesOf(states)[i] =
                Recorded(HistoriesOf(states)[i - 1], states[i].t, states[i].v)
<1> DEFINE past == HistoriesOf(states)
           Next(i) == Recorded(past[i - 1], states[i].t, states[i].v)
<1>1. past = [i \in 0 .. Len(states) |-> IF i = 0 THEN NewHistory(Tmax) ELSE Next(i)]
  BY HistoriesOfDef
<1> HIDE DEF past, Next
<1>2. \A i \in 0 .. Len(states) : past[i] = IF i = 0 THEN NewHistory(Tmax) ELSE Next(i)
  BY <1>1
<1>3. past[0] = NewHistory(Tmax)
  BY <1>2
<1>4. \A i \in 1 .. Len(states) : past[i] = Next(i)
  BY <1>2
<1> QED
  BY <1>3, <1>4 DEF past, Next

\* The run a request would make is defined by its recursion.
LEMMA FreshRunsDef ==
  ASSUME NEW r, NEW b, r.steps \in Nat
  PROVE  FreshRuns(r, b) =
           [k \in 0 .. r.steps |->
              IF k = 0 THEN FreshStart(r, b)
                       ELSE FreshStep(r, b, FreshRuns(r, b)[k - 1], k)]
<1> DEFINE n == r.steps
           base == FreshStart(r, b)
           Next(i, last) == FreshStep(r, b, last, i)
           Is(f, k) == /\ f = [i \in 0 .. k |-> f[i]]
                       /\ \A i \in 0 .. k :
                            f[i] = IF i = 0 THEN base ELSE Next(i, f[i - 1])
           S == {k \in 0 .. n : \E f : Is(f, k)}
<1> HIDE DEF base
<1>0. n \in Nat
  OBVIOUS
<1>1. 0 \in S
  <2>1. Is([i \in 0 .. 0 |-> base], 0)
    OBVIOUS
  <2> HIDE DEF Is
  <2> QED
    BY <2>1, <1>0
<1>2. ASSUME NEW k \in 0 .. n - 1, k \in S
      PROVE  k + 1 \in S
  <2>1. PICK f : Is(f, k)
    BY <1>2
  <2> DEFINE g == [i \in 0 .. k + 1 |-> IF i <= k THEN f[i] ELSE Next(i, f[i - 1])]
  <2>2. g = [i \in 0 .. k + 1 |-> g[i]]
    OBVIOUS
  <2>3. ASSUME NEW i \in 0 .. k + 1
        PROVE  g[i] = IF i = 0 THEN base ELSE Next(i, g[i - 1])
    <3> HIDE DEF Next
    <3>1. CASE i = 0
      <4>1. 0 \in 0 .. k /\ g[i] = f[0]
        BY <3>1
      <4>2. f[0] = base
        BY <2>1, <4>1
      <4> QED
        BY <3>1, <4>1, <4>2
    <3>2. CASE i # 0
      <4>1. i - 1 \in 0 .. k /\ g[i - 1] = f[i - 1]
        BY <3>2
      <4>2. ASSUME i <= k
            PROVE  f[i] = Next(i, f[i - 1])
        <5>1. i \in 0 .. k
          BY <4>2
        <5> QED
          BY <2>1, <3>2, <5>1
      <4>3. g[i] = Next(i, f[i - 1])
        BY <4>2
      <4> QED
        BY <3>2, <4>1, <4>3
    <3> QED
      BY <3>1, <3>2
  <2>4. Is(g, k + 1)
    <3> HIDE DEF g, Next
    <3> QED
      BY <2>2, <2>3
  <2>5. k + 1 \in 0 .. n
    BY <1>0
  <2> HIDE DEF Is
  <2> QED
    BY <2>4, <2>5
<1>3. PICK f : Is(f, n)
  <2> HIDE DEF Is
  <2>1. \A k \in 0 .. n : k \in S
    <3> HIDE DEF S
    <3> QED
      BY <1>1, <1>2, IntervalInduction
  <2> QED
    BY <2>1
<1>4. f = [i \in 0 .. n |-> IF i = 0 THEN base ELSE Next(i, f[i - 1])]
  <2> HIDE DEF Next
  <2> QED
    BY <1>3
<1> DEFINE Equation(g) ==
      g = [i \in 0 .. n |-> IF i = 0 THEN base ELSE Next(i, g[i - 1])]
<1>5. FreshRuns(r, b) = CHOOSE g : Equation(g)
  BY DEF FreshRuns, base
<1>6. Equation(FreshRuns(r, b))
  <2>1. Equation(f)
    BY <1>4
  <2> HIDE DEF Equation
  <2> QED
    BY <1>5, <2>1
<1> QED
  BY <1>6 DEF base

\* The run of a request, step by step.
LEMMA FreshRunsStep ==
  ASSUME NEW r, NEW b, r.steps \in Nat
  PROVE  /\ FreshRuns(r, b)[0] = FreshStart(r, b)
         /\ \A k \in 1 .. r.steps :
              FreshRuns(r, b)[k] = FreshStep(r, b, FreshRuns(r, b)[k - 1], k)
<1> DEFINE run == FreshRuns(r, b)
           n == r.steps
           Next(k) == FreshStep(r, b, run[k - 1], k)
<1>1. run = [k \in 0 .. n |-> IF k = 0 THEN FreshStart(r, b) ELSE Next(k)]
  BY FreshRunsDef
<1> HIDE DEF run, Next
<1>2. \A k \in 0 .. n : run[k] = IF k = 0 THEN FreshStart(r, b) ELSE Next(k)
  BY <1>1
<1>3. run[0] = FreshStart(r, b)
  BY <1>2
<1>4. \A k \in 1 .. n : run[k] = Next(k)
  BY <1>2
<1> QED
  BY <1>3, <1>4 DEF run, Next

-----------------------------------------------------------------------------

\* A history ends at t, give or take what record takes for the same date.
EndsBy(past, t) == past.L # <<>> => CurrentTime(past) <= t + EqTol

\* A date is not refused by a history that ends by then.
LEMMA EndsByInOrder ==
  ASSUME NEW past \in HistoryObject, NEW t \in Int, EndsBy(past, t)
  PROVE  InOrder(past, t)
<1> SUFFICES ASSUME past.L # <<>>
             PROVE  SnapToBack(past, t) >= LastOf(past.L).t
  BY DEF InOrder
<1>1. past.L \in Seq(Sample) /\ Len(past.L) \in Nat \ {0}
  BY EmptySeq DEF HistoryObject
<1>2. LastOf(past.L).t \in Int
  BY <1>1, PairType DEF LastOf
<1>3. LastOf(past.L).t <= t + EqTol
  BY DEF EndsBy, CurrentTime
<1> QED
  BY <1>2, <1>3, ToleranceAssumption DEF SnapToBack, AlmostEqual

\* record leaves a history that ends with the value, at its date.
LEMMA RecordedLast ==
  ASSUME NEW past, WellFormed(past), NEW t \in Int, NEW v \in Int, InOrder(past, t)
  PROVE  LET r == Recorded(past, t, v)
         IN  /\ WellFormed(r) /\ r.L # <<>> /\ r.Tmax = past.Tmax
             /\ LastOf(r.L).v = v
             /\ EndsBy(r, t)
<1> DEFINE r == Recorded(past, t, v)
           d == SnapToBack(past, t)
           new == [t |-> d, v |-> v]
<1>1. /\ WellFormed(r) /\ r.L # <<>> /\ r.Tmax = past.Tmax
      /\ CurrentTime(r) = d
      /\ Samples(r) = {s \in Samples(past) : s.t > d - past.Tmax /\ s.t # d}
                        \union {new}
  <2> HIDE DEF r, d, new
  <2> QED
    BY RecordedEffect DEF r, d, new
<1> HIDE DEF r
<1>2. Len(r.L) \in Nat \ {0}
  BY <1>1, EmptySeq DEF WellFormed, HistoryObject
<1>3. LastOf(r.L) \in Samples(r) /\ LastOf(r.L).t = d
  BY <1>1, <1>2 DEF Samples, LastOf, CurrentTime
<1>4. LastOf(r.L).v = v
  BY <1>1, <1>3
<1>5. d = t \/ (past.L # <<>> /\ d = LastOf(past.L).t /\ d <= t + EqTol)
  <2>1. past.L # <<>> => LastOf(past.L).t \in Int
    <3>1. past.L \in Seq(Sample)
      BY DEF WellFormed, HistoryObject
    <3>2. past.L # <<>> => Len(past.L) \in 1 .. Len(past.L)
      BY <3>1, EmptySeq
    <3> QED
      BY <3>1, <3>2, PairType DEF LastOf
  <2> QED
    BY <2>1, ToleranceAssumption DEF SnapToBack, AlmostEqual
<1>6. EndsBy(r, t)
  BY <1>1, <1>5, ToleranceAssumption DEF EndsBy
<1> QED
  BY <1>1, <1>4, <1>6 DEF r

\* What a force model reads of a history is a number.
LEMMA MemoryType ==
  ASSUME NEW past, WellFormed(past), Tmax \in Nat
  PROVE  Memory(past) \in Int
<1> DEFINE ago == IF Tmax - past.Tmax < Eps /\ past.Tmax - Tmax < Eps THEN past.Tmax ELSE Tmax
           t == CurrentTime(past) - ago
           idx == BracketingPosition(past.L, t)
<1>1. past.L \in Seq(Sample) /\ past.Tmax \in Nat /\ Increasing(past.L)
  BY DEF WellFormed, HistoryObject
<1>2. CASE past.L = <<>>
  BY <1>2 DEF Memory, ValueAgo
<1>3. CASE past.L # <<>>
  <2>1. Len(past.L) \in 1 .. Len(past.L)
    BY <1>1, <1>3, EmptySeq
  <2>2. CurrentTime(past) \in Int
    BY <1>1, <1>3, <2>1, PairType DEF CurrentTime, LastOf
  <2>3. t \in Int
    BY <1>1, <2>2
  <2>4. idx \in Nat
    <3> HIDE DEF t
    <3>1. idx \in 0 .. Len(past.L)
      BY <1>1, <2>3, BracketingPositionCorrect
    <3> QED
      BY <3>1
  <2>5. InterpolateInInterval(past.L, idx, t) \in Int
    <3> HIDE DEF t, idx
    <3> QED
      BY <1>1, <1>3, <2>3, <2>4, InterpolationType
  <2> QED
    BY <2>5 DEF Memory, ValueAgo
<1> QED
  BY <1>2, <1>3

-----------------------------------------------------------------------------

\* What the server makes of a request it has read.
IsRequest(r) == r.states \in Seq([t : Int, v : Values]) /\ r.steps \in Int

\* The states of a request are a list of dates and values.
LEMMA StatesType ==
  ASSUME NEW r, IsRequest(r)
  PROVE  /\ Len(r.states) \in Nat
         /\ r.states = <<>> <=> Len(r.states) = 0
         /\ \A i \in 1 .. Len(r.states) :
              r.states[i].t \in Int /\ r.states[i].v \in Values /\ r.states[i].v \in Int
<1>1. r.states \in Seq([t : Int, v : Values])
  BY DEF IsRequest
<1>2. Len(r.states) \in Nat /\ (r.states = <<>> <=> Len(r.states) = 0)
  BY <1>1, EmptySeq, LenProperties
<1>3. \A i \in 1 .. Len(r.states) : r.states[i] \in [t : Int, v : Values]
  BY <1>1, ElementOfSeq
<1> QED
  BY <1>2, <1>3, CosimAssumption

\* Reading a request gives one (from_grpc, SimServerInputs).
LEMMA ReadIsRequest ==
  ASSUME NEW r \in Requests
  PROVE  IsRequest(ReadRequest(r))
<1>1. /\ DOMAIN r = {"states", "steps", "commands"}
      /\ r.states \in Seq([t : Int, v : Values]) /\ r.steps \in Int
  BY CosimAssumption
<1>2. CASE FrontEnd = "grpc"
  <2> DEFINE undated == [i \in DOMAIN r.states |-> [r.states[i] EXCEPT !.t = 0]]
  <2>1. Len(r.states) \in Nat /\ DOMAIN r.states = 1 .. Len(r.states)
    BY <1>1, LenProperties
  <2>2. \A i \in 1 .. Len(r.states) : r.states[i] \in [t : Int, v : Values]
    BY <1>1, ElementOfSeq
  <2>3. undated \in [1 .. Len(r.states) -> [t : Int, v : Values]]
    BY <2>1, <2>2
  <2>4. undated \in Seq([t : Int, v : Values])
    <3> HIDE DEF undated
    <3> QED
      BY <2>1, <2>3, SeqDef
  <2>5. ReadRequest(r) = [r EXCEPT !.states = undated]
    BY <1>2 DEF ReadRequest
  <2>6. ReadRequest(r).states = undated /\ ReadRequest(r).steps = r.steps
    <3> HIDE DEF undated
    <3> QED
      BY <1>1, <2>5
  <2> QED
    BY <1>1, <2>4, <2>6 DEF IsRequest
<1>3. CASE FrontEnd # "grpc"
  BY <1>1, <1>3 DEF ReadRequest, IsRequest
<1> QED
  BY <1>2, <1>3

\* The histories of a request that is not refused are well formed, and each
\* ends with the state that was recorded last.
LEMMA PastsOfRequest ==
  ASSUME NEW r, IsRequest(r), DatesInOrder(r)
  PROVE  \A i \in 0 .. Len(r.states) :
           LET past == HistoriesOf(r.states)[i]
           IN  /\ WellFormed(past) /\ past.Tmax = Tmax
               /\ i = 0 => past.L = <<>>
               /\ i > 0 => /\ past.L # <<>> /\ LastOf(past.L).v = r.states[i].v
                           /\ EndsBy(past, r.states[i].t)
<1> DEFINE n == Len(r.states)
           P(i) == HistoriesOf(r.states)[i]
           Good(i) == /\ WellFormed(P(i)) /\ P(i).Tmax = Tmax
                      /\ i = 0 => P(i).L = <<>>
                      /\ i > 0 => /\ P(i).L # <<>> /\ LastOf(P(i).L).v = r.states[i].v
                                  /\ EndsBy(P(i), r.states[i].t)
           S == {i \in 0 .. n : Good(i)}
<1>1. n \in Nat /\ \A i \in 1 .. n : r.states[i].t \in Int /\ r.states[i].v \in Int
  BY StatesType
<1>2. P(0) = NewHistory(Tmax) /\ \A i \in 1 .. n : P(i) = Recorded(P(i - 1), r.states[i].t, r.states[i].v)
  BY <1>1, HistoriesOfStep
<1>3. \A i \in 1 .. n : InOrder(P(i - 1), r.states[i].t)
  <2>1. DOMAIN r.states = 1 .. n
    BY LenProperties DEF IsRequest
  <2> QED
    BY <2>1 DEF DatesInOrder
<1> HIDE DEF P
<1>4. 0 \in S
  <2>1. Good(0)
    BY <1>2, NewHistoryEffect, CosimAssumption
  <2> HIDE DEF Good
  <2> QED
    BY <1>1, <2>1
<1>5. ASSUME NEW i \in 0 .. n - 1, i \in S
      PROVE  i + 1 \in S
  <2>1. i + 1 \in 1 .. n /\ (i + 1) - 1 = i
    BY <1>1
  <2>2. WellFormed(P(i)) /\ P(i).Tmax = Tmax
    BY <1>5
  <2>3. /\ P(i + 1) = Recorded(P(i), r.states[i + 1].t, r.states[i + 1].v)
        /\ InOrder(P(i), r.states[i + 1].t)
        /\ r.states[i + 1].t \in Int /\ r.states[i + 1].v \in Int
    BY <1>1, <1>2, <1>3, <2>1
  <2>4. Good(i + 1)
    BY <2>1, <2>2, <2>3, RecordedLast
  <2> HIDE DEF Good
  <2> QED
    BY <2>1, <2>4
<1>6. \A i \in 0 .. n : i \in S
  <2> HIDE DEF S, n
  <2> QED
    BY <1>1, <1>4, <1>5, IntervalInduction
<1>7. \A i \in 0 .. n : Good(i)
  BY <1>6
<1> QED
  BY <1>7 DEF P

-----------------------------------------------------------------------------

(***************************************************************************)
(* What the theorems below ask of the physics: a force is a number, and    *)
(* the integration of a number gives one, or a NaN.                        *)
(***************************************************************************)
ForcesAreNumbers ==
  /\ \A v \in Values, memory \in Int, given \in [Names -> CommandValues] :
       Effort(v, memory, given) \in Int
  /\ \A v \in Values, force \in Int : Integrated(v, force) \in Values \union {NaN}

(***************************************************************************)
(* The type of the state is inductive with what makes recording safe: the  *)
(* history of the body is well formed, and so are those a call is going to *)
(* give it, because the dates of its request were checked.                 *)
(***************************************************************************)
TypeIInv ==
  /\ CosimTypeOK
  /\ WellFormed(hist)
  /\ DOMAIN request = Clients /\ DOMAIN rows = Clients /\ DOMAIN reply = Clients
  /\ \A c \in Clients :
       /\ IsRequest(request[c])
       /\ pc[c] \notin {"idle", "read"} => DatesInOrder(request[c])
       /\ pc[c] = "reply" => rows[c] # <<>>

\* Dates are integers.
LEMMA DateType ==
  ASSUME NEW r, IsRequest(r), NEW k \in Int
  PROVE  StartDate(r) \in Int /\ StartDate(r) + k * Dt \in Int
<1>1. Len(r.states) \in Nat /\ (r.states # <<>> => Len(r.states) \in 1 .. Len(r.states))
  BY StatesType
<1>2. StartDate(r) \in Int
  BY <1>1, StatesType DEF StartDate
<1>3. k * Dt \in Int
  BY CosimAssumption
<1> QED
  BY <1>2, <1>3

\* The commands of a request that was accepted are commands of the simulator.
LEMMA AllSetType ==
  ASSUME commands \in Commands, AllCommandsSet
  PROVE  commands \in [Names -> CommandValues]
BY DEF Commands, AllCommandsSet

\* The state a call gives the simulator, if any, is one of its request.
LEMMA LastStateType ==
  ASSUME NEW r, IsRequest(r), DatesInOrder(r), NEW i \in 0 .. Len(r.states),
         NEW past, past = HistoriesOf(r.states)[i]
  PROVE  /\ WellFormed(past)
         /\ past.L # <<>> => LastOf(past.L).v \in Values
         /\ past.L = <<>> <=> i = 0
<1>1. Len(r.states) \in Nat /\ \A j \in 1 .. Len(r.states) : r.states[j].v \in Values
  BY StatesType
<1>2. /\ WellFormed(past)
      /\ i = 0 => past.L = <<>>
      /\ i > 0 => past.L # <<>> /\ LastOf(past.L).v = r.states[i].v
  BY PastsOfRequest
<1> QED
  BY <1>1, <1>2

\* The server starts with its initial state, recorded at date zero.
LEMMA TypeInit == ServerInit => TypeIInv
<1> SUFFICES ASSUME ServerInit
             PROVE  TypeIInv
  OBVIOUS
<1> USE DEF ServerInit, CosimInit
<1>1. Tmax \in Nat /\ InitialState \in Values /\ InitialState \in Int
  BY CosimAssumption
<1>2. WellFormed(hist)
  <2>1. WellFormed(NewHistory(Tmax)) /\ NewHistory(Tmax).L = <<>>
    BY <1>1, NewHistoryEffect
  <2>2. InOrder(NewHistory(Tmax), 0)
    BY <2>1 DEF InOrder
  <2> QED
    BY <1>1, <2>1, <2>2, RecordedLast
<1>3. hist \in HistoryObject
  BY <1>2 DEF WellFormed
<1>4. commands \in Commands
  BY CosimAssumption
<1>5. \A c \in Clients : rows[c] \in Seq(Row) /\ reply[c] = NoReply /\ NoReply.rows \in Seq(Row)
  <2>1. <<>> \in Seq(Row)
    BY EmptySeq
  <2>2. \A c \in Clients : rows[c] = <<>> /\ reply[c] = NoReply
    OBVIOUS
  <2>3. NoReply.rows = <<>>
    BY DEF NoReply
  <2> HIDE DEF ServerInit
  <2> QED
    BY <2>1, <2>2, <2>3
<1>6. IsRequest(NoRequest)
  BY DEF IsRequest, NoRequest
<1>7. CosimTypeOK
  BY <1>1, <1>3, <1>4, <1>5 DEF CosimTypeOK, Places, NoReply
<1> QED
  BY <1>2, <1>6, <1>7 DEF TypeIInv

\* A message is read: nothing of it was checked yet.
LEMMA TypeReceive ==
  ASSUME TypeIInv, NEW c \in Clients, NEW r \in Requests,
         Receive(c, r) \/ ReceiveForExchange(c, r)
  PROVE  TypeIInv'
<1>1. IsRequest(ReadRequest(r))
  BY ReadIsRequest
<1>2. /\ request' = [request EXCEPT ![c] = ReadRequest(r)]
      /\ pc' = [pc EXCEPT ![c] = "read"]
      /\ state' = state /\ hist' = hist /\ commands' = commands /\ effort' = effort
      /\ step' = step /\ rows' = rows
  BY DEF Receive, ReceiveForExchange, simulator
<1>3. reply' = reply \/ reply' = [reply EXCEPT ![c] = NoReply]
  BY DEF Receive, ReceiveForExchange
<1>4. \A d \in Clients : reply'[d].kind \in {"none", "error", "ok"} /\ reply'[d].rows \in Seq(Row)
  <2>1. \A d \in Clients : reply'[d] \in {reply[d], NoReply}
    BY <1>3 DEF TypeIInv
  <2>2. NoReply.kind = "none" /\ NoReply.rows = <<>> /\ <<>> \in Seq(Row)
    BY EmptySeq DEF NoReply
  <2> QED
    BY <2>1, <2>2 DEF TypeIInv, CosimTypeOK
<1>5. CosimTypeOK'
  BY <1>2, <1>4 DEF TypeIInv, CosimTypeOK, Places
<1>6. \A d \in Clients : IsRequest(request'[d])
  BY <1>1, <1>2 DEF TypeIInv
<1>7. \A d \in Clients : pc'[d] \notin {"idle", "read"} => DatesInOrder(request'[d])
  BY <1>2 DEF TypeIInv, CosimTypeOK
<1>8. \A d \in Clients : pc'[d] = "reply" => rows'[d] # <<>>
  BY <1>2 DEF TypeIInv, CosimTypeOK
<1> QED
  BY <1>2, <1>3, <1>5, <1>6, <1>7, <1>8 DEF TypeIInv

\* A request that is refused leaves an error only; one that is accepted has
\* dates in order.
LEMMA TypeCheck ==
  ASSUME TypeIInv, NEW c \in Clients,
         Accept(c) \/ Refuse(c) \/ AcceptForExchange(c) \/ RefuseForExchange(c)
  PROVE  TypeIInv'
<1>1. /\ UNCHANGED <<state, hist, commands, effort, request, step, rows>>
      /\ \/ pc' = [pc EXCEPT ![c] = "idle"]
         \/ /\ pc' = [pc EXCEPT ![c] = "reset"] \/ pc' = [pc EXCEPT ![c] = "states"]
            /\ DatesInOrder(request[c])
  BY DEF Accept, Refuse, AcceptForExchange, RefuseForExchange, Valid, simulator
<1>2. reply' = reply \/ reply' = [reply EXCEPT ![c] = ErrorReply]
  BY DEF Accept, Refuse, AcceptForExchange, RefuseForExchange
<1>3. \A d \in Clients : reply'[d].kind \in {"none", "error", "ok"} /\ reply'[d].rows \in Seq(Row)
  <2>1. \A d \in Clients : reply'[d] \in {reply[d], ErrorReply}
    BY <1>2 DEF TypeIInv
  <2>2. ErrorReply.kind = "error" /\ ErrorReply.rows = <<>> /\ <<>> \in Seq(Row)
    BY EmptySeq DEF ErrorReply
  <2> QED
    BY <2>1, <2>2 DEF TypeIInv, CosimTypeOK
<1>4. CosimTypeOK'
  BY <1>1, <1>3 DEF TypeIInv, CosimTypeOK, Places
<1>5. \A d \in Clients : pc'[d] \notin {"idle", "read"} => DatesInOrder(request'[d])
  BY <1>1 DEF TypeIInv, CosimTypeOK
<1>6. \A d \in Clients : pc'[d] = "reply" => rows'[d] # <<>>
  BY <1>1 DEF TypeIInv, CosimTypeOK
<1> QED
  BY <1>1, <1>2, <1>4, <1>5, <1>6 DEF TypeIInv

\* What the steps of a call have in common: its request does not change.
LEMMA TypeOfCall ==
  ASSUME TypeIInv, NEW c \in Clients, pc[c] \notin {"idle", "read"}, request' = request,
         NEW place \in Places, pc' = [pc EXCEPT ![c] = place],
         CosimTypeOK', WellFormed(hist)', DOMAIN rows' = Clients, DOMAIN reply' = Clients,
         \A d \in Clients \ {c} : rows'[d] = rows[d],
         place = "reply" => rows'[c] # <<>>
  PROVE  TypeIInv'
BY DEF TypeIInv, CosimTypeOK

\* The history is emptied, or replaced by one of the request, the state by the last one
\* recorded.
LEMMA TypeSetPast ==
  ASSUME TypeIInv, NEW c \in Clients,
         ResetHistory(c) \/ SetBodyStates(c) \/ SetPast(c)
  PROVE  TypeIInv'
<1> DEFINE r == request[c]
           n == Len(r.states)
<1>1. pc[c] \notin {"idle", "read"} /\ IsRequest(r) /\ DatesInOrder(r) /\ n \in Nat
  BY StatesType DEF ResetHistory, SetBodyStates, SetPast, TypeIInv
<1>2. PICK place \in Places \ {"reply"} : pc' = [pc EXCEPT ![c] = place]
  BY DEF ResetHistory, SetBodyStates, SetPast, Places
<1>3. UNCHANGED <<commands, effort, request, step, rows, reply>>
  BY DEF ResetHistory, SetBodyStates, SetPast
<1>4. WellFormed(hist') /\ state' \in Values \union {NaN}
  <2>1. CASE ResetHistory(c)
    BY <2>1, ClearedEffect DEF ResetHistory, TypeIInv, CosimTypeOK
  <2>2. ASSUME NEW past, NEW i \in 0 .. n, past = HistoriesOf(r.states)[i], hist' = past,
               state' = IF past.L = <<>> THEN state ELSE LastOf(past.L).v
        PROVE  WellFormed(hist') /\ state' \in Values \union {NaN}
    BY <1>1, <2>2, LastStateType DEF TypeIInv, CosimTypeOK
  <2>3. CASE SetBodyStates(c)
    BY <1>1, <2>2, <2>3 DEF SetBodyStates, FullHistory
  <2>4. CASE SetPast(c)
    <3>1. CASE r.states = <<>>
      <4>1. HistoryExceptLast(r.states) = NewHistory(Tmax)
        BY <3>1 DEF HistoryExceptLast
      <4> QED
        BY <2>4, <4>1, NewHistoryEffect, CosimAssumption DEF SetPast, TypeIInv, CosimTypeOK
    <3>2. CASE r.states # <<>>
      <4>1. n - 1 \in 0 .. n
        BY <1>1, <3>2, StatesType
      <4>2. HistoryExceptLast(r.states) = HistoriesOf(r.states)[n - 1]
        BY <3>2 DEF HistoryExceptLast
      <4> QED
        BY <2>2, <2>4, <4>1, <4>2 DEF SetPast
    <3> QED
      BY <3>1, <3>2
  <2> QED
    BY <2>1, <2>3, <2>4
<1>5. CosimTypeOK'
  BY <1>2, <1>3, <1>4 DEF TypeIInv, CosimTypeOK, WellFormed
<1> QED
  BY <1>1, <1>2, <1>3, <1>4, <1>5, TypeOfCall DEF TypeIInv

\* Setting the commands keeps their type.
LEMMA TypeSetCommands ==
  ASSUME TypeIInv, CommandsIInv, NEW c \in Clients, SetCommands(c) \/ SetExchangeCommands(c)
  PROVE  TypeIInv'
<1>1. /\ pc[c] = "commands"
      /\ commands' = CommandsAfter(request[c].commands, commands)
      /\ UNCHANGED <<state, hist, effort, request, reply>>
  BY DEF SetCommands, SetExchangeCommands
<1>2. sent[c] \in Requests /\ request[c].commands = sent[c].commands
  BY <1>1 DEF CommandsIInv, OfItsRequest
<1>3. commands' \in Commands
  BY <1>1, <1>2, CommandsAfterType DEF CommandsIInv
<1>4. PICK place \in Places \ {"reply"} : pc' = [pc EXCEPT ![c] = place]
  BY DEF SetCommands, SetExchangeCommands, Places
<1>5. /\ step' = step \/ step' = [step EXCEPT ![c] = 0]
      /\ rows' = rows \/ rows' = [rows EXCEPT ![c] = <<>>]
  BY DEF SetCommands, SetExchangeCommands
<1>6. CosimTypeOK'
  <2>1. step' \in [Clients -> Nat]
    <3>1. step \in [Clients -> Nat]
      BY DEF TypeIInv, CosimTypeOK
    <3> QED
      BY <1>5, <3>1
  <2>2. \A d \in Clients : rows'[d] \in Seq(Row)
    <3>1. <<>> \in Seq(Row) /\ \A d \in Clients : rows'[d] \in {rows[d], <<>>}
      BY <1>5, EmptySeq DEF TypeIInv
    <3> QED
      BY <3>1 DEF TypeIInv, CosimTypeOK
  <2> QED
    BY <1>1, <1>3, <1>4, <2>1, <2>2 DEF TypeIInv, CosimTypeOK
<1>7. DOMAIN rows' = Clients /\ \A d \in Clients \ {c} : rows'[d] = rows[d]
  BY <1>5 DEF TypeIInv
<1> QED
  BY <1>1, <1>4, <1>6, <1>7, TypeOfCall DEF TypeIInv

\* An observed row is a row.
LEMMA TypeObserve ==
  ASSUME TypeIInv, NEW c \in Clients, Observe(c)
  PROVE  TypeIInv'
<1> DEFINE row == [t |-> DateOf(c), v |-> state, effort |-> effort]
<1>1. IsRequest(request[c]) /\ step[c] \in Int
  BY DEF TypeIInv, CosimTypeOK
<1>2. DateOf(c) \in Int
  BY <1>1, DateType DEF DateOf
<1>3. row \in Row
  BY <1>2 DEF Row, TypeIInv, CosimTypeOK
<1> HIDE DEF row
<1>4. rows[c] \in Seq(Row) /\ rows' = [rows EXCEPT ![c] = Append(rows[c], row)]
  BY DEF Observe, TypeIInv, CosimTypeOK, row
<1>5. rows'[c] \in Seq(Row) /\ rows'[c] # <<>>
  <2>1. /\ Append(rows[c], row) \in Seq(Row)
        /\ Len(Append(rows[c], row)) = Len(rows[c]) + 1 /\ Len(rows[c]) \in Nat
    BY <1>3, <1>4, AppendProperties, LenProperties
  <2>2. Append(rows[c], row) # <<>>
    <3>1. Len(Append(rows[c], row)) # 0
      BY <2>1
    <3>2. Len(<<>>) = 0
      BY EmptySeq
    <3> QED
      BY <3>1, <3>2, Zenon
  <2> QED
    BY <1>4, <2>1, <2>2 DEF TypeIInv
<1>6. PICK place \in Places : pc' = [pc EXCEPT ![c] = place]
  BY DEF Observe, Places
<1>7. UNCHANGED <<state, hist, commands, effort, request, step, reply>> /\ pc[c] \notin {"idle", "read"}
  BY DEF Observe, simulator
<1>8. CosimTypeOK'
  BY <1>4, <1>5, <1>6, <1>7 DEF TypeIInv, CosimTypeOK
<1> QED
  BY <1>4, <1>5, <1>6, <1>7, <1>8, TypeOfCall DEF TypeIInv

\* A step records a date the history does not refuse, and integrates a number.
LEMMA TypeDoStep ==
  ASSUME ForcesAreNumbers, TypeIInv, NEW c \in Clients, DoStep(c)
  PROVE  TypeIInv'
<1> DEFINE past  == Recorded(hist, DateOf(c), state)
           force == Effort(state, Memory(past), commands)
<1>1. /\ state # NaN /\ InOrder(hist, DateOf(c)) /\ AllCommandsSet
      /\ hist' = past /\ effort' = force /\ state' = Integrated(state, force)
      /\ step' = [step EXCEPT ![c] = step[c] + 1]
      /\ pc[c] \notin {"idle", "read"} /\ pc' = [pc EXCEPT ![c] = "observe"]
      /\ UNCHANGED <<commands, request, rows, reply>>
  BY DEF DoStep, Recordable
<1>2. state \in Values /\ state \in Int
  BY <1>1, CosimAssumption DEF TypeIInv, CosimTypeOK
<1>3. DateOf(c) \in Int
  <2>1. IsRequest(request[c]) /\ step[c] \in Int
    BY DEF TypeIInv, CosimTypeOK
  <2> QED
    BY <2>1, DateType DEF DateOf
<1>4. WellFormed(past)
  BY <1>1, <1>2, <1>3, RecordedLast DEF TypeIInv
<1>5. Memory(past) \in Int
  <2> HIDE DEF past
  <2> QED
    BY <1>4, MemoryType, CosimAssumption
<1>6. commands \in [Names -> CommandValues]
  BY <1>1, AllSetType DEF TypeIInv, CosimTypeOK
<1>7. force \in Int /\ state' \in Values \union {NaN}
  <2> HIDE DEF past
  <2>1. force \in Int
    BY <1>2, <1>5, <1>6 DEF ForcesAreNumbers
  <2> HIDE DEF force
  <2> QED
    BY <1>1, <1>2, <2>1 DEF ForcesAreNumbers
<1> HIDE DEF past, force
<1>8. CosimTypeOK'
  BY <1>1, <1>4, <1>7 DEF TypeIInv, CosimTypeOK, WellFormed, Places
<1> QED
  BY <1>1, <1>4, <1>8, TypeOfCall DEF TypeIInv, Places

\* A call that fails leaves the history it has recorded, if it has.
LEMMA TypeFail ==
  ASSUME TypeIInv, NEW c \in Clients, Fail(c)
  PROVE  TypeIInv'
<1>1. /\ hist' = IF Recordable(c) THEN Recorded(hist, DateOf(c), state) ELSE hist
      /\ reply' = [reply EXCEPT ![c] = ErrorReply]
      /\ pc[c] \notin {"idle", "read"} /\ pc' = [pc EXCEPT ![c] = "idle"]
      /\ UNCHANGED <<state, commands, effort, request, step, rows>>
  BY DEF Fail
<1>2. WellFormed(hist')
  <2>1. IsRequest(request[c]) /\ step[c] \in Int
    BY DEF TypeIInv, CosimTypeOK
  <2>2. DateOf(c) \in Int
    BY <2>1, DateType DEF DateOf
  <2>3. state \in Int
    BY CosimAssumption DEF TypeIInv, CosimTypeOK
  <2> QED
    BY <1>1, <2>2, <2>3, RecordedLast DEF TypeIInv, Recordable
<1>3. CosimTypeOK'
  BY <1>1, <1>2 DEF TypeIInv, CosimTypeOK, WellFormed, ErrorReply, Places
<1> QED
  BY <1>1, <1>2, <1>3, TypeOfCall DEF TypeIInv, Places

\* A reply leaves a history of one pair.
LEMMA TypeReply ==
  ASSUME TypeIInv, NEW c \in Clients, Reply(c)
  PROVE  TypeIInv'
<1> DEFINE v == rows[c][Len(rows[c])].v
<1>1. /\ hist' = Recorded(NewHistory(0), 0, v)
      /\ reply' = [reply EXCEPT ![c] = [kind |-> "ok", rows |-> rows[c]]]
      /\ pc[c] = "reply" /\ pc' = [pc EXCEPT ![c] = "idle"]
      /\ UNCHANGED <<state, commands, effort, request, step, rows>>
  BY DEF Reply
<1>2. rows[c] \in Seq(Row) /\ rows[c] # <<>>
  BY <1>1 DEF TypeIInv, CosimTypeOK
<1>3. v \in Int
  <2>1. Len(rows[c]) \in 1 .. Len(rows[c])
    BY <1>2, EmptySeq, LenProperties
  <2>2. rows[c][Len(rows[c])] \in Row
    BY <1>2, <2>1, ElementOfSeq
  <2> QED
    BY <2>2, CosimAssumption DEF Row
<1> HIDE DEF v
<1>4. WellFormed(hist')
  <2>1. WellFormed(NewHistory(0)) /\ NewHistory(0).L = <<>>
    BY NewHistoryEffect
  <2>2. InOrder(NewHistory(0), 0)
    BY <2>1 DEF InOrder
  <2> QED
    BY <1>1, <1>3, <2>1, <2>2, RecordedLast
<1>5. CosimTypeOK'
  BY <1>1, <1>2, <1>4 DEF TypeIInv, CosimTypeOK, WellFormed, Places
<1> QED
  BY <1>1, <1>4, <1>5, TypeOfCall DEF TypeIInv, Places

\* A derivative records the date of the request, unless it is refused.
LEMMA TypeDerive ==
  ASSUME ForcesAreNumbers, TypeIInv, NEW c \in Clients, Derive(c)
  PROVE  TypeIInv'
<1> DEFINE r     == request[c]
           t     == StartDate(r)
           v     == StateAtT(r)
           past  == Recorded(hist, t, v)
           force == Effort(v, Memory(past), commands)
<1>1. /\ hist' = IF InOrder(hist, t) THEN past ELSE hist
      /\ pc[c] \notin {"idle", "read"} /\ pc' = [pc EXCEPT ![c] = "idle"]
      /\ effort' = effort \/ (InOrder(hist, t) /\ AllCommandsSet /\ effort' = force)
      /\ UNCHANGED <<state, commands, request, step, rows, reply>>
  BY DEF Derive
<1>2. IsRequest(r)
  BY DEF TypeIInv
<1>3. t \in Int
  BY <1>2, DateType
<1>4. v \in Values /\ v \in Int
  <2>1. r.states # <<>> => Len(r.states) \in 1 .. Len(r.states)
    BY <1>2, StatesType
  <2> QED
    BY <1>2, <2>1, StatesType, ExchangeAssumption, CosimAssumption DEF StateAtT
<1> HIDE DEF t, v
<1>5. InOrder(hist, t) => WellFormed(past)
  BY <1>3, <1>4, RecordedLast DEF TypeIInv
<1> HIDE DEF past
<1>6. InOrder(hist, t) /\ AllCommandsSet => force \in Int
  <2> SUFFICES ASSUME InOrder(hist, t), AllCommandsSet
               PROVE  force \in Int
    OBVIOUS
  <2>1. Memory(past) \in Int
    BY <1>5, MemoryType, CosimAssumption
  <2>2. commands \in [Names -> CommandValues]
    BY AllSetType DEF TypeIInv, CosimTypeOK
  <2> QED
    BY <1>4, <2>1, <2>2 DEF ForcesAreNumbers
<1> HIDE DEF force
<1>7. WellFormed(hist')
  BY <1>1, <1>5 DEF TypeIInv
<1>8. CosimTypeOK'
  BY <1>1, <1>6, <1>7 DEF TypeIInv, CosimTypeOK, WellFormed, Places
<1> QED
  BY <1>1, <1>7, <1>8, TypeOfCall DEF TypeIInv, Places

\* Every step of either server keeps the types.
LEMMA TypeStep ==
  ASSUME ForcesAreNumbers, TypeIInv, CommandsIInv, [ServerNext]_serverVars
  PROVE  TypeIInv'
<1>1. CASE CosimNext
  BY <1>1, TypeReceive, TypeCheck, TypeSetPast, TypeSetCommands, TypeObserve, TypeDoStep,
     TypeFail, TypeReply DEF CosimNext, Work
<1>2. CASE ExchangeNext
  BY <1>2, TypeReceive, TypeCheck, TypeSetPast, TypeSetCommands, TypeDerive
     DEF ExchangeNext
<1>3. CASE UNCHANGED serverVars
  BY <1>3 DEF serverVars, cosimVars, simulator, TypeIInv, CosimTypeOK
<1> QED
  BY <1>1, <1>2, <1>3 DEF ServerNext

\* The variables of a server keep their types.
THEOREM ServerTypeCorrect ==
  ASSUME ForcesAreNumbers
  PROVE  ServerSpec => []CosimTypeOK
<1>1. ServerInit => TypeIInv /\ CommandsIInv
  BY TypeInit, CommandsInitIInv
<1>2. TypeIInv /\ CommandsIInv /\ [ServerNext]_serverVars => TypeIInv' /\ CommandsIInv'
  BY TypeStep, ServerStep
<1>3. TypeIInv => CosimTypeOK
  BY DEF TypeIInv
<1> QED
  BY <1>1, <1>2, <1>3, PTL DEF ServerSpec

-----------------------------------------------------------------------------

(***************************************************************************)
(* The JSON front end serves one message at a time and changes nothing in  *)
(* the requests it reads, whatever the number of its clients.              *)
(***************************************************************************)
Alone ==
  \A c \in Clients : pc[c] # "idle" => \A d \in Clients \ {c} : pc[d] = "idle"

JsonIInv ==
  /\ DOMAIN pc = Clients /\ DOMAIN request = Clients
  /\ request = sent
  /\ Alone
  /\ \A c \in Clients : /\ IsRequest(request[c])
                        /\ pc[c] \notin {"idle", "read"} => DatesInOrder(request[c])

\* No client has a call when the server starts.
LEMMA JsonInit == ServerInit => JsonIInv
<1>1. IsRequest(NoRequest)
  BY EmptySeq DEF IsRequest, NoRequest
<1> QED
  BY <1>1 DEF ServerInit, CosimInit, JsonIInv, Alone

\* A call starts only when there is no other.
LEMMA JsonReceive ==
  ASSUME FrontEnd = "json", JsonIInv, NEW c \in Clients, NEW r \in Requests,
         Receive(c, r) \/ ReceiveForExchange(c, r)
  PROVE  /\ JsonIInv'
         /\ \A d \in Clients : pc[d] = "idle"
         /\ request' = [request EXCEPT ![c] = r]
<1>1. IsRequest(r)
  BY ReadIsRequest DEF ReadRequest
<1>2. /\ \A d \in Clients : pc[d] = "idle"
      /\ request' = [request EXCEPT ![c] = r] /\ sent' = [sent EXCEPT ![c] = r]
  BY DEF Receive, ReceiveForExchange, MayStart, ReadRequest
<1>3. pc' = [pc EXCEPT ![c] = "read"]
  BY DEF Receive, ReceiveForExchange
<1>4. DOMAIN pc' = Clients /\ pc'[c] = "read" /\ \A d \in Clients \ {c} : pc'[d] = "idle"
  BY <1>2, <1>3 DEF JsonIInv
<1>6. Alone'
  BY <1>4 DEF Alone
<1>7. \A d \in Clients : IsRequest(request'[d]) /\ pc'[d] \in {"idle", "read"}
  BY <1>1, <1>2, <1>4 DEF JsonIInv
<1> QED
  BY <1>2, <1>4, <1>6, <1>7 DEF JsonIInv

\* A call that goes on is the only one.
LEMMA JsonOthers ==
  ASSUME JsonIInv, NEW c \in Clients, pc[c] # "idle", NEW place \in Places,
         pc' = [pc EXCEPT ![c] = place]
  PROVE  Alone' /\ \A d \in Clients \ {c} : pc[d] = "idle" /\ pc'[d] = "idle"
<1>1. \A d \in Clients \ {c} : pc[d] = "idle" /\ pc'[d] = "idle"
  BY DEF JsonIInv, Alone
<1> QED
  BY <1>1 DEF Alone, JsonIInv

\* A call that goes on keeps its request, the dates of which were checked.
LEMMA JsonGoOn ==
  ASSUME JsonIInv, NEW c \in Clients, pc[c] # "idle", NEW place \in Places,
         pc' = [pc EXCEPT ![c] = place], request' = request, sent' = sent,
         pc[c] = "read" /\ place # "idle" => DatesInOrder(request[c])
  PROVE  JsonIInv'
<1>1. Alone' /\ \A d \in Clients \ {c} : pc'[d] = "idle"
  BY JsonOthers
<1>2. pc'[c] \notin {"idle", "read"} => DatesInOrder(request[c])
  BY DEF JsonIInv
<1> QED
  BY <1>1, <1>2 DEF JsonIInv

\* The steps of a call of either server go on.
LEMMA WorkGoesOn ==
  ASSUME NEW c \in Clients,
         \/ Work(c)
         \/ AcceptForExchange(c) \/ RefuseForExchange(c)
         \/ SetPast(c) \/ SetExchangeCommands(c) \/ Derive(c)
  PROVE  /\ pc[c] # "idle" /\ request' = request /\ sent' = sent
         /\ \E place \in Places :
              /\ pc' = [pc EXCEPT ![c] = place]
              /\ pc[c] = "read" /\ place # "idle" => DatesInOrder(request[c])
<1>1. CASE ResetHistory(c) \/ SetBodyStates(c) \/ SetCommands(c)
  BY <1>1 DEF ResetHistory, SetBodyStates, SetCommands, Places
<1>2. CASE Observe(c)
  BY <1>2 DEF Observe, Places
<1>3. CASE DoStep(c)
  BY <1>3 DEF DoStep, Places
<1>4. CASE Fail(c) \/ Reply(c)
  BY <1>4 DEF Fail, Reply, Places
<1>5. CASE SetPast(c) \/ SetExchangeCommands(c)
  BY <1>5 DEF SetPast, SetExchangeCommands, Places
<1>6. CASE Derive(c)
  BY <1>6 DEF Derive, Places
<1>7. CASE Accept(c) \/ AcceptForExchange(c)
  BY <1>7 DEF Accept, AcceptForExchange, Valid, Places
<1>8. CASE Refuse(c) \/ RefuseForExchange(c)
  BY <1>8 DEF Refuse, RefuseForExchange, Places
<1> QED
  BY <1>1, <1>2, <1>3, <1>4, <1>5, <1>6, <1>7, <1>8 DEF Work

\* Every step of either server keeps the calls apart.
LEMMA JsonStep ==
  ASSUME FrontEnd = "json", JsonIInv, [ServerNext]_serverVars
  PROVE  JsonIInv'
<1>1. ASSUME NEW c \in Clients,
             \/ Work(c)
             \/ AcceptForExchange(c) \/ RefuseForExchange(c)
             \/ SetPast(c) \/ SetExchangeCommands(c) \/ Derive(c)
      PROVE  JsonIInv'
  BY <1>1, WorkGoesOn, JsonGoOn
<1>2. CASE CosimNext
  BY <1>1, <1>2, JsonReceive DEF CosimNext
<1>3. CASE ExchangeNext
  BY <1>1, <1>3, JsonReceive DEF ExchangeNext
<1>4. CASE UNCHANGED serverVars
  BY <1>4 DEF serverVars, cosimVars, JsonIInv, Alone
<1> QED
  BY <1>2, <1>3, <1>4 DEF ServerNext

-----------------------------------------------------------------------------

(***************************************************************************)
(* Model exchange.  The past the body is given is that of the request      *)
(* without its last point, which the evaluation of the derivative adds:    *)
(* the force then sees the whole of it, however many calls, refused ones   *)
(* too, came before.                                                       *)
(***************************************************************************)
DerivativeOfRequest(c) ==
  answer[c].kind # "none" =>
    LET r == request[c]
        past == IF r.states = <<>> THEN Recorded(NewHistory(Tmax), 0, 0)
                                   ELSE FullHistory(r.states)
    IN  IF DatesInOrder(r) /\ \A n \in Names : basis[c].commands[n] # Unset
          THEN /\ answer[c].kind = "ok"
               /\ answer[c].dx = Effort(StateAtT(r), Memory(past), basis[c].commands)
          ELSE answer[c].kind = "error"

DerivativeIInv(c) ==
  /\ pc[c] \in {"commands", "solve"} => hist = HistoryExceptLast(request[c].states)
  /\ pc[c] = "solve" => basis[c].commands = commands
  /\ pc[c] = "idle" => DerivativeOfRequest(c)

ExchangeIInv ==
  /\ service \in {"cs", "me"}
  /\ DOMAIN basis = Clients /\ DOMAIN answer = Clients
  /\ service = "cs" => \A c \in Clients : answer[c].kind = "none"
  /\ service = "me" => \A c \in Clients : DerivativeIInv(c)

\* Recording the last point of a request gives its whole past.
LEMMA LastPointCompletes ==
  ASSUME NEW r, IsRequest(r), DatesInOrder(r)
  PROVE  LET before == HistoryExceptLast(r.states)
         IN  /\ InOrder(before, StartDate(r))
             /\ Recorded(before, StartDate(r), StateAtT(r)) =
                  IF r.states = <<>> THEN Recorded(NewHistory(Tmax), 0, 0)
                                     ELSE FullHistory(r.states)
<1>1. CASE r.states = <<>>
  <2>1. NewHistory(Tmax).L = <<>>
    BY DEF NewHistory
  <2> QED
    BY <1>1, <2>1 DEF HistoryExceptLast, StartDate, StateAtT, InOrder
<1>2. CASE r.states # <<>>
  <2> DEFINE n == Len(r.states)
  <2>1. n \in Nat /\ n \in 1 .. n /\ DOMAIN r.states = 1 .. n
    BY <1>2, StatesType, LenProperties DEF IsRequest
  <2>2. StartDate(r) = r.states[n].t /\ StateAtT(r) = r.states[n].v
    BY <1>2 DEF StartDate, StateAtT
  <2>3. HistoryExceptLast(r.states) = HistoriesOf(r.states)[n - 1]
    BY <1>2 DEF HistoryExceptLast
  <2>4. InOrder(HistoriesOf(r.states)[n - 1], r.states[n].t)
    BY <2>1 DEF DatesInOrder
  <2>5. HistoriesOf(r.states)[n] =
          Recorded(HistoriesOf(r.states)[n - 1], r.states[n].t, r.states[n].v)
    BY <2>1, HistoriesOfStep
  <2> QED
    BY <1>2, <2>2, <2>3, <2>4, <2>5 DEF FullHistory
<1> QED
  BY <1>1, <1>2

\* A call that goes on leaves the answers to the other clients as they are.
LEMMA OtherAnswers ==
  ASSUME JsonIInv, ExchangeIInv, service = "me", service' = service,
         NEW c \in Clients, pc[c] # "idle", NEW place \in Places,
         pc' = [pc EXCEPT ![c] = place], request' = request, sent' = sent,
         DOMAIN basis' = Clients, DOMAIN answer' = Clients,
         \A d \in Clients \ {c} : basis'[d] = basis[d] /\ answer'[d] = answer[d],
         DerivativeIInv(c)'
  PROVE  ExchangeIInv'
<1>1. ASSUME NEW d \in Clients \ {c}
      PROVE  DerivativeIInv(d)'
  <2>1. pc[d] = "idle" /\ pc'[d] = "idle"
    BY JsonOthers
  <2>2. DerivativeOfRequest(d)
    BY <2>1 DEF ExchangeIInv, DerivativeIInv
  <2>3. DerivativeOfRequest(d)'
    BY <2>2 DEF DerivativeOfRequest
  <2> QED
    BY <2>1, <2>3 DEF DerivativeIInv
<1> QED
  BY <1>1 DEF ExchangeIInv

\* Every step of either server keeps what is said of the derivatives.
LEMMA ExchangeIInvStep ==
  ASSUME FrontEnd = "json", JsonIInv, ExchangeIInv, [ServerNext]_serverVars
  PROVE  ExchangeIInv'
<1>1. CASE service = "cs" /\ CosimNext /\ UNCHANGED <<service, answer>>
  <2>1. DOMAIN basis' = Clients
    BY <1>1 DEF CosimNext, Work, Receive, Accept, Refuse, ResetHistory, SetBodyStates, SetCommands,
       Observe, DoStep, Fail, Reply, ExchangeIInv
  <2> QED
    BY <1>1, <2>1 DEF ExchangeIInv
<1>2. ASSUME service = "me", NEW c \in Clients, NEW r \in Requests, ReceiveForExchange(c, r)
      PROVE  ExchangeIInv'
  <2>1. /\ \A d \in Clients : pc[d] = "idle"
        /\ request' = [request EXCEPT ![c] = r] /\ DOMAIN request = Clients
        /\ DOMAIN pc = Clients
    BY <1>2, JsonReceive DEF JsonIInv
  <2>2. /\ pc' = [pc EXCEPT ![c] = "read"]
        /\ answer' = [answer EXCEPT ![c] = NoAnswer]
        /\ UNCHANGED <<basis, service>>
    BY <1>2 DEF ReceiveForExchange
  <2>3. ASSUME NEW d \in Clients \ {c}
        PROVE  DerivativeIInv(d)'
    <3>1. DerivativeOfRequest(d)
      BY <1>2, <2>1 DEF ExchangeIInv, DerivativeIInv
    <3>2. /\ request'[d] = request[d] /\ answer'[d] = answer[d] /\ basis'[d] = basis[d]
          /\ pc'[d] = "idle"
      BY <2>1, <2>2 DEF ExchangeIInv
    <3>3. DerivativeOfRequest(d)'
      BY <3>1, <3>2 DEF DerivativeOfRequest
    <3> QED
      BY <3>2, <3>3 DEF DerivativeIInv
  <2>4. DerivativeIInv(c)'
    BY <2>1, <2>2 DEF DerivativeIInv
  <2> QED
    BY <1>2, <2>2, <2>3, <2>4 DEF ExchangeIInv
<1>7. ASSUME service = "me", NEW c \in Clients, AcceptForExchange(c)
      PROVE  ExchangeIInv'
  <2>1. /\ pc[c] # "idle" /\ pc' = [pc EXCEPT ![c] = "states"]
        /\ UNCHANGED <<request, sent, basis, answer, service>>
    BY <1>7 DEF AcceptForExchange
  <2>2. DerivativeIInv(c)'
    BY <2>1 DEF DerivativeIInv, JsonIInv
  <2> QED
    BY <1>7, <2>1, <2>2, OtherAnswers DEF Places, ExchangeIInv
<1>8. ASSUME service = "me", NEW c \in Clients, RefuseForExchange(c)
      PROVE  ExchangeIInv'
  <2>1. /\ pc[c] # "idle" /\ pc' = [pc EXCEPT ![c] = "idle"]
        /\ answer' = [answer EXCEPT ![c] = ErrorAnswer]
        /\ ~ DatesInOrder(request[c])
        /\ UNCHANGED <<request, sent, basis, service>>
    BY <1>8 DEF RefuseForExchange
  <2>2. answer'[c].kind = "error" /\ pc'[c] = "idle"
    BY <2>1 DEF ErrorAnswer, ExchangeIInv, JsonIInv
  <2>3. DerivativeIInv(c)'
    BY <2>1, <2>2 DEF DerivativeIInv, DerivativeOfRequest
  <2> QED
    BY <1>8, <2>1, <2>3, OtherAnswers DEF Places, ExchangeIInv
<1>3. ASSUME service = "me", NEW c \in Clients, SetPast(c)
      PROVE  ExchangeIInv'
  <2>1. /\ pc[c] # "idle" /\ pc' = [pc EXCEPT ![c] = "commands"]
        /\ hist' = HistoryExceptLast(request[c].states)
        /\ UNCHANGED <<request, sent, basis, answer, service>>
    BY <1>3 DEF SetPast
  <2>2. DerivativeIInv(c)'
    BY <2>1 DEF DerivativeIInv, JsonIInv
  <2> QED
    BY <1>3, <2>1, <2>2, OtherAnswers DEF Places, ExchangeIInv
<1>4. ASSUME service = "me", NEW c \in Clients, SetExchangeCommands(c)
      PROVE  ExchangeIInv'
  <2>1. /\ pc[c] = "commands" /\ pc' = [pc EXCEPT ![c] = "solve"]
        /\ basis' = [basis EXCEPT ![c] = [state |-> state, commands |-> commands']]
        /\ UNCHANGED <<hist, request, sent, answer, service>>
    BY <1>4 DEF SetExchangeCommands
  <2>2. DerivativeIInv(c)'
    BY <1>4, <2>1 DEF DerivativeIInv, JsonIInv, ExchangeIInv
  <2> QED
    BY <1>4, <2>1, <2>2, OtherAnswers DEF Places, ExchangeIInv
<1>5. ASSUME service = "me", NEW c \in Clients, Derive(c)
      PROVE  ExchangeIInv'
  <2> DEFINE r == request[c]
             past == IF r.states = <<>> THEN Recorded(NewHistory(Tmax), 0, 0)
                                        ELSE FullHistory(r.states)
             dx == Effort(StateAtT(r), Memory(past), commands)
             set == \A n \in Names : commands[n] # Unset
  <2>1. pc[c] = "solve" /\ IsRequest(r) /\ DatesInOrder(r)
    BY <1>5 DEF Derive, JsonIInv
  <2>2. hist = HistoryExceptLast(r.states) /\ basis[c].commands = commands
    BY <1>5, <2>1 DEF ExchangeIInv, DerivativeIInv
  <2>3. InOrder(hist, StartDate(r)) /\ Recorded(hist, StartDate(r), StateAtT(r)) = past
    BY <2>1, <2>2, LastPointCompletes
  <2>4. /\ pc' = [pc EXCEPT ![c] = "idle"]
        /\ answer' = [answer EXCEPT ![c] =
                        IF set THEN [kind |-> "ok", dx |-> dx] ELSE ErrorAnswer]
        /\ UNCHANGED <<request, sent, basis, service, commands>>
    <3> HIDE DEF past
    <3> QED
      BY <1>5, <2>3 DEF Derive, AllCommandsSet
  <2> HIDE DEF dx, set
  <2>5. IF set THEN answer'[c].kind = "ok" /\ answer'[c].dx = dx
               ELSE answer'[c].kind = "error"
    BY <2>4 DEF ExchangeIInv, ErrorAnswer
  <2>6. DerivativeOfRequest(c)'
    <3>1. request'[c] = r /\ basis'[c].commands = commands
      BY <2>2, <2>4
    <3> QED
      BY <2>1, <2>5, <3>1 DEF DerivativeOfRequest, dx, set
  <2>7. DerivativeIInv(c)' /\ pc[c] # "idle"
    BY <2>1, <2>4, <2>6 DEF DerivativeIInv, JsonIInv
  <2> QED
    BY <1>5, <2>4, <2>7, OtherAnswers DEF Places, ExchangeIInv
<1>6. CASE UNCHANGED serverVars
  BY <1>6 DEF serverVars, cosimVars, simulator, ExchangeIInv, DerivativeIInv, DerivativeOfRequest
<1> QED
  BY <1>1, <1>2, <1>3, <1>4, <1>5, <1>6, <1>7, <1>8 DEF ServerNext, ExchangeNext

\* With the JSON front end, and any number of clients, the derivative a client
\* is sent depends on its request and on the commands in force only.
THEOREM DerivativeAlwaysOfRequest ==
  ASSUME FrontEnd = "json"
  PROVE  ServerSpec => []DerivativeIsOfRequest
<1>1. ServerInit => JsonIInv /\ ExchangeIInv
  <2>1. ServerInit => ExchangeIInv
    BY ExchangeAssumption DEF ServerInit, CosimInit, NoAnswer, ExchangeIInv,
       DerivativeIInv, DerivativeOfRequest
  <2> QED
    BY <2>1, JsonInit
<1>2. JsonIInv /\ ExchangeIInv /\ [ServerNext]_serverVars => JsonIInv' /\ ExchangeIInv'
  BY JsonStep, ExchangeIInvStep
<1>3. ExchangeIInv => DerivativeIsOfRequest
  <2> SUFFICES ASSUME ExchangeIInv, NEW c \in Clients, pc[c] = "idle"
               PROVE  DerivativeOfRequest(c)
    BY DEF DerivativeIsOfRequest, DerivativeOfRequest
  <2> QED
    BY DEF ExchangeIInv, DerivativeIInv, DerivativeOfRequest
<1> QED
  BY <1>1, <1>2, <1>3, PTL DEF ServerSpec

-----------------------------------------------------------------------------

\* Forgetting the first effort of a list of rows, or of a longer one.
LEMMA ForgetAppend ==
  ASSUME NEW s \in Seq(Row), s # <<>>, NEW row \in Row
  PROVE  ForgetFirstEffort(Append(s, row)) = Append(ForgetFirstEffort(s), row)
<1> DEFINE n == Len(s)
           first == [s[1] EXCEPT !.effort = NoEffort]
           longer == Append(s, row)
           forgot == [s EXCEPT ![1] = first]
<1>1. n \in Nat \ {0} /\ 1 \in 1 .. n
  BY EmptySeq
<1>2. first \in Row
  <2>1. s[1] \in Row
    BY <1>1, ElementOfSeq
  <2>2. \A x \in Row : [x EXCEPT !.effort = NoEffort] \in Row
    BY DEF Row
  <2> QED
    BY <2>1, <2>2
<1>3. /\ longer \in Seq(Row) /\ Len(longer) = n + 1
      /\ \A i \in 1 .. n : longer[i] = s[i]
      /\ longer[n + 1] = row
  BY <1>1, AppendProperties
<1>4. /\ forgot \in Seq(Row) /\ Len(forgot) = n
      /\ \A i \in 1 .. n : forgot[i] = IF i = 1 THEN first ELSE s[i]
  <2> HIDE DEF first
  <2> QED
    BY <1>1, <1>2, ExceptSeq
<1>5. ForgetFirstEffort(longer) = [longer EXCEPT ![1] = first]
  BY <1>1, <1>3 DEF ForgetFirstEffort
<1>6. /\ [longer EXCEPT ![1] = first] \in Seq(Row)
      /\ Len([longer EXCEPT ![1] = first]) = n + 1
      /\ \A i \in 1 .. n + 1 :
           [longer EXCEPT ![1] = first][i] = IF i = 1 THEN first ELSE longer[i]
  <2> HIDE DEF first, longer
  <2>1. 1 \in 1 .. Len(longer)
    BY <1>1, <1>3
  <2> QED
    BY <1>2, <1>3, <2>1, ExceptSeq
<1>7. /\ Append(forgot, row) \in Seq(Row) /\ Len(Append(forgot, row)) = n + 1
      /\ \A i \in 1 .. n : Append(forgot, row)[i] = forgot[i]
      /\ Append(forgot, row)[n + 1] = row
  <2> HIDE DEF forgot
  <2> QED
    BY <1>1, <1>4, AppendProperties
<1>8. [longer EXCEPT ![1] = first] = Append(forgot, row)
  <2> DEFINE a == [longer EXCEPT ![1] = first]
             b == Append(forgot, row)
  <2>1. \A i \in 1 .. n + 1 : a[i] = b[i]
    <3> HIDE DEF forgot, longer, first
    <3> SUFFICES ASSUME NEW i \in 1 .. n + 1
                 PROVE  a[i] = b[i]
      OBVIOUS
    <3>1. i \in 1 .. n \/ i = n + 1
      BY <1>1
    <3> QED
      BY <1>1, <1>3, <1>4, <1>6, <1>7, <3>1
  <2> HIDE DEF a, b, n
  <2>2. a \in Seq(Row) /\ b \in Seq(Row) /\ Len(a) = n + 1 /\ Len(b) = n + 1
    BY <1>6, <1>7 DEF a, b
  <2>3. a = b
    BY <2>1, <2>2, SeqEqual
  <2> QED
    BY <2>3 DEF a, b
<1>9. ForgetFirstEffort(s) = forgot
  BY DEF ForgetFirstEffort
<1> QED
  BY <1>5, <1>8, <1>9

\* Before any row was kept, the first one loses its effort only.
LEMMA ForgetFirst ==
  ASSUME NEW t, NEW v, NEW force
  PROVE  ForgetFirstEffort(Append(<<>>, [t |-> t, v |-> v, effort |-> force]))
           = <<[t |-> t, v |-> v, effort |-> NoEffort]>>
BY DEF ForgetFirstEffort

\* A run tells of each step whether it went well.
LEMMA RunShape ==
  ASSUME NEW r, NEW b, r.steps \in Nat
  PROVE  \A k \in 0 .. r.steps : "ok" \in DOMAIN FreshRuns(r, b)[k]
<1> DEFINE n == r.steps
           run(k) == FreshRuns(r, b)[k]
           S == {k \in 0 .. n : "ok" \in DOMAIN run(k)}
<1>1. run(0) = FreshStart(r, b) /\ \A k \in 1 .. n : run(k) = FreshStep(r, b, run(k - 1), k)
  BY FreshRunsStep
<1> HIDE DEF run
<1>2. 0 \in S
  BY <1>1 DEF FreshStart
<1>3. ASSUME NEW k \in 0 .. n - 1, k \in S
      PROVE  k + 1 \in S
  <2>1. k + 1 \in 1 .. n /\ (k + 1) - 1 = k /\ k + 1 \in 0 .. n
    OBVIOUS
  <2>2. run(k + 1) = FreshStep(r, b, run(k), k + 1)
    BY <1>1, <2>1
  <2>3. "ok" \in DOMAIN run(k + 1)
    BY <1>3, <2>2 DEF FreshStep
  <2> QED
    BY <2>1, <2>3
<1>4. \A k \in 0 .. n : k \in S
  <2> HIDE DEF S
  <2> QED
    BY <1>2, <1>3, IntervalInduction
<1> QED
  BY <1>4 DEF run

\* A run that was stopped, by a NaN or for want of a command, stays stopped.
LEMMA StoppedForGood ==
  ASSUME NEW r, NEW b, r.steps \in Nat, NEW k0 \in 0 .. r.steps,
         ~ FreshRuns(r, b)[k0].ok
  PROVE  ~ FreshRuns(r, b)[r.steps].ok
<1> DEFINE n == r.steps
           run(k) == FreshRuns(r, b)[k]
           Stopped(k) == k >= k0 => ~ run(k).ok
           S == {k \in 0 .. n : Stopped(k)}
<1>1. run(0) = FreshStart(r, b) /\ \A k \in 1 .. n : run(k) = FreshStep(r, b, run(k - 1), k)
  BY FreshRunsStep
<1>2. ~ run(k0).ok /\ \A k \in 0 .. n : "ok" \in DOMAIN run(k)
  BY RunShape
<1> HIDE DEF run
<1>3. 0 \in S
  <2>1. 0 >= k0 => k0 = 0
    OBVIOUS
  <2>2. Stopped(0)
    BY <1>2, <2>1
  <2> HIDE DEF Stopped
  <2> QED
    BY <2>2
<1>4. ASSUME NEW k \in 0 .. n - 1, k \in S
      PROVE  k + 1 \in S
  <2>1. k + 1 \in 1 .. n /\ (k + 1) - 1 = k /\ n \in Nat
    OBVIOUS
  <2>2. run(k + 1) = FreshStep(r, b, run(k), k + 1)
    BY <1>1, <2>1
  <2>3. "ok" \in DOMAIN run(k) /\ (k >= k0 => ~ run(k).ok)
    BY <1>2, <1>4
  <2>4. ~ run(k).ok => ~ run(k + 1).ok
    BY <2>2, <2>3 DEF FreshStep
  <2>5. Stopped(k + 1)
    <3>1. CASE k >= k0
      BY <2>3, <2>4, <3>1
    <3>2. CASE k + 1 = k0
      BY <1>2, <2>4, <3>2
    <3>3. CASE k + 1 < k0
      BY <2>1, <2>4, <3>3
    <3> QED
      BY <2>1, <3>1, <3>2, <3>3
  <2> HIDE DEF Stopped
  <2> QED
    BY <2>1, <2>5
<1>5. \A k \in 0 .. n : k \in S
  <2> HIDE DEF S
  <2> QED
    BY <1>3, <1>4, IntervalInduction
<1>6. n >= k0 /\ n \in 0 .. n
  OBVIOUS
<1>7. ~ run(n).ok
  BY <1>5, <1>6
<1> QED
  BY <1>7 DEF run
-----------------------------------------------------------------------------

(***************************************************************************)
(* Co-simulation.  The inductive invariant follows the run the request     *)
(* would make in a server that was just started: what the call has done so *)
(* far is what that run has done after as many steps.  The rows kept are   *)
(* those of that run, but for the effort of the first; before a row is     *)
(* observed, this is said of the row that is going to be.                  *)
(***************************************************************************)
ReplyOfRequest(c) ==
  reply[c].kind # "none" =>
    LET fresh == FreshRun(request[c], basis[c])
    IN  IF Valid(request[c]) /\ fresh.ok
          THEN reply[c].kind = "ok" /\ ForgetFirstEffort(reply[c].rows) = fresh.rows
          ELSE reply[c].kind = "error"

FirstState(r, v) == r.states # <<>> => v = r.states[Len(r.states)].v

Given(c) ==
  LET r == request[c]
  IN  hist = FullHistory(r.states) /\ FirstState(r, state)

StartsWith(r, shown) ==
  r.states # <<>> => /\ shown[1].t = r.states[Len(r.states)].t
                     /\ shown[1].v = r.states[Len(r.states)].v

FirstOfReply(c) == reply[c].kind = "ok" => StartsWith(request[c], reply[c].rows)

RowsOf(c) ==
  IF pc[c] = "observe"
    THEN Append(rows[c], [t |-> DateOf(c), v |-> state, effort |-> effort])
    ELSE rows[c]

Follows(c) ==
  LET now == FreshRuns(request[c], basis[c])[step[c]]
  IN  /\ step[c] \in 0 .. request[c].steps
      /\ basis[c].commands = commands
      /\ now.ok /\ now.past = hist /\ now.v = state
      /\ EndsBy(hist, DateOf(c))
      /\ ForgetFirstEffort(RowsOf(c)) = now.rows
      /\ StartsWith(request[c], RowsOf(c))
      /\ pc[c] = "solve" => step[c] # request[c].steps /\ rows[c] # <<>>
      /\ pc[c] = "reply" => step[c] = request[c].steps

CallIInv(c) ==
  /\ pc[c] \notin {"idle", "read"} => Valid(request[c])
  /\ pc[c] = "commands" => Given(c)
  /\ pc[c] \in {"observe", "solve", "reply"} => Follows(c)
  /\ pc[c] = "idle" => ReplyOfRequest(c) /\ FirstOfReply(c)

RunIInv ==
  /\ service \in {"cs", "me"}
  /\ DOMAIN basis = Clients
  /\ service = "cs" => \A c \in Clients : CallIInv(c)
  /\ service = "me" => \A c \in Clients : reply[c].kind = "none"

\* Where a run stands.
LEMMA RunOfCall ==
  ASSUME JsonIInv, RunIInv, service = "cs", NEW c \in Clients,
         pc[c] \in {"observe", "solve", "reply"}
  PROVE  Valid(request[c]) /\ Follows(c) /\ IsRequest(request[c]) /\ request[c].steps \in Nat
<1>1. Valid(request[c]) /\ Follows(c)
  BY DEF RunIInv, CallIInv
<1>2. IsRequest(request[c])
  BY DEF JsonIInv
<1> QED
  BY <1>1, <1>2 DEF Valid, IsRequest

\* The other clients keep the replies they were sent.
LEMMA OtherReplies ==
  ASSUME JsonIInv, RunIInv, service = "cs", service' = service,
         NEW c \in Clients, pc[c] # "idle", NEW place \in Places,
         pc' = [pc EXCEPT ![c] = place], request' = request, sent' = sent,
         DOMAIN basis' = Clients,
         \A d \in Clients \ {c} : basis'[d] = basis[d] /\ reply'[d] = reply[d],
         CallIInv(c)'
  PROVE  RunIInv'
<1>1. ASSUME NEW d \in Clients \ {c}
      PROVE  CallIInv(d)'
  <2>1. pc[d] = "idle" /\ pc'[d] = "idle"
    BY JsonOthers
  <2>2. ReplyOfRequest(d) /\ FirstOfReply(d)
    BY <2>1 DEF RunIInv, CallIInv
  <2>3. ReplyOfRequest(d)' /\ FirstOfReply(d)'
    BY <2>2 DEF ReplyOfRequest, FirstOfReply
  <2> QED
    BY <2>1, <2>3 DEF CallIInv
<1> QED
  BY <1>1 DEF RunIInv

\* A message is read, and nothing is said of it yet.
LEMMA RunReceive ==
  ASSUME FrontEnd = "json", JsonIInv, RunIInv, DOMAIN reply = Clients, service = "cs",
         NEW c \in Clients, NEW r \in Requests, Receive(c, r), service' = service
  PROVE  RunIInv'
<1>1. /\ \A d \in Clients : pc[d] = "idle"
      /\ request' = [request EXCEPT ![c] = r] /\ DOMAIN request = Clients
      /\ DOMAIN pc = Clients
  BY JsonReceive DEF JsonIInv
<1>2. /\ basis' = basis
      /\ pc' = [pc EXCEPT ![c] = "read"]
      /\ reply' = [reply EXCEPT ![c] = NoReply]
  BY DEF Receive
<1>3. ASSUME NEW d \in Clients \ {c}
      PROVE  CallIInv(d)'
  <2>1. ReplyOfRequest(d) /\ FirstOfReply(d)
    BY <1>1 DEF RunIInv, CallIInv
  <2>2. /\ request'[d] = request[d] /\ reply'[d] = reply[d] /\ basis'[d] = basis[d]
        /\ pc'[d] = "idle"
    BY <1>1, <1>2
  <2>3. ReplyOfRequest(d)' /\ FirstOfReply(d)'
    BY <2>1, <2>2 DEF ReplyOfRequest, FirstOfReply
  <2> QED
    BY <2>2, <2>3 DEF CallIInv
<1>4. CallIInv(c)'
  BY <1>1, <1>2 DEF CallIInv
<1> QED
  BY <1>2, <1>3, <1>4 DEF RunIInv

\* A request that is refused is answered by an error.
LEMMA RunCheck ==
  ASSUME JsonIInv, RunIInv, DOMAIN reply = Clients, service = "cs", service' = service,
         NEW c \in Clients, Accept(c) \/ Refuse(c)
  PROVE  RunIInv'
<1>1. /\ pc[c] # "idle" /\ DOMAIN pc = Clients
      /\ UNCHANGED <<request, sent, basis>>
  BY DEF Accept, Refuse, JsonIInv
<1>2. CASE Accept(c)
  <2>1. pc' = [pc EXCEPT ![c] = "reset"] /\ reply' = reply /\ Valid(request[c])
    BY <1>2 DEF Accept
  <2>2. CallIInv(c)'
    BY <1>1, <2>1 DEF CallIInv, Valid
  <2> QED
    BY <1>1, <2>1, <2>2, OtherReplies DEF Places, RunIInv
<1>3. CASE Refuse(c)
  <2>1. /\ pc' = [pc EXCEPT ![c] = "idle"] /\ reply' = [reply EXCEPT ![c] = ErrorReply]
        /\ ~ Valid(request[c])
    BY <1>3 DEF Refuse
  <2>2. pc'[c] = "idle" /\ reply'[c].kind = "error"
    BY <1>1, <2>1 DEF ErrorReply
  <2>3. CallIInv(c)'
    BY <1>1, <2>1, <2>2 DEF CallIInv, ReplyOfRequest, FirstOfReply
  <2> QED
    BY <1>1, <2>1, <2>3, OtherReplies DEF Places, RunIInv
<1> QED
  BY <1>2, <1>3

\* The body is given the states of the request.
LEMMA RunSetStates ==
  ASSUME JsonIInv, TypeIInv, RunIInv, service = "cs", service' = service, NEW c \in Clients,
         ResetHistory(c) \/ SetBodyStates(c)
  PROVE  RunIInv'
<1> DEFINE r == request[c]
           past == FullHistory(r.states)
<1>1. /\ pc[c] # "idle" /\ Valid(r) /\ IsRequest(r) /\ DOMAIN pc = Clients
      /\ UNCHANGED <<request, sent, basis, reply>>
  BY DEF ResetHistory, SetBodyStates, RunIInv, CallIInv, JsonIInv
<1>2. CASE ResetHistory(c)
  <2>1. pc' = [pc EXCEPT ![c] = "states"]
    BY <1>2 DEF ResetHistory
  <2>2. CallIInv(c)'
    BY <1>1, <2>1 DEF CallIInv, Valid
  <2> QED
    BY <1>1, <2>1, <2>2, OtherReplies DEF Places, RunIInv
<1>3. CASE SetBodyStates(c)
  <2>1. /\ pc' = [pc EXCEPT ![c] = "commands"] /\ hist' = past
        /\ state' = IF past.L = <<>> THEN state ELSE LastOf(past.L).v
    BY <1>3 DEF SetBodyStates
  <2>2. FirstState(r, state')
    <3> SUFFICES ASSUME r.states # <<>>
                 PROVE  state' = r.states[Len(r.states)].v
      BY DEF FirstState
    <3>1. Len(r.states) \in 0 .. Len(r.states) /\ Len(r.states) > 0
      BY <1>1, StatesType
    <3>2. past.L # <<>> /\ LastOf(past.L).v = r.states[Len(r.states)].v
      BY <1>1, <3>1, PastsOfRequest DEF Valid, FullHistory
    <3> QED
      BY <2>1, <3>2
  <2>3. CallIInv(c)'
    BY <1>1, <2>1, <2>2 DEF CallIInv, Given
  <2> QED
    BY <1>1, <2>1, <2>3, OtherReplies DEF Places, RunIInv
<1> QED
  BY <1>2, <1>3

\* The commands are set and the run starts.
LEMMA RunSetCommands ==
  ASSUME JsonIInv, TypeIInv, RunIInv, service = "cs", service' = service, NEW c \in Clients,
         SetCommands(c)
  PROVE  RunIInv'
<1> DEFINE r == request[c]
           b == [state |-> state, commands |-> commands']
           first == [t |-> StartDate(r), v |-> state, effort |-> effort]
<1>1. /\ pc[c] = "commands" /\ pc' = [pc EXCEPT ![c] = "observe"]
      /\ basis' = [basis EXCEPT ![c] = b] /\ step' = [step EXCEPT ![c] = 0]
      /\ rows' = [rows EXCEPT ![c] = <<>>]
      /\ UNCHANGED <<state, hist, effort, request, sent, reply>>
  BY DEF SetCommands
<1>2. /\ DOMAIN pc = Clients /\ DOMAIN step = Clients /\ DOMAIN rows = Clients
      /\ DOMAIN basis = Clients
  BY DEF RunIInv, TypeIInv, CosimTypeOK
<1>3. /\ Valid(r) /\ IsRequest(r) /\ r.steps \in Nat
      /\ hist = FullHistory(r.states) /\ FirstState(r, state)
  <2>1. Valid(r) /\ Given(c)
    BY <1>1 DEF RunIInv, CallIInv
  <2>2. IsRequest(r)
    BY DEF JsonIInv
  <2> QED
    BY <2>1, <2>2 DEF Given, Valid, IsRequest
<1>4. StartDate(r) \in Int /\ StartDate(r) + 0 * Dt = StartDate(r)
  BY <1>3, DateType, CosimAssumption
<1>5. DateOf(c)' = StartDate(r)
  BY <1>1, <1>2, <1>4 DEF DateOf
<1>6. FreshRuns(r, b)[0] = FreshStart(r, b)
  BY <1>3, FreshRunsStep
<1>7. FreshStart(r, b) = [ok |-> TRUE, past |-> hist, v |-> state,
                          rows |-> << [t |-> StartDate(r), v |-> state, effort |-> NoEffort] >>]
  BY <1>3, <1>4 DEF FreshStart, Shown, FirstState
<1>8. EndsBy(hist, StartDate(r))
  <2>1. Len(r.states) \in 0 .. Len(r.states)
    BY <1>3, StatesType
  <2>2. /\ Len(r.states) = 0 => hist.L = <<>>
        /\ Len(r.states) > 0 => EndsBy(hist, r.states[Len(r.states)].t)
    BY <1>3, <2>1, PastsOfRequest DEF Valid, FullHistory
  <2> QED
    BY <1>3, <2>1, <2>2, StatesType DEF StartDate, EndsBy
<1>9. ForgetFirstEffort(Append(<<>>, first))
        = << [t |-> StartDate(r), v |-> state, effort |-> NoEffort] >>
  BY ForgetFirst
<1>10. /\ request'[c] = r /\ basis'[c] = b /\ step'[c] = 0 /\ rows'[c] = <<>>
       /\ pc'[c] = "observe"
  BY <1>1, <1>2
<1>11. Follows(c)'
  <2> DEFINE now == FreshRuns(r, b)[0]
  <2>1. /\ now.ok /\ now.past = hist /\ now.v = state
        /\ ForgetFirstEffort(Append(<<>>, first)) = now.rows
    BY <1>6, <1>7, <1>9
  <2>2. StartsWith(r, Append(<<>>, first))
    BY <1>3 DEF StartsWith, StartDate, FirstState
  <2>3. 0 \in 0 .. r.steps /\ b.commands = commands'
    BY <1>3
  <2>4. RowsOf(c)' = Append(<<>>, first)
    BY <1>1, <1>5, <1>10 DEF RowsOf
  <2> HIDE DEF now, b, r, first
  <2> QED
    BY <1>1, <1>5, <1>8, <1>10, <2>1, <2>2, <2>3, <2>4 DEF Follows, now
<1>12. CallIInv(c)'
  BY <1>3, <1>10, <1>11 DEF CallIInv
<1> HIDE DEF b
<1> QED
  BY <1>1, <1>2, <1>12, OtherReplies DEF Places

\* A row is kept.
LEMMA RunObserve ==
  ASSUME JsonIInv, TypeIInv, RunIInv, service = "cs", service' = service, NEW c \in Clients,
         Observe(c)
  PROVE  RunIInv'
<1> DEFINE r == request[c]
           row == [t |-> DateOf(c), v |-> state, effort |-> effort]
           now == FreshRuns(r, basis[c])[step[c]]
           place == IF step[c] = r.steps THEN "reply" ELSE "solve"
<1>1. /\ pc[c] = "observe" /\ pc' = [pc EXCEPT ![c] = place]
      /\ rows' = [rows EXCEPT ![c] = Append(rows[c], row)]
      /\ UNCHANGED <<state, hist, commands, effort, request, sent, step, reply, basis>>
  BY DEF Observe, simulator
<1>2. DOMAIN pc = Clients /\ DOMAIN rows = Clients /\ DOMAIN basis = Clients
  BY DEF RunIInv, TypeIInv, CosimTypeOK
<1>3. Valid(r) /\ Follows(c)
  BY <1>1, RunOfCall
<1>4. /\ pc'[c] = place /\ rows'[c] = Append(rows[c], row) /\ DateOf(c)' = DateOf(c)
      /\ rows'[c] # <<>>
  <2>1. rows[c] \in Seq(Row)
    BY DEF TypeIInv, CosimTypeOK
  <2>2. Len(rows[c]) \in Nat /\ Append(rows[c], row) # <<>>
    <3> HIDE DEF row
    <3>1. Len(rows[c]) \in Nat /\ Len(Append(rows[c], row)) = Len(rows[c]) + 1
      BY <2>1, LenProperties
    <3>2. Len(Append(rows[c], row)) # 0 /\ Len(<<>>) = 0
      BY <3>1
    <3> QED
      BY <3>1, <3>2, Zenon
  <2> HIDE DEF row, place
  <2> QED
    BY <1>1, <1>2, <2>2 DEF DateOf
<1>5. RowsOf(c)' = RowsOf(c)
  BY <1>1, <1>4 DEF RowsOf
<1>6. Follows(c)'
  <2>1. /\ ForgetFirstEffort(RowsOf(c)) = now.rows /\ StartsWith(r, RowsOf(c))
        /\ step[c] \in 0 .. r.steps /\ basis[c].commands = commands
        /\ now.ok /\ now.past = hist /\ now.v = state /\ EndsBy(hist, DateOf(c))
    BY <1>3 DEF Follows
  <2>2. FreshRuns(request[c], basis[c])[step[c]]' = now
    BY <1>1
  <2> HIDE DEF row, now
  <2> QED
    BY <1>1, <1>4, <1>5, <2>1, <2>2 DEF Follows
<1>7. CallIInv(c)'
  BY <1>1, <1>3, <1>4, <1>6 DEF CallIInv
<1> HIDE DEF row
<1> QED
  BY <1>1, <1>2, <1>7, OtherReplies DEF Places

\* One more step of the run.
LEMMA RunDoStep ==
  ASSUME JsonIInv, TypeIInv, TypeIInv', RunIInv, service = "cs", service' = service,
         NEW c \in Clients, DoStep(c)
  PROVE  RunIInv'
<1> DEFINE r == request[c]
           b == basis[c]
           k == step[c]
           t == DateOf(c)
           past == Recorded(hist, t, state)
           force == Effort(state, Memory(past), commands)
           next == Integrated(state, force)
           now == FreshRuns(r, b)[k]
           row == Shown(r, k + 1, next, force)
<1>1. /\ pc[c] = "solve" /\ pc' = [pc EXCEPT ![c] = "observe"]
      /\ state # NaN /\ InOrder(hist, t) /\ \A n \in Names : commands[n] # Unset
      /\ hist' = past /\ effort' = force /\ state' = next
      /\ step' = [step EXCEPT ![c] = k + 1]
      /\ UNCHANGED <<commands, request, sent, rows, reply, basis>>
  BY DEF DoStep, Recordable, AllCommandsSet
<1>2. DOMAIN pc = Clients /\ DOMAIN step = Clients /\ DOMAIN basis = Clients
  BY DEF RunIInv, TypeIInv, CosimTypeOK
<1>3. Valid(r) /\ Follows(c) /\ IsRequest(r) /\ r.steps \in Nat
  BY <1>1, RunOfCall
<1>4. /\ k \in 0 .. r.steps /\ k # r.steps /\ k + 1 \in 1 .. r.steps /\ (k + 1) - 1 = k
      /\ b.commands = commands /\ now.ok /\ now.past = hist /\ now.v = state
      /\ rows[c] # <<>> /\ ForgetFirstEffort(rows[c]) = now.rows /\ StartsWith(r, rows[c])
  BY <1>1, <1>3 DEF Follows, RowsOf
<1>5. t = StartDate(r) + k * Dt /\ t \in Int
  BY <1>3, <1>4, DateType DEF DateOf
<1>6. DateOf(c)' = StartDate(r) + (k + 1) * Dt
  BY <1>1, <1>2 DEF DateOf
<1>7. StartDate(r) + (k + 1) * Dt \in Int /\ StartDate(r) + (k + 1) * Dt >= t
  <2>1. StartDate(r) \in Int /\ k \in Nat /\ Dt \in Nat
    <3>1. StartDate(r) \in Int
      BY <1>3, DateType
    <3>2. k \in Nat
      BY <1>3, <1>4
    <3> QED
      BY <3>1, <3>2, CosimAssumption
  <2>2. (k + 1) * Dt = k * Dt + Dt /\ k * Dt \in Int
    BY <2>1
  <2> HIDE DEF k, t
  <2> QED
    BY <1>5, <2>1, <2>2
<1>8. FreshRuns(r, b)[k + 1] = FreshStep(r, b, now, k + 1)
  BY <1>3, <1>4, FreshRunsStep
<1>9. FreshStep(r, b, now, k + 1)
        = [ok |-> TRUE, past |-> past, v |-> next, rows |-> Append(now.rows, row)]
  <2> HIDE DEF now, b, r, k, t
  <2> QED
    BY <1>1, <1>4, <1>5 DEF FreshStep
<1>10. EndsBy(past, DateOf(c)')
  <2>1. WellFormed(hist) /\ state \in Int
    BY <1>1, CosimAssumption DEF TypeIInv, CosimTypeOK
  <2>2. WellFormed(past) /\ EndsBy(past, t)
    BY <1>1, <1>5, <2>1, RecordedLast
  <2>3. past.L # <<>> => CurrentTime(past) \in Int
    <3> HIDE DEF past
    <3>1. past.L \in Seq(Sample)
      BY <2>2 DEF WellFormed, HistoryObject
    <3>2. past.L # <<>> => Len(past.L) \in 1 .. Len(past.L)
      BY <3>1, EmptySeq
    <3> QED
      BY <3>1, <3>2, PairType DEF CurrentTime, LastOf
  <2> HIDE DEF past, t, k, r
  <2> QED
    BY <1>5, <1>6, <1>7, <2>2, <2>3, ToleranceAssumption DEF EndsBy
<1>11. /\ row = [t |-> DateOf(c)', v |-> state', effort |-> effort']
       /\ row \in Row
  <2>1. row = [t |-> DateOf(c)', v |-> state', effort |-> effort']
    BY <1>1, <1>6 DEF Shown
  <2>2. state' \in Values \union {NaN} /\ effort' \in Int \union {NoEffort}
    BY DEF TypeIInv, CosimTypeOK
  <2>3. DateOf(c)' \in Int
    BY <1>6, <1>7
  <2> QED
    BY <2>1, <2>2, <2>3 DEF Row
<1>12. /\ ForgetFirstEffort(Append(rows[c], row)) = Append(now.rows, row)
       /\ StartsWith(r, Append(rows[c], row))
  <2>1. rows[c] \in Seq(Row)
    BY DEF TypeIInv, CosimTypeOK
  <2> HIDE DEF row, now
  <2>2. ForgetFirstEffort(Append(rows[c], row)) = Append(now.rows, row)
    BY <1>4, <1>11, <2>1, ForgetAppend
  <2>3. Append(rows[c], row)[1] = rows[c][1]
    <3>1. 1 \in 1 .. Len(rows[c])
      BY <1>4, <2>1, EmptySeq
    <3> QED
      BY <1>11, <2>1, <3>1, AppendProperties
  <2> QED
    BY <1>4, <2>2, <2>3 DEF StartsWith
<1> HIDE DEF now, past, force, next, row
<1>13. Follows(c)'
  <2> DEFINE later == FreshRuns(r, b)[k + 1]
  <2>1. step'[c] = k + 1 /\ pc'[c] = "observe" /\ k + 1 \in 0 .. r.steps
    BY <1>1, <1>2, <1>4
  <2>2. /\ later.ok /\ later.past = hist' /\ later.v = state'
        /\ ForgetFirstEffort(Append(rows[c], row)) = later.rows
        /\ StartsWith(r, Append(rows[c], row))
    BY <1>1, <1>8, <1>9, <1>12
  <2>3. FreshRuns(request[c], basis[c])[step[c]]' = later
    BY <1>1, <2>1
  <2>4. EndsBy(hist', DateOf(c)')
    BY <1>1, <1>10
  <2>5. RowsOf(c)' = Append(rows[c], row)
    BY <1>1, <1>11, <2>1 DEF RowsOf
  <2> HIDE DEF later
  <2> QED
    BY <1>1, <1>4, <2>1, <2>2, <2>3, <2>4, <2>5 DEF Follows
<1>14. CallIInv(c)'
  BY <1>1, <1>2, <1>3, <1>13 DEF CallIInv
<1> QED
  BY <1>1, <1>2, <1>14, OtherReplies DEF Places

\* A run fails only where the run of a server just started does: the dates it
\* records at are never refused.
LEMMA RunFail ==
  ASSUME JsonIInv, TypeIInv, RunIInv, service = "cs", service' = service,
         NEW c \in Clients, Fail(c)
  PROVE  RunIInv'
<1> DEFINE r == request[c]
           b == basis[c]
           k == step[c]
           now == FreshRuns(r, b)[k]
<1>1. /\ pc[c] = "solve" /\ pc' = [pc EXCEPT ![c] = "idle"]
      /\ ~ (state # NaN /\ InOrder(hist, DateOf(c)) /\ \A n \in Names : commands[n] # Unset)
      /\ reply' = [reply EXCEPT ![c] = ErrorReply]
      /\ UNCHANGED <<request, sent, basis>>
  BY DEF Fail, Recordable, AllCommandsSet
<1>2. DOMAIN pc = Clients /\ DOMAIN reply = Clients /\ DOMAIN basis = Clients
  BY DEF RunIInv, TypeIInv, CosimTypeOK
<1>3. Valid(r) /\ Follows(c) /\ IsRequest(r) /\ r.steps \in Nat
  BY <1>1, RunOfCall
<1>4. /\ k \in 0 .. r.steps /\ k # r.steps /\ k + 1 \in 1 .. r.steps /\ (k + 1) - 1 = k
      /\ b.commands = commands /\ now.v = state /\ EndsBy(hist, DateOf(c))
  BY <1>1, <1>3 DEF Follows
<1>5. InOrder(hist, DateOf(c))
  <2>1. DateOf(c) \in Int /\ hist \in HistoryObject
    BY <1>3, <1>4, DateType DEF DateOf, TypeIInv, CosimTypeOK
  <2> QED
    BY <1>4, <2>1, EndsByInOrder
<1>6. ~ (now.v # NaN /\ \A n \in Names : b.commands[n] # Unset)
  BY <1>1, <1>4, <1>5
<1>7. FreshRuns(r, b)[k + 1] = FreshStep(r, b, now, k + 1)
  BY <1>3, <1>4, FreshRunsStep
<1>8. ~ FreshRuns(r, b)[k + 1].ok
  <2>1. "ok" \in DOMAIN now
    BY <1>3, <1>4, RunShape
  <2> HIDE DEF now
  <2> QED
    BY <1>6, <1>7, <2>1 DEF FreshStep
<1>9. ~ FreshRun(r, b).ok
  <2>1. k + 1 \in 0 .. r.steps
    BY <1>4
  <2> QED
    BY <1>3, <1>8, <2>1, StoppedForGood DEF FreshRun
<1>10. /\ reply'[c].kind = "error" /\ pc'[c] = "idle"
       /\ request'[c] = r /\ basis'[c] = b
  BY <1>1, <1>2 DEF ErrorReply
<1>11. ReplyOfRequest(c)' /\ FirstOfReply(c)'
  BY <1>9, <1>10 DEF ReplyOfRequest, FirstOfReply
<1>12. CallIInv(c)'
  BY <1>10, <1>11 DEF CallIInv
<1> QED
  BY <1>1, <1>2, <1>12, OtherReplies DEF Places

\* The rows of the whole run are sent.
LEMMA RunReply ==
  ASSUME JsonIInv, TypeIInv, RunIInv, service = "cs", service' = service,
         NEW c \in Clients, Reply(c)
  PROVE  RunIInv'
<1> DEFINE r == request[c]
           b == basis[c]
<1>1. /\ pc[c] = "reply" /\ pc' = [pc EXCEPT ![c] = "idle"]
      /\ reply' = [reply EXCEPT ![c] = [kind |-> "ok", rows |-> rows[c]]]
      /\ UNCHANGED <<request, sent, basis>>
  BY DEF Reply
<1>2. DOMAIN pc = Clients /\ DOMAIN reply = Clients /\ DOMAIN basis = Clients
  BY DEF RunIInv, TypeIInv, CosimTypeOK
<1>3. Valid(r) /\ Follows(c)
  BY <1>1, RunOfCall
<1>4. /\ FreshRun(r, b).ok /\ ForgetFirstEffort(rows[c]) = FreshRun(r, b).rows
      /\ StartsWith(r, rows[c])
  BY <1>1, <1>3 DEF Follows, FreshRun, RowsOf
<1>5. /\ reply'[c].kind = "ok" /\ reply'[c].rows = rows[c] /\ pc'[c] = "idle"
      /\ request'[c] = r /\ basis'[c] = b
  BY <1>1, <1>2
<1>6. ReplyOfRequest(c)' /\ FirstOfReply(c)'
  BY <1>3, <1>4, <1>5 DEF ReplyOfRequest, FirstOfReply
<1>7. CallIInv(c)'
  BY <1>5, <1>6 DEF CallIInv
<1> QED
  BY <1>1, <1>2, <1>7, OtherReplies DEF Places

\* Every step of either server keeps what is said of the runs.
LEMMA RunStep ==
  ASSUME FrontEnd = "json", JsonIInv, TypeIInv, TypeIInv', RunIInv, [ServerNext]_serverVars
  PROVE  RunIInv'
<1>1. CASE service = "cs" /\ CosimNext /\ UNCHANGED <<service, answer>>
  <2>1. DOMAIN reply = Clients
    BY DEF TypeIInv
  <2> QED
    BY <1>1, <2>1, RunReceive, RunCheck, RunSetStates, RunSetCommands, RunObserve, RunDoStep,
       RunFail, RunReply DEF CosimNext, Work
<1>2. CASE service = "me" /\ ExchangeNext
  <2>1. UNCHANGED <<service, reply>> /\ DOMAIN basis' = Clients
    BY <1>2 DEF ExchangeNext, ReceiveForExchange, AcceptForExchange, RefuseForExchange, SetPast, SetExchangeCommands, Derive, RunIInv
  <2> QED
    BY <1>2, <2>1 DEF RunIInv
<1>3. CASE UNCHANGED serverVars
  <2>1. UNCHANGED <<service, reply, basis, pc, request, step, rows, state, hist, commands, effort>>
    BY <1>3 DEF serverVars, cosimVars, simulator
  <2>2. ASSUME NEW c \in Clients
        PROVE  CallIInv(c)' <=> CallIInv(c)
    BY <2>1 DEF CallIInv, Given, Follows, RowsOf, ReplyOfRequest, FirstOfReply, DateOf
  <2> QED
    BY <2>1, <2>2 DEF RunIInv
<1> QED
  BY <1>1, <1>2, <1>3 DEF ServerNext

(* What the theorems on the replies rest on, and its induction. *)
CosimIInv == JsonIInv /\ TypeIInv /\ CommandsIInv /\ RunIInv

\* The invariant of the replies holds of a JSON server.
LEMMA CosimInvariant ==
  ASSUME FrontEnd = "json", ForcesAreNumbers
  PROVE  ServerSpec => []CosimIInv
<1>1. ServerInit => CosimIInv
  <2>1. ServerInit => RunIInv
    BY ExchangeAssumption DEF ServerInit, CosimInit, NoReply, RunIInv, CallIInv,
       ReplyOfRequest, FirstOfReply
  <2> QED
    BY <2>1, JsonInit, TypeInit, CommandsInitIInv DEF CosimIInv
<1>2. CosimIInv /\ [ServerNext]_serverVars => CosimIInv'
  BY JsonStep, TypeStep, ServerStep, RunStep DEF CosimIInv
<1> QED
  BY <1>1, <1>2, PTL DEF ServerSpec

\* With the JSON front end, and any number of clients, a reply depends on its
\* request and on the commands in force only: it is what a server that was just
\* started would answer, whatever the histories, the shrunk windows and the
\* interrupted runs that earlier requests left behind.
THEOREM ReplyAlwaysOfRequest ==
  ASSUME FrontEnd = "json", ForcesAreNumbers
  PROVE  ServerSpec => []ReplyIsOfRequest
<1>1. CosimIInv => ReplyIsOfRequest
  <2> SUFFICES ASSUME RunIInv, NEW c \in Clients, pc[c] = "idle"
               PROVE  ReplyOfRequest(c)
    BY DEF CosimIInv, ReplyIsOfRequest, ReplyOfRequest
  <2> QED
    BY DEF RunIInv, CallIInv, ReplyOfRequest
<1> QED
  BY <1>1, CosimInvariant, PTL

\* With the JSON front end, a reply starts at the date of the last state its
\* client sent, with its value.
THEOREM ReplyAlwaysStartsWithLastState ==
  ASSUME FrontEnd = "json", ForcesAreNumbers
  PROVE  ServerSpec => []ReplyStartsWithLastState
<1>1. CosimIInv => ReplyStartsWithLastState
  <2> SUFFICES ASSUME CosimIInv, NEW c \in Clients, reply[c].kind = "ok", pc[c] = "idle",
                      sent[c].states # <<>>
               PROVE  StartsWith(sent[c], reply[c].rows)
    BY DEF ReplyStartsWithLastState, StartsWith
  <2>1. service = "cs" /\ FirstOfReply(c)
    BY DEF CosimIInv, RunIInv, CallIInv
  <2> QED
    BY <2>1 DEF CosimIInv, JsonIInv, FirstOfReply
<1> QED
  BY <1>1, CosimInvariant, PTL
=============================================================================
