CONSTANTS
  EqTol = 0
  FrontTol = 0
  Eps = 1
  Clients = {"client"}
  FrontEnd = "grpc"
  Names = {"beta"}
  CommandValues = {0, 1}
  Unset = 9
  InitialCommands <- MCCommands
  Values = {0, 1}
  NaN = 9
  InitialState = 0
  NoEffort = 9
  Tmax = 2
  Dt = 1
  Effort <- MCEffort
  Integrated <- MCIntegrated
  Pasts <- MCPasts
  Durations = {0, 1, 2}
  Orders <- MCOrders
  Requests <- MCRequests
SPECIFICATION CosimSpec
INVARIANTS
  ReplyStartsWithLastState
