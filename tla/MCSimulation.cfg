CONSTANTS
  EqTol = 0
  FrontTol = 0
  Eps = 1
  N = 2
  Values = {0, 1}
  NaN = 9
  Nodes <- MCRK4
  Dt = 2
  Steps = 3
  Start = 0
  Tmax = 3
  Table <- MCLast
  Steady = {"t", "x", "Fx", "waves"}
  Remote = {"k"}
  Scalars = {"t"}
  States = {"x", "k"}
  Wrenches = {"Fx"}
  Grids = {"waves"}
  Lists <- MCLists
  LastDate = 4
SPECIFICATION RunSpec
INVARIANTS
  SimTypeOK
  HistoryAccepts
  RowsAreRemembered
  ForceModelsSeeForcedStates
  NaNNeverRemembered
  NaNStopsTheRun
  RowsHoldLatestValues
  RefusedAtFirstDateOnly
  ListInStep
  RowsOfReplyAligned
  JsonReadableAsAsked
PROPERTIES
  RunEnds
