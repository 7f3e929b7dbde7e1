CONSTANTS
  EqTol = 1
  FrontTol = 2
  Eps = 1
  Objects = {"body", "request"}
  Lengths = {0, 3}
  Dates <- MCDates
  Values = {0, 1}
  Huge = 1000
  Inputs <- MCInputs
  Commands <- MCCommands
  Knowns <- MCKnowns
  Delay <- DelayOf
  KeyValues <- RememberedKeys
  Constants <- MCConstants
  Past <- MCPast
  Free = 9
  LastDate = 4
  Seas <- MCSeas
  Fleets <- MCFleets
  Asks <- MCAsks
  Shallow = 1
  MaxEvaluations = 3
SPECIFICATION ForceSpec
INVARIANTS
  TypeOK
  DatesIncrease
  DurationBounded
  OldestIsFront
  WholeWindows
  ForcesAsWritten
  ForcedAsTabulated
  RowsOfOneEvaluation
  StopsForAReason
PROPERTIES
  ImplementsSlidingWindow
CHECK_DEADLOCK FALSE
