CONSTANTS
  Seas <- MCSpectra
  Fleets <- MCFleet
  Asks <- MCPressures
  Shallow = 1
  MaxEvaluations = 2
SPECIFICATION RemoteSpec
INVARIANT
  StopsForAReason
CHECK_DEADLOCK FALSE
