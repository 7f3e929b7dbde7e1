CONSTANTS
  Seas <- MCInfinite
  Fleets <- MCFleet
  Asks <- MCAsks
  Shallow = 1
  MaxEvaluations = 2
SPECIFICATION RemoteSpec
INVARIANT
  StopsForAReason
CHECK_DEADLOCK FALSE
