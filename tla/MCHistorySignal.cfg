CONSTANTS
  EqTol = 0
  FrontTol = 0
  Eps = 1
  Objects = {1}
  Lengths = {3}
  LastDate = 6
  LastSearched = 8
  Dates <- MCDates
  SearchedDates <- MCSearched
  Vectors <- MCVectors
  Values = {0, 60, 180}
SPECIFICATION QuerySpec
INVARIANTS
  InnerWindowIsExact
  AverageIsExact
  SentHistoryIsComplete
  AnswerIsBracketingPosition
PROPERTIES
  HalvingHalves
  SearchEnds
CHECK_DEADLOCK FALSE
