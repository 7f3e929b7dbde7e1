CONSTANTS
  Huge = 1000
  Inputs <- MCFiles
  Commands <- MCCommands
  Knowns <- MCKnowns
  Delay <- DelayOf
  KeyValues <- RememberedKeys
  Constants <- MCConstants
  Past <- MCPast
  Free = 9
  LastDate = 4
SPECIFICATION BuildSpec
INVARIANT
  ForcedAsTabulated
CHECK_DEADLOCK FALSE
