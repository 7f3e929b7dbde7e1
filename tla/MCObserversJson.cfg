CONSTANTS
  Steady = {"t", "x", "Fx", "waves"}
  Remote = {"k"}
  Scalars = {"t"}
  States = {"x", "k"}
  Wrenches = {"Fx"}
  Grids = {"waves"}
  Lists <- MCFallingBall
  LastDate = 4
SPECIFICATION ObsSpec
INVARIANTS
  JsonWellFormed
