CONSTANTS
  Hulls <- MCHulls
  Immersions <- MCImmersions
  MaxLeft = 1
  Ships <- MCShips
  CurveAsks <- MCCurveAsks
  Precision = 1
  MaxTurns = 2
SPECIFICATION HullSpec
INVARIANTS
  PartsOpenInSurfaceOnly
  PartsCoverTheHull
  PiecesAreOnTheirSide
  UpdateForgetsThePast
  LoopsAreClosed
  CurveIsOfEquilibria
