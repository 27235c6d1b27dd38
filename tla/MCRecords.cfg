SPECIFICATION ListingSpec
CONSTANTS
  Ids <- FiveIds
  Names = {"n1", "n2"}
  Callers <- TwoCallers
  Bodies <- ThreeBodies
  Stored <- ThreeStored
  MaxCalls = 2
  Faults = {"write", "crash"}
  Starts <- FirstPages
  Sizes <- PageSizes
  None = None
  d1 = d1
  d2 = d2
  d3 = d3
  d4 = d4
  d5 = d5
  c1 = c1
  c2 = c2
SYMMETRY Symmetry
INVARIANTS
  RecordsTypeOK
  LogIsTrue
  LogIsComplete
  PageWalkMissesNone
  RowNumberIsRank
