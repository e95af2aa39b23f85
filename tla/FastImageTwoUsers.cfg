SPECIFICATION ServiceSpec
CONSTANTS
  u1 = u1
  u2 = u2
  NbPyramidLevels = 1
  NumberTilesHeight <- TwoTiles
  NumberTilesWidth <- OneWide
  ReachHeight <- NoneAround
  ReachWidth <- NoneAround
  NumberOfViewParallel = 1
  NbReleasePyramid <- OneUse
  PreserveOrder = TRUE
  User <- TwoUsers
  Traversals <- EachTile
  NbCalls = 1
CHECK_DEADLOCK FALSE
PROPERTY
  GraphCompletes
