SPECIFICATION ServiceSpec
CONSTANTS
  u1 = u1
  u2 = u2
  NbPyramidLevels = 2
  NumberTilesHeight <- TwoTiles
  NumberTilesWidth <- OneWide
  ReachHeight <- NoneAround
  ReachWidth <- NoneAround
  NumberOfViewParallel = 2
  NbReleasePyramid <- OneUse
  PreserveOrder = TRUE
  User <- OneUser
  Traversals <- UpperLevel
  NbCalls = 1
PROPERTY
  ImplementsViewService
