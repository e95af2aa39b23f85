SPECIFICATION ServiceSpec
CONSTANTS
  u1 = u1
  u2 = u2
  NbPyramidLevels = 1
  NumberTilesHeight <- ThreeTiles
  NumberTilesWidth <- OneWide
  ReachHeight <- OneAround
  ReachWidth <- TwoAround
  NumberOfViewParallel = 3
  NbReleasePyramid <- OneUse
  PreserveOrder = TRUE
  User <- OneUser
  Traversals <- DownUpAndOne
  NbCalls = 2
INVARIANTS
  TypeOK
  OnePlacePerView
  EveryTileIsCounted
  NothingLeftBehind
PROPERTIES
  ImplementsViewService
  GraphCompletes
