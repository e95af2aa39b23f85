SPECIFICATION ServiceSpec
CONSTANTS
  u1 = u1
  u2 = u2
  NbPyramidLevels = 3
  NumberTilesHeight <- Pyramid
  NumberTilesWidth <- OneWide
  ReachHeight <- OneAround
  ReachWidth <- TwoAround
  NumberOfViewParallel = 2
  NbReleasePyramid <- LastUnused
  PreserveOrder = FALSE
  User <- TwoUsers
  Traversals <- EachLevel
  NbCalls = 1
INVARIANTS
  ReleaseCountsAgree
PROPERTIES
  ImplementsViewService
  GraphCompletes
