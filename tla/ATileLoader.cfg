SPECIFICATION Spec
CONSTANTS
  l1 = l1
  l2 = l2
  l3 = l3
  Loader <- ThreeLoaders
  NoLoader = NoLoader
  NumTilesHeight = 3
  NumTilesWidth = 1
  NbTilesAsked = 0
  Unreadable <- SecondTile
  Garbage = Garbage
  NbRequests = 4
INVARIANTS
  CachedTilesAreLoaded
  CopiesAskedTile
  Inv
PROPERTIES
  HeldTileIsStable
  ImplementsTileStore
  EveryRequestIsServed
