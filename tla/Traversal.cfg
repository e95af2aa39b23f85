SPECIFICATION Spec
CONSTANTS
  MaxTiles = 9
  NumTileRows <- UpToMax
  NumTileCols <- UpToMax
INVARIANTS
  WalkInv
  EachTileOnce
  NeverShutIn
  GoesToNeighbours
PROPERTY
  GetsBuilt
