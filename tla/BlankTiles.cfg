SPECIFICATION SegmentationSpec
CONSTANTS
  ImageHeight = 3
  ImageWidth = 3
  TileHeight = 2
  TileWidth = 2
  NoTile = NoTile
  NoBlob = NoBlob
  Masks <- EveryMask
  WordSize = 4
  MaxNodeSize = 1
  HandMade <- SomePixels
  TileSizes = {2}
  Studied <- SomeMasks
  MaxCalls = 0
  MaxFeatures = 6
  Unknown = Unknown
INVARIANT
  MaskShowsFeatures
