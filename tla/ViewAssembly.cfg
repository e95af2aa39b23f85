SPECIFICATION Spec
CONSTANTS
  Rows <- MCRows
  Cols <- MCCols
INVARIANTS
  LoopInv
  RequestsAreInPlace
  CopiesAreApart
  ViewShowsNearestPixels
  LocalCoordinates
