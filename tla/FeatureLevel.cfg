SPECIFICATION Spec
CONSTANTS
  NbFeatures = 2
  w1 = w1
  w2 = w2
  Worker <- OneWorker
  Image <- Pyramid
  Box <- Boxes
  AskedLevels = {0, 1}
INVARIANT
  RequestedTilesExist
CHECK_DEADLOCK FALSE
