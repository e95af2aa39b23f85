SPECIFICATION Spec
CONSTANTS
  NbFeatures = 2
  w1 = w1
  w2 = w2
  Worker <- TwoWorkers
  Image <- Pyramid
  Box <- Boxes
  AskedLevels = {0}
INVARIANT
  CountsViewsTaken
CHECK_DEADLOCK FALSE
