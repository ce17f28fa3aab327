SPECIFICATION FairSpec
CONSTANTS
  NSteps = 4
  Cells = {1, 2}
  Track = FALSE
  ProdIndices = {100}
  MaxDeck = 6
  MaxObjects = 7
  Null = Null
PROPERTY ScalingReachesWellOfStep
CHECK_DEADLOCK FALSE
