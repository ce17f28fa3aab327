SPECIFICATION FairSpec
CONSTANTS
  NSteps = 4
  Cells = {1, 2, 3}
  Track = TRUE
  ProdIndices = {100}
  MaxDeck = 6
  MaxObjects = 7
  Null = Null
PROPERTY MarkedConnectionsAreScaled
CHECK_DEADLOCK FALSE
