SPECIFICATION Spec
CONSTANTS
  NSteps = 4
  Cells = {1, 2}
  Track = FALSE
  ProdIndices = {100}
  MaxDeck = 6
  MaxObjects = 7
  Null = Null
INVARIANTS TypeOK UnmarkedKeepsDeckFactor
PROPERTIES KeywordsKeepThePast ScaledOncePerStep ScalingFollowsConnection
CHECK_DEADLOCK FALSE
