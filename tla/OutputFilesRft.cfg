SPECIFICATION Spec
CONSTANTS
  NSteps = 4
  Decks <- MCDecks
  Cycle = 3
  MaxRuns = 3
  MaxSubsteps = 1
PROPERTY RftFileOpenedAfterFirst
CHECK_DEADLOCK FALSE
