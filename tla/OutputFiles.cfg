SPECIFICATION Spec
CONSTANTS
  NSteps = 4
  Decks <- MCDecks
  Cycle = 3
  MaxRuns = 3
  MaxSubsteps = 1
INVARIANTS TypeOK StepsKept NothingStale SummaryFirst RftOfRun
PROPERTY ImplementsArchive
CHECK_DEADLOCK FALSE
