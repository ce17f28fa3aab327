SPECIFICATION Spec
CONSTANTS
  NSteps = 4
  Names = {A, B}
  Limits = {1, 2}
  Waits = {0, 1}
  StepLength = 2
  MaxDefs = 3
  Null = Null
SYMMETRY Symmetry
INVARIANTS TypeOK PendingByOwnRuns
PROPERTY LastDefinitionApplies
CHECK_DEADLOCK FALSE
