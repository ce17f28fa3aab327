\* Any deck of three groups below FIELD and two wells over two report steps.
SPECIFICATION Spec
CONSTANTS
  NSteps = 2
  Field = Field
  GroupNames = {A, B, C}
  WellNames = {V, W}
  Null = Null
SYMMETRY Symmetry
INVARIANTS TypeOK LinksConsistent WellMovesAreAnnounced FieldCollectsEverything
\* An exception ends the construction, and so does the last report step.
CHECK_DEADLOCK FALSE
