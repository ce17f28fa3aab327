\* A deck that puts a well into a group with a child group.
SPECIFICATION Spec
CONSTANTS
  NSteps = 2
  Field = Field
  GroupNames = {A, B}
  WellNames = {W}
  Null = Null
INVARIANT NoMixedChildren
CHECK_DEADLOCK FALSE
