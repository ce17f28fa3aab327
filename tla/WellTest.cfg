SPECIFICATION Spec
CONSTANTS
  NSteps = 3
  Reasons = {"COMPLETION", "ECONOMIC"}
  Completions = {1}
  Plans <- MCPlans
  MaxTime = 3
  Null = Null
INVARIANTS TypeOK NoLogicError CompletionTestsBounded
PROPERTY TestsAsWtestAsks
CHECK_DEADLOCK FALSE
