\* Four statements about one quantity over four report steps.
SPECIFICATION Spec
CONSTANTS
  NSteps = 4
  Units = {"m", "s"}
  MaxStatements = 4
  Null = Null
INVARIANTS TypeOK CarriedOutOnce ValueOfStatementInForce
PROPERTY ActionReachesLaterSteps
\* The last report step ends the simulation, an exception everything.
CHECK_DEADLOCK FALSE
