SPECIFICATION Spec
CONSTANTS
  NSteps = 3
  Conns = {c1}
  Efficiencies = {1, 2}
  Controls = {"OPEN", "SHUT"}
  ConnControls = {"OPEN", "SHUT"}
  CrossFlow = TRUE
  MaxDeck = 6
  MaxObjects = 7
  Null = Null
INVARIANT EfficiencyAsInDeck
CHECK_DEADLOCK FALSE
