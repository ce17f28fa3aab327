\* One well with two interchangeable cells over three report steps.
SPECIFICATION Spec
CONSTANTS
  NSteps = 3
  Conns = {c1, c2}
  Efficiencies = {1, 2}
  Controls = {"OPEN", "SHUT"}
  ConnControls = {"OPEN", "SHUT"}
  CrossFlow = FALSE
  MaxDeck = 6
  MaxObjects = 7
  Null = Null
SYMMETRY Symmetry
INVARIANTS TypeOK StatusRangeExact NoOpenWellWithoutOpenConnection StatusChangesAreAnnounced
PROPERTIES LastSetValueApplies RunTimeChangeStaysInRange RunTimeStatusReachesEndOfRange
\* The last report step ends the simulation.
CHECK_DEADLOCK FALSE
