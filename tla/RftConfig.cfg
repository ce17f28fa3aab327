\* Two wells and up to two WRFT or WRFTPLT keywords over three report steps.
SPECIFICATION RftSpec
CONSTANTS
  Wells = {P, Q}
  NSteps = 3
  RftValues = {"YES", "REPT", "FOPN", "NO"}
  PltValues = {"YES", "NO"}
  MaxKeywords = 2
INVARIANTS RftTypeOK WrittenAsRequested BegunForKeywords
\* The last report step ends the simulation.
CHECK_DEADLOCK FALSE
