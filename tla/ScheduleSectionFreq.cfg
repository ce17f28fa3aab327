SPECIFICATION Spec
CONSTANTS
  NSteps = 5
  DaysPerMonth = 2
  MonthsPerYear = 2
  Calendars <- MCCalendars
  Factors = {F0, F1}
  Default = F0
  Basics = {0, 2, 3, 5}
  Frequencies = {2}
  Restarts = {0, 1}
  Intervals = {0, 2}
  MaxKeywords = 2
INVARIANT EveryNthOfSet
CHECK_DEADLOCK FALSE
