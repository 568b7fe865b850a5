CONSTANTS
  JobIds = {j1, j2}
  Schedules = {2, 4}
  NextOccurrence <- MCNextOccurrence
  MaxTime = 4
  MissedAfter = 2
  HistoryLimit = 1
  MaxOccurrences = 1
  Manual = Manual
  NULL = NULL
  TimerCap = 2
  IdleTimer = 8
  Handlers = {h1}
  MaxAdds = 2
  MaxSignals = 0
  MaxCrashes = 0
  MaxFaults = 0
  MaxClockSets = 1
SPECIFICATION Spec
SYMMETRY MCSymmetry
INVARIANTS
  ArmedTimer
PROPERTIES
  NoCatchUp
