CONSTANTS
  JobIds = {j1}
  Schedules = {1}
  NextOccurrence <- MCNextOccurrence
  MaxTime = 2
  MissedAfter = 1
  HistoryLimit = 2
  MaxOccurrences = 2
  Manual = Manual
  NULL = NULL
  TimerCap = 1
  IdleTimer = 4
  Handlers = {h1, h2}
  MaxAdds = 1
  MaxSignals = 0
  MaxCrashes = 0
  MaxFaults = 0
  MaxClockSets = 0
SPECIFICATION Spec
SYMMETRY MCSymmetry
INVARIANTS
  ClaimBacksEffect
