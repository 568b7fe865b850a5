CONSTANTS
  JobIds = {j1}
  Schedules = {1}
  NextOccurrence <- MCNextOccurrence
  MaxTime = 1
  MissedAfter = 1
  HistoryLimit = 1
  MaxOccurrences = 3
  Manual = Manual
  NULL = NULL
  TimerCap = 1
  IdleTimer = 4
  Handlers = {h1}
  MaxAdds = 2
  MaxSignals = 0
  MaxCrashes = 0
  MaxFaults = 0
  MaxClockSets = 1
SPECIFICATION Spec
INVARIANTS
  RunKeepsItsRow
  NoDuplicateRun
  HistoryBounded
PROPERTIES
  NoCatchUp
