SPECIFICATION Spec
CONSTANTS
  Monitors = {m1}
  FirstMonitor = m1
  Vdd = vdd
  OriginalScale <- OneScale
  OriginalHz <- Hz60
  SessionScale = 125
  SessionHz = 90
  Kinds = {"ultrawide", "bindMobile", "extend", "rescale"}
  MaxSessions = 1
  MaxStarts = 2
  MaxCrashes = 1
  Ends = {"exit", "crash", "exception", "power"}
  MayTimeOut = TRUE
  FastRestart = FALSE
INVARIANTS TypeOK FirstSessionIsGuarded RestoreIsComplete
PROPERTY DarkHostIsRestored
CHECK_DEADLOCK FALSE
