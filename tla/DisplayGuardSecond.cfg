SPECIFICATION Spec
CONSTANTS
  Monitors = {m1}
  FirstMonitor = m1
  Vdd = vdd
  OriginalScale <- OneScale
  OriginalHz <- Hz60
  SessionScale = 125
  SessionHz = 90
  Kinds = {"ultrawide", "bindMobile", "extend", "rescale"}
  MaxSessions = 2
  MaxStarts = 1
  MaxCrashes = 1
  Ends = {"exit", "crash", "exception", "power"}
  MayTimeOut = TRUE
  FastRestart = FALSE
INVARIANT SessionIsGuarded
CHECK_DEADLOCK FALSE
