CONSTANTS
  TrackCount = 2
  Captured = {1, 2}
  CallerCount = 1
  MaxEncoders = 2
  MaxCalls = 1
SPECIFICATION Spec
CHECK_DEADLOCK FALSE
INVARIANT NoCircularWait
