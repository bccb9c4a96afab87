CONSTANTS
  TrackCount = 2
  Captured = {1}
  CallerCount = 2
  MaxEncoders = 2
  MaxCalls = 2
SPECIFICATION Spec
CHECK_DEADLOCK FALSE
INVARIANTS
  TypeOK
  CircleNeedsCallback
  CallbackLeavesItsEncoder
  LockHoldersMeetLiveEncoders
PROPERTY NoFrameCrossesToDirect
