CONSTANTS
  Tracks = {t1}
  Capacity = 2
  Chunks = 2
  MaxTaint = 2
  MayLeave = TRUE
CHECK_DEADLOCK FALSE
SPECIFICATION FairSpec
INVARIANTS
  TypeOK
  PFrameNeverFollowsLoss
  RecoveredMeansAnchored
  OnlyFreshIdrRecovers
PROPERTIES
  TrackRecovers
  ClosedQueueDrains
