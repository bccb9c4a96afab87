CONSTANTS
  Tracks = {t1}
  Capacity = 2
  Chunks = 1
  MaxTaint = 1
  MayLeave = FALSE
CHECK_DEADLOCK FALSE
SPECIFICATION Spec
INVARIANT ReferenceChainIntact
