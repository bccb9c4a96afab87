CONSTANTS
  t1 = t1
  t2 = t2
  Textures = {t1}
  FpsValues = {30, 60}
  Bitrates = {1}
  Depth = 1
  Vendors = {"qsv"}
  MaxTime = 0
  MaxTimeAfterFailure = 0
  MaxFailures = 0
SPECIFICATION FairSpec
CHECK_DEADLOCK FALSE
PROPERTY EncoderIsRecreated
