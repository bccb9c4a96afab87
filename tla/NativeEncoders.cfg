CONSTANTS
  t1 = t1
  t2 = t2
  Textures = {t1, t2}
  FpsValues = {30, 60}
  Bitrates = {1, 2}
  Depth = 2
  Vendors = {"nvenc", "amf", "qsv"}
  MaxTime = 340000
  MaxTimeAfterFailure = 0
  MaxFailures = 2
SPECIFICATION Spec
SYMMETRY TextureSymmetry
CHECK_DEADLOCK FALSE
INVARIANTS
  TypeOK
  OnlyFailedCreatesLeak
  RegistrationMatches
  SettingsAgree
  TimestampsIncrease
  ReportedKeyIsTrue
  RequestLossHasCause
