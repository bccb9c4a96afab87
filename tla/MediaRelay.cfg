CONSTANTS
  Slots = {s1, s2}
  NoTask = NoTask
  MaxEvents = 2
  SendsFail = TRUE
  MayThrow = TRUE
  MayEnd = TRUE
CHECK_DEADLOCK FALSE
SPECIFICATION FairSpec
INVARIANTS
  TypeOK
  SettledConsistently
  MediaOnlyBehindGate
  RelayOverP2PIsBeingLeft
PROPERTIES
  DirectOnlyWhenQuiescent
  ImplementsClientView
  UpgradesToP2P
  TransitionsEnd
  CleanupCompletes
