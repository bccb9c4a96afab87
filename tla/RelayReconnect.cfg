CONSTANTS
  MaxConnects = 3
  MaxTokens = 2
CHECK_DEADLOCK FALSE
SPECIFICATION FairPresenceSpec
INVARIANTS
  TokenTypeOK
  ConnectedIsTrue
  NoTokenIsReplayed
PROPERTIES
  DisconnectStopsLoop
  DropIsRepaired
