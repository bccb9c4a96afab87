--------------------------- MODULE MCRelayPresence ---------------------------
(* Small instances of RelayPresence, and so of RelayReconnect, for TLC.       *)
EXTENDS RelayPresence
=============================================================================
