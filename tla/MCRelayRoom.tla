----------------------------- MODULE MCRelayRoom -----------------------------
(* Small instances of RelayRoom for TLC.                                      *)
EXTENDS RelayRoom
=============================================================================
