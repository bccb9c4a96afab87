------------------------- MODULE MCRelayVideoQueue -------------------------
(* Small instances of RelayVideoQueue for TLC.                             *)
EXTENDS RelayVideoQueue, TLC

Symmetry == Permutations(Tracks)
=============================================================================
