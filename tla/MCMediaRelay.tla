---------------------------- MODULE MCMediaRelay ----------------------------
(* Small instances of MediaRelay for TLC.                                   *)
EXTENDS MediaRelay
=============================================================================
