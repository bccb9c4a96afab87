--------------------------- MODULE MCEncoderLocks ----------------------------
(* Small instances of EncoderLocks for TLC.                                  *)
EXTENDS EncoderLocks
=============================================================================
