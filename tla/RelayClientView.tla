--------------------------- MODULE RelayClientView ---------------------------
(***************************************************************************)
(* What a client of the media relay may rely on: binary media flows only   *)
(* between a media_relay_start and the matching media_relay_stop.  The      *)
(* lifecycle of MediaRelay implements it.                                   *)
(***************************************************************************)
VARIABLES gate,   \* the client has been told to read media from the socket
          media   \* the host has a worker session that may put media on it

vars == <<gate, media>>

Init == ~gate /\ ~media

Announce ==
  /\ ~media
  /\ gate' = TRUE
  /\ UNCHANGED media

Flow ==
  /\ gate /\ ~media
  /\ media' = TRUE
  /\ UNCHANGED gate

Quiesce ==
  /\ media
  /\ media' = FALSE
  /\ UNCHANGED gate

Withdraw ==
  /\ ~media
  /\ gate' = FALSE
  /\ UNCHANGED media

Next == Announce \/ Flow \/ Quiesce \/ Withdraw

Spec == Init /\ [][Next]_vars
=============================================================================
