--------------------------- MODULE RelayReconnect ---------------------------
(***************************************************************************)
(* The presence connection of RelayClient: the first connect, the read      *)
(* loop of each connection, the single-flight reconnect loop and Dispose,   *)
(* which the user interface calls on a thread of its own.                   *)
(*                                                                         *)
(* Connections are numbered; ConnectPresenceAsync makes a new one and       *)
(* cancels and disposes the one before.  Cancelling a connection and losing *)
(* it end its read loop the same way, so both close the socket here.  The   *)
(* token of the reconnect loop only cuts its delay short: every place that  *)
(* reads it reads _userDisconnectRequested too.                             *)
(***************************************************************************)
EXTENDS Integers

CONSTANT MaxConnects   \* bound on the connections that are attempted

ASSUME MaxConnectsAssumption == MaxConnects \in Nat \ {0}

VARIABLES
  state,            \* State, as the user interface shows it
  inFlight,         \* _reconnectInFlight
  userDisconnect,   \* _userDisconnectRequested
  disposed,         \* Dispose has cancelled the connection and returned
  current,          \* number of the connection in _presenceWs and _cts, 0 for null
  socket,           \* its socket
  caller,           \* where each of the two callers of ConnectPresenceAsync is
  reader            \* where the read loop of each connection is

vars == <<state, inFlight, userDisconnect, disposed, current, socket, caller, reader>>

flagVars == <<inFlight, userDisconnect, disposed>>
connectionVars == <<current, socket>>

-----------------------------------------------------------------------------
Connections == 1 .. MaxConnects
States == {"disconnected", "connecting", "connected", "reconnecting"}
Sockets == {"none", "connecting", "open", "closed"}

(* ConnectRelayAsync calls ConnectPresenceAsync once, the loop repeatedly.    *)
Callers == {"service", "loop"}
ConnectSteps == {"connect", "connecting", "opened"}
LoopSteps == {"while", "delay", "refresh", "checkConnected", "giveUp", "finish"}

ReaderSteps == {"none", "reading", "check", "giveUp", "reconnect", "tryStart", "done"}

TypeOK ==
  /\ state \in States
  /\ inFlight \in BOOLEAN /\ userDisconnect \in BOOLEAN /\ disposed \in BOOLEAN
  /\ current \in 0 .. MaxConnects
  /\ socket \in Sockets
  /\ caller \in [Callers -> ConnectSteps \cup LoopSteps \cup {"off"}]
  /\ caller["service"] \notin LoopSteps
  /\ reader \in [Connections -> ReaderSteps]

(* Logged in, device registered, ICE servers fetched.                        *)
Init ==
  /\ state = "disconnected"
  /\ inFlight = FALSE /\ userDisconnect = FALSE /\ disposed = FALSE
  /\ current = 0 /\ socket = "none"
  /\ caller = [c \in Callers |-> IF c = "service" THEN "connect" ELSE "off"]
  /\ reader = [n \in Connections |-> "none"]

At(c, step) == caller[c] = step
GoTo(c, step) == caller' = [caller EXCEPT ![c] = step]
ReaderAt(n, step) == reader[n] = step
ReaderGoesTo(n, step) == reader' = [reader EXCEPT ![n] = step]

-----------------------------------------------------------------------------
(* ConnectPresenceAsync                                                     *)

(* Mutant: the first connect goes on as an attempt of the loop does.          *)
AfterAttempt(c) == GoTo(c, "checkConnected")

AfterConnect(c) == GoTo(c, IF c = "loop" THEN "checkConnected" ELSE "off")

(* The previous connection is cancelled and disposed, whatever state it is in. *)
Connect(c) ==
  /\ At(c, "connect")
  /\ current < MaxConnects
  /\ current' = current + 1
  /\ socket' = "connecting"
  /\ state' = IF state = "reconnecting" THEN state ELSE "connecting"
  /\ GoTo(c, "connecting")
  /\ UNCHANGED <<flagVars, reader>>

ConnectSucceeds(c) ==
  /\ At(c, "connecting")
  /\ socket = "connecting"
  /\ socket' = "open"
  /\ GoTo(c, "opened")
  /\ UNCHANGED <<state, flagVars, current, reader>>

(* The server refuses, the network is down, or Dispose has cancelled it.      *)
ConnectFails(c) ==
  /\ At(c, "connecting")
  /\ socket' = "closed"
  /\ state' = IF state = "reconnecting" THEN state ELSE "disconnected"
  /\ AfterConnect(c)
  /\ UNCHANGED <<flagVars, current, reader>>

Opened(c) ==
  /\ At(c, "opened")
  /\ state' = "connected"
  /\ ReaderGoesTo(current, "reading")
  /\ AfterConnect(c)
  /\ UNCHANGED <<flagVars, connectionVars>>

Drop ==
  /\ socket = "open"
  /\ socket' = "closed"
  /\ UNCHANGED <<state, flagVars, current, caller, reader>>

-----------------------------------------------------------------------------
(* ReadLoopAsync of connection n                                            *)

IsOpen(n) == n = current /\ socket = "open"

ReadEnds(n) ==
  /\ ReaderAt(n, "reading")
  /\ ~IsOpen(n)
  /\ ReaderGoesTo(n, "check")
  /\ UNCHANGED <<state, flagVars, connectionVars, caller>>

CheckDisconnect(n) ==
  /\ ReaderAt(n, "check")
  /\ ReaderGoesTo(n, IF userDisconnect THEN "giveUp" ELSE "reconnect")
  /\ UNCHANGED <<state, flagVars, connectionVars, caller>>

(* Mutant: the reader leaves without showing that the connection is gone.     *)
EndSilently(n) ==
  /\ ReaderAt(n, "giveUp")
  /\ ReaderGoesTo(n, "done")
  /\ UNCHANGED <<state, flagVars, connectionVars, caller>>

EndDisconnected(n) ==
  /\ ReaderAt(n, "giveUp")
  /\ state' = "disconnected"
  /\ ReaderGoesTo(n, "done")
  /\ UNCHANGED <<flagVars, connectionVars, caller>>

EndReconnecting(n) ==
  /\ ReaderAt(n, "reconnect")
  /\ state' = "reconnecting"
  /\ ReaderGoesTo(n, "tryStart")
  /\ UNCHANGED <<flagVars, connectionVars, caller>>

StartLoop(n) ==
  /\ ReaderAt(n, "tryStart") /\ ~inFlight
  /\ inFlight' = TRUE
  /\ GoTo("loop", "while")
  /\ ReaderGoesTo(n, "done")
  /\ UNCHANGED <<state, userDisconnect, disposed, connectionVars>>

AlreadyInFlight(n) ==
  /\ ReaderAt(n, "tryStart") /\ inFlight
  /\ ReaderGoesTo(n, "done")
  /\ UNCHANGED <<state, flagVars, connectionVars, caller>>

-----------------------------------------------------------------------------
(* TryStartReconnectLoopAsync                                               *)

While ==
  /\ At("loop", "while")
  /\ GoTo("loop", IF userDisconnect THEN "giveUp" ELSE "delay")
  /\ UNCHANGED <<state, flagVars, connectionVars, reader>>

Delay ==
  /\ At("loop", "delay")
  /\ GoTo("loop", IF userDisconnect THEN "giveUp" ELSE "refresh")
  /\ UNCHANGED <<state, flagVars, connectionVars, reader>>

(* EnsureFreshTokenAsync: an HTTP request when the token is about to expire.   *)
Refresh ==
  /\ At("loop", "refresh")
  /\ GoTo("loop", "connect")
  /\ UNCHANGED <<state, flagVars, connectionVars, reader>>

(* Mutant: one failed attempt ends the loop.                                 *)
CheckOnce ==
  /\ At("loop", "checkConnected")
  /\ GoTo("loop", "finish")
  /\ UNCHANGED <<state, flagVars, connectionVars, reader>>

CheckConnected ==
  /\ At("loop", "checkConnected")
  /\ GoTo("loop", IF socket = "open" THEN "finish" ELSE "while")
  /\ UNCHANGED <<state, flagVars, connectionVars, reader>>

(* Mutant: a loop that gives up skips the block that releases the guard.      *)
GiveUpInFlight ==
  /\ At("loop", "giveUp")
  /\ state' = "disconnected"
  /\ GoTo("loop", "off")
  /\ UNCHANGED <<flagVars, connectionVars, reader>>

GiveUp ==
  /\ At("loop", "giveUp")
  /\ state' = "disconnected"
  /\ GoTo("loop", "finish")
  /\ UNCHANGED <<flagVars, connectionVars, reader>>

Finish ==
  /\ At("loop", "finish")
  /\ inFlight' = FALSE
  /\ GoTo("loop", "off")
  /\ UNCHANGED <<state, userDisconnect, disposed, connectionVars, reader>>

-----------------------------------------------------------------------------
(* Dispose: log-out, possible once ConnectRelayAsync has set the instance.     *)

RequestDisconnect ==
  /\ At("service", "off") /\ ~userDisconnect
  /\ userDisconnect' = TRUE
  /\ UNCHANGED <<state, inFlight, disposed, connectionVars, caller, reader>>

CancelAll ==
  /\ userDisconnect /\ ~disposed
  /\ disposed' = TRUE
  /\ socket' = IF socket = "none" THEN socket ELSE "closed"
  /\ UNCHANGED <<state, inFlight, userDisconnect, current, caller, reader>>

-----------------------------------------------------------------------------
ConnectPresence(c) == Connect(c) \/ ConnectSucceeds(c) \/ ConnectFails(c) \/ Opened(c)

ReadLoop(n) ==
  \/ ReadEnds(n) \/ CheckDisconnect(n) \/ EndDisconnected(n)
  \/ EndReconnecting(n) \/ StartLoop(n) \/ AlreadyInFlight(n)

ReconnectLoop == While \/ Delay \/ Refresh \/ CheckConnected \/ GiveUp \/ Finish

Next ==
  \/ \E c \in Callers : ConnectPresence(c)
  \/ \E n \in Connections : ReadLoop(n)
  \/ ReconnectLoop
  \/ Drop
  \/ RequestDisconnect \/ CancelAll

Spec == Init /\ [][Next]_vars

(* Tasks that can go on do; requests and connects end, with either result;    *)
(* Dispose runs to its end.  Nothing makes the server drop a connection.      *)
Fairness ==
  /\ \A c \in Callers : WF_vars(ConnectPresence(c))
  /\ \A n \in Connections : WF_vars(ReadLoop(n))
  /\ WF_vars(ReconnectLoop)
  /\ WF_vars(CancelAll)

FairSpec == Spec /\ Fairness

-----------------------------------------------------------------------------
(* RelayClient.cs:253-258, 307-322.  The user interface never shows           *)
(* "connected" over a dead connection for good: whichever tasks set the state  *)
(* in whatever order, the read loop that will correct it has not ended yet.   *)
ConnectedIsTrue ==
  state = "connected" /\ socket # "open" =>
    current # 0 /\ reader[current] \in {"reading", "check", "giveUp", "reconnect"}

(* RelayClient.Reconnect.cs:67-108.  A log-out ends the loop, at whatever await *)
(* it finds it, with at most one more attempt, and nothing starts it again.   *)
DisconnectStopsLoop ==
  (userDisconnect /\ current < MaxConnects) ~> [](~inFlight /\ At("loop", "off"))

(* RelayClient.cs:319-321.  A drop whose read loop finds no reconnect loop in   *)
(* flight is repaired, however many attempts fail.                           *)
DropIsRepaired ==
  (~inFlight /\ ~userDisconnect /\ \E n \in Connections : ReaderAt(n, "tryStart")) ~>
    (socket = "open" \/ userDisconnect \/ current = MaxConnects)
=============================================================================
