------------------------------- MODULE RelayRoom -------------------------------
(***************************************************************************)
(* The sessions of one relay room: which client becomes the host, how the    *)
(* others become viewers of its encoder, and how every session ends.         *)
(* ServerService.ConnectRelayAsync makes a MultiClientRelayBridge and a new  *)
(* SharedEncoderManager at every login, and a PhaseProtocolHandler for every *)
(* room_ready of the relay.  The handlers share the manager and, through a   *)
(* static field, one screen capture.                                         *)
(*                                                                           *)
(* A handler is modelled by the waits and the steps in which it touches what *)
(* the others see; what it exchanges with its client in between is left out. *)
(***************************************************************************)
EXTENDS Naturals

CONSTANTS
  Handlers,    \* the PhaseProtocolHandlers, one per room_ready
  NoOne,       \* null
  MaxLogins    \* bound on the logins of one run of the server

ASSUME NoOneAssumption == NoOne \notin Handlers
ASSUME MaxLoginsAssumption == MaxLogins \in Nat \ {0}

VARIABLES
  logins,        \* logins so far: the number of the present manager and bridge
  online,        \* the RelayClient of the last login is not disposed of
  hostClaimed,   \* of each manager: _hostClaimed
  hostStreamer,  \* of each manager: whose streamer _hostStreamer is
  hostConfig,    \* of each manager: _hostConfig is set
  viewers,       \* of each manager: the keys of _viewers
  bridge,        \* the login whose bridge made the handler's adapter, 0 for none
  adapter,       \* the state of that PerClientAdapter
  role,          \* isFirstClient of the handler
  stage,         \* where the handler is
  saw,           \* the manager its task has read from Instance, 0 for none
  streamer,      \* the handler's _streamer is not null
  callback,      \* where its OnAllTracksReady callback is
  passed,        \* the streamer given to OnStreamerReady is not null
  target,        \* the manager OnStreamerReady has read, 0 for none
  shared         \* _sharedCapture, named by the handler that made it

managerVars == <<hostClaimed, hostStreamer, hostConfig, viewers>>
callbackVars == <<callback, passed, target>>
handlerVars == <<bridge, adapter, role, stage, saw, streamer, callbackVars>>
vars == <<logins, online, managerVars, handlerVars, shared>>

Managers == 1 .. MaxLogins
HostStages == {"setup", "ice", "stream"}
ViewerStages == {"waiting", "found", "ice", "stream"}
OverStages == {"finished", "broken"}
EndStages == {"leaving", "cleaned", "removing", "unhooking", "forgetting",
              "releasing"} \cup OverStages
Stages == {"none"} \cup HostStages \cup ViewerStages \cup EndStages

(* Type invariant.                                                           *)
TypeOK ==
  /\ logins \in 0 .. MaxLogins /\ online \in BOOLEAN
  /\ hostClaimed \in [Managers -> BOOLEAN]
  /\ hostStreamer \in [Managers -> Handlers \cup {NoOne}]
  /\ hostConfig \in [Managers -> BOOLEAN]
  /\ viewers \in [Managers -> SUBSET Handlers]
  /\ bridge \in [Handlers -> 0 .. MaxLogins]
  /\ adapter \in [Handlers -> {"none", "open", "silent", "closing"}]
  /\ role \in [Handlers -> {"none", "host", "viewer"}]
  /\ stage \in [Handlers -> Stages]
  /\ saw \in [Handlers -> 0 .. MaxLogins]
  /\ streamer \in [Handlers -> BOOLEAN]
  /\ callback \in [Handlers -> {"none", "waits", "adds", "tests", "unhooks",
                               "sets", "subscribes", "configures"}]
  /\ passed \in [Handlers -> BOOLEAN]
  /\ target \in [Handlers -> 0 .. MaxLogins]
  /\ shared \in Handlers \cup {NoOne}

Init ==
  /\ logins = 0 /\ online = FALSE
  /\ hostClaimed = [i \in Managers |-> FALSE]
  /\ hostStreamer = [i \in Managers |-> NoOne]
  /\ hostConfig = [i \in Managers |-> FALSE]
  /\ viewers = [i \in Managers |-> {}]
  /\ bridge = [h \in Handlers |-> 0]
  /\ adapter = [h \in Handlers |-> "none"]
  /\ role = [h \in Handlers |-> "none"]
  /\ stage = [h \in Handlers |-> "none"]
  /\ saw = [h \in Handlers |-> 0]
  /\ streamer = [h \in Handlers |-> FALSE]
  /\ callback = [h \in Handlers |-> "none"]
  /\ passed = [h \in Handlers |-> FALSE]
  /\ target = [h \in Handlers |-> 0]
  /\ shared = NoOne

GoesTo(h, s) == stage' = [stage EXCEPT ![h] = s]

(* HasHost                                                                   *)
HasHost(i) == hostStreamer[i] # NoOne /\ hostConfig[i]

-----------------------------------------------------------------------------
(* The end of ConnectRelayAsync: a new manager, and a bridge that listens to *)
(* the new client.  The manager and the bridge of the login before are left  *)
(* as they are.                                                              *)
Login ==
  /\ ~online /\ logins < MaxLogins
  /\ logins' = logins + 1 /\ online' = TRUE
  /\ UNCHANGED <<managerVars, handlerVars, shared>>

(* OnLogout disposes of the client: no event reaches the bridge any more.    *)
Logout ==
  /\ online
  /\ online' = FALSE
  /\ UNCHANGED <<logins, managerVars, handlerVars, shared>>

(* Mutant: the role is decided by whether a host has been registered.        *)
WinsClaimUnregistered == ~HasHost(logins)

(* TryClaimHost: an exchange of 0 for 1.                                     *)
WinsClaim == ~hostClaimed[logins]

(* OnRoomReady: the claim decides the role for the life of the handler.      *)
RoomReady(h) ==
  /\ online /\ stage[h] = "none"
  /\ hostClaimed' = [hostClaimed EXCEPT ![logins] = TRUE]
  /\ role' = [role EXCEPT ![h] = IF WinsClaim THEN "host" ELSE "viewer"]
  /\ GoesTo(h, IF WinsClaim THEN "setup" ELSE "waiting")
  /\ bridge' = [bridge EXCEPT ![h] = logins]
  /\ adapter' = [adapter EXCEPT ![h] = "open"]
  /\ UNCHANGED <<logins, online, hostStreamer, hostConfig, viewers, saw,
                 streamer, callbackVars, shared>>

(* peer_disconnected: the bridge closes the adapters of all its clients.     *)
PeerDisconnected ==
  /\ online
  /\ adapter' = [h \in Handlers |-> IF bridge[h] = logins /\ adapter[h] # "none"
                                    THEN "closing" ELSE adapter[h]]
  /\ UNCHANGED <<logins, online, managerVars, bridge, role, stage, saw,
                 streamer, callbackVars, shared>>

-----------------------------------------------------------------------------
(* Phases 1 and 2 of the host: StopExistingCapture if the configuration      *)
(* differs, then a new capture if there is none, and the streamer.           *)
HostCaptures(h) ==
  /\ role[h] = "host" /\ stage[h] = "setup"
  /\ \E kept \in {shared, NoOne} : shared' = IF kept = NoOne THEN h ELSE kept
  /\ streamer' = [streamer EXCEPT ![h] = TRUE]
  /\ GoesTo(h, "ice")
  /\ UNCHANGED <<logins, online, managerVars, bridge, adapter, role, saw,
                 callbackVars>>

(* RunViewerFastPathAsync polls for a host for thirty seconds, whatever has  *)
(* become of its adapter.                                                    *)
ViewerPolls(h) ==
  /\ role[h] = "viewer" /\ stage[h] = "waiting"
  /\ \/ HasHost(logins) /\ saw' = [saw EXCEPT ![h] = logins] /\ GoesTo(h, "found")
     \/ ~HasHost(logins) /\ saw' = saw /\ GoesTo(h, "leaving")
  /\ UNCHANGED <<logins, online, managerVars, bridge, adapter, role, streamer,
                 callbackVars, shared>>

(* It reads the configuration of the manager it has found.                   *)
ViewerJoins(h) ==
  /\ role[h] = "viewer" /\ stage[h] = "found"
  /\ saw' = [saw EXCEPT ![h] = 0]
  /\ streamer' = [streamer EXCEPT ![h] = hostConfig[saw[h]]]
  /\ GoesTo(h, IF hostConfig[saw[h]] THEN "ice" ELSE "leaving")
  /\ UNCHANGED <<logins, online, managerVars, bridge, adapter, role,
                 callbackVars, shared>>

(* The exchange is over, by proceed, by a time limit or by a closed adapter. *)
ExchangeEnds(h) ==
  /\ stage[h] = "ice"
  /\ GoesTo(h, "stream")
  /\ UNCHANGED <<logins, online, managerVars, bridge, adapter, role, saw,
                 streamer, callbackVars, shared>>

-----------------------------------------------------------------------------
(* OnAllTracksReady: the callback of the peer connection first waits for the *)
(* media relay; when it goes on, the handler may have been cleaned up.       *)
TracksReady(h) ==
  /\ streamer[h] /\ callback[h] = "none"
  /\ callback' = [callback EXCEPT ![h] = "waits"]
  /\ UNCHANGED <<logins, online, managerVars, bridge, adapter, role, stage, saw,
                 streamer, passed, target, shared>>

(* It passes what _streamer is at the moment to OnStreamerReady, which takes *)
(* the manager of the moment.  No lock covers what follows.                  *)
PassesStreamer(h) ==
  /\ callback[h] = "waits"
  /\ passed' = [passed EXCEPT ![h] = streamer[h]]
  /\ target' = [target EXCEPT ![h] = logins]
  /\ callback' = [callback EXCEPT ![h] = IF role[h] = "host" THEN "tests"
                                         ELSE "adds"]
  /\ UNCHANGED <<logins, online, managerVars, bridge, adapter, role, stage, saw,
                 streamer, shared>>

CallbackGoesTo(h, c) ==
  /\ callback' = [callback EXCEPT ![h] = c]
  /\ passed' = [passed EXCEPT ![h] = IF c = "none" THEN FALSE ELSE @]
  /\ target' = [target EXCEPT ![h] = IF c = "none" THEN 0 ELSE @]
  /\ UNCHANGED <<logins, online, hostClaimed, bridge, adapter, role, stage, saw,
                 streamer, shared>>

AddsViewer(h) ==
  /\ callback[h] = "adds"
  /\ viewers' = [viewers EXCEPT ![target[h]] = @ \cup {h}]
  /\ CallbackGoesTo(h, "none")
  /\ UNCHANGED <<hostStreamer, hostConfig>>

(* SetHostStreamer tests the field,                                          *)
TestsStreamer(h) ==
  /\ callback[h] = "tests"
  /\ CallbackGoesTo(h, IF hostStreamer[target[h]] = NoOne THEN "sets"
                       ELSE "unhooks")
  /\ UNCHANGED <<hostStreamer, hostConfig, viewers>>

(* unsubscribes from what it holds, which ends the callback by an exception  *)
(* if that is null by then,                                                  *)
Unhooks(h) ==
  /\ callback[h] = "unhooks"
  /\ CallbackGoesTo(h, IF hostStreamer[target[h]] = NoOne THEN "none"
                       ELSE "sets")
  /\ UNCHANGED <<hostStreamer, hostConfig, viewers>>

(* assigns what it was given, null or not,                                   *)
SetsStreamer(h) ==
  /\ callback[h] = "sets"
  /\ hostStreamer' = [hostStreamer EXCEPT ![target[h]] =
                        IF passed[h] THEN h ELSE NoOne]
  /\ CallbackGoesTo(h, "subscribes")
  /\ UNCHANGED <<hostConfig, viewers>>

(* and subscribes to what the field holds then.  The callback ends by an     *)
(* exception when that is null, and when it reads the properties of a null.  *)
Subscribes(h) ==
  /\ callback[h] = "subscribes"
  /\ CallbackGoesTo(h, IF hostStreamer[target[h]] # NoOne /\ passed[h]
                       THEN "configures" ELSE "none")
  /\ UNCHANGED <<hostStreamer, hostConfig, viewers>>

(* SetHostConfig                                                             *)
SetsConfig(h) ==
  /\ callback[h] = "configures"
  /\ hostConfig' = [hostConfig EXCEPT ![target[h]] = TRUE]
  /\ CallbackGoesTo(h, "none")
  /\ UNCHANGED <<hostStreamer, viewers>>

-----------------------------------------------------------------------------
(* Three pongs are missing: CloseOutputAsync, which leaves no message in the *)
(* inbox of the adapter.                                                     *)
KeepAliveGivesUp(h) ==
  /\ stage[h] = "stream" /\ adapter[h] = "open"
  /\ adapter' = [adapter EXCEPT ![h] = "silent"]
  /\ UNCHANGED <<logins, online, managerVars, bridge, role, stage, saw,
                 streamer, callbackVars, shared>>

(* What the loop of a handler sees without fail: the close message, and at   *)
(* the host the cancellation by the keep-alive.                              *)
MustEnd(h) ==
  \/ adapter[h] = "closing" /\ ~(role[h] = "viewer" /\ stage[h] = "waiting")
  \/ adapter[h] = "silent" /\ role[h] = "host"

(* The handler leaves its phases for CleanupAsync: it must, its loop meets   *)
(* the state of a silent adapter, or a limit or an exception ends a phase.   *)
Leaves(h) ==
  /\ \/ role[h] = "host" /\ stage[h] \in HostStages
     \/ role[h] = "viewer" /\ stage[h] \in {"found", "ice"}
     \/ role[h] = "viewer" /\ stage[h] = "stream" /\ adapter[h] # "open"
  /\ saw' = [saw EXCEPT ![h] = 0]
  /\ GoesTo(h, "leaving")
  /\ UNCHANGED <<logins, online, managerVars, bridge, adapter, role, streamer,
                 callbackVars, shared>>

EndsAsTold(h) == MustEnd(h) /\ Leaves(h)

(* CleanupAsync disposes of the handler's streamer and then of the shared    *)
(* capture, whatever its role and whoever made the capture.                  *)
Cleans(h) ==
  /\ stage[h] = "leaving"
  /\ streamer' = [streamer EXCEPT ![h] = FALSE]
  /\ shared' = NoOne
  /\ GoesTo(h, "cleaned")
  /\ UNCHANGED <<logins, online, managerVars, bridge, adapter, role, saw,
                 callbackVars>>

(* The finally block around HandleAsync reads Instance once.                 *)
TakesManager(h) ==
  /\ stage[h] = "cleaned"
  /\ saw' = [saw EXCEPT ![h] = logins]
  /\ GoesTo(h, "removing")
  /\ UNCHANGED <<logins, online, managerVars, bridge, adapter, role, streamer,
                 callbackVars, shared>>

EndGoesTo(h, s) ==
  /\ GoesTo(h, s)
  /\ saw' = [saw EXCEPT ![h] = IF s \in OverStages THEN 0 ELSE @]
  /\ UNCHANGED <<logins, online, bridge, role, streamer, callbackVars, shared>>

(* RemoveViewer and RemoveAdapter.  What is left of the handler is its       *)
(* callback, if that still runs.                                             *)
RemovesViewer(h) ==
  /\ role[h] = "viewer" /\ stage[h] = "removing"
  /\ viewers' = [viewers EXCEPT ![saw[h]] = @ \ {h}]
  /\ adapter' = [adapter EXCEPT ![h] = "none"]
  /\ EndGoesTo(h, "finished")
  /\ UNCHANGED <<hostClaimed, hostStreamer, hostConfig>>

(* Mutant: RemoveHost returns when there is no streamer to forget.           *)
FindsRegisteredStreamer(h) ==
  /\ role[h] = "host" /\ stage[h] = "removing"
  /\ EndGoesTo(h, IF hostStreamer[saw[h]] = NoOne THEN "finished"
                  ELSE "unhooking")
  /\ UNCHANGED <<managerVars, adapter>>

(* RemoveHost, which takes no lock either: it tests _hostStreamer,           *)
FindsStreamer(h) ==
  /\ role[h] = "host" /\ stage[h] = "removing"
  /\ EndGoesTo(h, IF hostStreamer[saw[h]] = NoOne THEN "forgetting"
                  ELSE "unhooking")
  /\ UNCHANGED <<managerVars, adapter>>

(* unsubscribes from what it reads there the second time and forgets it,     *)
ForgetsStreamer(h) ==
  /\ role[h] = "host" /\ stage[h] = "unhooking"
  /\ hostStreamer[saw[h]] # NoOne
  /\ hostStreamer' = [hostStreamer EXCEPT ![saw[h]] = NoOne]
  /\ EndGoesTo(h, "forgetting")
  /\ UNCHANGED <<hostClaimed, hostConfig, viewers, adapter>>

(* or throws, if a late callback of another handler has set it to null: the  *)
(* claim stays taken and the adapter stays with the bridge.                  *)
RemoveHostThrows(h) ==
  /\ role[h] = "host" /\ stage[h] = "unhooking"
  /\ hostStreamer[saw[h]] = NoOne
  /\ EndGoesTo(h, "broken")
  /\ UNCHANGED <<managerVars, adapter>>

(* It forgets the configuration,                                             *)
ForgetsConfig(h) ==
  /\ role[h] = "host" /\ stage[h] = "forgetting"
  /\ hostConfig' = [hostConfig EXCEPT ![saw[h]] = FALSE]
  /\ EndGoesTo(h, "releasing")
  /\ UNCHANGED <<hostClaimed, hostStreamer, viewers, adapter>>

(* and releases the claim; then RemoveAdapter.                               *)
ReleasesClaim(h) ==
  /\ role[h] = "host" /\ stage[h] = "releasing"
  /\ hostClaimed' = [hostClaimed EXCEPT ![saw[h]] = FALSE]
  /\ adapter' = [adapter EXCEPT ![h] = "none"]
  /\ EndGoesTo(h, "finished")
  /\ UNCHANGED <<hostStreamer, hostConfig, viewers>>

-----------------------------------------------------------------------------
CallbackStep(h) ==
  \/ PassesStreamer(h) \/ AddsViewer(h) \/ TestsStreamer(h) \/ Unhooks(h)
  \/ SetsStreamer(h) \/ Subscribes(h) \/ SetsConfig(h)

EndStep(h) ==
  \/ Cleans(h) \/ TakesManager(h) \/ RemovesViewer(h)
  \/ FindsStreamer(h) \/ ForgetsStreamer(h) \/ RemoveHostThrows(h)
  \/ ForgetsConfig(h) \/ ReleasesClaim(h)

HandlerStep(h) ==
  \/ RoomReady(h) \/ HostCaptures(h)
  \/ ViewerPolls(h) \/ ViewerJoins(h) \/ ExchangeEnds(h)
  \/ TracksReady(h) \/ CallbackStep(h)
  \/ KeepAliveGivesUp(h) \/ Leaves(h) \/ EndStep(h)

Next ==
  \/ Login \/ Logout \/ PeerDisconnected
  \/ \E h \in Handlers : HandlerStep(h)

Spec == Init /\ [][Next]_vars

(* A task runs on until it waits, and a wait ends at its limit or when its   *)
(* adapter is closed.                                                        *)
Fairness ==
  \A h \in Handlers :
    /\ WF_vars(ViewerPolls(h)) /\ WF_vars(ViewerJoins(h))
    /\ WF_vars(EndsAsTold(h))
    /\ WF_vars(CallbackStep(h)) /\ WF_vars(EndStep(h))

FairSpec == Spec /\ Fairness

-----------------------------------------------------------------------------
(* A handler that was elected host and has not finished.                     *)
ActiveHost(h) == role[h] = "host" /\ stage[h] \notin OverStages

(* The finally block of a host has been ended by an exception in RemoveHost. *)
SomeEndBroken == \E h \in Handlers : stage[h] = "broken"

(* While there has been one login, at most one handler is host at any time,  *)
(* its clean-up and the steps of its RemoveHost included, and the claim is   *)
(* taken exactly as long, or for ever once a RemoveHost has thrown: the next *)
(* client is elected as soon as the old host has finished and never earlier, *)
(* whatever the callbacks of former hosts still register.                    *)
OneHost ==
  logins <= 1 =>
    /\ \A g, h \in Handlers : ActiveHost(g) /\ ActiveHost(h) => g = h
    /\ (\E h \in Handlers : ActiveHost(h)) => hostClaimed[1]
    /\ hostClaimed[1] => SomeEndBroken \/ \E h \in Handlers : ActiveHost(h)

(* A viewer has no capture of its own, and a host that has brought up its    *)
(* capture has one until it cleans up, whatever its viewers do.              *)
HostHasCapture ==
  logins <= 1 =>
    \A h \in Handlers :
      role[h] = "host" /\ stage[h] \in {"ice", "stream"} => shared # NoOne

(* A room whose host is closed gets its claim back, also when the host never *)
(* brought up an encoder, so that no later client is a viewer for ever; only *)
(* an exception in RemoveHost keeps it.                                      *)
ClaimComesBack ==
  (logins = 1 /\ \E h \in Handlers : ActiveHost(h) /\ adapter[h] = "closing")
    ~> (logins > 1 \/ ~hostClaimed[1] \/ SomeEndBroken)
=============================================================================
