----------------------------- MODULE MediaRelay -----------------------------
(***************************************************************************)
(* The media-relay lifecycle of one client session: how media moves from a *)
(* failed WebRTC path to the WebSocket and back, and what clean-up does     *)
(* with it.  Every callback, timer and clean-up is a task of its own; a     *)
(* task keeps its place and its locals in task[s] and awaits between steps. *)
(* The lifecycle semaphore serialises enter and exit; the lock inside       *)
(* RelayP2PState makes one access to it one step.                          *)
(*                                                                         *)
(* Pairing is taken to be settled (RequirePairing off, or the peer bound).  *)
(***************************************************************************)
EXTENDS Integers, FiniteSets

CONSTANTS Slots,       \* tasks that can be in progress at the same time
          NoTask,      \* the free lifecycle semaphore
          MaxEvents,   \* bound on WebRTC state changes that reach the handler
          SendsFail,   \* whether the socket may drop and sends may fail
          MayThrow,    \* whether starting encoders or capture may throw
          MayEnd       \* whether the session may end by itself

ASSUME NoTaskAssumption == NoTask \notin Slots
ASSUME MaxEventsAssumption == MaxEvents \in Nat
ASSUME FlagsAssumption == {SendsFail, MayThrow, MayEnd} \subseteq BOOLEAN

VARIABLES
  connected, version,   \* RelayP2PState
  relayMode,            \* _mediaRelayMode
  workers,              \* generation of the published _relayWorkers, 0 for null
  generation,           \* _relayGeneration
  running,              \* generations whose send loops have not ended
  checked,              \* generations whose loop has found itself current and goes on to send
  inFlight,             \* generation of the media chunk on the socket, or 0
  streamerRelay,        \* SIPSorceryStreamer.RelayMediaMode
  streamerAlive,        \* _streamer is not null
  lifecycle,            \* holder of _mediaRelayLifecycle
  dtlsRetrying,         \* _dtlsRetrying
  timerArmed,           \* the fallback timer can still fire
  task,                 \* the tasks in progress
  fatalErrors,          \* OnFatalError calls that have not been handled
  phase3,               \* RunPhase3Async has subscribed to OnFatalError
  session,              \* "running", "ending", "cleaning" or "ended"
  wsOpen,               \* the socket to the client is open
  clientGate,           \* the client reads media from the socket
  path,                 \* the WebRTC path itself: "trying", "up" or "failed"
  events                \* WebRTC state changes so far

p2pVars == <<connected, version>>
workerVars == <<workers, running, checked, inFlight>>
streamerVars == <<streamerRelay, streamerAlive>>
relayVars == <<relayMode, workerVars, generation, streamerVars>>
handlerVars == <<dtlsRetrying, timerArmed>>
sessionVars == <<fatalErrors, phase3, session>>
socketVars == <<wsOpen, clientGate>>
pathVars == <<path, events>>
worldVars == <<sessionVars, socketVars, pathVars>>
sharedVars == <<p2pVars, relayVars, handlerVars, worldVars>>

vars == <<connected, version, relayMode, workers, generation, running, checked,
          inFlight, streamerRelay, streamerAlive, lifecycle, dtlsRetrying, timerArmed, task,
          fatalErrors, phase3, session, wsOpen, clientGate, path, events>>

-----------------------------------------------------------------------------
AnyVersion == -1   \* no expected P2P version

Kinds == {"promote", "failure", "timer", "cleanup"}

Steps == {"idle",
          "markConnected", "cancelTimer", "markFailed", "checkMode", "checkRetrying", "setRetrying",
          "clearRetrying",
          "enter", "sendStart", "activate", "rollback", "confirm", "undo",
          "exit", "leaveMode", "stopWorkers", "awaitWorkers", "stopStreamer", "sendStop",
          "shutdown", "disposeStreamer", "closeSocket"}

(* expected is the caller's P2P version, entry the one read under the lock,   *)
(* own the worker session the task creates or stops, notify whether the     *)
(* client hears of the stop.                                               *)
Tasks == [kind : Kinds, at : Steps, expected : Nat \cup {AnyVersion}, entry : Nat, own : Nat,
          notify : BOOLEAN]

NewTask(kind, step, expected) ==
  [kind |-> kind, at |-> step, expected |-> expected, entry |-> 0, own |-> 0,
   notify |-> FALSE]
Idle == NewTask("timer", "idle", AnyVersion)

TypeOK ==
  /\ connected \in BOOLEAN /\ version \in Nat
  /\ relayMode \in BOOLEAN
  /\ generation \in Nat /\ workers \in 0 .. generation
  /\ running \subseteq 1 .. generation /\ checked \subseteq 1 .. generation
  /\ inFlight \in 0 .. generation
  /\ streamerRelay \in BOOLEAN /\ streamerAlive \in BOOLEAN
  /\ lifecycle \in Slots \cup {NoTask}
  /\ dtlsRetrying \in BOOLEAN /\ timerArmed \in BOOLEAN
  /\ task \in [Slots -> Tasks]
  /\ fatalErrors \in Nat /\ phase3 \in BOOLEAN
  /\ session \in {"running", "ending", "cleaning", "ended"}
  /\ wsOpen \in BOOLEAN /\ clientGate \in BOOLEAN
  /\ path \in {"trying", "up", "failed"} /\ events \in Nat

(* The ICE exchange of Phase 2 has begun: ArmRelayFallbackTimer has run.      *)
Init ==
  /\ connected = FALSE /\ version = 0
  /\ relayMode = FALSE
  /\ generation = 0 /\ workers = 0 /\ running = {} /\ checked = {}
  /\ inFlight = 0
  /\ streamerRelay = FALSE /\ streamerAlive = TRUE
  /\ lifecycle = NoTask
  /\ dtlsRetrying = FALSE /\ timerArmed = TRUE
  /\ task = [s \in Slots |-> Idle]
  /\ fatalErrors = 0 /\ phase3 = FALSE /\ session = "running"
  /\ wsOpen = TRUE /\ clientGate = FALSE
  /\ path = "trying" /\ events = 0

At(s, step) == task[s].at = step
GoTo(s, step) == task' = [task EXCEPT ![s].at = step]
Become(s, t) == task' = [task EXCEPT ![s] = t]

(* What a task does once enter or exit has returned to it.                   *)
Return(s) ==
  CASE task[s].kind = "failure" -> GoTo(s, "clearRetrying")
    [] task[s].kind = "cleanup" -> GoTo(s, "disposeStreamer")
    [] OTHER -> Become(s, Idle)

Release(s) == lifecycle' = NoTask /\ Return(s)

-----------------------------------------------------------------------------
(* The WebRTC path and the session around it.                               *)

Start(t) == \E s \in Slots : At(s, "idle") /\ Become(s, t)

(* DTLS has completed: OnAllTracksReady.                                     *)
PathUp ==
  /\ streamerAlive /\ events < MaxEvents
  /\ path # "up"
  /\ path' = "up" /\ events' = events + 1
  /\ Start(NewTask("promote", "markConnected", AnyVersion))
  /\ UNCHANGED <<p2pVars, relayVars, lifecycle, handlerVars, sessionVars, socketVars>>

(* ICE or DTLS has failed: OnConnectionFailed, once for each of the two.      *)
PathFails ==
  /\ streamerAlive /\ events < MaxEvents
  /\ path' = "failed" /\ events' = events + 1
  /\ Start(NewTask("failure", "markFailed", AnyVersion))
  /\ UNCHANGED <<p2pVars, relayVars, lifecycle, handlerVars, sessionVars, socketVars>>

RelayStillNeeded == ~connected /\ ~relayMode /\ streamerAlive

TimerFires ==
  /\ timerArmed
  /\ RelayStillNeeded
  /\ timerArmed' = FALSE
  /\ Start(NewTask("timer", "enter", AnyVersion))
  /\ UNCHANGED <<p2pVars, relayVars, lifecycle, dtlsRetrying, worldVars>>

TimerFiresLate ==
  /\ timerArmed
  /\ ~RelayStillNeeded
  /\ timerArmed' = FALSE
  /\ UNCHANGED <<p2pVars, relayVars, lifecycle, dtlsRetrying, task, worldVars>>

EnterPhase3 ==
  /\ session = "running" /\ ~phase3
  /\ connected \/ relayMode
  /\ phase3' = TRUE
  /\ UNCHANGED <<p2pVars, relayVars, lifecycle, handlerVars, task, fatalErrors, session,
                 socketVars, pathVars>>

(* OnFatalError: ends a session that is not recovering over the relay.        *)
FatalError ==
  /\ fatalErrors > 0
  /\ fatalErrors' = fatalErrors - 1
  /\ session' = IF session = "running" /\ phase3 /\ ~relayMode /\ ~dtlsRetrying
                THEN "ending" ELSE session
  /\ UNCHANGED <<p2pVars, relayVars, lifecycle, handlerVars, task, phase3, socketVars,
                 pathVars>>

SocketDrops ==
  /\ SendsFail /\ wsOpen
  /\ wsOpen' = FALSE
  /\ UNCHANGED <<p2pVars, relayVars, lifecycle, handlerVars, task, sessionVars,
                 clientGate, pathVars>>

(* The receive loop of the session ends: its socket is gone, or an error.     *)
SessionEnds ==
  /\ session = "running"
  /\ MayEnd \/ ~wsOpen
  /\ session' = "ending"
  /\ UNCHANGED <<p2pVars, relayVars, lifecycle, handlerVars, task, fatalErrors, phase3,
                 socketVars, pathVars>>

StartCleanup ==
  /\ session = "ending"
  /\ session' = "cleaning"
  /\ Start(NewTask("cleanup", "shutdown", AnyVersion))
  /\ UNCHANGED <<p2pVars, relayVars, lifecycle, handlerVars, fatalErrors, phase3,
                 socketVars, pathVars>>

-----------------------------------------------------------------------------
(* OnAllTracksReady and OnConnectionFailed up to the lifecycle semaphore.     *)

(* Mutant: the version is read before it is incremented.                     *)
MarkConnectedStale(s) ==
  /\ At(s, "markConnected")
  /\ connected' = TRUE
  /\ version' = IF connected THEN version ELSE version + 1
  /\ Become(s, NewTask("promote", "cancelTimer", version))
  /\ UNCHANGED <<relayVars, lifecycle, handlerVars, worldVars>>

MarkConnected(s) ==
  /\ At(s, "markConnected")
  /\ connected' = TRUE
  /\ version' = IF connected THEN version ELSE version + 1
  /\ Become(s, NewTask("promote", "cancelTimer", version'))
  /\ UNCHANGED <<relayVars, lifecycle, handlerVars, worldVars>>

CancelTimer(s) ==
  /\ At(s, "cancelTimer")
  /\ timerArmed' = FALSE
  /\ GoTo(s, "exit")
  /\ UNCHANGED <<p2pVars, relayVars, lifecycle, dtlsRetrying, worldVars>>

MarkTerminalFailure ==
  /\ connected' = FALSE
  /\ version' = IF connected \/ version = 0 THEN version + 1 ELSE version

MarkFailed(s) ==
  /\ At(s, "markFailed")
  /\ MarkTerminalFailure
  /\ Become(s, NewTask("failure", "checkMode", version'))
  /\ UNCHANGED <<relayVars, lifecycle, handlerVars, worldVars>>

(* The handler returns; its caller goes on to OnFatalError.                  *)
EndFailure(s) == Become(s, Idle) /\ fatalErrors' = fatalErrors + 1

FailWithoutSocket(s) ==
  /\ At(s, "checkMode") /\ ~wsOpen
  /\ EndFailure(s)
  /\ UNCHANGED <<p2pVars, relayVars, lifecycle, handlerVars, phase3, session, socketVars,
                 pathVars>>

FailWhileRelaying(s) ==
  /\ At(s, "checkMode") /\ wsOpen /\ relayMode
  /\ dtlsRetrying' = FALSE
  /\ EndFailure(s)
  /\ UNCHANGED <<p2pVars, relayVars, lifecycle, timerArmed, phase3, session, socketVars,
                 pathVars>>

FailWithoutRelay(s) ==
  /\ At(s, "checkMode") /\ wsOpen /\ ~relayMode
  /\ GoTo(s, "checkRetrying")
  /\ UNCHANGED <<sharedVars, lifecycle>>

FailWhileRetrying(s) ==
  /\ At(s, "checkRetrying") /\ dtlsRetrying
  /\ EndFailure(s)
  /\ UNCHANGED <<p2pVars, relayVars, lifecycle, handlerVars, phase3, session, socketVars,
                 pathVars>>

CheckRetrying(s) ==
  /\ At(s, "checkRetrying") /\ ~dtlsRetrying
  /\ GoTo(s, "setRetrying")
  /\ UNCHANGED <<sharedVars, lifecycle>>

(* The call to enter returns to the caller at its first await, so OnFatalError *)
(* follows while the task is still entering.                                *)
SetRetrying(s) ==
  /\ At(s, "setRetrying")
  /\ dtlsRetrying' = TRUE
  /\ GoTo(s, IF streamerAlive THEN "enter" ELSE "clearRetrying")
  /\ fatalErrors' = fatalErrors + 1
  /\ UNCHANGED <<p2pVars, relayVars, lifecycle, timerArmed, phase3, session, socketVars,
                 pathVars>>

ClearRetrying(s) ==
  /\ At(s, "clearRetrying")
  /\ dtlsRetrying' = FALSE
  /\ Become(s, Idle)
  /\ UNCHANGED <<p2pVars, relayVars, lifecycle, timerArmed, worldVars>>

-----------------------------------------------------------------------------
(* EnterMediaRelayModeAsync                                                 *)

MayEnter(s) ==
  /\ ~connected
  /\ task[s].expected \in {AnyVersion, version}
  /\ ~relayMode

SkipEnter(s) ==
  /\ At(s, "enter") /\ lifecycle = NoTask
  /\ ~MayEnter(s)
  /\ Return(s)
  /\ UNCHANGED <<sharedVars, lifecycle>>

(* Mutant: the generation is computed but not stored.                        *)
EnterSameGeneration(s) ==
  /\ At(s, "enter") /\ lifecycle = NoTask
  /\ MayEnter(s)
  /\ lifecycle' = s
  /\ timerArmed' = FALSE
  /\ task' = [task EXCEPT ![s].at = "sendStart", ![s].entry = version,
                          ![s].own = generation + 1]
  /\ UNCHANGED <<p2pVars, relayVars, dtlsRetrying, worldVars>>

Enter(s) ==
  /\ At(s, "enter") /\ lifecycle = NoTask
  /\ MayEnter(s)
  /\ lifecycle' = s
  /\ timerArmed' = FALSE
  /\ generation' = generation + 1
  /\ task' = [task EXCEPT ![s].at = "sendStart", ![s].entry = version,
                          ![s].own = generation + 1]
  /\ UNCHANGED <<p2pVars, relayMode, workerVars, streamerVars, dtlsRetrying, worldVars>>

SendStart(s) ==
  /\ At(s, "sendStart")
  /\ wsOpen
  /\ clientGate' = TRUE
  /\ GoTo(s, "activate")
  /\ UNCHANGED <<p2pVars, relayVars, lifecycle, handlerVars, sessionVars, wsOpen, pathVars>>

(* Mutant: the result of sending the start message is ignored.               *)
StartResultIgnored(s) ==
  /\ At(s, "sendStart")
  /\ ~wsOpen \/ SendsFail
  /\ GoTo(s, "activate")
  /\ UNCHANGED <<sharedVars, lifecycle>>

StartNotSent(s) ==
  /\ At(s, "sendStart")
  /\ ~wsOpen \/ SendsFail
  /\ Release(s)
  /\ UNCHANGED sharedVars

IsEntryCurrent(s) == version = task[s].entry /\ ~connected

(* The body of TryRunIfCurrent; starting the encoders may throw at its end.   *)
Publish(s) ==
  /\ At(s, "activate")
  /\ IsEntryCurrent(s)
  /\ workers' = task[s].own
  /\ relayMode' = TRUE
  /\ running' = running \cup {task[s].own}
  /\ streamerRelay' = TRUE
  /\ UNCHANGED <<p2pVars, checked, inFlight, generation, streamerAlive, lifecycle, handlerVars,
                 worldVars>>

Activate(s) == Publish(s) /\ GoTo(s, "confirm")

EncodersThrow(s) == MayThrow /\ Publish(s) /\ GoTo(s, "undo")

Overtaken(s) ==
  /\ At(s, "activate")
  /\ ~IsEntryCurrent(s)
  /\ GoTo(s, "rollback")
  /\ UNCHANGED <<sharedVars, lifecycle>>

(* TrySendTextAsync of media_relay_stop.                                     *)
StopSentOrNot ==
  \/ wsOpen /\ clientGate' = FALSE
  \/ (~wsOpen \/ SendsFail) /\ UNCHANGED clientGate

(* Mutant: an overtaken entry returns without releasing the semaphore.       *)
RollbackKeepsLock(s) ==
  /\ At(s, "rollback")
  /\ StopSentOrNot
  /\ Return(s)
  /\ UNCHANGED <<p2pVars, relayVars, lifecycle, handlerVars, sessionVars, wsOpen, pathVars>>

Rollback(s) ==
  /\ At(s, "rollback")
  /\ StopSentOrNot
  /\ Release(s)
  /\ UNCHANGED <<p2pVars, relayVars, handlerVars, sessionVars, wsOpen, pathVars>>

StopAndNotify(s, notify) ==
  task' = [task EXCEPT ![s].at = "stopWorkers", ![s].notify = notify]

ConfirmFails(s) ==
  /\ At(s, "confirm")
  /\ connected
  /\ relayMode' = FALSE
  /\ StopAndNotify(s, TRUE)
  /\ UNCHANGED <<p2pVars, workerVars, generation, streamerVars, lifecycle, handlerVars,
                 worldVars>>

(* Capture starts and the session is streaming over the relay.               *)
Confirm(s) ==
  /\ At(s, "confirm")
  /\ ~connected
  /\ Release(s)
  /\ UNCHANGED sharedVars

CaptureThrows(s) ==
  /\ At(s, "confirm")
  /\ ~connected /\ MayThrow
  /\ GoTo(s, "undo")
  /\ UNCHANGED <<sharedVars, lifecycle>>

(* Mutant: the catch block stops the workers but keeps the mode.             *)
UndoKeepsMode(s) ==
  /\ At(s, "undo")
  /\ StopAndNotify(s, TRUE)
  /\ UNCHANGED <<sharedVars, lifecycle>>

Undo(s) ==
  /\ At(s, "undo")
  /\ relayMode' = FALSE
  /\ StopAndNotify(s, TRUE)
  /\ UNCHANGED <<p2pVars, workerVars, generation, streamerVars, lifecycle, handlerVars,
                 worldVars>>

-----------------------------------------------------------------------------
(* ExitMediaRelayModeAsync, and the tail an undone entry shares with it.      *)

MayExit(s) ==
  task[s].expected # AnyVersion => connected /\ version = task[s].expected

SkipExit(s) ==
  /\ At(s, "exit") /\ lifecycle = NoTask
  /\ ~MayExit(s)
  /\ Return(s)
  /\ UNCHANGED <<sharedVars, lifecycle>>

Exit(s) ==
  /\ At(s, "exit") /\ lifecycle = NoTask
  /\ MayExit(s)
  /\ lifecycle' = s
  /\ GoTo(s, "leaveMode")
  /\ UNCHANGED sharedVars

(* Mutant: the client is told to stop reading before the workers stop.       *)
TellClientFirst(s) ==
  /\ At(s, "leaveMode")
  /\ relayMode' = FALSE
  /\ StopAndNotify(s, FALSE)
  /\ clientGate' = (clientGate /\ ~wsOpen)
  /\ UNCHANGED <<p2pVars, workerVars, generation, streamerVars, lifecycle, handlerVars,
                 sessionVars, wsOpen, pathVars>>

(* The client is told only when there was a relay to leave, and never by      *)
(* clean-up.                                                                *)
LeaveMode(s) ==
  /\ At(s, "leaveMode")
  /\ relayMode' = FALSE
  /\ StopAndNotify(s, relayMode /\ task[s].kind # "cleanup")
  /\ UNCHANGED <<p2pVars, workerVars, generation, streamerVars, lifecycle, handlerVars,
                 worldVars>>

(* Mutant: the workers are cancelled but not awaited.                        *)
CancelOnly(s) ==
  /\ At(s, "stopWorkers")
  /\ workers' = 0
  /\ GoTo(s, "stopStreamer")
  /\ UNCHANGED <<p2pVars, relayMode, running, checked, inFlight, generation, streamerVars,
                 lifecycle, handlerVars, worldVars>>

(* StopRelayWorkersLockedAsync: unpublish, cancel, await the send loops.      *)
StopWorkers(s) ==
  /\ At(s, "stopWorkers")
  /\ workers' = 0
  /\ task' = [task EXCEPT ![s].at = IF workers = 0 THEN "stopStreamer" ELSE "awaitWorkers",
                          ![s].own = workers]
  /\ UNCHANGED <<p2pVars, relayMode, running, checked, inFlight, generation, streamerVars,
                 lifecycle, handlerVars, worldVars>>

AwaitWorkers(s) ==
  /\ At(s, "awaitWorkers")
  /\ inFlight # task[s].own
  /\ running' = running \ {task[s].own}
  /\ checked' = checked \ {task[s].own}
  /\ GoTo(s, "stopStreamer")
  /\ UNCHANGED <<p2pVars, relayMode, workers, inFlight, generation, streamerVars,
                 lifecycle, handlerVars, worldVars>>

(* Exit goes through the _streamer field, an undone entry through its local.  *)
StopStreamer(s) ==
  /\ At(s, "stopStreamer")
  /\ streamerRelay' = (streamerRelay /\ ~streamerAlive
                         /\ task[s].kind \in {"promote", "cleanup"})
  /\ GoTo(s, "sendStop")
  /\ UNCHANGED <<p2pVars, relayMode, workerVars, generation, streamerAlive, lifecycle,
                 handlerVars, worldVars>>

SendStop(s) ==
  /\ At(s, "sendStop")
  /\ \/ task[s].notify /\ StopSentOrNot
     \/ ~task[s].notify /\ UNCHANGED clientGate
  /\ Release(s)
  /\ UNCHANGED <<p2pVars, relayVars, handlerVars, sessionVars, wsOpen, pathVars>>

-----------------------------------------------------------------------------
(* CleanupAsync                                                             *)

Shutdown(s) ==
  /\ At(s, "shutdown")
  /\ timerArmed' = FALSE
  /\ MarkTerminalFailure
  /\ GoTo(s, "exit")
  /\ UNCHANGED <<relayVars, lifecycle, dtlsRetrying, worldVars>>

DisposeStreamer(s) ==
  /\ At(s, "disposeStreamer")
  /\ streamerAlive' = FALSE
  /\ GoTo(s, "closeSocket")
  /\ UNCHANGED <<p2pVars, relayMode, workerVars, generation, streamerRelay, lifecycle,
                 handlerVars, worldVars>>

CloseSocket(s) ==
  /\ At(s, "closeSocket")
  /\ wsOpen' = FALSE
  /\ session' = "ended"
  /\ Become(s, Idle)
  /\ UNCHANGED <<p2pVars, relayVars, lifecycle, handlerVars, fatalErrors, phase3,
                 clientGate, pathVars>>

-----------------------------------------------------------------------------
(* The send loops of a worker session put one chunk at a time on the socket.   *)
(* A loop checks that it is current, then waits for the socket.              *)

CheckCurrent(g) ==
  /\ relayMode /\ workers = g
  /\ checked' = checked \cup {g}
  /\ UNCHANGED <<p2pVars, relayMode, workers, running, inFlight, generation, streamerVars,
                 lifecycle, handlerVars, task, worldVars>>

SendMedia(g) ==
  /\ g \in checked
  /\ wsOpen /\ inFlight = 0
  /\ inFlight' = g
  /\ checked' = checked \ {g}
  /\ UNCHANGED <<p2pVars, relayMode, workers, running, generation, streamerVars,
                 lifecycle, handlerVars, task, worldVars>>

MediaSent ==
  /\ inFlight # 0
  /\ inFlight' = 0
  /\ UNCHANGED <<p2pVars, relayMode, workers, running, checked, generation, streamerVars,
                 lifecycle, handlerVars, task, worldVars>>

-----------------------------------------------------------------------------
Callback(s) ==
  \/ MarkConnected(s) \/ CancelTimer(s) \/ MarkFailed(s)
  \/ FailWithoutSocket(s) \/ FailWhileRelaying(s) \/ FailWithoutRelay(s)
  \/ FailWhileRetrying(s) \/ CheckRetrying(s) \/ SetRetrying(s) \/ ClearRetrying(s)

EnterRelay(s) ==
  \/ SkipEnter(s) \/ Enter(s) \/ SendStart(s) \/ StartNotSent(s)
  \/ Activate(s) \/ EncodersThrow(s) \/ Overtaken(s) \/ Rollback(s)
  \/ ConfirmFails(s) \/ Confirm(s) \/ CaptureThrows(s) \/ Undo(s)

ExitRelay(s) ==
  \/ SkipExit(s) \/ Exit(s) \/ LeaveMode(s)
  \/ StopWorkers(s) \/ AwaitWorkers(s) \/ StopStreamer(s) \/ SendStop(s)

Cleanup(s) == Shutdown(s) \/ DisposeStreamer(s) \/ CloseSocket(s)

TaskStep(s) == Callback(s) \/ EnterRelay(s) \/ ExitRelay(s) \/ Cleanup(s)

Next ==
  \/ PathUp \/ PathFails \/ TimerFires \/ TimerFiresLate
  \/ EnterPhase3 \/ FatalError \/ SocketDrops \/ SessionEnds \/ StartCleanup
  \/ \E s \in Slots : TaskStep(s)
  \/ \E g \in running : CheckCurrent(g) \/ SendMedia(g)
  \/ MediaSent

Spec == Init /\ [][Next]_vars

(* Tasks run, sends return (they time out after five seconds), a session     *)
(* whose socket is gone is cleaned up.                                       *)
Fairness ==
  /\ \A s \in Slots : WF_vars(TaskStep(s))
  /\ WF_vars(MediaSent)
  /\ WF_vars(TimerFires \/ TimerFiresLate)
  /\ WF_vars(FatalError)
  /\ WF_vars(StartCleanup)
  /\ WF_vars(~wsOpen /\ SessionEnds)

FairSpec == Spec /\ Fairness

-----------------------------------------------------------------------------
(* RelayMedia.cs:359-375, 385-393, 426-445, 615-620.  While no transition     *)
(* holds the lifecycle semaphore, mode, published workers and running loops  *)
(* agree, whichever of the entry and exit paths ran last and wherever it     *)
(* was overtaken.                                                            *)
SettledConsistently ==
  lifecycle = NoTask =>
    /\ running = IF relayMode THEN {workers} ELSE {}
    /\ relayMode <=> workers # 0
    /\ relayMode => streamerRelay
    /\ streamerAlive => streamerRelay = relayMode

(* RelayMedia.cs:343-345, test ClientGate_StartTextPrecedesActiveCapture-     *)
(* BinaryOnEveryEntry.  No media chunk is on the socket unless the client has *)
(* been told to read it, on any of the entries a session makes, and never    *)
(* from two worker sessions at once.                                         *)
MediaOnlyBehindGate ==
  /\ inFlight # 0 => clientGate
  /\ Cardinality(running) <= 1

(* RelayMedia.cs:615-617.  The streamer is switched to direct output only     *)
(* after the relay generation is quiescent.                                  *)
DirectOnlyWhenQuiescent ==
  [][streamerRelay /\ ~streamerRelay' => running = {} /\ inFlight = 0]_vars

(* RelayMedia.cs:385-393, 641-646.  The relay runs beside a live P2P path only *)
(* while the task that will leave it is on its way: the promotion of the     *)
(* current version, or an entry that is about to see it.                     *)
RelayOverP2PIsBeingLeft ==
  connected /\ relayMode =>
    \E s \in Slots :
      \/ task[s].kind = "promote" /\ task[s].expected = version
           /\ task[s].at \in {"cancelTimer", "exit", "leaveMode"}
      \/ lifecycle = s /\ task[s].at \in {"confirm", "undo", "leaveMode"}

(* RelayMedia.cs:597-600.  A recovered P2P path and the relay do not stay      *)
(* active side by side: whichever task loses the race undoes its work.       *)
UpgradesToP2P == connected /\ relayMode ~> ~(connected /\ relayMode)

(* No path through enter, exit, rollback or the catch block keeps the          *)
(* lifecycle semaphore.                                                      *)
TransitionsEnd == lifecycle # NoTask ~> lifecycle = NoTask

(* Clean-up is never locked out: a session that ends closes its socket.       *)
CleanupCompletes == session = "ending" ~> session = "ended"

ClientView == INSTANCE RelayClientView WITH gate <- clientGate, media <- running # {}

(* The client's view of the relay: media only between start and stop.         *)
ImplementsClientView == ClientView!Spec
=============================================================================
