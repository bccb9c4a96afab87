-------------------------- MODULE MediaRelayProofs --------------------------
(***************************************************************************)
(* The relay lifecycle is consistent whenever it is settled, media stays   *)
(* behind the client's gate, and the lifecycle implements the client's     *)
(* view, for any number of concurrent tasks and any number of events.      *)
(***************************************************************************)
EXTENDS MediaRelay, FiniteSetTheorems, TLAPS

(* The steps a task takes while it holds the lifecycle semaphore.            *)
Locked == {"sendStart", "activate", "rollback", "confirm", "undo",
           "leaveMode", "stopWorkers", "awaitWorkers", "stopStreamer", "sendStop"}

LockHeld == \A s \in Slots : task[s].at \in Locked <=> lifecycle = s

Off ==
  /\ ~relayMode /\ workers = 0 /\ running = {}
  /\ streamerAlive => ~streamerRelay

Settled ==
  /\ running = IF relayMode THEN {workers} ELSE {}
  /\ relayMode <=> workers # 0
  /\ relayMode => streamerRelay
  /\ streamerAlive => streamerRelay = relayMode

(* What the holder's step says of mode, workers, loops and streamer.         *)
Shape ==
  /\ lifecycle = NoTask => Settled
  /\ \A s \in Slots :
       /\ At(s, "sendStart") \/ At(s, "activate") =>
            Off /\ task[s].own \in 1 .. generation
       /\ At(s, "rollback") => Off
       /\ At(s, "confirm") \/ At(s, "undo") =>
            /\ relayMode /\ streamerRelay
            /\ workers = task[s].own /\ workers # 0 /\ running = {workers}
       /\ At(s, "leaveMode") => Settled
       /\ At(s, "stopWorkers") =>
            ~relayMode /\ running = IF workers = 0 THEN {} ELSE {workers}
       /\ At(s, "awaitWorkers") =>
            /\ ~relayMode /\ workers = 0
            /\ task[s].own # 0 /\ running = {task[s].own}
       /\ At(s, "stopStreamer") => ~relayMode /\ workers = 0 /\ running = {}
       /\ At(s, "sendStop") => Off

FlightOwned == (inFlight # 0 => inFlight \in running) /\ checked \subseteq running

GateOpen ==
  /\ running # {} => clientGate
  /\ \A s \in Slots : At(s, "activate") => clientGate

IInv ==
  /\ TypeOK
  /\ LockHeld
  /\ Shape
  /\ FlightOwned
  /\ GateOpen
  /\ RelayOverP2PIsBeingLeft

(* The fields of a task, so that the leaves below need no record arithmetic. *)
Typed ==
  \A s \in Slots :
    /\ task[s] \in Tasks
    /\ task[s].kind \in Kinds /\ task[s].at \in Steps
    /\ task[s].expected \in Nat \cup {AnyVersion}
    /\ task[s].entry \in Nat /\ task[s].own \in Nat
    /\ task[s].notify \in BOOLEAN

LEMMA IInvTyped == ASSUME TypeOK PROVE Typed
BY DEF TypeOK, Typed, Tasks

(* TypeOK in two parts: the provers are weak at Booleans and numbers together. *)
Flags ==
  /\ connected \in BOOLEAN /\ relayMode \in BOOLEAN
  /\ streamerRelay \in BOOLEAN /\ streamerAlive \in BOOLEAN
  /\ dtlsRetrying \in BOOLEAN /\ timerArmed \in BOOLEAN
  /\ phase3 \in BOOLEAN /\ wsOpen \in BOOLEAN /\ clientGate \in BOOLEAN

Values ==
  /\ version \in Nat /\ generation \in Nat /\ workers \in 0 .. generation
  /\ running \subseteq 1 .. generation /\ checked \subseteq 1 .. generation
  /\ inFlight \in 0 .. generation
  /\ lifecycle \in Slots \cup {NoTask}
  /\ fatalErrors \in Nat
  /\ session \in {"running", "ending", "cleaning", "ended"}
  /\ path \in {"trying", "up", "failed"} /\ events \in Nat

LEMMA TypeParts == TypeOK <=> Flags /\ Values /\ task \in [Slots -> Tasks]
BY DEF TypeOK, Flags, Values

LEMMA TypePartsNext ==
  ASSUME Flags', Values', task' \in [Slots -> Tasks] PROVE TypeOK'
BY DEF TypeOK, Flags, Values

(* A task that returns from enter or exit holds nothing any more.            *)
Returned(s) ==
  /\ \A r \in Slots \ {s} : task'[r] = task[r]
  /\ task'[s].at \in {"idle", "clearRetrying", "disposeStreamer"}

LEMMA ReturnMoves ==
  ASSUME TypeOK, NEW s \in Slots, Release(s) \/ Return(s)
  PROVE  task' \in [Slots -> Tasks] /\ Returned(s)
<1>1. CASE task[s].kind = "failure"
  <2>1. task' = [task EXCEPT ![s].at = "clearRetrying"]
    BY <1>1 DEF Release, Return, GoTo
  <2> QED
    BY <2>1, IInvTyped DEF TypeOK, Typed, Tasks, Steps, Returned
<1>2. CASE task[s].kind = "cleanup"
  <2>1. task' = [task EXCEPT ![s].at = "disposeStreamer"]
    BY <1>2 DEF Release, Return, GoTo
  <2> QED
    BY <2>1, IInvTyped DEF TypeOK, Typed, Tasks, Steps, Returned
<1>3. CASE task[s].kind \notin {"failure", "cleanup"}
  <2>1. task' = [task EXCEPT ![s] = Idle]
    BY <1>3 DEF Release, Return, Become
  <2>2. Idle \in Tasks /\ Idle.at = "idle"
    BY DEF Idle, NewTask, Tasks, Steps, Kinds
  <2> QED
    BY <2>1, <2>2 DEF TypeOK, Returned
<1> QED
  BY <1>1, <1>2, <1>3

LEMMA InitIInv == Init => IInv
<1> SUFFICES ASSUME Init PROVE IInv
  OBVIOUS
<1> USE DEF Init, Idle, NewTask, At
<1>1. TypeOK
  <2>1. task \in [Slots -> Tasks]
    BY DEF Tasks, Kinds, Steps, AnyVersion
  <2>2. Flags
    BY Zenon DEF Flags
  <2>3. Values
    BY DEF Values
  <2> QED
    BY <2>1, <2>2, <2>3, TypeParts
<1>2. LockHeld
  BY NoTaskAssumption DEF LockHeld, Locked
<1>3. Shape /\ FlightOwned /\ GateOpen /\ RelayOverP2PIsBeingLeft
  BY DEF Shape, Settled, FlightOwned, GateOpen, RelayOverP2PIsBeingLeft
<1> QED
  BY <1>1, <1>2, <1>3 DEF IInv

(* The path comes up: a promotion starts in an idle slot. *)
LEMMA PathUpStep == ASSUME IInv, PathUp PROVE IInv'
<1> USE DEF PathUp, At, Start, Become, NewTask, Idle, p2pVars, relayVars, workerVars,
    streamerVars, handlerVars, sessionVars, socketVars, pathVars, worldVars, sharedVars
<1>0. TypeOK /\ Typed
  BY IInvTyped DEF IInv
<1>a. task' \in [Slots -> Tasks]
  BY <1>0 DEF TypeOK, Tasks, Steps, Kinds, Typed
<1>1. TypeOK'
  <2>1. Flags'
    BY <1>0, Zenon DEF TypeOK, Flags
  <2>2. Values'
    BY <1>0, <1>a DEF TypeOK, Values, Typed
  <2> QED
    BY <1>a, <2>1, <2>2, TypePartsNext
<1>2. LockHeld'
  BY <1>0, NoTaskAssumption DEF IInv, TypeOK, Typed, LockHeld, Locked
<1>3. Shape'
  BY <1>0, NoTaskAssumption DEF IInv, TypeOK, Typed, Shape, Off, Settled, LockHeld,
     Locked
<1>4. FlightOwned'
  BY <1>0, NoTaskAssumption DEF IInv, TypeOK, Typed, FlightOwned, Shape, Off, Settled
<1>5. GateOpen'
  BY <1>0, NoTaskAssumption DEF IInv, TypeOK, Typed, GateOpen, Shape, Off, Settled,
     LockHeld, Locked
<1>6. RelayOverP2PIsBeingLeft'
  BY <1>0, NoTaskAssumption DEF IInv, TypeOK, Typed, RelayOverP2PIsBeingLeft, Shape,
     Off, LockHeld, Locked
<1> QED
  BY <1>1, <1>2, <1>3, <1>4, <1>5, <1>6 DEF IInv

(* The path fails: a failure callback starts in an idle slot. *)
LEMMA PathFailsStep == ASSUME IInv, PathFails PROVE IInv'
<1> USE DEF PathFails, At, Start, Become, NewTask, Idle, p2pVars, relayVars, workerVars,
    streamerVars, handlerVars, sessionVars, socketVars, pathVars, worldVars, sharedVars
<1>0. TypeOK /\ Typed
  BY IInvTyped DEF IInv
<1>a. task' \in [Slots -> Tasks]
  BY <1>0 DEF TypeOK, Tasks, Steps, Kinds, Typed
<1>1. TypeOK'
  <2>1. Flags'
    BY <1>0, Zenon DEF TypeOK, Flags
  <2>2. Values'
    BY <1>0, <1>a DEF TypeOK, Values, Typed
  <2> QED
    BY <1>a, <2>1, <2>2, TypePartsNext
<1>2. LockHeld'
  BY <1>0, NoTaskAssumption DEF IInv, TypeOK, Typed, LockHeld, Locked
<1>3. Shape'
  BY <1>0, NoTaskAssumption DEF IInv, TypeOK, Typed, Shape, Off, Settled, LockHeld,
     Locked
<1>4. FlightOwned'
  BY <1>0, NoTaskAssumption DEF IInv, TypeOK, Typed, FlightOwned, Shape, Off, Settled
<1>5. GateOpen'
  BY <1>0, NoTaskAssumption DEF IInv, TypeOK, Typed, GateOpen, Shape, Off, Settled,
     LockHeld, Locked
<1>6. RelayOverP2PIsBeingLeft'
  BY <1>0, NoTaskAssumption DEF IInv, TypeOK, Typed, RelayOverP2PIsBeingLeft, Shape,
     Off, LockHeld, Locked
<1> QED
  BY <1>1, <1>2, <1>3, <1>4, <1>5, <1>6 DEF IInv

(* The fallback timer becomes an entry. *)
LEMMA TimerFiresStep == ASSUME IInv, TimerFires PROVE IInv'
<1> USE DEF TimerFires, At, RelayStillNeeded, Start, Become, NewTask, Idle, p2pVars,
    relayVars, workerVars, streamerVars, handlerVars, sessionVars, socketVars, pathVars,
    worldVars, sharedVars
<1>0. TypeOK /\ Typed
  BY IInvTyped DEF IInv
<1>a. task' \in [Slots -> Tasks]
  BY <1>0 DEF TypeOK, Tasks, Steps, Kinds, Typed
<1>1. TypeOK'
  <2>1. Flags'
    BY <1>0, Zenon DEF TypeOK, Flags
  <2>2. Values'
    BY <1>0, <1>a DEF TypeOK, Values, Typed
  <2> QED
    BY <1>a, <2>1, <2>2, TypePartsNext
<1>2. LockHeld'
  BY <1>0, NoTaskAssumption DEF IInv, TypeOK, Typed, LockHeld, Locked
<1>3. Shape'
  BY <1>0, NoTaskAssumption DEF IInv, TypeOK, Typed, Shape, Off, Settled, LockHeld,
     Locked
<1>4. FlightOwned'
  BY <1>0, NoTaskAssumption DEF IInv, TypeOK, Typed, FlightOwned, Shape, Off, Settled
<1>5. GateOpen'
  BY <1>0, NoTaskAssumption DEF IInv, TypeOK, Typed, GateOpen, Shape, Off, Settled,
     LockHeld, Locked
<1>6. RelayOverP2PIsBeingLeft'
  BY <1>0, NoTaskAssumption DEF IInv, TypeOK, Typed, RelayOverP2PIsBeingLeft, Shape,
     Off, LockHeld, Locked
<1> QED
  BY <1>1, <1>2, <1>3, <1>4, <1>5, <1>6 DEF IInv

(* The fallback timer comes too late. *)
LEMMA TimerFiresLateStep == ASSUME IInv, TimerFiresLate PROVE IInv'
<1> USE DEF TimerFiresLate, At, RelayStillNeeded, p2pVars, relayVars, workerVars,
    streamerVars, handlerVars, sessionVars, socketVars, pathVars, worldVars, sharedVars
<1>0. TypeOK /\ Typed
  BY IInvTyped DEF IInv
<1>a. task' \in [Slots -> Tasks]
  BY <1>0 DEF TypeOK, Tasks, Steps, Kinds, Typed
<1>1. TypeOK'
  <2>1. Flags'
    BY <1>0, Zenon DEF TypeOK, Flags
  <2>2. Values'
    BY <1>0, <1>a DEF TypeOK, Values, Typed
  <2> QED
    BY <1>a, <2>1, <2>2, TypePartsNext
<1>2. LockHeld'
  BY <1>0, NoTaskAssumption DEF IInv, TypeOK, Typed, LockHeld, Locked
<1>3. Shape'
  BY <1>0, NoTaskAssumption DEF IInv, TypeOK, Typed, Shape, Off, Settled, LockHeld,
     Locked
<1>4. FlightOwned'
  BY <1>0, NoTaskAssumption DEF IInv, TypeOK, Typed, FlightOwned, Shape, Off, Settled
<1>5. GateOpen'
  BY <1>0, NoTaskAssumption DEF IInv, TypeOK, Typed, GateOpen, Shape, Off, Settled,
     LockHeld, Locked
<1>6. RelayOverP2PIsBeingLeft'
  BY <1>0, NoTaskAssumption DEF IInv, TypeOK, Typed, RelayOverP2PIsBeingLeft, Shape,
     Off, LockHeld, Locked
<1> QED
  BY <1>1, <1>2, <1>3, <1>4, <1>5, <1>6 DEF IInv

(* Entering Phase 3 touches none of the parts. *)
LEMMA EnterPhase3Step == ASSUME IInv, EnterPhase3 PROVE IInv'
<1> USE DEF EnterPhase3, At, p2pVars, relayVars, workerVars, streamerVars, handlerVars,
    sessionVars, socketVars, pathVars, worldVars, sharedVars
<1>0. TypeOK /\ Typed
  BY IInvTyped DEF IInv
<1>a. task' \in [Slots -> Tasks]
  BY <1>0 DEF TypeOK, Tasks, Steps, Kinds, Typed
<1>1. TypeOK'
  <2>1. Flags'
    BY <1>0, Zenon DEF TypeOK, Flags
  <2>2. Values'
    BY <1>0, <1>a DEF TypeOK, Values, Typed
  <2> QED
    BY <1>a, <2>1, <2>2, TypePartsNext
<1>2. LockHeld'
  BY <1>0, NoTaskAssumption DEF IInv, TypeOK, Typed, LockHeld, Locked
<1>3. Shape'
  BY <1>0, NoTaskAssumption DEF IInv, TypeOK, Typed, Shape, Off, Settled, LockHeld,
     Locked
<1>4. FlightOwned'
  BY <1>0, NoTaskAssumption DEF IInv, TypeOK, Typed, FlightOwned, Shape, Off, Settled
<1>5. GateOpen'
  BY <1>0, NoTaskAssumption DEF IInv, TypeOK, Typed, GateOpen, Shape, Off, Settled,
     LockHeld, Locked
<1>6. RelayOverP2PIsBeingLeft'
  BY <1>0, NoTaskAssumption DEF IInv, TypeOK, Typed, RelayOverP2PIsBeingLeft, Shape,
     Off, LockHeld, Locked
<1> QED
  BY <1>1, <1>2, <1>3, <1>4, <1>5, <1>6 DEF IInv

(* A fatal error may end the session, nothing else. *)
LEMMA FatalErrorStep == ASSUME IInv, FatalError PROVE IInv'
<1> USE DEF FatalError, At, p2pVars, relayVars, workerVars, streamerVars, handlerVars,
    sessionVars, socketVars, pathVars, worldVars, sharedVars
<1>0. TypeOK /\ Typed
  BY IInvTyped DEF IInv
<1>a. task' \in [Slots -> Tasks]
  BY <1>0 DEF TypeOK, Tasks, Steps, Kinds, Typed
<1>1. TypeOK'
  <2>1. Flags'
    BY <1>0, Zenon DEF TypeOK, Flags
  <2>2. Values'
    BY <1>0, <1>a DEF TypeOK, Values, Typed
  <2> QED
    BY <1>a, <2>1, <2>2, TypePartsNext
<1>2. LockHeld'
  BY <1>0, NoTaskAssumption DEF IInv, TypeOK, Typed, LockHeld, Locked
<1>3. Shape'
  BY <1>0, NoTaskAssumption DEF IInv, TypeOK, Typed, Shape, Off, Settled, LockHeld,
     Locked
<1>4. FlightOwned'
  BY <1>0, NoTaskAssumption DEF IInv, TypeOK, Typed, FlightOwned, Shape, Off, Settled
<1>5. GateOpen'
  BY <1>0, NoTaskAssumption DEF IInv, TypeOK, Typed, GateOpen, Shape, Off, Settled,
     LockHeld, Locked
<1>6. RelayOverP2PIsBeingLeft'
  BY <1>0, NoTaskAssumption DEF IInv, TypeOK, Typed, RelayOverP2PIsBeingLeft, Shape,
     Off, LockHeld, Locked
<1> QED
  BY <1>1, <1>2, <1>3, <1>4, <1>5, <1>6 DEF IInv

(* The socket drops: the client keeps its gate. *)
LEMMA SocketDropsStep == ASSUME IInv, SocketDrops PROVE IInv'
<1> USE DEF SocketDrops, At, p2pVars, relayVars, workerVars, streamerVars, handlerVars,
    sessionVars, socketVars, pathVars, worldVars, sharedVars
<1>0. TypeOK /\ Typed
  BY IInvTyped DEF IInv
<1>a. task' \in [Slots -> Tasks]
  BY <1>0 DEF TypeOK, Tasks, Steps, Kinds, Typed
<1>1. TypeOK'
  <2>1. Flags'
    BY <1>0, Zenon DEF TypeOK, Flags
  <2>2. Values'
    BY <1>0, <1>a DEF TypeOK, Values, Typed
  <2> QED
    BY <1>a, <2>1, <2>2, TypePartsNext
<1>2. LockHeld'
  BY <1>0, NoTaskAssumption DEF IInv, TypeOK, Typed, LockHeld, Locked
<1>3. Shape'
  BY <1>0, NoTaskAssumption DEF IInv, TypeOK, Typed, Shape, Off, Settled, LockHeld,
     Locked
<1>4. FlightOwned'
  BY <1>0, NoTaskAssumption DEF IInv, TypeOK, Typed, FlightOwned, Shape, Off, Settled
<1>5. GateOpen'
  BY <1>0, NoTaskAssumption DEF IInv, TypeOK, Typed, GateOpen, Shape, Off, Settled,
     LockHeld, Locked
<1>6. RelayOverP2PIsBeingLeft'
  BY <1>0, NoTaskAssumption DEF IInv, TypeOK, Typed, RelayOverP2PIsBeingLeft, Shape,
     Off, LockHeld, Locked
<1> QED
  BY <1>1, <1>2, <1>3, <1>4, <1>5, <1>6 DEF IInv

(* The session ends. *)
LEMMA SessionEndsStep == ASSUME IInv, SessionEnds PROVE IInv'
<1> USE DEF SessionEnds, At, p2pVars, relayVars, workerVars, streamerVars, handlerVars,
    sessionVars, socketVars, pathVars, worldVars, sharedVars
<1>0. TypeOK /\ Typed
  BY IInvTyped DEF IInv
<1>a. task' \in [Slots -> Tasks]
  BY <1>0 DEF TypeOK, Tasks, Steps, Kinds, Typed
<1>1. TypeOK'
  <2>1. Flags'
    BY <1>0, Zenon DEF TypeOK, Flags
  <2>2. Values'
    BY <1>0, <1>a DEF TypeOK, Values, Typed
  <2> QED
    BY <1>a, <2>1, <2>2, TypePartsNext
<1>2. LockHeld'
  BY <1>0, NoTaskAssumption DEF IInv, TypeOK, Typed, LockHeld, Locked
<1>3. Shape'
  BY <1>0, NoTaskAssumption DEF IInv, TypeOK, Typed, Shape, Off, Settled, LockHeld,
     Locked
<1>4. FlightOwned'
  BY <1>0, NoTaskAssumption DEF IInv, TypeOK, Typed, FlightOwned, Shape, Off, Settled
<1>5. GateOpen'
  BY <1>0, NoTaskAssumption DEF IInv, TypeOK, Typed, GateOpen, Shape, Off, Settled,
     LockHeld, Locked
<1>6. RelayOverP2PIsBeingLeft'
  BY <1>0, NoTaskAssumption DEF IInv, TypeOK, Typed, RelayOverP2PIsBeingLeft, Shape,
     Off, LockHeld, Locked
<1> QED
  BY <1>1, <1>2, <1>3, <1>4, <1>5, <1>6 DEF IInv

(* Clean-up starts in an idle slot. *)
LEMMA StartCleanupStep == ASSUME IInv, StartCleanup PROVE IInv'
<1> USE DEF StartCleanup, At, Start, Become, NewTask, Idle, p2pVars, relayVars,
    workerVars, streamerVars, handlerVars, sessionVars, socketVars, pathVars, worldVars,
    sharedVars
<1>0. TypeOK /\ Typed
  BY IInvTyped DEF IInv
<1>a. task' \in [Slots -> Tasks]
  BY <1>0 DEF TypeOK, Tasks, Steps, Kinds, Typed
<1>1. TypeOK'
  <2>1. Flags'
    BY <1>0, Zenon DEF TypeOK, Flags
  <2>2. Values'
    BY <1>0, <1>a DEF TypeOK, Values, Typed
  <2> QED
    BY <1>a, <2>1, <2>2, TypePartsNext
<1>2. LockHeld'
  BY <1>0, NoTaskAssumption DEF IInv, TypeOK, Typed, LockHeld, Locked
<1>3. Shape'
  BY <1>0, NoTaskAssumption DEF IInv, TypeOK, Typed, Shape, Off, Settled, LockHeld,
     Locked
<1>4. FlightOwned'
  BY <1>0, NoTaskAssumption DEF IInv, TypeOK, Typed, FlightOwned, Shape, Off, Settled
<1>5. GateOpen'
  BY <1>0, NoTaskAssumption DEF IInv, TypeOK, Typed, GateOpen, Shape, Off, Settled,
     LockHeld, Locked
<1>6. RelayOverP2PIsBeingLeft'
  BY <1>0, NoTaskAssumption DEF IInv, TypeOK, Typed, RelayOverP2PIsBeingLeft, Shape,
     Off, LockHeld, Locked
<1> QED
  BY <1>1, <1>2, <1>3, <1>4, <1>5, <1>6 DEF IInv

(* The promotion of the version it has just made current is what leaves the relay. *)
LEMMA MarkConnectedStep == ASSUME IInv, NEW s \in Slots, MarkConnected(s) PROVE IInv'
<1> USE DEF MarkConnected, At, Become, NewTask, Idle, p2pVars, relayVars, workerVars,
    streamerVars, handlerVars, sessionVars, socketVars, pathVars, worldVars, sharedVars
<1>0. TypeOK /\ Typed
  BY IInvTyped DEF IInv
<1>a. task' \in [Slots -> Tasks]
  BY <1>0 DEF TypeOK, Tasks, Steps, Kinds, Typed
<1>1. TypeOK'
  <2>1. Flags'
    BY <1>0, Zenon DEF TypeOK, Flags
  <2>2. Values'
    BY <1>0, <1>a DEF TypeOK, Values, Typed
  <2> QED
    BY <1>a, <2>1, <2>2, TypePartsNext
<1>2. LockHeld'
  BY <1>0, NoTaskAssumption DEF IInv, TypeOK, Typed, LockHeld, Locked
<1>3. Shape'
  BY <1>0, NoTaskAssumption DEF IInv, TypeOK, Typed, Shape, Off, Settled, LockHeld,
     Locked
<1>4. FlightOwned'
  BY <1>0, NoTaskAssumption DEF IInv, TypeOK, Typed, FlightOwned, Shape, Off, Settled
<1>5. GateOpen'
  BY <1>0, NoTaskAssumption DEF IInv, TypeOK, Typed, GateOpen, Shape, Off, Settled,
     LockHeld, Locked
<1>6. RelayOverP2PIsBeingLeft'
  BY <1>0, NoTaskAssumption DEF IInv, TypeOK, Typed, RelayOverP2PIsBeingLeft, Shape,
     Off, LockHeld, Locked
<1> QED
  BY <1>1, <1>2, <1>3, <1>4, <1>5, <1>6 DEF IInv

(* The promotion cancels the timer and goes on to exit. *)
LEMMA CancelTimerStep == ASSUME IInv, NEW s \in Slots, CancelTimer(s) PROVE IInv'
<1> USE DEF CancelTimer, At, GoTo, p2pVars, relayVars, workerVars, streamerVars,
    handlerVars, sessionVars, socketVars, pathVars, worldVars, sharedVars
<1>0. TypeOK /\ Typed
  BY IInvTyped DEF IInv
<1>a. task' \in [Slots -> Tasks]
  BY <1>0 DEF TypeOK, Tasks, Steps, Kinds, Typed
<1>1. TypeOK'
  <2>1. Flags'
    BY <1>0, Zenon DEF TypeOK, Flags
  <2>2. Values'
    BY <1>0, <1>a DEF TypeOK, Values, Typed
  <2> QED
    BY <1>a, <2>1, <2>2, TypePartsNext
<1>2. LockHeld'
  BY <1>0, NoTaskAssumption DEF IInv, TypeOK, Typed, LockHeld, Locked
<1>3. Shape'
  BY <1>0, NoTaskAssumption DEF IInv, TypeOK, Typed, Shape, Off, Settled, LockHeld,
     Locked
<1>4. FlightOwned'
  BY <1>0, NoTaskAssumption DEF IInv, TypeOK, Typed, FlightOwned, Shape, Off, Settled
<1>5. GateOpen'
  BY <1>0, NoTaskAssumption DEF IInv, TypeOK, Typed, GateOpen, Shape, Off, Settled,
     LockHeld, Locked
<1>6. RelayOverP2PIsBeingLeft'
  BY <1>0, NoTaskAssumption DEF IInv, TypeOK, Typed, RelayOverP2PIsBeingLeft, Shape,
     Off, LockHeld, Locked
<1> QED
  BY <1>1, <1>2, <1>3, <1>4, <1>5, <1>6 DEF IInv

(* A failure takes the P2P path away. *)
LEMMA MarkFailedStep == ASSUME IInv, NEW s \in Slots, MarkFailed(s) PROVE IInv'
<1> USE DEF MarkFailed, At, Become, MarkTerminalFailure, NewTask, Idle, p2pVars,
    relayVars, workerVars, streamerVars, handlerVars, sessionVars, socketVars, pathVars,
    worldVars, sharedVars
<1>0. TypeOK /\ Typed
  BY IInvTyped DEF IInv
<1>a. task' \in [Slots -> Tasks]
  BY <1>0 DEF TypeOK, Tasks, Steps, Kinds, Typed
<1>1. TypeOK'
  <2>1. Flags'
    BY <1>0, Zenon DEF TypeOK, Flags
  <2>2. Values'
    BY <1>0, <1>a DEF TypeOK, Values, Typed
  <2> QED
    BY <1>a, <2>1, <2>2, TypePartsNext
<1>2. LockHeld'
  BY <1>0, NoTaskAssumption DEF IInv, TypeOK, Typed, LockHeld, Locked
<1>3. Shape'
  BY <1>0, NoTaskAssumption DEF IInv, TypeOK, Typed, Shape, Off, Settled, LockHeld,
     Locked
<1>4. FlightOwned'
  BY <1>0, NoTaskAssumption DEF IInv, TypeOK, Typed, FlightOwned, Shape, Off, Settled
<1>5. GateOpen'
  BY <1>0, NoTaskAssumption DEF IInv, TypeOK, Typed, GateOpen, Shape, Off, Settled,
     LockHeld, Locked
<1>6. RelayOverP2PIsBeingLeft'
  BY <1>0, NoTaskAssumption DEF IInv, TypeOK, Typed, RelayOverP2PIsBeingLeft, Shape,
     Off, LockHeld, Locked
<1> QED
  BY <1>1, <1>2, <1>3, <1>4, <1>5, <1>6 DEF IInv

(* A failure without a socket ends. *)
LEMMA FailWithoutSocketStep == ASSUME IInv, NEW s \in Slots, FailWithoutSocket(s) PROVE IInv'
<1> USE DEF FailWithoutSocket, At, EndFailure, Become, NewTask, Idle, p2pVars,
    relayVars, workerVars, streamerVars, handlerVars, sessionVars, socketVars, pathVars,
    worldVars, sharedVars
<1>0. TypeOK /\ Typed
  BY IInvTyped DEF IInv
<1>a. task' \in [Slots -> Tasks]
  BY <1>0 DEF TypeOK, Tasks, Steps, Kinds, Typed
<1>1. TypeOK'
  <2>1. Flags'
    BY <1>0, Zenon DEF TypeOK, Flags
  <2>2. Values'
    BY <1>0, <1>a DEF TypeOK, Values, Typed
  <2> QED
    BY <1>a, <2>1, <2>2, TypePartsNext
<1>2. LockHeld'
  BY <1>0, NoTaskAssumption DEF IInv, TypeOK, Typed, LockHeld, Locked
<1>3. Shape'
  BY <1>0, NoTaskAssumption DEF IInv, TypeOK, Typed, Shape, Off, Settled, LockHeld,
     Locked
<1>4. FlightOwned'
  BY <1>0, NoTaskAssumption DEF IInv, TypeOK, Typed, FlightOwned, Shape, Off, Settled
<1>5. GateOpen'
  BY <1>0, NoTaskAssumption DEF IInv, TypeOK, Typed, GateOpen, Shape, Off, Settled,
     LockHeld, Locked
<1>6. RelayOverP2PIsBeingLeft'
  BY <1>0, NoTaskAssumption DEF IInv, TypeOK, Typed, RelayOverP2PIsBeingLeft, Shape,
     Off, LockHeld, Locked
<1> QED
  BY <1>1, <1>2, <1>3, <1>4, <1>5, <1>6 DEF IInv

(* A failure while relaying ends. *)
LEMMA FailWhileRelayingStep == ASSUME IInv, NEW s \in Slots, FailWhileRelaying(s) PROVE IInv'
<1> USE DEF FailWhileRelaying, At, EndFailure, Become, NewTask, Idle, p2pVars,
    relayVars, workerVars, streamerVars, handlerVars, sessionVars, socketVars, pathVars,
    worldVars, sharedVars
<1>0. TypeOK /\ Typed
  BY IInvTyped DEF IInv
<1>a. task' \in [Slots -> Tasks]
  BY <1>0 DEF TypeOK, Tasks, Steps, Kinds, Typed
<1>1. TypeOK'
  <2>1. Flags'
    BY <1>0, Zenon DEF TypeOK, Flags
  <2>2. Values'
    BY <1>0, <1>a DEF TypeOK, Values, Typed
  <2> QED
    BY <1>a, <2>1, <2>2, TypePartsNext
<1>2. LockHeld'
  BY <1>0, NoTaskAssumption DEF IInv, TypeOK, Typed, LockHeld, Locked
<1>3. Shape'
  BY <1>0, NoTaskAssumption DEF IInv, TypeOK, Typed, Shape, Off, Settled, LockHeld,
     Locked
<1>4. FlightOwned'
  BY <1>0, NoTaskAssumption DEF IInv, TypeOK, Typed, FlightOwned, Shape, Off, Settled
<1>5. GateOpen'
  BY <1>0, NoTaskAssumption DEF IInv, TypeOK, Typed, GateOpen, Shape, Off, Settled,
     LockHeld, Locked
<1>6. RelayOverP2PIsBeingLeft'
  BY <1>0, NoTaskAssumption DEF IInv, TypeOK, Typed, RelayOverP2PIsBeingLeft, Shape,
     Off, LockHeld, Locked
<1> QED
  BY <1>1, <1>2, <1>3, <1>4, <1>5, <1>6 DEF IInv

(* A failure goes on. *)
LEMMA FailWithoutRelayStep == ASSUME IInv, NEW s \in Slots, FailWithoutRelay(s) PROVE IInv'
<1> USE DEF FailWithoutRelay, At, GoTo, p2pVars, relayVars, workerVars, streamerVars,
    handlerVars, sessionVars, socketVars, pathVars, worldVars, sharedVars
<1>0. TypeOK /\ Typed
  BY IInvTyped DEF IInv
<1>a. task' \in [Slots -> Tasks]
  BY <1>0 DEF TypeOK, Tasks, Steps, Kinds, Typed
<1>1. TypeOK'
  <2>1. Flags'
    BY <1>0, Zenon DEF TypeOK, Flags
  <2>2. Values'
    BY <1>0, <1>a DEF TypeOK, Values, Typed
  <2> QED
    BY <1>a, <2>1, <2>2, TypePartsNext
<1>2. LockHeld'
  BY <1>0, NoTaskAssumption DEF IInv, TypeOK, Typed, LockHeld, Locked
<1>3. Shape'
  BY <1>0, NoTaskAssumption DEF IInv, TypeOK, Typed, Shape, Off, Settled, LockHeld,
     Locked
<1>4. FlightOwned'
  BY <1>0, NoTaskAssumption DEF IInv, TypeOK, Typed, FlightOwned, Shape, Off, Settled
<1>5. GateOpen'
  BY <1>0, NoTaskAssumption DEF IInv, TypeOK, Typed, GateOpen, Shape, Off, Settled,
     LockHeld, Locked
<1>6. RelayOverP2PIsBeingLeft'
  BY <1>0, NoTaskAssumption DEF IInv, TypeOK, Typed, RelayOverP2PIsBeingLeft, Shape,
     Off, LockHeld, Locked
<1> QED
  BY <1>1, <1>2, <1>3, <1>4, <1>5, <1>6 DEF IInv

(* A failure while another enters the relay ends. *)
LEMMA FailWhileRetryingStep == ASSUME IInv, NEW s \in Slots, FailWhileRetrying(s) PROVE IInv'
<1> USE DEF FailWhileRetrying, At, EndFailure, Become, NewTask, Idle, p2pVars,
    relayVars, workerVars, streamerVars, handlerVars, sessionVars, socketVars, pathVars,
    worldVars, sharedVars
<1>0. TypeOK /\ Typed
  BY IInvTyped DEF IInv
<1>a. task' \in [Slots -> Tasks]
  BY <1>0 DEF TypeOK, Tasks, Steps, Kinds, Typed
<1>1. TypeOK'
  <2>1. Flags'
    BY <1>0, Zenon DEF TypeOK, Flags
  <2>2. Values'
    BY <1>0, <1>a DEF TypeOK, Values, Typed
  <2> QED
    BY <1>a, <2>1, <2>2, TypePartsNext
<1>2. LockHeld'
  BY <1>0, NoTaskAssumption DEF IInv, TypeOK, Typed, LockHeld, Locked
<1>3. Shape'
  BY <1>0, NoTaskAssumption DEF IInv, TypeOK, Typed, Shape, Off, Settled, LockHeld,
     Locked
<1>4. FlightOwned'
  BY <1>0, NoTaskAssumption DEF IInv, TypeOK, Typed, FlightOwned, Shape, Off, Settled
<1>5. GateOpen'
  BY <1>0, NoTaskAssumption DEF IInv, TypeOK, Typed, GateOpen, Shape, Off, Settled,
     LockHeld, Locked
<1>6. RelayOverP2PIsBeingLeft'
  BY <1>0, NoTaskAssumption DEF IInv, TypeOK, Typed, RelayOverP2PIsBeingLeft, Shape,
     Off, LockHeld, Locked
<1> QED
  BY <1>1, <1>2, <1>3, <1>4, <1>5, <1>6 DEF IInv

(* A failure goes on. *)
LEMMA CheckRetryingStep == ASSUME IInv, NEW s \in Slots, CheckRetrying(s) PROVE IInv'
<1> USE DEF CheckRetrying, At, GoTo, p2pVars, relayVars, workerVars, streamerVars,
    handlerVars, sessionVars, socketVars, pathVars, worldVars, sharedVars
<1>0. TypeOK /\ Typed
  BY IInvTyped DEF IInv
<1>a. task' \in [Slots -> Tasks]
  BY <1>0 DEF TypeOK, Tasks, Steps, Kinds, Typed
<1>1. TypeOK'
  <2>1. Flags'
    BY <1>0, Zenon DEF TypeOK, Flags
  <2>2. Values'
    BY <1>0, <1>a DEF TypeOK, Values, Typed
  <2> QED
    BY <1>a, <2>1, <2>2, TypePartsNext
<1>2. LockHeld'
  BY <1>0, NoTaskAssumption DEF IInv, TypeOK, Typed, LockHeld, Locked
<1>3. Shape'
  BY <1>0, NoTaskAssumption DEF IInv, TypeOK, Typed, Shape, Off, Settled, LockHeld,
     Locked
<1>4. FlightOwned'
  BY <1>0, NoTaskAssumption DEF IInv, TypeOK, Typed, FlightOwned, Shape, Off, Settled
<1>5. GateOpen'
  BY <1>0, NoTaskAssumption DEF IInv, TypeOK, Typed, GateOpen, Shape, Off, Settled,
     LockHeld, Locked
<1>6. RelayOverP2PIsBeingLeft'
  BY <1>0, NoTaskAssumption DEF IInv, TypeOK, Typed, RelayOverP2PIsBeingLeft, Shape,
     Off, LockHeld, Locked
<1> QED
  BY <1>1, <1>2, <1>3, <1>4, <1>5, <1>6 DEF IInv

(* A failure starts to enter. *)
LEMMA SetRetryingStep == ASSUME IInv, NEW s \in Slots, SetRetrying(s) PROVE IInv'
<1> USE DEF SetRetrying, At, GoTo, p2pVars, relayVars, workerVars, streamerVars,
    handlerVars, sessionVars, socketVars, pathVars, worldVars, sharedVars
<1>0. TypeOK /\ Typed
  BY IInvTyped DEF IInv
<1>a. task' \in [Slots -> Tasks]
  BY <1>0 DEF TypeOK, Tasks, Steps, Kinds, Typed
<1>1. TypeOK'
  <2>1. Flags'
    BY <1>0, Zenon DEF TypeOK, Flags
  <2>2. Values'
    BY <1>0, <1>a DEF TypeOK, Values, Typed
  <2> QED
    BY <1>a, <2>1, <2>2, TypePartsNext
<1>2. LockHeld'
  BY <1>0, NoTaskAssumption DEF IInv, TypeOK, Typed, LockHeld, Locked
<1>3. Shape'
  BY <1>0, NoTaskAssumption DEF IInv, TypeOK, Typed, Shape, Off, Settled, LockHeld,
     Locked
<1>4. FlightOwned'
  BY <1>0, NoTaskAssumption DEF IInv, TypeOK, Typed, FlightOwned, Shape, Off, Settled
<1>5. GateOpen'
  BY <1>0, NoTaskAssumption DEF IInv, TypeOK, Typed, GateOpen, Shape, Off, Settled,
     LockHeld, Locked
<1>6. RelayOverP2PIsBeingLeft'
  BY <1>0, NoTaskAssumption DEF IInv, TypeOK, Typed, RelayOverP2PIsBeingLeft, Shape,
     Off, LockHeld, Locked
<1> QED
  BY <1>1, <1>2, <1>3, <1>4, <1>5, <1>6 DEF IInv

(* A failure is done. *)
LEMMA ClearRetryingStep == ASSUME IInv, NEW s \in Slots, ClearRetrying(s) PROVE IInv'
<1> USE DEF ClearRetrying, At, Become, NewTask, Idle, p2pVars, relayVars, workerVars,
    streamerVars, handlerVars, sessionVars, socketVars, pathVars, worldVars, sharedVars
<1>0. TypeOK /\ Typed
  BY IInvTyped DEF IInv
<1>a. task' \in [Slots -> Tasks]
  BY <1>0 DEF TypeOK, Tasks, Steps, Kinds, Typed
<1>1. TypeOK'
  <2>1. Flags'
    BY <1>0, Zenon DEF TypeOK, Flags
  <2>2. Values'
    BY <1>0, <1>a DEF TypeOK, Values, Typed
  <2> QED
    BY <1>a, <2>1, <2>2, TypePartsNext
<1>2. LockHeld'
  BY <1>0, NoTaskAssumption DEF IInv, TypeOK, Typed, LockHeld, Locked
<1>3. Shape'
  BY <1>0, NoTaskAssumption DEF IInv, TypeOK, Typed, Shape, Off, Settled, LockHeld,
     Locked
<1>4. FlightOwned'
  BY <1>0, NoTaskAssumption DEF IInv, TypeOK, Typed, FlightOwned, Shape, Off, Settled
<1>5. GateOpen'
  BY <1>0, NoTaskAssumption DEF IInv, TypeOK, Typed, GateOpen, Shape, Off, Settled,
     LockHeld, Locked
<1>6. RelayOverP2PIsBeingLeft'
  BY <1>0, NoTaskAssumption DEF IInv, TypeOK, Typed, RelayOverP2PIsBeingLeft, Shape,
     Off, LockHeld, Locked
<1> QED
  BY <1>1, <1>2, <1>3, <1>4, <1>5, <1>6 DEF IInv

(* An entry that is out of date returns without the semaphore. *)
LEMMA SkipEnterStep == ASSUME IInv, NEW s \in Slots, SkipEnter(s) PROVE IInv'
<1> USE DEF SkipEnter, At, MayEnter, p2pVars, relayVars, workerVars, streamerVars,
    handlerVars, sessionVars, socketVars, pathVars, worldVars, sharedVars
<1>0. TypeOK /\ Typed
  BY IInvTyped DEF IInv
<1>a. task' \in [Slots -> Tasks] /\ Returned(s)
  BY <1>0, ReturnMoves DEF IInv
<1>1. TypeOK'
  <2>1. Flags'
    BY <1>0, Zenon DEF TypeOK, Flags
  <2>2. Values'
    BY <1>0, <1>a DEF TypeOK, Values, Typed
  <2> QED
    BY <1>a, <2>1, <2>2, TypePartsNext
<1>2. LockHeld'
  BY <1>0, <1>a, NoTaskAssumption DEF IInv, TypeOK, Typed, LockHeld, Locked, Returned
<1>3. Shape'
  BY <1>0, <1>a, NoTaskAssumption DEF IInv, TypeOK, Typed, Shape, Off, Settled,
     LockHeld, Locked, Returned
<1>4. FlightOwned'
  BY <1>0, <1>a, NoTaskAssumption DEF IInv, TypeOK, Typed, FlightOwned, Shape, Off,
     Settled, Returned
<1>5. GateOpen'
  BY <1>0, <1>a, NoTaskAssumption DEF IInv, TypeOK, Typed, GateOpen, Shape, Off,
     Settled, LockHeld, Locked, Returned
<1>6. RelayOverP2PIsBeingLeft'
  BY <1>0, <1>a, NoTaskAssumption DEF IInv, TypeOK, Typed, RelayOverP2PIsBeingLeft,
     Shape, Off, LockHeld, Locked, Returned
<1> QED
  BY <1>1, <1>2, <1>3, <1>4, <1>5, <1>6 DEF IInv

(* An entry takes the semaphore: the relay is off and consistent. *)
LEMMA EnterStep == ASSUME IInv, NEW s \in Slots, Enter(s) PROVE IInv'
<1> USE DEF Enter, At, MayEnter, p2pVars, relayVars, workerVars, streamerVars,
    handlerVars, sessionVars, socketVars, pathVars, worldVars, sharedVars
<1>0. TypeOK /\ Typed
  BY IInvTyped DEF IInv
<1>a. task' \in [Slots -> Tasks]
  <2>0. generation + 1 \in Nat
    BY <1>0 DEF TypeOK
  <2>1. [task[s] EXCEPT !.at = "sendStart", !.entry = version, !.own = generation + 1] \in Tasks
    BY <1>0, <2>0 DEF TypeOK, Values, Tasks, Steps, Kinds, Typed
  <2>2. task' = [task EXCEPT ![s] = [task[s] EXCEPT !.at = "sendStart", !.entry = version, !.own = generation + 1]]
    BY <1>0 DEF TypeOK
  <2> QED
    BY <1>0, <2>1, <2>2 DEF TypeOK
<1>1. TypeOK'
  <2>1. Flags'
    BY <1>0, Zenon DEF TypeOK, Flags
  <2>2. Values'
    BY <1>0, <1>a DEF TypeOK, Values, Typed
  <2> QED
    BY <1>a, <2>1, <2>2, TypePartsNext
<1>2. LockHeld'
  BY <1>0, NoTaskAssumption DEF IInv, TypeOK, Typed, LockHeld, Locked
<1>3. Shape'
  BY <1>0, NoTaskAssumption DEF IInv, TypeOK, Typed, Shape, Off, Settled, LockHeld,
     Locked
<1>4. FlightOwned'
  BY <1>0, NoTaskAssumption DEF IInv, TypeOK, Typed, FlightOwned, Shape, Off, Settled
<1>5. GateOpen'
  BY <1>0, NoTaskAssumption DEF IInv, TypeOK, Typed, GateOpen, Shape, Off, Settled,
     LockHeld, Locked
<1>6. RelayOverP2PIsBeingLeft'
  BY <1>0, NoTaskAssumption DEF IInv, TypeOK, Typed, RelayOverP2PIsBeingLeft, Shape,
     Off, LockHeld, Locked
<1> QED
  BY <1>1, <1>2, <1>3, <1>4, <1>5, <1>6 DEF IInv

(* The client hears of the relay before it is active. *)
LEMMA SendStartStep == ASSUME IInv, NEW s \in Slots, SendStart(s) PROVE IInv'
<1> USE DEF SendStart, At, GoTo, p2pVars, relayVars, workerVars, streamerVars,
    handlerVars, sessionVars, socketVars, pathVars, worldVars, sharedVars
<1>0. TypeOK /\ Typed
  BY IInvTyped DEF IInv
<1>a. task' \in [Slots -> Tasks]
  BY <1>0 DEF TypeOK, Tasks, Steps, Kinds, Typed
<1>1. TypeOK'
  <2>1. Flags'
    BY <1>0, Zenon DEF TypeOK, Flags
  <2>2. Values'
    BY <1>0, <1>a DEF TypeOK, Values, Typed
  <2> QED
    BY <1>a, <2>1, <2>2, TypePartsNext
<1>2. LockHeld'
  BY <1>0, NoTaskAssumption DEF IInv, TypeOK, Typed, LockHeld, Locked
<1>3. Shape'
  BY <1>0, NoTaskAssumption DEF IInv, TypeOK, Typed, Shape, Off, Settled, LockHeld,
     Locked
<1>4. FlightOwned'
  BY <1>0, NoTaskAssumption DEF IInv, TypeOK, Typed, FlightOwned, Shape, Off, Settled
<1>5. GateOpen'
  BY <1>0, NoTaskAssumption DEF IInv, TypeOK, Typed, GateOpen, Shape, Off, Settled,
     LockHeld, Locked
<1>6. RelayOverP2PIsBeingLeft'
  BY <1>0, NoTaskAssumption DEF IInv, TypeOK, Typed, RelayOverP2PIsBeingLeft, Shape,
     Off, LockHeld, Locked
<1> QED
  BY <1>1, <1>2, <1>3, <1>4, <1>5, <1>6 DEF IInv

(* Without the client the entry gives up, the relay still off. *)
LEMMA StartNotSentStep == ASSUME IInv, NEW s \in Slots, StartNotSent(s) PROVE IInv'
<1> USE DEF StartNotSent, At, Release, p2pVars, relayVars, workerVars, streamerVars,
    handlerVars, sessionVars, socketVars, pathVars, worldVars, sharedVars
<1>0. TypeOK /\ Typed
  BY IInvTyped DEF IInv
<1>a. task' \in [Slots -> Tasks] /\ Returned(s)
  BY <1>0, ReturnMoves DEF IInv
<1>1. TypeOK'
  <2>1. Flags'
    BY <1>0, Zenon DEF TypeOK, Flags
  <2>2. Values'
    BY <1>0, <1>a DEF TypeOK, Values, Typed
  <2> QED
    BY <1>a, <2>1, <2>2, TypePartsNext
<1>2. LockHeld'
  BY <1>0, <1>a, NoTaskAssumption DEF IInv, TypeOK, Typed, LockHeld, Locked, Returned
<1>3. Shape'
  BY <1>0, <1>a, NoTaskAssumption DEF IInv, TypeOK, Typed, Shape, Off, Settled,
     LockHeld, Locked, Returned
<1>4. FlightOwned'
  BY <1>0, <1>a, NoTaskAssumption DEF IInv, TypeOK, Typed, FlightOwned, Shape, Off,
     Settled, Returned
<1>5. GateOpen'
  BY <1>0, <1>a, NoTaskAssumption DEF IInv, TypeOK, Typed, GateOpen, Shape, Off,
     Settled, LockHeld, Locked, Returned
<1>6. RelayOverP2PIsBeingLeft'
  BY <1>0, <1>a, NoTaskAssumption DEF IInv, TypeOK, Typed, RelayOverP2PIsBeingLeft,
     Shape, Off, LockHeld, Locked, Returned
<1> QED
  BY <1>1, <1>2, <1>3, <1>4, <1>5, <1>6 DEF IInv

(* Activation whose encoders do not start goes to the catch block. *)
LEMMA EncodersThrowStep == ASSUME IInv, NEW s \in Slots, EncodersThrow(s) PROVE IInv'
<1> USE DEF EncodersThrow, At, Publish, GoTo, IsEntryCurrent, p2pVars, relayVars,
    workerVars, streamerVars, handlerVars, sessionVars, socketVars, pathVars, worldVars,
    sharedVars
<1>0. TypeOK /\ Typed
  BY IInvTyped DEF IInv
<1>a. task' \in [Slots -> Tasks]
  BY <1>0 DEF TypeOK, Tasks, Steps, Kinds, Typed
<1>1. TypeOK'
  <2>1. Flags'
    BY <1>0, Zenon DEF TypeOK, Flags
  <2>2. Values'
    BY <1>0, <1>a DEF IInv, Shape, TypeOK, Values, Typed
  <2> QED
    BY <1>a, <2>1, <2>2, TypePartsNext
<1>2. LockHeld'
  BY <1>0, NoTaskAssumption DEF IInv, TypeOK, Typed, LockHeld, Locked
<1>3. Shape'
  BY <1>0, NoTaskAssumption DEF IInv, TypeOK, Typed, Shape, Off, Settled, LockHeld,
     Locked
<1>4. FlightOwned'
  BY <1>0, NoTaskAssumption DEF IInv, TypeOK, Typed, FlightOwned, Shape, Off, Settled
<1>5. GateOpen'
  BY <1>0, NoTaskAssumption DEF IInv, TypeOK, Typed, GateOpen, Shape, Off, Settled,
     LockHeld, Locked
<1>6. RelayOverP2PIsBeingLeft'
  BY <1>0, NoTaskAssumption DEF IInv, TypeOK, Typed, RelayOverP2PIsBeingLeft, Shape,
     Off, LockHeld, Locked
<1> QED
  BY <1>1, <1>2, <1>3, <1>4, <1>5, <1>6 DEF IInv

(* Activation publishes the entry's own worker session behind an open gate. *)
LEMMA ActivateStep == ASSUME IInv, NEW s \in Slots, Activate(s) PROVE IInv'
<1> USE DEF Activate, At, Publish, GoTo, IsEntryCurrent, p2pVars, relayVars, workerVars,
    streamerVars, handlerVars, sessionVars, socketVars, pathVars, worldVars, sharedVars
<1>0. TypeOK /\ Typed
  BY IInvTyped DEF IInv
<1>a. task' \in [Slots -> Tasks]
  BY <1>0 DEF TypeOK, Tasks, Steps, Kinds, Typed
<1>1. TypeOK'
  <2>1. Flags'
    BY <1>0, Zenon DEF TypeOK, Flags
  <2>2. Values'
    BY <1>0, <1>a DEF IInv, Shape, TypeOK, Values, Typed
  <2> QED
    BY <1>a, <2>1, <2>2, TypePartsNext
<1>2. LockHeld'
  BY <1>0, NoTaskAssumption DEF IInv, TypeOK, Typed, LockHeld, Locked
<1>3. Shape'
  BY <1>0, NoTaskAssumption DEF IInv, TypeOK, Typed, Shape, Off, Settled, LockHeld,
     Locked
<1>4. FlightOwned'
  BY <1>0, NoTaskAssumption DEF IInv, TypeOK, Typed, FlightOwned, Shape, Off, Settled
<1>5. GateOpen'
  BY <1>0, NoTaskAssumption DEF IInv, TypeOK, Typed, GateOpen, Shape, Off, Settled,
     LockHeld, Locked
<1>6. RelayOverP2PIsBeingLeft'
  BY <1>0, NoTaskAssumption DEF IInv, TypeOK, Typed, RelayOverP2PIsBeingLeft, Shape,
     Off, LockHeld, Locked
<1> QED
  BY <1>1, <1>2, <1>3, <1>4, <1>5, <1>6 DEF IInv

(* An overtaken entry rolls back, the relay still off. *)
LEMMA OvertakenStep == ASSUME IInv, NEW s \in Slots, Overtaken(s) PROVE IInv'
<1> USE DEF Overtaken, At, GoTo, IsEntryCurrent, p2pVars, relayVars, workerVars,
    streamerVars, handlerVars, sessionVars, socketVars, pathVars, worldVars, sharedVars
<1>0. TypeOK /\ Typed
  BY IInvTyped DEF IInv
<1>a. task' \in [Slots -> Tasks]
  BY <1>0 DEF TypeOK, Tasks, Steps, Kinds, Typed
<1>1. TypeOK'
  <2>1. Flags'
    BY <1>0, Zenon DEF TypeOK, Flags
  <2>2. Values'
    BY <1>0, <1>a DEF TypeOK, Values, Typed
  <2> QED
    BY <1>a, <2>1, <2>2, TypePartsNext
<1>2. LockHeld'
  BY <1>0, NoTaskAssumption DEF IInv, TypeOK, Typed, LockHeld, Locked
<1>3. Shape'
  BY <1>0, NoTaskAssumption DEF IInv, TypeOK, Typed, Shape, Off, Settled, LockHeld,
     Locked
<1>4. FlightOwned'
  BY <1>0, NoTaskAssumption DEF IInv, TypeOK, Typed, FlightOwned, Shape, Off, Settled
<1>5. GateOpen'
  BY <1>0, NoTaskAssumption DEF IInv, TypeOK, Typed, GateOpen, Shape, Off, Settled,
     LockHeld, Locked
<1>6. RelayOverP2PIsBeingLeft'
  BY <1>0, NoTaskAssumption DEF IInv, TypeOK, Typed, RelayOverP2PIsBeingLeft, Shape,
     Off, LockHeld, Locked
<1> QED
  BY <1>1, <1>2, <1>3, <1>4, <1>5, <1>6 DEF IInv

(* The client hears of the stop with no media behind it. *)
LEMMA RollbackStep == ASSUME IInv, NEW s \in Slots, Rollback(s) PROVE IInv'
<1> USE DEF Rollback, At, StopSentOrNot, Release, p2pVars, relayVars, workerVars,
    streamerVars, handlerVars, sessionVars, socketVars, pathVars, worldVars, sharedVars
<1>0. TypeOK /\ Typed
  BY IInvTyped DEF IInv
<1>a. task' \in [Slots -> Tasks] /\ Returned(s)
  BY <1>0, ReturnMoves DEF IInv
<1>1. TypeOK'
  <2>1. Flags'
    BY <1>0, Zenon DEF TypeOK, Flags
  <2>2. Values'
    BY <1>0, <1>a DEF TypeOK, Values, Typed
  <2> QED
    BY <1>a, <2>1, <2>2, TypePartsNext
<1>2. LockHeld'
  BY <1>0, <1>a, NoTaskAssumption DEF IInv, TypeOK, Typed, LockHeld, Locked, Returned
<1>3. Shape'
  BY <1>0, <1>a, NoTaskAssumption DEF IInv, TypeOK, Typed, Shape, Off, Settled,
     LockHeld, Locked, Returned
<1>4. FlightOwned'
  BY <1>0, <1>a, NoTaskAssumption DEF IInv, TypeOK, Typed, FlightOwned, Shape, Off,
     Settled, Returned
<1>5. GateOpen'
  BY <1>0, <1>a, NoTaskAssumption DEF IInv, TypeOK, Typed, GateOpen, Shape, Off,
     Settled, LockHeld, Locked, Returned
<1>6. RelayOverP2PIsBeingLeft'
  BY <1>0, <1>a, NoTaskAssumption DEF IInv, TypeOK, Typed, RelayOverP2PIsBeingLeft,
     Shape, Off, LockHeld, Locked, Returned
<1> QED
  BY <1>1, <1>2, <1>3, <1>4, <1>5, <1>6 DEF IInv

(* P2P has come up meanwhile: the entry undoes itself. *)
LEMMA ConfirmFailsStep == ASSUME IInv, NEW s \in Slots, ConfirmFails(s) PROVE IInv'
<1> USE DEF ConfirmFails, At, StopAndNotify, p2pVars, relayVars, workerVars,
    streamerVars, handlerVars, sessionVars, socketVars, pathVars, worldVars, sharedVars
<1>0. TypeOK /\ Typed
  BY IInvTyped DEF IInv
<1>a. task' \in [Slots -> Tasks]
  <2>1. [task[s] EXCEPT !.at = "stopWorkers", !.notify = TRUE] \in Tasks
    BY <1>0 DEF TypeOK, Values, Tasks, Steps, Kinds, Typed
  <2>2. task' = [task EXCEPT ![s] = [task[s] EXCEPT !.at = "stopWorkers", !.notify = TRUE]]
    BY <1>0 DEF TypeOK
  <2> QED
    BY <1>0, <2>1, <2>2 DEF TypeOK
<1>1. TypeOK'
  <2>1. Flags'
    BY <1>0, Zenon DEF TypeOK, Flags
  <2>2. Values'
    BY <1>0, <1>a DEF TypeOK, Values, Typed
  <2> QED
    BY <1>a, <2>1, <2>2, TypePartsNext
<1>2. LockHeld'
  BY <1>0, NoTaskAssumption DEF IInv, TypeOK, Typed, LockHeld, Locked
<1>3. Shape'
  BY <1>0, NoTaskAssumption DEF IInv, TypeOK, Typed, Shape, Off, Settled, LockHeld,
     Locked
<1>4. FlightOwned'
  BY <1>0, NoTaskAssumption DEF IInv, TypeOK, Typed, FlightOwned, Shape, Off, Settled
<1>5. GateOpen'
  BY <1>0, NoTaskAssumption DEF IInv, TypeOK, Typed, GateOpen, Shape, Off, Settled,
     LockHeld, Locked
<1>6. RelayOverP2PIsBeingLeft'
  BY <1>0, NoTaskAssumption DEF IInv, TypeOK, Typed, RelayOverP2PIsBeingLeft, Shape,
     Off, LockHeld, Locked
<1> QED
  BY <1>1, <1>2, <1>3, <1>4, <1>5, <1>6 DEF IInv

(* The relay is settled. *)
LEMMA ConfirmStep == ASSUME IInv, NEW s \in Slots, Confirm(s) PROVE IInv'
<1> USE DEF Confirm, At, Release, p2pVars, relayVars, workerVars, streamerVars,
    handlerVars, sessionVars, socketVars, pathVars, worldVars, sharedVars
<1>0. TypeOK /\ Typed
  BY IInvTyped DEF IInv
<1>a. task' \in [Slots -> Tasks] /\ Returned(s)
  BY <1>0, ReturnMoves DEF IInv
<1>1. TypeOK'
  <2>1. Flags'
    BY <1>0, Zenon DEF TypeOK, Flags
  <2>2. Values'
    BY <1>0, <1>a DEF TypeOK, Values, Typed
  <2> QED
    BY <1>a, <2>1, <2>2, TypePartsNext
<1>2. LockHeld'
  BY <1>0, <1>a, NoTaskAssumption DEF IInv, TypeOK, Typed, LockHeld, Locked, Returned
<1>3. Shape'
  BY <1>0, <1>a, NoTaskAssumption DEF IInv, TypeOK, Typed, Shape, Off, Settled,
     LockHeld, Locked, Returned
<1>4. FlightOwned'
  BY <1>0, <1>a, NoTaskAssumption DEF IInv, TypeOK, Typed, FlightOwned, Shape, Off,
     Settled, Returned
<1>5. GateOpen'
  BY <1>0, <1>a, NoTaskAssumption DEF IInv, TypeOK, Typed, GateOpen, Shape, Off,
     Settled, LockHeld, Locked, Returned
<1>6. RelayOverP2PIsBeingLeft'
  BY <1>0, <1>a, NoTaskAssumption DEF IInv, TypeOK, Typed, RelayOverP2PIsBeingLeft,
     Shape, Off, LockHeld, Locked, Returned
<1> QED
  BY <1>1, <1>2, <1>3, <1>4, <1>5, <1>6 DEF IInv

(* The entry goes to its catch block. *)
LEMMA CaptureThrowsStep == ASSUME IInv, NEW s \in Slots, CaptureThrows(s) PROVE IInv'
<1> USE DEF CaptureThrows, At, GoTo, p2pVars, relayVars, workerVars, streamerVars,
    handlerVars, sessionVars, socketVars, pathVars, worldVars, sharedVars
<1>0. TypeOK /\ Typed
  BY IInvTyped DEF IInv
<1>a. task' \in [Slots -> Tasks]
  BY <1>0 DEF TypeOK, Tasks, Steps, Kinds, Typed
<1>1. TypeOK'
  <2>1. Flags'
    BY <1>0, Zenon DEF TypeOK, Flags
  <2>2. Values'
    BY <1>0, <1>a DEF TypeOK, Values, Typed
  <2> QED
    BY <1>a, <2>1, <2>2, TypePartsNext
<1>2. LockHeld'
  BY <1>0, NoTaskAssumption DEF IInv, TypeOK, Typed, LockHeld, Locked
<1>3. Shape'
  BY <1>0, NoTaskAssumption DEF IInv, TypeOK, Typed, Shape, Off, Settled, LockHeld,
     Locked
<1>4. FlightOwned'
  BY <1>0, NoTaskAssumption DEF IInv, TypeOK, Typed, FlightOwned, Shape, Off, Settled
<1>5. GateOpen'
  BY <1>0, NoTaskAssumption DEF IInv, TypeOK, Typed, GateOpen, Shape, Off, Settled,
     LockHeld, Locked
<1>6. RelayOverP2PIsBeingLeft'
  BY <1>0, NoTaskAssumption DEF IInv, TypeOK, Typed, RelayOverP2PIsBeingLeft, Shape,
     Off, LockHeld, Locked
<1> QED
  BY <1>1, <1>2, <1>3, <1>4, <1>5, <1>6 DEF IInv

(* The catch block turns the relay off. *)
LEMMA UndoStep == ASSUME IInv, NEW s \in Slots, Undo(s) PROVE IInv'
<1> USE DEF Undo, At, StopAndNotify, p2pVars, relayVars, workerVars, streamerVars,
    handlerVars, sessionVars, socketVars, pathVars, worldVars, sharedVars
<1>0. TypeOK /\ Typed
  BY IInvTyped DEF IInv
<1>a. task' \in [Slots -> Tasks]
  <2>1. [task[s] EXCEPT !.at = "stopWorkers", !.notify = TRUE] \in Tasks
    BY <1>0 DEF TypeOK, Values, Tasks, Steps, Kinds, Typed
  <2>2. task' = [task EXCEPT ![s] = [task[s] EXCEPT !.at = "stopWorkers", !.notify = TRUE]]
    BY <1>0 DEF TypeOK
  <2> QED
    BY <1>0, <2>1, <2>2 DEF TypeOK
<1>1. TypeOK'
  <2>1. Flags'
    BY <1>0, Zenon DEF TypeOK, Flags
  <2>2. Values'
    BY <1>0, <1>a DEF TypeOK, Values, Typed
  <2> QED
    BY <1>a, <2>1, <2>2, TypePartsNext
<1>2. LockHeld'
  BY <1>0, NoTaskAssumption DEF IInv, TypeOK, Typed, LockHeld, Locked
<1>3. Shape'
  BY <1>0, NoTaskAssumption DEF IInv, TypeOK, Typed, Shape, Off, Settled, LockHeld,
     Locked
<1>4. FlightOwned'
  BY <1>0, NoTaskAssumption DEF IInv, TypeOK, Typed, FlightOwned, Shape, Off, Settled
<1>5. GateOpen'
  BY <1>0, NoTaskAssumption DEF IInv, TypeOK, Typed, GateOpen, Shape, Off, Settled,
     LockHeld, Locked
<1>6. RelayOverP2PIsBeingLeft'
  BY <1>0, NoTaskAssumption DEF IInv, TypeOK, Typed, RelayOverP2PIsBeingLeft, Shape,
     Off, LockHeld, Locked
<1> QED
  BY <1>1, <1>2, <1>3, <1>4, <1>5, <1>6 DEF IInv

(* An exit that is out of date is not the one that leaves the relay. *)
LEMMA SkipExitStep == ASSUME IInv, NEW s \in Slots, SkipExit(s) PROVE IInv'
<1> USE DEF SkipExit, At, MayExit, p2pVars, relayVars, workerVars, streamerVars,
    handlerVars, sessionVars, socketVars, pathVars, worldVars, sharedVars
<1>0. TypeOK /\ Typed
  BY IInvTyped DEF IInv
<1>a. task' \in [Slots -> Tasks] /\ Returned(s)
  BY <1>0, ReturnMoves DEF IInv
<1>1. TypeOK'
  <2>1. Flags'
    BY <1>0, Zenon DEF TypeOK, Flags
  <2>2. Values'
    BY <1>0, <1>a DEF TypeOK, Values, Typed
  <2> QED
    BY <1>a, <2>1, <2>2, TypePartsNext
<1>2. LockHeld'
  BY <1>0, <1>a, NoTaskAssumption DEF IInv, TypeOK, Typed, LockHeld, Locked, Returned
<1>3. Shape'
  BY <1>0, <1>a, NoTaskAssumption DEF IInv, TypeOK, Typed, Shape, Off, Settled,
     LockHeld, Locked, Returned
<1>4. FlightOwned'
  BY <1>0, <1>a, NoTaskAssumption DEF IInv, TypeOK, Typed, FlightOwned, Shape, Off,
     Settled, Returned
<1>5. GateOpen'
  BY <1>0, <1>a, NoTaskAssumption DEF IInv, TypeOK, Typed, GateOpen, Shape, Off,
     Settled, LockHeld, Locked, Returned
<1>6. RelayOverP2PIsBeingLeft'
  BY <1>0, <1>a, NoTaskAssumption DEF IInv, TypeOK, Typed, RelayOverP2PIsBeingLeft,
     Shape, Off, LockHeld, Locked, Returned
<1> QED
  BY <1>1, <1>2, <1>3, <1>4, <1>5, <1>6 DEF IInv

(* An exit takes the semaphore. *)
LEMMA ExitStep == ASSUME IInv, NEW s \in Slots, Exit(s) PROVE IInv'
<1> USE DEF Exit, At, GoTo, MayExit, p2pVars, relayVars, workerVars, streamerVars,
    handlerVars, sessionVars, socketVars, pathVars, worldVars, sharedVars
<1>0. TypeOK /\ Typed
  BY IInvTyped DEF IInv
<1>a. task' \in [Slots -> Tasks]
  BY <1>0 DEF TypeOK, Tasks, Steps, Kinds, Typed
<1>1. TypeOK'
  <2>1. Flags'
    BY <1>0, Zenon DEF TypeOK, Flags
  <2>2. Values'
    BY <1>0, <1>a DEF TypeOK, Values, Typed
  <2> QED
    BY <1>a, <2>1, <2>2, TypePartsNext
<1>2. LockHeld'
  BY <1>0, NoTaskAssumption DEF IInv, TypeOK, Typed, LockHeld, Locked
<1>3. Shape'
  BY <1>0, NoTaskAssumption DEF IInv, TypeOK, Typed, Shape, Off, Settled, LockHeld,
     Locked
<1>4. FlightOwned'
  BY <1>0, NoTaskAssumption DEF IInv, TypeOK, Typed, FlightOwned, Shape, Off, Settled
<1>5. GateOpen'
  BY <1>0, NoTaskAssumption DEF IInv, TypeOK, Typed, GateOpen, Shape, Off, Settled,
     LockHeld, Locked
<1>6. RelayOverP2PIsBeingLeft'
  BY <1>0, NoTaskAssumption DEF IInv, TypeOK, Typed, RelayOverP2PIsBeingLeft, Shape,
     Off, LockHeld, Locked
<1> QED
  BY <1>1, <1>2, <1>3, <1>4, <1>5, <1>6 DEF IInv

(* An exit turns the relay off. *)
LEMMA LeaveModeStep == ASSUME IInv, NEW s \in Slots, LeaveMode(s) PROVE IInv'
<1> USE DEF LeaveMode, At, StopAndNotify, p2pVars, relayVars, workerVars, streamerVars,
    handlerVars, sessionVars, socketVars, pathVars, worldVars, sharedVars
<1>0. TypeOK /\ Typed
  BY IInvTyped DEF IInv
<1>a. task' \in [Slots -> Tasks]
  <2>0. (relayMode /\ task[s].kind # "cleanup") \in BOOLEAN
    BY Zenon
  <2>1. [task[s] EXCEPT !.at = "stopWorkers", !.notify = relayMode /\ task[s].kind # "cleanup"] \in Tasks
    BY <1>0, <2>0 DEF TypeOK, Values, Tasks, Steps, Kinds, Typed
  <2>2. task' = [task EXCEPT ![s] = [task[s] EXCEPT !.at = "stopWorkers", !.notify = relayMode /\ task[s].kind # "cleanup"]]
    BY <1>0 DEF TypeOK
  <2> QED
    BY <1>0, <2>1, <2>2 DEF TypeOK
<1>1. TypeOK'
  <2>1. Flags'
    BY <1>0, Zenon DEF TypeOK, Flags
  <2>2. Values'
    BY <1>0, <1>a DEF TypeOK, Values, Typed
  <2> QED
    BY <1>a, <2>1, <2>2, TypePartsNext
<1>2. LockHeld'
  BY <1>0, NoTaskAssumption DEF IInv, TypeOK, Typed, LockHeld, Locked
<1>3. Shape'
  BY <1>0, NoTaskAssumption DEF IInv, TypeOK, Typed, Shape, Off, Settled, LockHeld,
     Locked
<1>4. FlightOwned'
  BY <1>0, NoTaskAssumption DEF IInv, TypeOK, Typed, FlightOwned, Shape, Off, Settled
<1>5. GateOpen'
  BY <1>0, NoTaskAssumption DEF IInv, TypeOK, Typed, GateOpen, Shape, Off, Settled,
     LockHeld, Locked
<1>6. RelayOverP2PIsBeingLeft'
  BY <1>0, NoTaskAssumption DEF IInv, TypeOK, Typed, RelayOverP2PIsBeingLeft, Shape,
     Off, LockHeld, Locked
<1> QED
  BY <1>1, <1>2, <1>3, <1>4, <1>5, <1>6 DEF IInv

(* The workers are unpublished. *)
LEMMA StopWorkersStep == ASSUME IInv, NEW s \in Slots, StopWorkers(s) PROVE IInv'
<1> USE DEF StopWorkers, At, p2pVars, relayVars, workerVars, streamerVars, handlerVars,
    sessionVars, socketVars, pathVars, worldVars, sharedVars
<1>0. TypeOK /\ Typed
  BY IInvTyped DEF IInv
<1>a. task' \in [Slots -> Tasks]
  <2>0. workers \in Nat
    BY <1>0 DEF TypeOK
  <2>1. [task[s] EXCEPT !.at = IF workers = 0 THEN "stopStreamer" ELSE "awaitWorkers", !.own = workers] \in Tasks
    BY <1>0, <2>0 DEF TypeOK, Values, Tasks, Steps, Kinds, Typed
  <2>2. task' = [task EXCEPT ![s] = [task[s] EXCEPT !.at = IF workers = 0 THEN "stopStreamer" ELSE "awaitWorkers", !.own = workers]]
    BY <1>0 DEF TypeOK
  <2> QED
    BY <1>0, <2>1, <2>2 DEF TypeOK
<1>1. TypeOK'
  <2>1. Flags'
    BY <1>0, Zenon DEF TypeOK, Flags
  <2>2. Values'
    BY <1>0, <1>a DEF TypeOK, Values, Typed
  <2> QED
    BY <1>a, <2>1, <2>2, TypePartsNext
<1>2. LockHeld'
  BY <1>0, NoTaskAssumption DEF IInv, TypeOK, Typed, LockHeld, Locked
<1>3. Shape'
  BY <1>0, NoTaskAssumption DEF IInv, TypeOK, Typed, Shape, Off, Settled, LockHeld,
     Locked
<1>4. FlightOwned'
  BY <1>0, NoTaskAssumption DEF IInv, TypeOK, Typed, FlightOwned, Shape, Off, Settled
<1>5. GateOpen'
  BY <1>0, NoTaskAssumption DEF IInv, TypeOK, Typed, GateOpen, Shape, Off, Settled,
     LockHeld, Locked
<1>6. RelayOverP2PIsBeingLeft'
  BY <1>0, NoTaskAssumption DEF IInv, TypeOK, Typed, RelayOverP2PIsBeingLeft, Shape,
     Off, LockHeld, Locked
<1> QED
  BY <1>1, <1>2, <1>3, <1>4, <1>5, <1>6 DEF IInv

(* The only running loops end, and with them the chunk in flight. *)
LEMMA AwaitWorkersStep == ASSUME IInv, NEW s \in Slots, AwaitWorkers(s) PROVE IInv'
<1> USE DEF AwaitWorkers, At, GoTo, p2pVars, relayVars, workerVars, streamerVars,
    handlerVars, sessionVars, socketVars, pathVars, worldVars, sharedVars
<1>0. TypeOK /\ Typed
  BY IInvTyped DEF IInv
<1>a. task' \in [Slots -> Tasks]
  BY <1>0 DEF TypeOK, Tasks, Steps, Kinds, Typed
<1>1. TypeOK'
  <2>1. Flags'
    BY <1>0, Zenon DEF TypeOK, Flags
  <2>2. Values'
    BY <1>0, <1>a DEF TypeOK, Values, Typed
  <2> QED
    BY <1>a, <2>1, <2>2, TypePartsNext
<1>2. LockHeld'
  BY <1>0, NoTaskAssumption DEF IInv, TypeOK, Typed, LockHeld, Locked
<1>3. Shape'
  BY <1>0, NoTaskAssumption DEF IInv, TypeOK, Typed, Shape, Off, Settled, LockHeld,
     Locked
<1>4. FlightOwned'
  BY <1>0, NoTaskAssumption DEF IInv, TypeOK, Typed, FlightOwned, Shape, Off, Settled
<1>5. GateOpen'
  BY <1>0, NoTaskAssumption DEF IInv, TypeOK, Typed, GateOpen, Shape, Off, Settled,
     LockHeld, Locked
<1>6. RelayOverP2PIsBeingLeft'
  BY <1>0, NoTaskAssumption DEF IInv, TypeOK, Typed, RelayOverP2PIsBeingLeft, Shape,
     Off, LockHeld, Locked
<1> QED
  BY <1>1, <1>2, <1>3, <1>4, <1>5, <1>6 DEF IInv

(* The streamer leaves relay mode with nothing running. *)
LEMMA StopStreamerStep == ASSUME IInv, NEW s \in Slots, StopStreamer(s) PROVE IInv'
<1> USE DEF StopStreamer, At, GoTo, p2pVars, relayVars, workerVars, streamerVars,
    handlerVars, sessionVars, socketVars, pathVars, worldVars, sharedVars
<1>0. TypeOK /\ Typed
  BY IInvTyped DEF IInv
<1>a. task' \in [Slots -> Tasks]
  BY <1>0 DEF TypeOK, Tasks, Steps, Kinds, Typed
<1>1. TypeOK'
  <2>1. Flags'
    BY <1>0, Zenon DEF TypeOK, Flags
  <2>2. Values'
    BY <1>0, <1>a DEF TypeOK, Values, Typed
  <2> QED
    BY <1>a, <2>1, <2>2, TypePartsNext
<1>2. LockHeld'
  BY <1>0, NoTaskAssumption DEF IInv, TypeOK, Typed, LockHeld, Locked
<1>3. Shape'
  BY <1>0, NoTaskAssumption DEF IInv, TypeOK, Typed, Shape, Off, Settled, LockHeld,
     Locked
<1>4. FlightOwned'
  BY <1>0, NoTaskAssumption DEF IInv, TypeOK, Typed, FlightOwned, Shape, Off, Settled
<1>5. GateOpen'
  BY <1>0, NoTaskAssumption DEF IInv, TypeOK, Typed, GateOpen, Shape, Off, Settled,
     LockHeld, Locked
<1>6. RelayOverP2PIsBeingLeft'
  BY <1>0, NoTaskAssumption DEF IInv, TypeOK, Typed, RelayOverP2PIsBeingLeft, Shape,
     Off, LockHeld, Locked
<1> QED
  BY <1>1, <1>2, <1>3, <1>4, <1>5, <1>6 DEF IInv

(* The client hears of the stop with no media behind it. *)
LEMMA SendStopStep == ASSUME IInv, NEW s \in Slots, SendStop(s) PROVE IInv'
<1> USE DEF SendStop, At, StopSentOrNot, Release, p2pVars, relayVars, workerVars,
    streamerVars, handlerVars, sessionVars, socketVars, pathVars, worldVars, sharedVars
<1>0. TypeOK /\ Typed
  BY IInvTyped DEF IInv
<1>a. task' \in [Slots -> Tasks] /\ Returned(s)
  BY <1>0, ReturnMoves DEF IInv
<1>1. TypeOK'
  <2>1. Flags'
    BY <1>0, Zenon DEF TypeOK, Flags
  <2>2. Values'
    BY <1>0, <1>a DEF TypeOK, Values, Typed
  <2> QED
    BY <1>a, <2>1, <2>2, TypePartsNext
<1>2. LockHeld'
  BY <1>0, <1>a, NoTaskAssumption DEF IInv, TypeOK, Typed, LockHeld, Locked, Returned
<1>3. Shape'
  BY <1>0, <1>a, NoTaskAssumption DEF IInv, TypeOK, Typed, Shape, Off, Settled,
     LockHeld, Locked, Returned
<1>4. FlightOwned'
  BY <1>0, <1>a, NoTaskAssumption DEF IInv, TypeOK, Typed, FlightOwned, Shape, Off,
     Settled, Returned
<1>5. GateOpen'
  BY <1>0, <1>a, NoTaskAssumption DEF IInv, TypeOK, Typed, GateOpen, Shape, Off,
     Settled, LockHeld, Locked, Returned
<1>6. RelayOverP2PIsBeingLeft'
  BY <1>0, <1>a, NoTaskAssumption DEF IInv, TypeOK, Typed, RelayOverP2PIsBeingLeft,
     Shape, Off, LockHeld, Locked, Returned
<1> QED
  BY <1>1, <1>2, <1>3, <1>4, <1>5, <1>6 DEF IInv

(* Clean-up takes the P2P path away and goes on to exit. *)
LEMMA ShutdownStep == ASSUME IInv, NEW s \in Slots, Shutdown(s) PROVE IInv'
<1> USE DEF Shutdown, At, GoTo, MarkTerminalFailure, p2pVars, relayVars, workerVars,
    streamerVars, handlerVars, sessionVars, socketVars, pathVars, worldVars, sharedVars
<1>0. TypeOK /\ Typed
  BY IInvTyped DEF IInv
<1>a. task' \in [Slots -> Tasks]
  BY <1>0 DEF TypeOK, Tasks, Steps, Kinds, Typed
<1>1. TypeOK'
  <2>1. Flags'
    BY <1>0, Zenon DEF TypeOK, Flags
  <2>2. Values'
    BY <1>0, <1>a DEF TypeOK, Values, Typed
  <2> QED
    BY <1>a, <2>1, <2>2, TypePartsNext
<1>2. LockHeld'
  BY <1>0, NoTaskAssumption DEF IInv, TypeOK, Typed, LockHeld, Locked
<1>3. Shape'
  BY <1>0, NoTaskAssumption DEF IInv, TypeOK, Typed, Shape, Off, Settled, LockHeld,
     Locked
<1>4. FlightOwned'
  BY <1>0, NoTaskAssumption DEF IInv, TypeOK, Typed, FlightOwned, Shape, Off, Settled
<1>5. GateOpen'
  BY <1>0, NoTaskAssumption DEF IInv, TypeOK, Typed, GateOpen, Shape, Off, Settled,
     LockHeld, Locked
<1>6. RelayOverP2PIsBeingLeft'
  BY <1>0, NoTaskAssumption DEF IInv, TypeOK, Typed, RelayOverP2PIsBeingLeft, Shape,
     Off, LockHeld, Locked
<1> QED
  BY <1>1, <1>2, <1>3, <1>4, <1>5, <1>6 DEF IInv

(* The streamer is disposed. *)
LEMMA DisposeStreamerStep == ASSUME IInv, NEW s \in Slots, DisposeStreamer(s) PROVE IInv'
<1> USE DEF DisposeStreamer, At, GoTo, p2pVars, relayVars, workerVars, streamerVars,
    handlerVars, sessionVars, socketVars, pathVars, worldVars, sharedVars
<1>0. TypeOK /\ Typed
  BY IInvTyped DEF IInv
<1>a. task' \in [Slots -> Tasks]
  BY <1>0 DEF TypeOK, Tasks, Steps, Kinds, Typed
<1>1. TypeOK'
  <2>1. Flags'
    BY <1>0, Zenon DEF TypeOK, Flags
  <2>2. Values'
    BY <1>0, <1>a DEF TypeOK, Values, Typed
  <2> QED
    BY <1>a, <2>1, <2>2, TypePartsNext
<1>2. LockHeld'
  BY <1>0, NoTaskAssumption DEF IInv, TypeOK, Typed, LockHeld, Locked
<1>3. Shape'
  BY <1>0, NoTaskAssumption DEF IInv, TypeOK, Typed, Shape, Off, Settled, LockHeld,
     Locked
<1>4. FlightOwned'
  BY <1>0, NoTaskAssumption DEF IInv, TypeOK, Typed, FlightOwned, Shape, Off, Settled
<1>5. GateOpen'
  BY <1>0, NoTaskAssumption DEF IInv, TypeOK, Typed, GateOpen, Shape, Off, Settled,
     LockHeld, Locked
<1>6. RelayOverP2PIsBeingLeft'
  BY <1>0, NoTaskAssumption DEF IInv, TypeOK, Typed, RelayOverP2PIsBeingLeft, Shape,
     Off, LockHeld, Locked
<1> QED
  BY <1>1, <1>2, <1>3, <1>4, <1>5, <1>6 DEF IInv

(* Clean-up is done. *)
LEMMA CloseSocketStep == ASSUME IInv, NEW s \in Slots, CloseSocket(s) PROVE IInv'
<1> USE DEF CloseSocket, At, Become, NewTask, Idle, p2pVars, relayVars, workerVars,
    streamerVars, handlerVars, sessionVars, socketVars, pathVars, worldVars, sharedVars
<1>0. TypeOK /\ Typed
  BY IInvTyped DEF IInv
<1>a. task' \in [Slots -> Tasks]
  BY <1>0 DEF TypeOK, Tasks, Steps, Kinds, Typed
<1>1. TypeOK'
  <2>1. Flags'
    BY <1>0, Zenon DEF TypeOK, Flags
  <2>2. Values'
    BY <1>0, <1>a DEF TypeOK, Values, Typed
  <2> QED
    BY <1>a, <2>1, <2>2, TypePartsNext
<1>2. LockHeld'
  BY <1>0, NoTaskAssumption DEF IInv, TypeOK, Typed, LockHeld, Locked
<1>3. Shape'
  BY <1>0, NoTaskAssumption DEF IInv, TypeOK, Typed, Shape, Off, Settled, LockHeld,
     Locked
<1>4. FlightOwned'
  BY <1>0, NoTaskAssumption DEF IInv, TypeOK, Typed, FlightOwned, Shape, Off, Settled
<1>5. GateOpen'
  BY <1>0, NoTaskAssumption DEF IInv, TypeOK, Typed, GateOpen, Shape, Off, Settled,
     LockHeld, Locked
<1>6. RelayOverP2PIsBeingLeft'
  BY <1>0, NoTaskAssumption DEF IInv, TypeOK, Typed, RelayOverP2PIsBeingLeft, Shape,
     Off, LockHeld, Locked
<1> QED
  BY <1>1, <1>2, <1>3, <1>4, <1>5, <1>6 DEF IInv

(* A running loop finds itself current. *)
LEMMA CheckCurrentStep == ASSUME IInv, NEW g \in running, CheckCurrent(g) PROVE IInv'
<1> USE DEF CheckCurrent, At, p2pVars, relayVars, workerVars, streamerVars, handlerVars,
    sessionVars, socketVars, pathVars, worldVars, sharedVars
<1>0. TypeOK /\ Typed
  BY IInvTyped DEF IInv
<1>a. task' \in [Slots -> Tasks]
  BY <1>0 DEF TypeOK, Tasks, Steps, Kinds, Typed
<1>1. TypeOK'
  <2>1. Flags'
    BY <1>0, Zenon DEF TypeOK, Flags
  <2>2. Values'
    BY <1>0, <1>a DEF TypeOK, Values, Typed
  <2> QED
    BY <1>a, <2>1, <2>2, TypePartsNext
<1>2. LockHeld'
  BY <1>0, NoTaskAssumption DEF IInv, TypeOK, Typed, LockHeld, Locked
<1>3. Shape'
  BY <1>0, NoTaskAssumption DEF IInv, TypeOK, Typed, Shape, Off, Settled, LockHeld,
     Locked
<1>4. FlightOwned'
  BY <1>0, NoTaskAssumption DEF IInv, TypeOK, Typed, FlightOwned, Shape, Off, Settled
<1>5. GateOpen'
  BY <1>0, NoTaskAssumption DEF IInv, TypeOK, Typed, GateOpen, Shape, Off, Settled,
     LockHeld, Locked
<1>6. RelayOverP2PIsBeingLeft'
  BY <1>0, NoTaskAssumption DEF IInv, TypeOK, Typed, RelayOverP2PIsBeingLeft, Shape,
     Off, LockHeld, Locked
<1> QED
  BY <1>1, <1>2, <1>3, <1>4, <1>5, <1>6 DEF IInv

(* A running loop puts a chunk on the socket. *)
LEMMA SendMediaStep == ASSUME IInv, NEW g \in running, SendMedia(g) PROVE IInv'
<1> USE DEF SendMedia, At, p2pVars, relayVars, workerVars, streamerVars, handlerVars,
    sessionVars, socketVars, pathVars, worldVars, sharedVars
<1>0. TypeOK /\ Typed
  BY IInvTyped DEF IInv
<1>a. task' \in [Slots -> Tasks]
  BY <1>0 DEF TypeOK, Tasks, Steps, Kinds, Typed
<1>1. TypeOK'
  <2>1. Flags'
    BY <1>0, Zenon DEF TypeOK, Flags
  <2>2. Values'
    BY <1>0, <1>a DEF TypeOK, Values, Typed
  <2> QED
    BY <1>a, <2>1, <2>2, TypePartsNext
<1>2. LockHeld'
  BY <1>0, NoTaskAssumption DEF IInv, TypeOK, Typed, LockHeld, Locked
<1>3. Shape'
  BY <1>0, NoTaskAssumption DEF IInv, TypeOK, Typed, Shape, Off, Settled, LockHeld,
     Locked
<1>4. FlightOwned'
  BY <1>0, NoTaskAssumption DEF IInv, TypeOK, Typed, FlightOwned, Shape, Off, Settled
<1>5. GateOpen'
  BY <1>0, NoTaskAssumption DEF IInv, TypeOK, Typed, GateOpen, Shape, Off, Settled,
     LockHeld, Locked
<1>6. RelayOverP2PIsBeingLeft'
  BY <1>0, NoTaskAssumption DEF IInv, TypeOK, Typed, RelayOverP2PIsBeingLeft, Shape,
     Off, LockHeld, Locked
<1> QED
  BY <1>1, <1>2, <1>3, <1>4, <1>5, <1>6 DEF IInv

(* The chunk is through. *)
LEMMA MediaSentStep == ASSUME IInv, MediaSent PROVE IInv'
<1> USE DEF MediaSent, At, p2pVars, relayVars, workerVars, streamerVars, handlerVars,
    sessionVars, socketVars, pathVars, worldVars, sharedVars
<1>0. TypeOK /\ Typed
  BY IInvTyped DEF IInv
<1>a. task' \in [Slots -> Tasks]
  BY <1>0 DEF TypeOK, Tasks, Steps, Kinds, Typed
<1>1. TypeOK'
  <2>1. Flags'
    BY <1>0, Zenon DEF TypeOK, Flags
  <2>2. Values'
    BY <1>0, <1>a DEF TypeOK, Values, Typed
  <2> QED
    BY <1>a, <2>1, <2>2, TypePartsNext
<1>2. LockHeld'
  BY <1>0, NoTaskAssumption DEF IInv, TypeOK, Typed, LockHeld, Locked
<1>3. Shape'
  BY <1>0, NoTaskAssumption DEF IInv, TypeOK, Typed, Shape, Off, Settled, LockHeld,
     Locked
<1>4. FlightOwned'
  BY <1>0, NoTaskAssumption DEF IInv, TypeOK, Typed, FlightOwned, Shape, Off, Settled
<1>5. GateOpen'
  BY <1>0, NoTaskAssumption DEF IInv, TypeOK, Typed, GateOpen, Shape, Off, Settled,
     LockHeld, Locked
<1>6. RelayOverP2PIsBeingLeft'
  BY <1>0, NoTaskAssumption DEF IInv, TypeOK, Typed, RelayOverP2PIsBeingLeft, Shape,
     Off, LockHeld, Locked
<1> QED
  BY <1>1, <1>2, <1>3, <1>4, <1>5, <1>6 DEF IInv

-----------------------------------------------------------------------------
LEMMA NextIInv == IInv /\ [Next]_vars => IInv'
<1> SUFFICES ASSUME IInv, [Next]_vars PROVE IInv'
  OBVIOUS
<1>1. CASE PathUp \/ PathFails \/ TimerFires \/ TimerFiresLate
  BY <1>1, PathUpStep, PathFailsStep, TimerFiresStep, TimerFiresLateStep
<1>2. CASE EnterPhase3 \/ FatalError \/ SocketDrops \/ SessionEnds \/ StartCleanup
  BY <1>2, EnterPhase3Step, FatalErrorStep, SocketDropsStep, SessionEndsStep,
     StartCleanupStep
<1>3. ASSUME NEW s \in Slots, TaskStep(s) PROVE IInv'
  <2>1. CASE Callback(s)
    BY <2>1, MarkConnectedStep, CancelTimerStep, MarkFailedStep, FailWithoutSocketStep,
       FailWhileRelayingStep, FailWithoutRelayStep, FailWhileRetryingStep,
       CheckRetryingStep, SetRetryingStep, ClearRetryingStep DEF Callback
  <2>2. CASE EnterRelay(s)
    BY <2>2, SkipEnterStep, EnterStep, SendStartStep, StartNotSentStep, ActivateStep,
       EncodersThrowStep, OvertakenStep, RollbackStep, ConfirmFailsStep, ConfirmStep,
       CaptureThrowsStep, UndoStep DEF EnterRelay
  <2>3. CASE ExitRelay(s)
    BY <2>3, SkipExitStep, ExitStep, LeaveModeStep, StopWorkersStep, AwaitWorkersStep,
       StopStreamerStep, SendStopStep DEF ExitRelay
  <2>4. CASE Cleanup(s)
    BY <2>4, ShutdownStep, DisposeStreamerStep, CloseSocketStep DEF Cleanup
  <2> QED
    BY <1>3, <2>1, <2>2, <2>3, <2>4 DEF TaskStep
<1>4. ASSUME NEW g \in running, CheckCurrent(g) \/ SendMedia(g) PROVE IInv'
  BY <1>4, CheckCurrentStep, SendMediaStep
<1>5. CASE MediaSent
  BY <1>5, MediaSentStep
<1>6. CASE UNCHANGED vars
  BY <1>6 DEF vars, IInv, TypeOK, LockHeld, Shape, Off, Settled, At, FlightOwned, GateOpen,
     RelayOverP2PIsBeingLeft
<1> QED
  BY <1>1, <1>2, <1>3, <1>4, <1>5, <1>6 DEF Next

(* The strengthened invariant holds in every reachable state.               *)
THEOREM Invariant == Spec => []IInv
<1>1. Init => IInv
  BY InitIInv
<1>2. IInv /\ [Next]_vars => IInv'
  BY NextIInv
<1> QED
  BY <1>1, <1>2, PTL DEF Spec

(* Type correctness of the relay lifecycle, RelayMedia.cs:152-660.          *)
THEOREM TypeCorrect == Spec => []TypeOK
<1>1. IInv => TypeOK
  BY DEF IInv
<1> QED
  BY <1>1, Invariant, PTL

(* RelayMedia.cs:296-451 and 601-639: however enter, exit, rollback and the  *)
(* catch block interleave, mode, published workers, running loops and the   *)
(* streamer agree whenever none of them holds the lifecycle semaphore.      *)
THEOREM SettledIsConsistent == Spec => []SettledConsistently
<1>1. IInv => SettledConsistently
  BY DEF IInv, Shape, Settled, SettledConsistently
<1> QED
  BY <1>1, Invariant, PTL

(* Whoever holds the semaphore, at most one worker session runs.             *)
LEMMA OneSession == IInv => running = {} \/ \E g \in running : running = {g}
<1> SUFFICES ASSUME IInv PROVE running = {} \/ \E g \in running : running = {g}
  OBVIOUS
<1>1. CASE lifecycle = NoTask
  BY <1>1 DEF IInv, Shape, Settled
<1>2. ASSUME NEW s \in Slots, lifecycle = s
      PROVE  running = {} \/ \E g \in running : running = {g}
  <2>1. task[s].at \in Locked
    BY <1>2 DEF IInv, LockHeld
  <2> QED
    BY <2>1 DEF Locked, IInv, Shape, Off, Settled, At
<1> QED
  BY <1>1, <1>2 DEF IInv, TypeOK

(* RelayMedia.cs:343-375: media flows only to a client that has been told to *)
(* read it, and from one worker session at a time.                          *)
THEOREM MediaBehindGate == Spec => []MediaOnlyBehindGate
<1>1. ASSUME IInv PROVE Cardinality(running) <= 1
  <2>1. CASE running = {}
    BY <2>1, FS_EmptySet
  <2>2. CASE \E g \in running : running = {g}
    BY <2>2, FS_Singleton
  <2> QED
    BY <1>1, <2>1, <2>2, OneSession
<1>2. IInv => MediaOnlyBehindGate
  BY <1>1 DEF IInv, FlightOwned, GateOpen, MediaOnlyBehindGate
<1> QED
  BY <1>2, Invariant, PTL

(* RelayMedia.cs:385-393 and 641-646: the relay runs beside a live P2P path   *)
(* only while the task that leaves it is on its way.                        *)
THEOREM RelayYieldsToP2P == Spec => []RelayOverP2PIsBeingLeft
<1>1. IInv => RelayOverP2PIsBeingLeft
  BY DEF IInv
<1> QED
  BY <1>1, Invariant, PTL

-----------------------------------------------------------------------------
(* What a step may do to the streamer, the gate and the running loops.       *)
Quiet == UNCHANGED <<streamerRelay, clientGate, running>>

LEMMA StepEffects ==
  ASSUME IInv, [Next]_vars
  PROVE  \/ Quiet
         \/ \E s \in Slots : \/ SendStart(s) \/ Activate(s) \/ EncodersThrow(s)
                             \/ Rollback(s) \/ AwaitWorkers(s) \/ StopStreamer(s)
                             \/ SendStop(s)
<1> DEFINE Effect(s) == \/ SendStart(s) \/ Activate(s) \/ EncodersThrow(s)
                        \/ Rollback(s) \/ AwaitWorkers(s) \/ StopStreamer(s)
                        \/ SendStop(s)
<1> USE DEF p2pVars, relayVars, workerVars, streamerVars, handlerVars, sessionVars,
     socketVars, pathVars, worldVars, sharedVars
<1>1. CASE PathUp \/ PathFails \/ TimerFires \/ TimerFiresLate
  BY <1>1 DEF PathUp, PathFails, TimerFires, TimerFiresLate, Quiet
<1>2. CASE EnterPhase3 \/ FatalError \/ SocketDrops \/ SessionEnds \/ StartCleanup
  BY <1>2 DEF EnterPhase3, FatalError, SocketDrops, SessionEnds, StartCleanup, Quiet
<1>3. ASSUME NEW s \in Slots, TaskStep(s) PROVE Quiet \/ Effect(s)
  <2>1. CASE Callback(s)
    BY <2>1 DEF Callback, MarkConnected, CancelTimer, MarkFailed, FailWithoutSocket, FailWhileRelaying,
       FailWithoutRelay, FailWhileRetrying, CheckRetrying, SetRetrying, ClearRetrying,
       EndFailure, Quiet
  <2>2. CASE EnterRelay(s)
    BY <2>2 DEF EnterRelay, SkipEnter, Enter, StartNotSent, Overtaken, ConfirmFails,
       Confirm, CaptureThrows, Undo, Quiet
  <2>3. CASE ExitRelay(s)
    BY <2>3 DEF ExitRelay, SkipExit, Exit, LeaveMode, StopWorkers, Quiet
  <2>4. CASE Cleanup(s)
    BY <2>4 DEF Cleanup, Shutdown, DisposeStreamer, CloseSocket, Quiet
  <2> QED
    BY <1>3, <2>1, <2>2, <2>3, <2>4 DEF TaskStep
<1>4. CASE (\E g \in running : CheckCurrent(g) \/ SendMedia(g)) \/ MediaSent \/ UNCHANGED vars
  BY <1>4 DEF CheckCurrent, SendMedia, MediaSent, vars, Quiet
<1> QED
  BY <1>1, <1>2, <1>3, <1>4 DEF Next

(* What the invariant says at the steps with an effect.                      *)
LEMMA EffectSites ==
  ASSUME IInv, NEW s \in Slots
  PROVE  /\ At(s, "sendStart") \/ At(s, "rollback") => running = {}
         /\ At(s, "stopStreamer") \/ At(s, "sendStop") => running = {} /\ inFlight = 0
         /\ At(s, "activate") => running = {} /\ clientGate
         /\ At(s, "awaitWorkers") => running = {task[s].own}
BY DEF IInv, Shape, Off, FlightOwned, GateOpen, At

LEMMA QuiescentStep ==
  ASSUME IInv, [Next]_vars, streamerRelay, ~streamerRelay'
  PROVE  running = {} /\ inFlight = 0
<1> USE DEF relayVars, workerVars, streamerVars, sharedVars
<1>1. PICK s \in Slots : \/ SendStart(s) \/ Activate(s) \/ EncodersThrow(s)
                         \/ Rollback(s) \/ AwaitWorkers(s) \/ StopStreamer(s)
                         \/ SendStop(s)
  BY StepEffects DEF Quiet
<1>2. ~(SendStart(s) \/ Rollback(s) \/ AwaitWorkers(s) \/ SendStop(s))
  BY DEF SendStart, Rollback, AwaitWorkers, SendStop
<1>3. ~(Activate(s) \/ EncodersThrow(s))
  BY DEF Activate, EncodersThrow, Publish
<1>4. StopStreamer(s)
  BY <1>1, <1>2, <1>3
<1> QED
  BY <1>4, EffectSites DEF StopStreamer

(* RelayMedia.cs:615-620: only a quiescent relay hands the streamer back to   *)
(* direct output.                                                           *)
THEOREM DirectAfterQuiescence == Spec => DirectOnlyWhenQuiescent
<1>1. IInv /\ [Next]_vars =>
        [streamerRelay /\ ~streamerRelay' => running = {} /\ inFlight = 0]_vars
  BY QuiescentStep
<1> QED
  BY <1>1, Invariant, PTL DEF Spec, DirectOnlyWhenQuiescent

-----------------------------------------------------------------------------
LEMMA ViewStep ==
  ASSUME IInv, [Next]_vars PROVE [ClientView!Next]_(ClientView!vars)
<1> USE DEF ClientView!Next, ClientView!vars, ClientView!Announce, ClientView!Flow,
     ClientView!Quiesce, ClientView!Withdraw, relayVars, workerVars, streamerVars,
     sharedVars
<1>1. CASE Quiet
  BY <1>1 DEF Quiet
<1>2. ASSUME NEW s \in Slots, SendStart(s) PROVE ClientView!Announce
  BY <1>2, EffectSites DEF SendStart
<1>3. ASSUME NEW s \in Slots, Activate(s) \/ EncodersThrow(s) PROVE ClientView!Flow
  <2>1. At(s, "activate") /\ running' = running \cup {task[s].own}
        /\ UNCHANGED clientGate
    BY <1>3 DEF Activate, EncodersThrow, Publish, worldVars, socketVars
  <2> QED
    BY <2>1, EffectSites
<1>4. ASSUME NEW s \in Slots, Rollback(s) \/ SendStop(s)
      PROVE  ClientView!Withdraw \/ UNCHANGED ClientView!vars
  <2>1. running = {} /\ running' = running
    BY <1>4, EffectSites DEF Rollback, SendStop
  <2>2. clientGate' = FALSE \/ clientGate' = clientGate
    BY <1>4 DEF Rollback, SendStop, StopSentOrNot
  <2> QED
    BY <2>1, <2>2
<1>5. ASSUME NEW s \in Slots, AwaitWorkers(s) PROVE ClientView!Quiesce
  BY <1>5, EffectSites DEF AwaitWorkers, worldVars, socketVars
<1>6. ASSUME NEW s \in Slots, StopStreamer(s) PROVE UNCHANGED ClientView!vars
  BY <1>6 DEF StopStreamer, worldVars, socketVars
<1> QED
  BY StepEffects, <1>1, <1>2, <1>3, <1>4, <1>5, <1>6

(* The lifecycle never lets media reach a client outside a start and the      *)
(* matching stop, RelayMedia.cs:296-451 and 601-639.                        *)
THEOREM Refinement == Spec => ImplementsClientView
<1>1. Init => ClientView!Init
  BY DEF Init, ClientView!Init
<1>2. IInv /\ [Next]_vars => [ClientView!Next]_(ClientView!vars)
  BY ViewStep
<1> QED
  BY <1>1, <1>2, Invariant, PTL DEF Spec, ImplementsClientView, ClientView!Spec
=============================================================================
