---------------------------- MODULE DisplayGuard ----------------------------
(***************************************************************************)
(* What a session does to the displays of the host, and everything that is  *)
(* there to undo it: the snapshot and the marker DisplayGuard keeps on      *)
(* disk, the clean-up of a session, the emergency hotkey, the exit of the   *)
(* application, the watchdog process that outlives a crash, the start-up    *)
(* task that outlives a power loss, and the next start of the server.       *)
(*                                                                         *)
(* Every thread and process is a task with a step of its own.  A file is    *)
(* written in two steps, since File.WriteAllText truncates it first.        *)
(* Windows is modelled by what the code relies on: a monitor keeps its scale *)
(* and its mode while it is detached, a setting reaches the displays that   *)
(* are active, and the physical monitors come back when the only display    *)
(* left goes.                                                              *)
(***************************************************************************)
EXTENDS Integers

CONSTANTS
  Monitors,         \* the physical monitors
  FirstMonitor,     \* the one Windows lists first
  Vdd,              \* the virtual display
  OriginalScale,    \* their scale and refresh rate before the first start
  OriginalHz,
  SessionScale,     \* what the clients ask for
  SessionHz,
  Kinds,            \* the kinds of session that clients open
  MaxSessions,      \* sessions of one process
  MaxStarts,        \* starts of the server
  MaxCrashes,       \* failures of the server
  Ends,             \* how it ends: "exit", "crash", unhandled "exception", "power" loss
  MayTimeOut,       \* a restore may run into its time limit
  FastRestart       \* the server may start while a restore is still running

Displays == Monitors \cup {Vdd}
DefaultHz == 60
AllKinds == {"ultrawide", "bindMobile", "extend", "rescale"}

ASSUME DisplayAssumption ==
  /\ FirstMonitor \in Monitors /\ Vdd \notin Monitors
  /\ OriginalScale \in [Displays -> Nat] /\ OriginalHz \in [Monitors -> Nat]
  /\ SessionScale \in Nat /\ SessionHz \in Nat
  /\ Kinds \subseteq AllKinds /\ Ends \subseteq {"exit", "crash", "exception", "power"}
  /\ MaxSessions \in Nat \ {0} /\ MaxStarts \in Nat /\ MaxCrashes \in Nat
  /\ MayTimeOut \in BOOLEAN /\ FastRestart \in BOOLEAN

VARIABLES
  attached,      \* the physical monitors are part of the desktop
  vdd,           \* the virtual display is enabled
  scale,         \* Windows scale of every display
  hz,            \* refresh rate of every physical monitor
  snapshot,      \* display_snapshot.json
  marker,        \* session.lock exists
  server,        \* what the server process is doing
  starts,        \* number of the process, the last one that was started
  crashes,
  lapse,         \* history: what the present process has been exposed to
  at,            \* the step each task is at
  read,          \* the snapshot it has read
  kind,          \* DisplayConfig.MonitorType and the changes a session asks for
  modified,      \* _displayModified
  originalDpi    \* _originalDpiSettings, by display that was active

vars == <<attached, vdd, scale, hz, snapshot, marker, server, starts, crashes, lapse,
          at, read, kind, modified, originalDpi>>

displayVars == <<attached, vdd, scale, hz>>
diskVars == <<snapshot, marker>>
processVars == <<server, starts, crashes, lapse>>
sessionVars == <<kind, modified, originalDpi>>

-----------------------------------------------------------------------------
(* Tasks: the main thread, the sessions and the emergency hotkey of each are *)
(* threads of the server; the watchdogs and the boot task are processes.     *)

Server == <<"server", 0>>
Boot == <<"boot", 0>>
Session(s) == <<"session", s>>
Hotkey(s) == <<"hotkey", s>>
Watchdog(p) == <<"watchdog", p>>

SessionIds == 1 .. MaxSessions
Processes == 1 .. MaxStarts

Hotkeys == {Hotkey(s) : s \in SessionIds}
Sessions == {Session(s) : s \in SessionIds}
Watchdogs == {Watchdog(p) : p \in Processes}
Threads == {Server} \cup Sessions \cup Hotkeys
Tasks == Threads \cup Watchdogs \cup {Boot}

RestoreSteps == {"stopWatchdog", "forceDisable", "check", "read", "topology", "scale",
                 "modes", "disable", "deleteMarker"}
StartSteps == {"capture", "writeSnapshot", "writeMarker"}
SetupSteps == {"create", "setScale", "detach", "markShowOnly", "writeShowOnly", "markVddOnly",
               "writeVddOnly", "setHz", "extend", "setScaleAgain", "spawnWatchdog"}
Steps == {"off", "streaming", "done", "waiting", "armed", "end", "clearVddOnly", "writeCleared"}
         \cup RestoreSteps \cup StartSteps \cup SetupSteps

At(t, step) == at[t] = step
GoTo(t, step) == at' = [at EXCEPT ![t] = step]

InSetup(s) == at[Session(s)] \in SetupSteps

(* A snapshot that was truncated and not yet written cannot be parsed.       *)
Snapshots == [file : {"none", "torn", "whole"}, scale : Nat, physical : BOOLEAN,
              showOnly : BOOLEAN, vddOnly : BOOLEAN]
NoSnapshot == [file |-> "none", scale |-> 0, physical |-> FALSE, showOnly |-> FALSE, vddOnly |-> FALSE]
Torn == [NoSnapshot EXCEPT !.file = "torn"]

ServerStates == {"down", "starting", "up", "exiting", "cleaning"}

(* Neither, a second session, or a start over a restore still under way.     *)
Lapses == {"none", "secondSession", "startOverRestore"}

TypeOK ==
  /\ attached \in BOOLEAN /\ vdd \in BOOLEAN
  /\ scale \in [Displays -> Nat] /\ hz \in [Monitors -> Nat]
  /\ snapshot \in Snapshots /\ marker \in BOOLEAN
  /\ server \in ServerStates /\ starts \in 0 .. MaxStarts /\ crashes \in 0 .. MaxCrashes
  /\ lapse \in Lapses
  /\ at \in [Tasks -> Steps] /\ read \in [Tasks -> Snapshots]
  /\ \A t \in Watchdogs \cup {Boot} : at[t] \in {"off", "waiting"} \cup RestoreSteps
  /\ \A t \in Hotkeys : at[t] \in {"off", "armed", "done"} \cup RestoreSteps
  /\ at[Server] \in {"off"} \cup StartSteps \cup RestoreSteps
  /\ kind \in [SessionIds -> AllKinds \cup {"standard"}]
  /\ modified \in [SessionIds -> BOOLEAN]
  /\ \E D \in SUBSET Displays : originalDpi \in [D -> Nat]

Init ==
  /\ attached = TRUE /\ vdd = FALSE /\ scale = OriginalScale /\ hz = OriginalHz
  /\ snapshot = NoSnapshot /\ marker = FALSE
  /\ server = "down" /\ starts = 0 /\ crashes = 0 /\ lapse = "none"
  /\ at = [t \in Tasks |-> "off"] /\ read = [t \in Tasks |-> NoSnapshot]
  /\ kind = [s \in SessionIds |-> "standard"] /\ modified = [s \in SessionIds |-> FALSE]
  /\ originalDpi = [d \in {} |-> 0]

-----------------------------------------------------------------------------
(* Displays                                                                 *)

ActiveDisplays == {d \in Displays : IF d = Vdd THEN vdd ELSE attached}

(* SetAllMonitorsDpiScaling sets the paths that are active, and no other.    *)
SetScale(percent) == scale' = [d \in Displays |-> IF d \in ActiveDisplays THEN percent ELSE scale[d]]

SetHz(rate) == hz' = [m \in Monitors |-> IF attached THEN rate ELSE hz[m]]

(* Skipped when no physical monitor is active and none is in the snapshot.   *)
DisableVdd(known) ==
  /\ vdd' = (vdd /\ ~attached /\ ~known)
  /\ attached' = (attached \/ (vdd /\ known))
  /\ UNCHANGED <<scale, hz>>

(* The scale of the first active display stands for the list of scales: no   *)
(* other entry of it is ever read.                                           *)
Captured ==
  [file |-> "whole", scale |-> IF attached THEN scale[FirstMonitor] ELSE scale[Vdd],
   physical |-> attached, showOnly |-> FALSE, vddOnly |-> FALSE]

-----------------------------------------------------------------------------
(* RestoreInternal and RestoreInternalSafe                                   *)

IsCleanUp(t) == IF t = Server THEN server = "cleaning" ELSE t[1] \in {"session", "hotkey"}

Running(t) == t \in Threads => server # "down"

(* Mutant: the scale is restored before the monitors are attached again.     *)
ScaleFirst == [read |-> "scale", scale |-> "topology", topology |-> "modes"]

After == [read |-> "topology", topology |-> "scale", scale |-> "modes"]

(* Mutant: a watchdog captures the displays it has restored, as a start does. *)
CaptureAgain(t) == "capture"

(* RestoreIfNeededOnStartup, and the check that opens a capture.             *)
AfterRestore(t) == IF t = Server THEN "capture" ELSE "off"

Check(t) ==
  /\ At(t, "check")
  /\ GoTo(t, IF marker /\ snapshot.file # "none" THEN "read" ELSE AfterRestore(t))
  /\ UNCHANGED <<displayVars, diskVars, processVars, read, sessionVars>>

(* A snapshot that cannot be read ends the restore, not what follows it.     *)
ReadSnapshot(t) ==
  /\ At(t, "read")
  /\ read' = [read EXCEPT ![t] = IF snapshot.file = "whole" THEN snapshot ELSE NoSnapshot]
  /\ GoTo(t, IF snapshot.file = "whole" THEN After.read ELSE "deleteMarker")
  /\ UNCHANGED <<displayVars, diskVars, processVars, sessionVars>>

IsDetachedBySession(t) ==
  /\ read[t].physical
  /\ read[t].showOnly \/ (read[t].vddOnly /\ ~IsCleanUp(t))

(* RestoreExtendTopology sets the mode along with the position.              *)
RestoreTopology(t) ==
  /\ At(t, "topology")
  /\ attached' = (attached \/ IsDetachedBySession(t))
  /\ hz' = IF IsDetachedBySession(t) THEN [m \in Monitors |-> DefaultHz] ELSE hz
  /\ GoTo(t, After.topology)
  /\ UNCHANGED <<vdd, scale, diskVars, processVars, read, sessionVars>>

RestoreScale(t) ==
  /\ At(t, "scale")
  /\ SetScale(read[t].scale)
  /\ GoTo(t, After.scale)
  /\ UNCHANGED <<attached, vdd, hz, diskVars, processVars, read, sessionVars>>

RestoreModes(t) ==
  /\ At(t, "modes")
  /\ hz' = IF read[t].physical /\ attached THEN [m \in Monitors |-> DefaultHz] ELSE hz
  /\ GoTo(t, IF IsCleanUp(t) THEN "deleteMarker" ELSE "disable")
  /\ UNCHANGED <<attached, vdd, scale, diskVars, processVars, read, sessionVars>>

SafeDisableVdd(t) ==
  /\ At(t, "disable")
  /\ DisableVdd(read[t].physical)
  /\ GoTo(t, "deleteMarker")
  /\ UNCHANGED <<diskVars, processVars, read, sessionVars>>

(* The restore of a clean-up runs on a task of its own, waited for with a     *)
(* limit; the steps it has not come to are skipped.                           *)
TimeOut(t) ==
  /\ MayTimeOut
  /\ IsCleanUp(t)
  /\ at[t] \in {"topology", "scale", "modes"}
  /\ read' = [read EXCEPT ![t] = NoSnapshot]
  /\ GoTo(t, "deleteMarker")
  /\ UNCHANGED <<displayVars, diskVars, processVars, sessionVars>>

Restore(t) ==
  /\ Running(t)
  /\ \/ Check(t) \/ ReadSnapshot(t) \/ RestoreTopology(t) \/ RestoreScale(t)
     \/ RestoreModes(t) \/ SafeDisableVdd(t) \/ TimeOut(t)

-----------------------------------------------------------------------------
(* RestoreAndCleanupWithTimeout                                              *)

StopWatchdog(t) ==
  /\ At(t, "stopWatchdog")
  /\ at' = [at EXCEPT ![Watchdog(starts)] = "off", ![t] = "forceDisable"]
  /\ UNCHANGED <<displayVars, diskVars, processVars, read, sessionVars>>

ForceDisableVdd(t) ==
  /\ At(t, "forceDisable")
  /\ DisableVdd(snapshot.physical)
  /\ GoTo(t, IF snapshot.file = "none" THEN "deleteMarker" ELSE "read")
  /\ UNCHANGED <<diskVars, processVars, read, sessionVars>>

CleanUp(t) == Running(t) /\ (StopWatchdog(t) \/ ForceDisableVdd(t))

(* Every restore ends with the marker; the clean-up of a session takes back   *)
(* its _displayModified, and so does the hotkey.                              *)
DeleteMarker(t) ==
  /\ At(t, "deleteMarker")
  /\ marker' = FALSE
  /\ UNCHANGED <<displayVars, snapshot>>

CleanUpEnds(t, s) ==
  /\ t \in {Session(s), Hotkey(s)}
  /\ server # "down"
  /\ DeleteMarker(t)
  /\ at' = [at EXCEPT ![t] = "done"]
  /\ read' = [read EXCEPT ![t] = NoSnapshot]
  /\ modified' = [modified EXCEPT ![s] = FALSE]
  /\ UNCHANGED <<processVars, kind, originalDpi>>

GuardedRestoreEnds(t) ==
  /\ t \in Watchdogs \cup {Boot} \/ (t = Server /\ server = "starting")
  /\ DeleteMarker(t)
  /\ GoTo(t, AfterRestore(t))
  /\ read' = [read EXCEPT ![t] = NoSnapshot]
  /\ UNCHANGED <<processVars, sessionVars>>

-----------------------------------------------------------------------------
(* The server process                                                        *)

NothingRestores == \A t \in Watchdogs \cup {Boot} : At(t, "off")

Start ==
  /\ server = "down" /\ starts < MaxStarts
  /\ FastRestart \/ NothingRestores
  /\ lapse' = IF NothingRestores THEN "none" ELSE "startOverRestore"
  /\ server' = "starting" /\ starts' = starts + 1
  /\ at' = [t \in Tasks |-> IF t = Server THEN "check" ELSE IF t \in Threads THEN "off" ELSE at[t]]
  /\ UNCHANGED <<displayVars, diskVars, crashes, read, sessionVars>>

(* CaptureSnapshotAtStartup                                                  *)
Capture ==
  /\ At(Server, "capture")
  /\ read' = [read EXCEPT ![Server] = Captured]
  /\ snapshot' = Torn
  /\ GoTo(Server, "writeSnapshot")
  /\ UNCHANGED <<displayVars, marker, processVars, sessionVars>>

WriteSnapshot ==
  /\ At(Server, "writeSnapshot")
  /\ snapshot' = read[Server]
  /\ read' = [read EXCEPT ![Server] = NoSnapshot]
  /\ GoTo(Server, "writeMarker")
  /\ UNCHANGED <<displayVars, marker, processVars, sessionVars>>

(* Mutant: the marker is taken for the one the last process has left.         *)
KeepMarker ==
  /\ At(Server, "writeMarker")
  /\ server' = "up"
  /\ GoTo(Server, "off")
  /\ UNCHANGED <<displayVars, diskVars, starts, crashes, lapse, read, sessionVars>>

WriteMarker ==
  /\ At(Server, "writeMarker")
  /\ marker' = TRUE
  /\ server' = "up"
  /\ GoTo(Server, "off")
  /\ UNCHANGED <<displayVars, snapshot, starts, crashes, lapse, read, sessionVars>>

(* The process ends with all its threads; the start-up task runs if a server  *)
(* has registered it.                                                        *)
ProcessEnds(survivors) ==
  /\ server' = "down"
  /\ at' = [t \in Tasks |-> IF t \in survivors \/ At(t, "done") THEN at[t]
                            ELSE IF t = Boot /\ starts > 0 THEN "check" ELSE "off"]
  /\ read' = [t \in Tasks |-> IF t \in survivors THEN read[t] ELSE NoSnapshot]
  /\ kind' = [s \in SessionIds |-> "standard"]
  /\ modified' = [s \in SessionIds |-> FALSE]
  /\ originalDpi' = [d \in {} |-> 0]
  /\ UNCHANGED <<displayVars, snapshot, starts, lapse>>

(* OnExit is async void.  StopAsync puts back the scales the last session has *)
(* recorded, then waits in ForceCleanupResources; the restore is in the       *)
(* continuation, and the process ends when Main returns, whichever is first.  *)
Exit ==
  /\ server = "up" /\ "exit" \in Ends
  /\ server' = "exiting"
  /\ scale' = [d \in Displays |->
                 IF d \in ActiveDisplays \cap DOMAIN originalDpi THEN originalDpi[d] ELSE scale[d]]
  /\ UNCHANGED <<attached, vdd, hz, diskVars, starts, crashes, lapse, at, read, sessionVars>>

ExitContinues ==
  /\ server = "exiting"
  /\ server' = "cleaning"
  /\ GoTo(Server, "stopWatchdog")
  /\ UNCHANGED <<displayVars, diskVars, starts, crashes, lapse, read, sessionVars>>

MainReturns ==
  /\ server = "exiting"
  /\ ProcessEnds(Watchdogs \cup {Boot})
  /\ UNCHANGED <<marker, crashes>>

UnhandledException ==
  /\ server \in {"up", "exiting"} /\ crashes < MaxCrashes /\ "exception" \in Ends
  /\ crashes' = crashes + 1
  /\ server' = "cleaning"
  /\ GoTo(Server, "stopWatchdog")
  /\ UNCHANGED <<displayVars, diskVars, starts, lapse, read, sessionVars>>

CleanUpBeforeEnd ==
  /\ server = "cleaning"
  /\ At(Server, "deleteMarker")
  /\ marker' = FALSE
  /\ ProcessEnds(Watchdogs \cup {Boot})
  /\ UNCHANGED crashes

Crash ==
  /\ server # "down" /\ crashes < MaxCrashes /\ "crash" \in Ends
  /\ crashes' = crashes + 1
  /\ ProcessEnds(Watchdogs \cup {Boot})
  /\ UNCHANGED marker

(* The watchdogs are gone too; Windows runs the start-up task when it is back. *)
PowerLoss ==
  /\ crashes < MaxCrashes /\ "power" \in Ends
  /\ crashes' = crashes + 1
  /\ ProcessEnds({})
  /\ UNCHANGED marker

ServerStep ==
  \/ Start \/ Capture \/ WriteSnapshot \/ WriteMarker
  \/ Exit \/ ExitContinues \/ MainReturns \/ CleanUpBeforeEnd

Failure == Crash \/ UnhandledException \/ PowerLoss

(* Mutant: the watchdog looks for another server, not for the end of its own. *)
WakeOnRestart(p) ==
  /\ At(Watchdog(p), "waiting")
  /\ starts # p
  /\ GoTo(Watchdog(p), "check")
  /\ UNCHANGED <<displayVars, diskVars, processVars, read, sessionVars>>

(* RunWatchdog                                                               *)
Wake(p) ==
  /\ At(Watchdog(p), "waiting")
  /\ server = "down" \/ starts # p
  /\ GoTo(Watchdog(p), "check")
  /\ UNCHANGED <<displayVars, diskVars, processVars, read, sessionVars>>

-----------------------------------------------------------------------------
(* A session: ApplyDisplayConfigAsync and what it calls                       *)

ServerLives == server # "down"

IsVddOnly(s) == kind[s] \in {"ultrawide", "bindMobile"}

(* One local session after the other; the marker is that of the start.       *)
Connect(s) ==
  /\ server = "up"
  /\ At(Session(s), "off") /\ \A r \in 1 .. s - 1 : At(Session(r), "done")
  /\ \E k \in Kinds :
       /\ kind' = [kind EXCEPT ![s] = k]
       /\ GoTo(Session(s), IF k \in {"ultrawide", "bindMobile"} THEN "create" ELSE "setScale")
  /\ lapse' = IF s > 1 THEN "secondSession" ELSE lapse
  /\ UNCHANGED <<displayVars, diskVars, server, starts, crashes, read, modified, originalDpi>>

(* The driver is set to no display first, then to one.                       *)
CreateVdd(s) ==
  /\ At(Session(s), "create")
  /\ attached' = TRUE
  /\ \/ /\ vdd' = TRUE
        /\ GoTo(Session(s), "setScaleAgain")
        /\ UNCHANGED kind
     \/ /\ vdd' = FALSE
        /\ kind' = [kind EXCEPT ![s] = "standard"]
        /\ GoTo(Session(s), "streaming")
  /\ UNCHANGED <<scale, hz, diskVars, processVars, read, modified, originalDpi>>

SetSessionScale(s) ==
  /\ At(Session(s), "setScale")
  /\ SetScale(SessionScale)
  /\ modified' = [modified EXCEPT ![s] = TRUE]
  /\ GoTo(Session(s), IF kind[s] = "rescale" THEN "streaming" ELSE "setHz")
  /\ UNCHANGED <<attached, vdd, hz, diskVars, processVars, read, kind, originalDpi>>

SetSessionHz(s) ==
  /\ At(Session(s), "setHz")
  /\ \/ hz' = [m \in Monitors |-> IF attached /\ hz[m] < SessionHz THEN SessionHz ELSE hz[m]]
     \/ UNCHANGED hz
  /\ GoTo(Session(s), "extend")
  /\ UNCHANGED <<attached, vdd, scale, diskVars, processVars, read, sessionVars>>

(* There may be physical monitors enough.                                    *)
Extend(s) ==
  /\ At(Session(s), "extend")
  /\ vdd' \in {vdd, TRUE}
  /\ GoTo(Session(s), IF vdd' THEN "setScaleAgain" ELSE "spawnWatchdog")
  /\ UNCHANGED <<attached, scale, hz, diskVars, processVars, read, sessionVars>>

(* EnsureExtendDesktopWithVirtual and SetupUltrawideVirtualMonitor record the *)
(* scale that is set when they come to it.                                   *)
SetScaleAgain(s) ==
  /\ At(Session(s), "setScaleAgain")
  /\ originalDpi' = [d \in ActiveDisplays |-> scale[d]]
  /\ SetScale(SessionScale)
  /\ GoTo(Session(s), IF IsVddOnly(s) THEN "detach" ELSE "spawnWatchdog")
  /\ UNCHANGED <<attached, vdd, hz, diskVars, processVars, read, kind, modified>>

Detach(s) ==
  /\ At(Session(s), "detach")
  /\ attached' = ~vdd
  /\ GoTo(Session(s), "markShowOnly")
  /\ UNCHANGED <<vdd, scale, hz, diskVars, processVars, read, sessionVars>>

-----------------------------------------------------------------------------
(* MarkShowOnlyActive, MarkVddOnlyActive and ClearVddOnlyActive rewrite the   *)
(* snapshot, if there is one that can be read.                               *)

Rewrite(s, step, flagged, write, next) ==
  /\ At(Session(s), step)
  /\ IF snapshot.file = "whole"
     THEN /\ read' = [read EXCEPT ![Session(s)] = flagged]
          /\ snapshot' = Torn
          /\ GoTo(Session(s), write)
     ELSE /\ GoTo(Session(s), next)
          /\ UNCHANGED <<read, snapshot>>
  /\ UNCHANGED <<displayVars, marker, processVars, sessionVars>>

Write(s, step, next) ==
  /\ At(Session(s), step)
  /\ snapshot' = read[Session(s)]
  /\ read' = [read EXCEPT ![Session(s)] = NoSnapshot]
  /\ GoTo(Session(s), next)
  /\ UNCHANGED <<displayVars, marker, processVars, sessionVars>>

AfterShowOnly(s) == IF kind[s] = "bindMobile" THEN "markVddOnly" ELSE "spawnWatchdog"

MarkShowOnly(s) ==
  \/ Rewrite(s, "markShowOnly", [snapshot EXCEPT !.showOnly = TRUE], "writeShowOnly", AfterShowOnly(s))
  \/ Write(s, "writeShowOnly", AfterShowOnly(s))

MarkVddOnly(s) ==
  \/ Rewrite(s, "markVddOnly", [snapshot EXCEPT !.vddOnly = TRUE], "writeVddOnly", "spawnWatchdog")
  \/ Write(s, "writeVddOnly", "spawnWatchdog")

ClearVddOnly(s) ==
  \/ Rewrite(s, "clearVddOnly", [snapshot EXCEPT !.vddOnly = FALSE], "writeCleared", "end")
  \/ Write(s, "writeCleared", "end")

SpawnWatchdog(s) ==
  /\ At(Session(s), "spawnWatchdog")
  /\ modified' = [modified EXCEPT ![s] = TRUE]
  /\ at' = [at EXCEPT ![Watchdog(starts)] = "waiting", ![Session(s)] = "streaming",
                      ![Hotkey(s)] = IF kind[s] = "bindMobile" THEN "armed" ELSE @]
  /\ UNCHANGED <<displayVars, diskVars, processVars, read, kind, originalDpi>>

(* EmergencyRestore, by the hotkey or after four hours.                      *)
Emergency(s) ==
  /\ At(Hotkey(s), "armed")
  /\ GoTo(Hotkey(s), "stopWatchdog")
  /\ UNCHANGED <<displayVars, diskVars, processVars, read, sessionVars>>

(* CleanupAsync: Stop waits three seconds for a hotkey that is restoring.     *)
Disconnect(s) ==
  /\ At(Session(s), "streaming")
  /\ at' = [at EXCEPT ![Hotkey(s)] = IF @ = "armed" THEN "off" ELSE @,
                      ![Session(s)] = IF kind[s] = "bindMobile" THEN "clearVddOnly" ELSE "end"]
  /\ UNCHANGED <<displayVars, diskVars, processVars, read, sessionVars>>

EndSession(s) ==
  /\ At(Session(s), "end")
  /\ GoTo(Session(s), IF modified[s] THEN "stopWatchdog" ELSE "done")
  /\ UNCHANGED <<displayVars, diskVars, processVars, read, sessionVars>>

SetUp(s) ==
  \/ CreateVdd(s) \/ SetSessionScale(s) \/ SetSessionHz(s) \/ Extend(s) \/ SetScaleAgain(s)
  \/ Detach(s) \/ MarkShowOnly(s) \/ MarkVddOnly(s) \/ SpawnWatchdog(s)

SessionStep(s) ==
  /\ ServerLives
  /\ Connect(s) \/ SetUp(s) \/ Disconnect(s) \/ ClearVddOnly(s) \/ EndSession(s) \/ Emergency(s)

-----------------------------------------------------------------------------
RestoreStep(t) ==
  \/ Restore(t) \/ CleanUp(t) \/ GuardedRestoreEnds(t)
  \/ \E s \in SessionIds : CleanUpEnds(t, s)

Next ==
  \/ ServerStep \/ Failure
  \/ \E p \in Processes : Wake(p)
  \/ \E s \in SessionIds : SessionStep(s)
  \/ \E t \in Tasks : RestoreStep(t)

(* Windows runs the processes that are there to restore.                     *)
Fairness ==
  /\ \A p \in Processes : WF_vars(Wake(p) \/ RestoreStep(Watchdog(p)))
  /\ WF_vars(RestoreStep(Boot))

Spec == Init /\ [][Next]_vars /\ Fairness

-----------------------------------------------------------------------------
(* Properties                                                                *)

(* What SpawnWatchdog says of every session: while a client is streamed to on *)
(* displays that were changed for it, a crash of the server at that moment    *)
(* can be undone, since the marker is there, the snapshot can be read and     *)
(* tells what has been detached, and the watchdog waits.  A second session of *)
(* the process has no marker.  (DisplayGuard.cs:277, 165, 401)                *)
SessionIsGuarded ==
  \A s \in SessionIds :
    (/\ server = "up" /\ At(Session(s), "streaming") /\ modified[s] /\ kind[s] # "rescale"
     /\ at[Hotkey(s)] \in {"off", "armed"})
      => /\ marker /\ snapshot.file = "whole" /\ At(Watchdog(starts), "waiting")
         /\ IsVddOnly(s) => snapshot.showOnly

(* That is so of the first session of every process, whatever happened to the *)
(* processes before, unless the process was started over a restore.          *)
FirstSessionIsGuarded == lapse = "none" => SessionIsGuarded

(* A restore that has read the snapshot and gone through its steps has put    *)
(* the displays back, however the detached monitors and the order of the      *)
(* steps stood: the physical monitors are attached, all have the scale of     *)
(* the snapshot, and the virtual display is gone.  Only the hotkey may leave  *)
(* it: ForceDisableVdd may find the snapshot truncated by ClearVddOnlyActive. *)
(* A second session, or a server started over the restore, may undo it.      *)
RestoreIsComplete ==
  \A t \in Tasks :
    (/\ lapse = "none" /\ At(t, "deleteMarker") /\ read[t].file = "whole"
     /\ read[t].physical /\ (read[t].showOnly \/ t \in Sessions)
     /\ server \in {"down", "starting", "up"} /\ \A s \in SessionIds : ~InSetup(s))
      => /\ attached /\ \A m \in Monitors : scale[m] = read[t].scale
         /\ vdd => t \in Hotkeys

(* After a crash that left the monitors of the host detached, they come back  *)
(* without anybody starting the server again.  (Program.cs:30, RunWatchdog)   *)
IsLeftDark ==
  /\ lapse = "none" /\ server = "down" /\ ~attached /\ marker
  /\ snapshot.file = "whole" /\ snapshot.physical /\ snapshot.showOnly
  /\ \E t \in Watchdogs \cup {Boot} : at[t] \in {"waiting", "check"}

DarkHostIsRestored == IsLeftDark ~> attached
=============================================================================
