-------------------------- MODULE DisplayGuardProofs --------------------------
(***************************************************************************)
(* What the snapshot, the marker, the watchdog and the restores guarantee,   *)
(* for any number of monitors, at any scales and rates, and any number of     *)
(* sessions, starts and failures of the server.                              *)
(***************************************************************************)
EXTENDS DisplayGuard, TLAPS

(* The tasks are all different.                                              *)
LEMMA TaskNames ==
  /\ Server \in Tasks /\ Boot \in Tasks /\ Server # Boot
  /\ \A s \in SessionIds :
       /\ Session(s) \in Tasks /\ Hotkey(s) \in Tasks
       /\ Session(s) \in Threads /\ Hotkey(s) \in Threads
       /\ Session(s) \in Sessions /\ Hotkey(s) \in Hotkeys
       /\ Session(s) \notin Hotkeys /\ Hotkey(s) \notin Sessions
       /\ Session(s) \notin {Server, Boot} /\ Hotkey(s) \notin {Server, Boot}
       /\ Session(s) \notin Watchdogs /\ Hotkey(s) \notin Watchdogs
  /\ \A r, s \in SessionIds :
       /\ Session(r) # Hotkey(s)
       /\ Session(r) = Session(s) => r = s
       /\ Hotkey(r) = Hotkey(s) => r = s
  /\ \A p \in Processes : Watchdog(p) \in Tasks /\ Watchdog(p) \in Watchdogs
  /\ \A p : /\ Watchdog(p) \notin {Server, Boot} /\ Watchdog(p) \notin Threads
            /\ Watchdog(p) \notin Sessions /\ Watchdog(p) \notin Hotkeys
            /\ \A q : Watchdog(p) = Watchdog(q) => p = q
  /\ Server \in Threads /\ Boot \notin Threads
  /\ {Server, Boot} \cap (Sessions \cup Hotkeys \cup Watchdogs) = {}
  /\ Tasks = {Server, Boot} \cup Sessions \cup Hotkeys \cup Watchdogs
  /\ Threads = {Server} \cup Sessions \cup Hotkeys
  /\ \A t \in Sessions : \E s \in SessionIds : t = Session(s)
  /\ \A t \in Hotkeys : \E s \in SessionIds : t = Hotkey(s)
  /\ \A t \in Watchdogs : \E p \in Processes : t = Watchdog(p)
BY DEF Server, Boot, Session, Hotkey, Watchdog, Tasks, Threads, Sessions, Hotkeys, Watchdogs

-----------------------------------------------------------------------------
(* Type correctness                                                          *)

AtOK ==
  /\ at \in [Tasks -> Steps]
  /\ \A t \in Watchdogs \cup {Boot} : at[t] \in {"off", "waiting"} \cup RestoreSteps
  /\ \A t \in Hotkeys : at[t] \in {"off", "armed", "done"} \cup RestoreSteps
  /\ at[Server] \in {"off"} \cup StartSteps \cup RestoreSteps

DisplaysOK ==
  /\ attached \in BOOLEAN /\ vdd \in BOOLEAN
  /\ scale \in [Displays -> Nat] /\ hz \in [Monitors -> Nat]

DiskOK == snapshot \in Snapshots /\ marker \in BOOLEAN

ProcessOK ==
  /\ server \in ServerStates /\ starts \in 0 .. MaxStarts /\ crashes \in 0 .. MaxCrashes
  /\ lapse \in Lapses

ReadOK == read \in [Tasks -> Snapshots]

SessionOK ==
  /\ kind \in [SessionIds -> AllKinds \cup {"standard"}]
  /\ modified \in [SessionIds -> BOOLEAN]
  /\ \E D \in SUBSET Displays : originalDpi \in [D -> Nat]

(* The type by its parts: each step disturbs a few of them.                  *)
LEMMA TypeParts ==
  TypeOK <=> DisplaysOK /\ DiskOK /\ ProcessOK /\ AtOK /\ ReadOK /\ SessionOK
BY DEF TypeOK, DisplaysOK, DiskOK, ProcessOK, AtOK, ReadOK, SessionOK

(* The same of the next state.                                               *)
LEMMA TypeParts1 ==
  TypeOK' <=> DisplaysOK' /\ DiskOK' /\ ProcessOK' /\ AtOK' /\ ReadOK' /\ SessionOK'
BY DEF TypeOK, DisplaysOK, DiskOK, ProcessOK, AtOK, ReadOK, SessionOK

(* A part whose variables do not change keeps its type.                      *)
LEMMA SameDisplays == DisplaysOK /\ UNCHANGED displayVars => DisplaysOK'
BY DEF DisplaysOK, displayVars

LEMMA SameDisk == DiskOK /\ UNCHANGED diskVars => DiskOK'
BY DEF DiskOK, diskVars

LEMMA SameProcess == ProcessOK /\ UNCHANGED processVars => ProcessOK'
BY DEF ProcessOK, processVars

LEMMA SameRead == ReadOK /\ UNCHANGED read => ReadOK'
BY DEF ReadOK

LEMMA SameSession == SessionOK /\ UNCHANGED sessionVars => SessionOK'
BY DEF SessionOK, sessionVars

(* What a snapshot may be rewritten to.                                      *)
LEMMA SnapshotValues ==
  /\ NoSnapshot \in Snapshots /\ Torn \in Snapshots
  /\ \A s \in Snapshots : /\ [s EXCEPT !.showOnly = TRUE] \in Snapshots
                          /\ [s EXCEPT !.vddOnly = TRUE] \in Snapshots
                          /\ [s EXCEPT !.vddOnly = FALSE] \in Snapshots
BY DEF Snapshots, NoSnapshot, Torn

(* A task that goes to a step of its own.                                    *)
LEMMA Goes ==
  ASSUME AtOK, NEW t \in Tasks, NEW step \in Steps, GoTo(t, step),
         t \in Watchdogs \cup {Boot} => step \in {"off", "waiting"} \cup RestoreSteps,
         t \in Hotkeys => step \in {"off", "armed", "done"} \cup RestoreSteps,
         t = Server => step \in {"off"} \cup StartSteps \cup RestoreSteps
  PROVE  AtOK'
<1>1. /\ at \in [Tasks -> Steps] /\ at' = [at EXCEPT ![t] = step]
  BY DEF AtOK, GoTo
<1>2. at' \in [Tasks -> Steps] /\ \A u \in Tasks : at'[u] = IF u = t THEN step ELSE at[u]
  BY <1>1
<1>3. Watchdogs \cup {Boot} \subseteq Tasks /\ Hotkeys \subseteq Tasks /\ Server \in Tasks
  BY TaskNames
<1> QED BY <1>2, <1>3 DEF AtOK

(* A session's step leaves the other tasks alone.                            *)
LEMMA SessionGoes ==
  ASSUME AtOK, NEW s \in SessionIds, NEW step \in Steps, GoTo(Session(s), step)
  PROVE  AtOK'
<1>1. /\ Session(s) \in Tasks /\ Session(s) \notin Watchdogs \cup {Boot}
      /\ Session(s) \notin Hotkeys /\ Session(s) # Server
  BY TaskNames
<1> QED BY <1>1, Goes

(* A restoring step is one any task may take, unless it is a session's.      *)
LEMMA RestoreGoes ==
  ASSUME AtOK, NEW t \in Tasks, NEW step \in RestoreSteps, GoTo(t, step)
  PROVE  AtOK'
<1>1. step \in Steps
  BY DEF Steps
<1> QED BY <1>1, Goes

(* Setting a scale (SetScale) keeps the type of the scales.                  *)
LEMMA ScaleIsSet == ASSUME scale \in [Displays -> Nat], NEW p \in Nat, SetScale(p) PROVE scale' \in [Displays -> Nat]
BY DEF SetScale

(* Disabling the virtual display keeps the types of the displays.            *)
LEMMA DisableType == ASSUME DisplaysOK, NEW known \in BOOLEAN, DisableVdd(known) PROVE DisplaysOK'
<1>1. attached' \in BOOLEAN /\ vdd' \in BOOLEAN
  BY DEF DisplaysOK, DisableVdd
<1> QED BY <1>1 DEF DisplaysOK, DisableVdd

(* The steps of a restore and of a clean-up keep the type.                   *)
LEMMA RestoreType == ASSUME TypeOK, NEW t \in Tasks, RestoreStep(t) PROVE TypeOK'
<1> USE TypeParts
<1>r. read[t] \in Snapshots /\ read[t].scale \in Nat /\ read[t].physical \in BOOLEAN
      /\ snapshot \in Snapshots /\ snapshot.physical \in BOOLEAN
  BY DEF ReadOK, DiskOK, Snapshots
<1>c. \A u \in Tasks, r \in Snapshots : [read EXCEPT ![u] = r] \in [Tasks -> Snapshots]
  BY DEF ReadOK
<1>a. /\ AfterRestore(t) \in Steps
      /\ t \in Watchdogs \cup {Boot} => AfterRestore(t) \in {"off", "waiting"} \cup RestoreSteps
      /\ t \in Hotkeys => AfterRestore(t) \in {"off", "armed", "done"} \cup RestoreSteps
      /\ AfterRestore(t) \in {"off"} \cup StartSteps
  BY TaskNames DEF AfterRestore, Steps, StartSteps
<1>1. CASE Check(t)
  <2>1. AtOK'
    <3>1. CASE marker /\ snapshot.file # "none"
      BY <1>1, <3>1, RestoreGoes DEF Check, RestoreSteps
    <3>2. CASE ~(marker /\ snapshot.file # "none")
      <4>1. GoTo(t, AfterRestore(t))
        BY <1>1, <3>2 DEF Check
      <4> QED BY <4>1, <1>a, Goes
    <3> QED BY <3>1, <3>2
  <2> QED BY <1>1, <2>1, SameDisplays, SameDisk, SameProcess, SameRead, SameSession, TypeParts1 DEF Check
<1>2. CASE ReadSnapshot(t)
  <2>1. ReadOK'
    BY <1>2, <1>r, <1>c, SnapshotValues DEF ReadSnapshot, ReadOK
  <2>2. AtOK'
    BY <1>2, RestoreGoes DEF ReadSnapshot, RestoreSteps, After
  <2> QED BY <1>2, <2>1, <2>2, SameDisplays, SameDisk, SameProcess, SameSession, TypeParts1 DEF ReadSnapshot
<1>3. CASE RestoreTopology(t)
  <2>1. AtOK'
    BY <1>3, RestoreGoes DEF RestoreTopology, RestoreSteps, After
  <2>2. attached' \in BOOLEAN
    BY <1>3 DEF RestoreTopology
  <2>3. hz' \in [Monitors -> Nat]
    BY <1>3 DEF RestoreTopology, DisplaysOK, DefaultHz
  <2>4. DisplaysOK'
    BY <1>3, <2>2, <2>3 DEF RestoreTopology, DisplaysOK
  <2> QED BY <1>3, <2>1, <2>4, SameDisk, SameProcess, SameRead, SameSession, TypeParts1 DEF RestoreTopology
<1>4. CASE RestoreScale(t)
  <2>1. AtOK'
    BY <1>4, RestoreGoes DEF RestoreScale, RestoreSteps, After
  <2>2. DisplaysOK'
    BY <1>4, <1>r, ScaleIsSet DEF RestoreScale, DisplaysOK
  <2> QED BY <1>4, <2>1, <2>2, SameDisk, SameProcess, SameRead, SameSession, TypeParts1 DEF RestoreScale
<1>5. CASE RestoreModes(t)
  <2>1. AtOK'
    BY <1>5, RestoreGoes DEF RestoreModes, RestoreSteps
  <2>2. DisplaysOK'
    BY <1>5 DEF RestoreModes, DisplaysOK, DefaultHz
  <2> QED BY <1>5, <2>1, <2>2, SameDisk, SameProcess, SameRead, SameSession, TypeParts1 DEF RestoreModes
<1>6. CASE SafeDisableVdd(t)
  <2>1. AtOK'
    BY <1>6, RestoreGoes DEF SafeDisableVdd, RestoreSteps
  <2>2. DisplaysOK'
    BY <1>6, <1>r, DisableType DEF SafeDisableVdd
  <2> QED BY <1>6, <2>1, <2>2, SameDisk, SameProcess, SameRead, SameSession, TypeParts1 DEF SafeDisableVdd
<1>7. CASE TimeOut(t)
  <2>1. AtOK'
    BY <1>7, RestoreGoes DEF TimeOut, RestoreSteps
  <2>2. ReadOK'
    BY <1>7, <1>c, SnapshotValues DEF TimeOut, ReadOK
  <2> QED BY <1>7, <2>1, <2>2, SameDisplays, SameDisk, SameProcess, SameSession, TypeParts1 DEF TimeOut
<1>8. CASE StopWatchdog(t)
  <2> DEFINE stopped == [at EXCEPT ![Watchdog(starts)] = "off"]
  <2>1. stopped \in [Tasks -> Steps] /\ \A u \in Tasks : stopped[u] \in {at[u], "off"}
    BY DEF AtOK, Steps
  <2>2. at' = [stopped EXCEPT ![t] = "forceDisable"]
    BY <1>8 DEF StopWatchdog
  <2>3. \A u \in Tasks : at'[u] \in {at[u], "off"} \cup RestoreSteps
    BY <2>1, <2>2 DEF RestoreSteps
  <2>4. at' \in [Tasks -> Steps]
    BY <2>1, <2>2 DEF Steps, RestoreSteps
  <2>5. AtOK'
    BY <2>3, <2>4, TaskNames DEF AtOK
  <2> QED BY <1>8, <2>5, SameDisplays, SameDisk, SameProcess, SameRead, SameSession, TypeParts1 DEF StopWatchdog
<1>9. CASE ForceDisableVdd(t)
  <2>1. AtOK'
    BY <1>9, RestoreGoes DEF ForceDisableVdd, RestoreSteps
  <2>2. DisplaysOK'
    BY <1>9, <1>r, DisableType DEF ForceDisableVdd
  <2> QED BY <1>9, <2>1, <2>2, SameDisk, SameProcess, SameRead, SameSession, TypeParts1 DEF ForceDisableVdd
<1>10. CASE GuardedRestoreEnds(t)
  <2>1. AtOK'
    BY <1>10, <1>a, Goes DEF GuardedRestoreEnds
  <2>2. ReadOK'
    BY <1>10, <1>c, SnapshotValues DEF GuardedRestoreEnds, ReadOK
  <2>3. DiskOK' /\ DisplaysOK'
    BY <1>10, SameDisplays DEF GuardedRestoreEnds, DeleteMarker, DiskOK
  <2> QED BY <1>10, <2>1, <2>2, <2>3, SameProcess, SameSession, TypeParts1 DEF GuardedRestoreEnds
<1>11. ASSUME NEW s \in SessionIds, CleanUpEnds(t, s) PROVE TypeOK'
  <2>1. t \notin Watchdogs \cup {Boot} /\ t # Server
    BY <1>11, TaskNames DEF CleanUpEnds
  <2>2. AtOK'
    BY <1>11, <2>1, Goes DEF CleanUpEnds, GoTo, Steps
  <2>3. ReadOK'
    BY <1>11, <1>c, SnapshotValues DEF CleanUpEnds, ReadOK
  <2>4. DiskOK' /\ DisplaysOK'
    BY <1>11, SameDisplays DEF CleanUpEnds, DeleteMarker, DiskOK
  <2>5. SessionOK'
    BY <1>11 DEF CleanUpEnds, SessionOK
  <2> QED BY <1>11, <2>2, <2>3, <2>4, <2>5, SameProcess, TypeParts1 DEF CleanUpEnds
<1> QED BY <1>1, <1>2, <1>3, <1>4, <1>5, <1>6, <1>7, <1>8, <1>9, <1>10, <1>11 DEF RestoreStep, Restore, CleanUp

(* What is captured at the start is a snapshot.                              *)
LEMMA CapturedType == ASSUME TypeOK PROVE Captured \in Snapshots
<1>1. FirstMonitor \in Displays /\ Vdd \in Displays
  BY DisplayAssumption DEF Displays
<1> QED BY <1>1 DEF TypeOK, Captured, Snapshots

(* The end of the process keeps the type, whichever tasks survive it.        *)
LEMMA EndType ==
  ASSUME TypeOK, NEW survivors \in SUBSET Tasks, ProcessEnds(survivors), crashes' \in 0 .. MaxCrashes,
         marker' \in BOOLEAN
  PROVE  TypeOK'
<1> USE TypeParts
<1>1. at' \in [Tasks -> Steps]
  BY DEF ProcessEnds, AtOK, Steps, RestoreSteps
<1>2. \A t \in Tasks : at'[t] \in {at[t], "off"} \/ (t = Boot /\ at'[t] = "check")
  BY DEF ProcessEnds
<1>3. AtOK'
  BY <1>1, <1>2, TaskNames DEF AtOK, RestoreSteps
<1>4. ReadOK'
  BY SnapshotValues DEF ProcessEnds, ReadOK
<1>5. kind' \in [SessionIds -> AllKinds \cup {"standard"}] /\ modified' \in [SessionIds -> BOOLEAN]
  BY DEF ProcessEnds
<1>6. {} \in SUBSET Displays /\ originalDpi' \in [{} -> Nat]
  BY DEF ProcessEnds
<1>7. SessionOK'
  BY <1>5, <1>6 DEF SessionOK
<1>8. DiskOK' /\ ProcessOK'
  BY DEF ProcessEnds, DiskOK, ProcessOK, ServerStates
<1> QED BY <1>3, <1>4, <1>7, <1>8, SameDisplays, TypeParts1 DEF ProcessEnds

(* The steps of the server and the failures keep the type.                   *)
LEMMA ServerType == ASSUME TypeOK, ServerStep \/ Failure PROVE TypeOK'
<1> USE TypeParts
<1>g. ASSUME NEW step \in {"off"} \cup StartSteps \cup RestoreSteps, GoTo(Server, step) PROVE AtOK'
  <2>1. step \in Steps
    BY DEF Steps
  <2> QED BY <1>g, <2>1, Goes, TaskNames
<1>c. \A u \in Tasks, r \in Snapshots : [read EXCEPT ![u] = r] \in [Tasks -> Snapshots]
  BY DEF ReadOK
<1>m. Watchdogs \cup {Boot} \in SUBSET Tasks /\ {} \in SUBSET Tasks
  BY TaskNames
<1>1. CASE Start
  <2>1. at' \in [Tasks -> Steps]
    BY <1>1 DEF Start, AtOK, Steps, RestoreSteps
  <2>2. \A t \in Tasks : at'[t] = IF t = Server THEN "check" ELSE IF t \in Threads THEN "off" ELSE at[t]
    BY <1>1 DEF Start
  <2>3. AtOK'
    BY <2>1, <2>2, TaskNames DEF AtOK, RestoreSteps
  <2>4. ProcessOK'
    BY <1>1, DisplayAssumption DEF Start, ProcessOK, ServerStates, Lapses
  <2> QED BY <1>1, <2>3, <2>4, SameDisplays, SameDisk, SameRead, SameSession, TypeParts1 DEF Start
<1>2. CASE Capture
  <2>1. AtOK'
    BY <1>2, <1>g DEF Capture, StartSteps
  <2>2. ReadOK' /\ DiskOK'
    BY <1>2, <1>c, CapturedType, SnapshotValues, TaskNames DEF Capture, ReadOK, DiskOK
  <2> QED BY <1>2, <2>1, <2>2, SameDisplays, SameProcess, SameSession, TypeParts1 DEF Capture
<1>3. CASE WriteSnapshot
  <2>1. AtOK'
    BY <1>3, <1>g DEF WriteSnapshot, StartSteps
  <2>2. ReadOK' /\ DiskOK'
    BY <1>3, <1>c, SnapshotValues, TaskNames DEF WriteSnapshot, ReadOK, DiskOK
  <2> QED BY <1>3, <2>1, <2>2, SameDisplays, SameProcess, SameSession, TypeParts1 DEF WriteSnapshot
<1>4. CASE WriteMarker
  <2>1. AtOK'
    BY <1>4, <1>g DEF WriteMarker
  <2>2. DiskOK' /\ ProcessOK'
    BY <1>4 DEF WriteMarker, DiskOK, ProcessOK, ServerStates
  <2> QED BY <1>4, <2>1, <2>2, SameDisplays, SameRead, SameSession, TypeParts1 DEF WriteMarker
<1>5. CASE Exit
  <2>1. PICK D \in SUBSET Displays : originalDpi \in [D -> Nat]
    BY DEF SessionOK
  <2>2. \A d \in ActiveDisplays \cap DOMAIN originalDpi : originalDpi[d] \in Nat
    BY <2>1
  <2>3. scale' \in [Displays -> Nat]
    BY <1>5, <2>2 DEF Exit, DisplaysOK
  <2>4. DisplaysOK' /\ ProcessOK'
    BY <1>5, <2>3 DEF Exit, DisplaysOK, ProcessOK, ServerStates
  <2>5. AtOK'
    BY <1>5 DEF Exit, AtOK
  <2> QED BY <1>5, <2>4, <2>5, SameDisk, SameRead, SameSession, TypeParts1 DEF Exit
<1>6. CASE ExitContinues
  <2>1. AtOK'
    BY <1>6, <1>g DEF ExitContinues, RestoreSteps
  <2>2. ProcessOK'
    BY <1>6 DEF ExitContinues, ProcessOK, ServerStates
  <2> QED BY <1>6, <2>1, <2>2, SameDisplays, SameDisk, SameRead, SameSession, TypeParts1 DEF ExitContinues
<1>7. CASE MainReturns
  <2>1. crashes' \in 0 .. MaxCrashes /\ marker' \in BOOLEAN
    BY <1>7 DEF MainReturns, ProcessOK, DiskOK
  <2> QED BY <1>7, <1>m, <2>1, EndType DEF MainReturns
<1>8. CASE CleanUpBeforeEnd
  <2>1. crashes' \in 0 .. MaxCrashes /\ marker' \in BOOLEAN
    BY <1>8 DEF CleanUpBeforeEnd, ProcessOK, DiskOK
  <2> QED BY <1>8, <1>m, <2>1, EndType DEF CleanUpBeforeEnd
<1>9. CASE Crash
  <2>1. crashes' \in 0 .. MaxCrashes /\ marker' \in BOOLEAN
    BY <1>9, DisplayAssumption DEF Crash, ProcessOK, DiskOK
  <2> QED BY <1>9, <1>m, <2>1, EndType DEF Crash
<1>10. CASE UnhandledException
  <2>1. AtOK'
    BY <1>10, <1>g DEF UnhandledException, RestoreSteps
  <2>2. ProcessOK'
    BY <1>10, DisplayAssumption DEF UnhandledException, ProcessOK, ServerStates
  <2> QED BY <1>10, <2>1, <2>2, SameDisplays, SameDisk, SameRead, SameSession, TypeParts1 DEF UnhandledException
<1>11. CASE PowerLoss
  <2>1. crashes' \in 0 .. MaxCrashes /\ marker' \in BOOLEAN
    BY <1>11, DisplayAssumption DEF PowerLoss, ProcessOK, DiskOK
  <2> QED BY <1>11, <1>m, <2>1, EndType DEF PowerLoss
<1> QED BY <1>1, <1>2, <1>3, <1>4, <1>5, <1>6, <1>7, <1>8, <1>9, <1>10, <1>11 DEF ServerStep, Failure

(* The start of a rewrite of the snapshot, which truncates the file.         *)
LEMMA RewriteType ==
  ASSUME TypeOK, NEW s \in SessionIds, NEW step, NEW flagged \in Snapshots, NEW write \in Steps,
         NEW next \in Steps, Rewrite(s, step, flagged, write, next)
  PROVE  TypeOK'
<1> USE TypeParts
<1>1. AtOK'
  BY SessionGoes DEF Rewrite
<1>2. Session(s) \in Tasks
  BY TaskNames
<1>3. ReadOK'
  BY <1>2 DEF Rewrite, ReadOK
<1>4. DiskOK'
  BY SnapshotValues DEF Rewrite, DiskOK
<1> QED BY <1>1, <1>3, <1>4, SameDisplays, SameProcess, SameSession, TypeParts1 DEF Rewrite

(* Its end, which writes the snapshot with a flag changed.                   *)
LEMMA WriteType ==
  ASSUME TypeOK, NEW s \in SessionIds, NEW step, NEW next \in Steps, Write(s, step, next)
  PROVE  TypeOK'
<1> USE TypeParts
<1>1. AtOK'
  BY SessionGoes DEF Write
<1>2. Session(s) \in Tasks
  BY TaskNames
<1>3. ReadOK'
  BY SnapshotValues DEF Write, ReadOK
<1>4. DiskOK'
  BY <1>2 DEF Write, DiskOK, ReadOK
<1> QED BY <1>1, <1>3, <1>4, SameDisplays, SameProcess, SameSession, TypeParts1 DEF Write

(* The steps of a session keep the type.                                     *)
LEMMA SessionType == ASSUME TypeOK, NEW s \in SessionIds, SessionStep(s) PROVE TypeOK'
<1> USE TypeParts
<1>g. ASSUME NEW step \in Steps, GoTo(Session(s), step) PROVE AtOK'
  BY <1>g, SessionGoes
<1>m. ASSUME modified' = [modified EXCEPT ![s] = TRUE] PROVE modified' \in [SessionIds -> BOOLEAN]
  BY <1>m DEF SessionOK
<1>k. ASSUME NEW k \in AllKinds \cup {"standard"}, kind' = [kind EXCEPT ![s] = k], UNCHANGED <<modified, originalDpi>>
      PROVE SessionOK'
  BY <1>k DEF SessionOK
<1>s. SessionScale \in Nat /\ SessionHz \in Nat /\ Kinds \subseteq AllKinds
  BY DisplayAssumption
<1>n. AfterShowOnly(s) \in Steps /\ {"writeShowOnly", "writeVddOnly", "writeCleared", "spawnWatchdog", "end"} \subseteq Steps
  BY DEF AfterShowOnly, Steps, SetupSteps
<1>1. CASE Connect(s)
  <2>1. PICK k \in Kinds : /\ kind' = [kind EXCEPT ![s] = k]
                           /\ GoTo(Session(s), IF k \in {"ultrawide", "bindMobile"} THEN "create" ELSE "setScale")
    BY <1>1 DEF Connect
  <2>2. AtOK'
    BY <2>1, <1>g DEF Steps, SetupSteps
  <2>3. SessionOK'
    BY <1>1, <2>1, <1>k, <1>s DEF Connect
  <2>4. ProcessOK'
    BY <1>1 DEF Connect, ProcessOK, Lapses
  <2> QED BY <1>1, <2>2, <2>3, <2>4, SameDisplays, SameDisk, SameRead, TypeParts1 DEF Connect
<1>2. CASE CreateVdd(s)
  <2>1. AtOK'
    BY <1>2, <1>g DEF CreateVdd, Steps, SetupSteps
  <2>2. DisplaysOK'
    BY <1>2 DEF CreateVdd, DisplaysOK
  <2>3. SessionOK'
    BY <1>2, <1>k, SameSession DEF CreateVdd, sessionVars
  <2> QED BY <1>2, <2>1, <2>2, <2>3, SameDisk, SameProcess, SameRead, TypeParts1 DEF CreateVdd
<1>3. CASE SetSessionScale(s)
  <2>1. AtOK'
    BY <1>3, <1>g DEF SetSessionScale, Steps, SetupSteps
  <2>2. DisplaysOK'
    BY <1>3, <1>s, ScaleIsSet DEF SetSessionScale, DisplaysOK
  <2>3. SessionOK'
    BY <1>3, <1>m DEF SetSessionScale, SessionOK
  <2> QED BY <1>3, <2>1, <2>2, <2>3, SameDisk, SameProcess, SameRead, TypeParts1 DEF SetSessionScale
<1>4. CASE SetSessionHz(s)
  <2>1. AtOK'
    BY <1>4, <1>g DEF SetSessionHz, Steps, SetupSteps
  <2>2. hz' \in [Monitors -> Nat]
    BY <1>4, <1>s DEF SetSessionHz, DisplaysOK
  <2>3. DisplaysOK'
    BY <1>4, <2>2 DEF SetSessionHz, DisplaysOK
  <2> QED BY <1>4, <2>1, <2>3, SameDisk, SameProcess, SameRead, SameSession, TypeParts1 DEF SetSessionHz
<1>5. CASE Extend(s)
  <2>1. AtOK'
    BY <1>5, <1>g DEF Extend, Steps, SetupSteps
  <2>2. DisplaysOK'
    BY <1>5 DEF Extend, DisplaysOK
  <2> QED BY <1>5, <2>1, <2>2, SameDisk, SameProcess, SameRead, SameSession, TypeParts1 DEF Extend
<1>6. CASE SetScaleAgain(s)
  <2>1. AtOK'
    BY <1>6, <1>g DEF SetScaleAgain, Steps, SetupSteps
  <2>2. DisplaysOK'
    BY <1>6, <1>s, ScaleIsSet DEF SetScaleAgain, DisplaysOK
  <2>3. ActiveDisplays \in SUBSET Displays /\ originalDpi' \in [ActiveDisplays -> Nat]
    BY <1>6 DEF SetScaleAgain, DisplaysOK, ActiveDisplays
  <2>4. SessionOK'
    BY <1>6, <2>3 DEF SetScaleAgain, SessionOK
  <2> QED BY <1>6, <2>1, <2>2, <2>4, SameDisk, SameProcess, SameRead, TypeParts1 DEF SetScaleAgain
<1>7. CASE Detach(s)
  <2>1. AtOK'
    BY <1>7, <1>g DEF Detach, Steps, SetupSteps
  <2>2. DisplaysOK'
    BY <1>7 DEF Detach, DisplaysOK
  <2> QED BY <1>7, <2>1, <2>2, SameDisk, SameProcess, SameRead, SameSession, TypeParts1 DEF Detach
<1>8. CASE MarkShowOnly(s)
  <2>1. [snapshot EXCEPT !.showOnly = TRUE] \in Snapshots
    BY SnapshotValues DEF DiskOK
  <2> QED BY <1>8, <1>n, <2>1, RewriteType, WriteType DEF MarkShowOnly
<1>9. CASE MarkVddOnly(s)
  <2>1. [snapshot EXCEPT !.vddOnly = TRUE] \in Snapshots
    BY SnapshotValues DEF DiskOK
  <2> QED BY <1>9, <1>n, <2>1, RewriteType, WriteType DEF MarkVddOnly
<1>10. CASE ClearVddOnly(s)
  <2>1. [snapshot EXCEPT !.vddOnly = FALSE] \in Snapshots
    BY SnapshotValues DEF DiskOK
  <2> QED BY <1>10, <1>n, <2>1, RewriteType, WriteType DEF ClearVddOnly
<1>11. CASE SpawnWatchdog(s)
  <2>1. at \in [Tasks -> Steps] /\ Session(s) \in Tasks /\ Hotkey(s) \in Tasks
    BY TaskNames DEF AtOK
  <2>2. Hotkey(s) # Session(s) /\ Hotkey(s) # Watchdog(starts) /\ Session(s) # Watchdog(starts)
    BY TaskNames
  <2>3. at' \in [Tasks -> Steps]
    BY <1>11, <2>1 DEF SpawnWatchdog, Steps
  <2>4. \A u \in Tasks : at'[u] = at[u] \/ u = Session(s) \/ (u = Hotkey(s) /\ at'[u] = "armed")
                         \/ (u = Watchdog(starts) /\ at'[u] = "waiting")
    BY <1>11, <2>1, <2>2 DEF SpawnWatchdog
  <2>5. AtOK'
    BY <2>3, <2>4, TaskNames DEF AtOK
  <2>6. SessionOK'
    BY <1>11, <1>m DEF SpawnWatchdog, SessionOK
  <2> QED BY <1>11, <2>5, <2>6, SameDisplays, SameDisk, SameProcess, SameRead, TypeParts1 DEF SpawnWatchdog
<1>12. CASE Disconnect(s)
  <2> DEFINE step == IF kind[s] = "bindMobile" THEN "clearVddOnly" ELSE "end"
             disarmed == [at EXCEPT ![Hotkey(s)] = IF @ = "armed" THEN "off" ELSE @]
  <2>1. disarmed \in [Tasks -> Steps] /\ \A u \in Tasks : disarmed[u] \in {at[u], "off"}
    BY DEF AtOK, Steps
  <2>2. at' = [disarmed EXCEPT ![Session(s)] = step] /\ step \in Steps
    BY <1>12 DEF Disconnect, Steps
  <2>3. at' \in [Tasks -> Steps] /\ \A u \in Tasks : u = Session(s) \/ at'[u] \in {at[u], "off"}
    BY <2>1, <2>2
  <2>4. AtOK'
    BY <2>3, TaskNames DEF AtOK
  <2> QED BY <1>12, <2>4, SameDisplays, SameDisk, SameProcess, SameRead, SameSession, TypeParts1 DEF Disconnect
<1>13. CASE EndSession(s)
  <2>1. AtOK'
    BY <1>13, <1>g DEF EndSession, Steps, RestoreSteps
  <2> QED BY <1>13, <2>1, SameDisplays, SameDisk, SameProcess, SameRead, SameSession, TypeParts1 DEF EndSession
<1>14. CASE Emergency(s)
  <2>1. AtOK'
    BY <1>14, RestoreGoes, TaskNames DEF Emergency, RestoreSteps
  <2> QED BY <1>14, <2>1, SameDisplays, SameDisk, SameProcess, SameRead, SameSession, TypeParts1 DEF Emergency
<1> QED BY <1>1, <1>2, <1>3, <1>4, <1>5, <1>6, <1>7, <1>8, <1>9, <1>10, <1>11, <1>12, <1>13, <1>14
        DEF SessionStep, SetUp

(* A watchdog that sees the end of its server.                               *)
LEMMA WakeType == ASSUME TypeOK, NEW p \in Processes, Wake(p) PROVE TypeOK'
<1> USE TypeParts
<1>1. AtOK'
  BY RestoreGoes, TaskNames DEF Wake, RestoreSteps
<1> QED BY <1>1, SameDisplays, SameDisk, SameProcess, SameRead, SameSession, TypeParts1 DEF Wake

(* The initial state has its type.                                           *)
LEMMA InitType == Init => TypeOK
<1> SUFFICES ASSUME Init PROVE TypeOK
  OBVIOUS
<1>1. DisplaysOK
  BY DisplayAssumption DEF Init, DisplaysOK
<1>2. DiskOK
  BY SnapshotValues DEF Init, DiskOK
<1>3. ProcessOK
  <2>1. server \in ServerStates
    BY DEF Init, ServerStates
  <2>2. starts = 0 /\ crashes = 0 /\ lapse \in Lapses
    BY DEF Init, Lapses
  <2> QED BY <2>1, <2>2, DisplayAssumption DEF ProcessOK
<1>4. AtOK
  BY TaskNames DEF Init, AtOK, Steps
<1>5. ReadOK
  BY SnapshotValues DEF Init, ReadOK
<1>6. {} \in SUBSET Displays /\ originalDpi \in [{} -> Nat]
  BY DEF Init
<1>7. SessionOK
  BY <1>6 DEF Init, SessionOK
<1> QED BY <1>1, <1>2, <1>3, <1>4, <1>5, <1>7, TypeParts

(* Every step keeps it.                                                      *)
LEMMA NextType == TypeOK /\ [Next]_vars => TypeOK'
<1> SUFFICES ASSUME TypeOK, [Next]_vars PROVE TypeOK'
  OBVIOUS
<1>1. CASE UNCHANGED vars
  BY <1>1 DEF vars, TypeOK
<1> QED BY <1>1, ServerType, SessionType, RestoreType, WakeType DEF Next

(* Every variable keeps its type, whatever the displays, the clients, the     *)
(* number of sessions and the failures are.                                  *)
THEOREM TypeCorrect == Spec => []TypeOK
BY InitType, NextType, PTL DEF Spec

-----------------------------------------------------------------------------
(* While no second session has come, and no server was started over a        *)
(* restore.                                                                  *)

Guards == Watchdogs \cup {Boot}

(* The sessions that have not come, and their hotkeys.                       *)
Idle == (Sessions \cup Hotkeys) \ {Session(1), Hotkey(1)}

GuardSteps == {"check", "read", "topology", "scale", "modes", "disable", "deleteMarker"}
CleanUpSteps == {"stopWatchdog", "forceDisable", "read", "topology", "scale", "modes", "deleteMarker"}
WriteSteps == {"writeShowOnly", "writeVddOnly", "writeCleared"}
EndSteps == {"streaming", "done", "end", "clearVddOnly", "writeCleared"}

(* The tasks by name, those of the first session apart.                      *)
LEMMA OneSession ==
  /\ 1 \in SessionIds
  /\ Session(1) \in Sessions /\ Hotkey(1) \in Hotkeys /\ Hotkey(1) \notin Sessions
  /\ Tasks = {Server, Session(1), Hotkey(1)} \cup Guards \cup Idle
  /\ Threads = {Server, Session(1), Hotkey(1)} \cup Idle
  /\ Server # Session(1) /\ Server # Hotkey(1) /\ Session(1) # Hotkey(1)
  /\ {Server, Session(1), Hotkey(1)} \cap Guards = {}
  /\ {Server, Session(1), Hotkey(1)} \cap Idle = {} /\ Guards \cap Idle = {}
  /\ Boot \in Guards /\ Boot \notin Watchdogs
  /\ \A p : Watchdog(p) \notin {Server, Boot, Session(1), Hotkey(1)} \cup Idle
  /\ \A t \in Guards : t = Boot \/ \E p \in Processes : t = Watchdog(p)
  /\ \A p \in Processes : Watchdog(p) \in Guards
  /\ \A p, q : Watchdog(p) = Watchdog(q) => p = q
<1>1. 1 \in SessionIds
  BY DisplayAssumption DEF SessionIds
<1>2. \A t \in Idle : t \in Sessions \cup Hotkeys /\ t \notin {Session(1), Hotkey(1)}
  BY DEF Idle
<1>3. Session(1) \in Sessions /\ Hotkey(1) \in Hotkeys /\ Hotkey(1) \notin Sessions
  BY <1>1, TaskNames
<1>4. Tasks = {Server, Session(1), Hotkey(1)} \cup Guards \cup Idle
  BY <1>3, TaskNames DEF Guards, Idle
<1>5. Threads = {Server, Session(1), Hotkey(1)} \cup Idle
  BY <1>3, TaskNames DEF Idle
<1>6. {Server, Session(1), Hotkey(1)} \cap Guards = {} /\ Guards \cap Idle = {}
  BY <1>1, <1>2, TaskNames DEF Guards
<1>7. {Server, Session(1), Hotkey(1)} \cap Idle = {}
  BY <1>2, TaskNames
<1>8. \A p : Watchdog(p) \notin {Server, Boot, Session(1), Hotkey(1)} \cup Idle
  BY <1>2, <1>3, TaskNames
<1> QED BY <1>1, <1>3, <1>4, <1>5, <1>6, <1>7, <1>8, TaskNames DEF Guards

(* An idle task is one of a later session.                                   *)
LEMMA LaterSession ==
  ASSUME NEW s \in SessionIds, s # 1
  PROVE  Session(s) \in Idle /\ Hotkey(s) \in Idle /\ s > 1
<1>1. s > 1
  BY DEF SessionIds
<1> QED BY <1>1, OneSession, TaskNames DEF Idle

(* Who cleans up: the session, its hotkey, and the server on its way out.    *)
LEMMA WhoCleansUp ==
  /\ IsCleanUp(Session(1)) /\ IsCleanUp(Hotkey(1))
  /\ IsCleanUp(Server) <=> server = "cleaning"
  /\ \A t \in Guards : ~IsCleanUp(t)
<1>1. \A t \in Guards : t # Server /\ t[1] \in {"boot", "watchdog"}
  BY OneSession DEF Boot, Watchdog
<1>2. Session(1)[1] = "session" /\ Hotkey(1)[1] = "hotkey"
  BY DEF Session, Hotkey
<1> QED BY <1>1, <1>2, OneSession DEF IsCleanUp

(* Who may be at which step: the guards wait while the server lives, the      *)
(* threads are gone when it does not, and what a start restores it restores   *)
(* before any session is there.                                              *)
TasksTakeTurns ==
  /\ \A t \in Idle : at[t] = "off"
  /\ \A t \in Guards : at[t] \in {"off", "waiting"} \cup GuardSteps
  /\ server # "down" => \A t \in Guards : at[t] \in {"off", "waiting"}
  /\ at[Boot] # "waiting"
  /\ server # "down" => starts \in Processes
  /\ \A p \in Processes : at[Watchdog(p)] = "waiting" => p = starts
  /\ server = "starting" => at[Server] \in GuardSteps \cup StartSteps
  /\ server = "cleaning" => at[Server] \in CleanUpSteps
  /\ server \in {"down", "up", "exiting"} => at[Server] = "off"
  /\ server = "down" => at[Session(1)] \in {"off", "done"} /\ at[Hotkey(1)] \in {"off", "done"}
  /\ server = "starting" => at[Session(1)] = "off" /\ at[Hotkey(1)] = "off"
  /\ server # "down" =>
       /\ at[Session(1)] \in {"off"} \cup SetupSteps \cup EndSteps \cup CleanUpSteps
       /\ at[Hotkey(1)] \in {"off", "armed", "done"} \cup CleanUpSteps
       /\ at[Hotkey(1)] # "off" => at[Session(1)] \in EndSteps \cup CleanUpSteps

(* The snapshot, which its writer holds while the file is truncated.         *)
Saved == IF at[Session(1)] \in WriteSteps THEN read[Session(1)] ELSE snapshot

(* While the server is up the snapshot is whole, or its writer has it.       *)
SnapshotIsKept ==
  /\ server = "up" => Saved.file = "whole"
  /\ server = "up" /\ at[Session(1)] \in WriteSteps => snapshot.file = "torn"
  /\ at[Server] = "writeSnapshot" => read[Server].file = "whole"
  /\ at[Server] = "writeMarker" => snapshot.file = "whole"

(* The marker is there until a session, or its hotkey, has cleaned up.       *)
MarkerIsKept ==
  server = "up" /\ at[Session(1)] # "done" /\ at[Hotkey(1)] # "done" => marker

(* What the set-up of a session has changed is in the snapshot, and the       *)
(* watchdog waits, until the session or its hotkey undoes it.                *)
ChangesAreRecorded ==
  /\ server \in {"down", "starting"} => ~modified[1]
  /\ server = "up" =>
      /\ at[Session(1)] \in {"off", "create"} => ~modified[1]
      /\ at[Session(1)] \in {"setScale", "setHz", "extend"} => ~IsVddOnly(1)
      /\ (/\ IsVddOnly(1)
          /\ at[Session(1)] \in
                  {"writeShowOnly", "markVddOnly", "writeVddOnly", "spawnWatchdog", "streaming"})
           => Saved.showOnly
      /\ (/\ at[Session(1)] = "streaming" /\ modified[1] /\ kind[1] # "rescale"
          /\ at[Hotkey(1)] \in {"off", "armed"})
           => at[Watchdog(starts)] = "waiting"

(* A task that restores from what it has read.                               *)
Knows(t) ==
  \/ at[t] \in {"topology", "scale", "modes", "disable"}
  \/ at[t] = "deleteMarker" /\ read[t].file = "whole"

Agrees(t) ==
  /\ read[t].file = "whole" /\ read[t].scale = Saved.scale
  /\ read[t].physical = Saved.physical /\ read[t].showOnly = Saved.showOnly

ReadersAgree ==
  server \in {"down", "starting", "up"} => \A t \in Tasks : Knows(t) => Agrees(t)

(* Monitors that were there at the start, and are not to be left detached,    *)
(* are there.                                                                *)
PhysicalIsAttached ==
  /\ server = "up" /\ Saved.physical /\ ~Saved.showOnly /\ at[Session(1)] # "markShowOnly" => attached
  /\ at[Server] = "writeSnapshot" => ~read[Server].showOnly /\ (read[Server].physical => attached)
  /\ at[Server] = "writeMarker" => ~snapshot.showOnly /\ (snapshot.physical => attached)

(* A session that restores has disabled the virtual display before.          *)
VddIsDisabled ==
  server = "up" /\ snapshot.physical
  /\ at[Session(1)] \in {"read", "topology", "scale", "modes", "deleteMarker"} => ~vdd

(* What a restore has done stays done, though others restore beside it.      *)
Reattaches(t) == Knows(t) /\ read[t].physical /\ (read[t].showOnly \/ t = Session(1))

IsBack(t) ==
  /\ at[t] # "topology" => attached
  /\ at[t] \in {"modes", "disable", "deleteMarker"} => \A m \in Monitors : scale[m] = read[t].scale
  /\ at[t] = "deleteMarker" /\ t # Hotkey(1) => ~vdd

(* So every restore goes on from where the one beside it, or itself, is.     *)
RestoreGoesOn ==
  server \in {"down", "starting", "up"} => \A t \in Tasks : Reattaches(t) => IsBack(t)

(* The invariant.                                                            *)
GuardInv ==
  /\ TasksTakeTurns /\ SnapshotIsKept /\ MarkerIsKept /\ ChangesAreRecorded
  /\ ReadersAgree /\ PhysicalIsAttached /\ VddIsDisabled /\ RestoreGoesOn

(* The types of the variables as the steps use them.                         *)
LEMMA StateTypes ==
  TypeOK => /\ at \in [Tasks -> Steps] /\ read \in [Tasks -> Snapshots]
            /\ server \in {"down", "starting", "up", "exiting", "cleaning"}
            /\ starts \in 0 .. MaxStarts /\ snapshot \in Snapshots
            /\ scale \in [Displays -> Nat] /\ modified \in [SessionIds -> BOOLEAN]
            /\ kind \in [SessionIds -> AllKinds \cup {"standard"}]
BY DEF TypeOK, ServerStates

(* What holds of the others while one task restores.                         *)
LEMMA Others ==
  ASSUME TypeOK, GuardInv, NEW t \in Tasks, NEW step, GoTo(t, step),
         at[t] \in RestoreSteps, step \notin WriteSteps, server' = server, snapshot' = snapshot,
         \A u \in Tasks : u = t \/ read'[u] = read[u]
  PROVE  /\ at'[t] = step
         /\ Saved' = Saved
         /\ server = "up" => t \in {Session(1), Hotkey(1)}
         /\ \A u \in Tasks : u # t => at'[u] = at[u] /\ Knows(u)' = Knows(u) /\ Agrees(u)' = Agrees(u)
                                      /\ Reattaches(u)' = Reattaches(u)
<1>1. at \in [Tasks -> Steps] /\ at'[t] = step /\ \A u \in Tasks : u # t => at'[u] = at[u]
  BY StateTypes DEF GoTo
<1>2. Saved' = Saved
  BY <1>1, OneSession DEF Saved, WriteSteps, RestoreSteps
<1>3. server = "up" => t \in {Session(1), Hotkey(1)}
  BY OneSession DEF GuardInv, TasksTakeTurns, RestoreSteps, GuardSteps
<1>4. \A u \in Tasks : u # t => Knows(u)' = Knows(u) /\ Agrees(u)' = Agrees(u)
  BY <1>1, <1>2 DEF Knows, Agrees
<1>5. \A u \in Tasks : u # t => Reattaches(u)' = Reattaches(u)
  BY <1>4 DEF Reattaches
<1> QED BY <1>1, <1>2, <1>3, <1>4, <1>5

(* A restore reads what the snapshot says, since no writer is in between.    *)
LEMMA ReadSnapshotAgrees ==
  ASSUME TypeOK, GuardInv, NEW t \in Tasks, ReadSnapshot(t)
  PROVE  ReadersAgree'
<1>1. server' = server /\ snapshot' = snapshot /\ read \in [Tasks -> Snapshots]
  BY StateTypes DEF ReadSnapshot, processVars, diskVars
<1>2. /\ at[t] = "read"
      /\ GoTo(t, IF snapshot.file = "whole" THEN "topology" ELSE "deleteMarker")
      /\ read'[t] = (IF snapshot.file = "whole" THEN snapshot ELSE NoSnapshot)
      /\ \A u \in Tasks : u = t \/ read'[u] = read[u]
  BY <1>1 DEF ReadSnapshot, At, After
<1>3. /\ at'[t] = (IF snapshot.file = "whole" THEN "topology" ELSE "deleteMarker")
      /\ Saved' = Saved
      /\ \A u \in Tasks : u # t => Knows(u)' = Knows(u) /\ Agrees(u)' = Agrees(u)
  BY <1>1, <1>2, Others DEF RestoreSteps, WriteSteps
<1>4. ASSUME server \in {"down", "starting", "up"}, Knows(t)' PROVE Agrees(t)'
  <2>1. snapshot.file = "whole" /\ read'[t] = snapshot
    BY <1>2, <1>3, <1>4 DEF Knows, NoSnapshot
  <2>2. at[Session(1)] \notin WriteSteps
    BY <1>4, <2>1 DEF GuardInv, SnapshotIsKept, TasksTakeTurns, WriteSteps
  <2> QED BY <1>3, <2>1, <2>2 DEF Agrees, Saved
<1> QED BY <1>1, <1>3, <1>4 DEF GuardInv, ReadersAgree

(* A task that has nothing to go by any more.                                *)
LEMMA ForgetfulAgrees ==
  ASSUME TypeOK, GuardInv, NEW t \in Tasks, NEW step, GoTo(t, step),
         at[t] \in RestoreSteps, step \in {"off", "done", "capture", "deleteMarker"},
         server' = server, snapshot' = snapshot, read' = [read EXCEPT ![t] = NoSnapshot]
  PROVE  ReadersAgree'
<1>1. \A u \in Tasks : u = t \/ read'[u] = read[u]
  BY StateTypes
<1>2. read'[t].file = "none"
  BY StateTypes DEF NoSnapshot
<1>3. /\ at'[t] = step
      /\ \A u \in Tasks : u # t => Knows(u)' = Knows(u) /\ Agrees(u)' = Agrees(u)
  BY <1>1, Others DEF WriteSteps
<1>4. ~Knows(t)'
  BY <1>2, <1>3 DEF Knows
<1> QED BY <1>3, <1>4 DEF GuardInv, ReadersAgree

(* A restore that has restored the topology has the monitors back.           *)
LEMMA RestoreTopologyGoesOn ==
  ASSUME TypeOK, GuardInv, NEW t \in Tasks, RestoreTopology(t)
  PROVE  RestoreGoesOn'
<1>1. /\ at[t] = "topology" /\ GoTo(t, "scale") /\ UNCHANGED <<vdd, scale, server, snapshot, read>>
      /\ attached' = (attached \/ IsDetachedBySession(t))
  BY DEF RestoreTopology, At, After, diskVars, processVars
<1>2. /\ at'[t] = "scale"
      /\ \A u \in Tasks : u # t => at'[u] = at[u] /\ Reattaches(u)' = Reattaches(u)
  BY <1>1, Others DEF RestoreSteps, WriteSteps
<1>3. \A u \in Tasks : u # t /\ IsBack(u) => IsBack(u)'
  BY <1>1, <1>2 DEF IsBack
<1>4. ASSUME server \in {"down", "starting", "up"}, Reattaches(t)' PROVE attached'
  <2>1. CASE read[t].showOnly
    BY <1>1, <1>4, <2>1 DEF Reattaches, IsDetachedBySession
  <2>2. CASE ~read[t].showOnly
    <3>1. t = Session(1) /\ server = "up"
      BY <1>1, <1>4, <2>2 DEF Reattaches, GuardInv, TasksTakeTurns
    <3>2. Agrees(t) /\ at[Session(1)] # "markShowOnly"
      BY <1>1, <3>1, OneSession DEF GuardInv, ReadersAgree, Knows
    <3> QED BY <1>1, <1>4, <2>2, <3>1, <3>2 DEF GuardInv, PhysicalIsAttached, Agrees, Reattaches
  <2> QED BY <2>1, <2>2
<1>5. ASSUME server \in {"down", "starting", "up"}, Reattaches(t)' PROVE IsBack(t)'
  BY <1>2, <1>4, <1>5 DEF IsBack
<1> QED BY <1>1, <1>2, <1>3, <1>5 DEF GuardInv, RestoreGoesOn

(* Two tasks that restore at the same time restore the same.                 *)
LEMMA ReadersAreOne ==
  ASSUME GuardInv, server \in {"down", "starting", "up"}, NEW t \in Tasks, NEW u \in Tasks, Knows(t), Knows(u)
  PROVE  read[t].scale = read[u].scale /\ read[t].physical = read[u].physical
BY DEF GuardInv, ReadersAgree, Agrees

(* It then gives them the scale of the snapshot, as any beside it does.      *)
LEMMA RestoreScaleGoesOn ==
  ASSUME TypeOK, GuardInv, NEW t \in Tasks, RestoreScale(t)
  PROVE  RestoreGoesOn'
<1>1. /\ at[t] = "scale" /\ GoTo(t, "modes") /\ UNCHANGED <<attached, vdd, server, snapshot, read>>
      /\ SetScale(read[t].scale)
  BY DEF RestoreScale, At, After, diskVars, processVars
<1>2. /\ at'[t] = "modes"
      /\ \A u \in Tasks : u # t => at'[u] = at[u] /\ Reattaches(u)' = Reattaches(u)
  BY <1>1, Others DEF RestoreSteps, WriteSteps
<1>3. attached => \A m \in Monitors : scale'[m] = read[t].scale
  BY <1>1, DisplayAssumption DEF SetScale, ActiveDisplays, Displays
<1>4. ASSUME server \in {"down", "starting", "up"}, NEW u \in Tasks, Reattaches(u)' PROVE IsBack(u)'
  <2>1. Knows(t) /\ Reattaches(u)
    BY <1>1, <1>2, <1>4 DEF Knows, Reattaches
  <2>2. Knows(u) /\ read'[u].scale = read[t].scale
    BY <1>1, <1>4, <2>1, ReadersAreOne DEF Reattaches
  <2>3. IsBack(u)
    BY <1>4, <2>1 DEF GuardInv, RestoreGoesOn
  <2> QED BY <1>1, <1>2, <1>3, <2>2, <2>3 DEF IsBack
<1> QED BY <1>1, <1>4 DEF RestoreGoesOn

(* The virtual display goes when the snapshot knows a physical one.          *)
LEMMA DisableGoesOn ==
  ASSUME TypeOK, GuardInv, NEW t \in Tasks, NEW known \in BOOLEAN, DisableVdd(known),
         at[t] \in {"disable", "forceDisable"}, UNCHANGED <<server, snapshot, read>>,
         NEW step, GoTo(t, step),
         server \in {"down", "starting", "up"} /\ Reattaches(t)' => IsBack(t)',
         step \notin WriteSteps
  PROVE  RestoreGoesOn'
<1>1. \A u \in Tasks : u # t => at'[u] = at[u] /\ Reattaches(u)' = Reattaches(u)
  BY Others DEF RestoreSteps
<1>2. \A u \in Tasks : u # t /\ IsBack(u) => IsBack(u)'
  BY <1>1 DEF IsBack, DisableVdd
<1> QED BY <1>1, <1>2 DEF GuardInv, RestoreGoesOn

(* It disables the virtual display, and the monitors stay.                   *)
LEMMA SafeDisableVddGoesOn ==
  ASSUME TypeOK, GuardInv, NEW t \in Tasks, SafeDisableVdd(t)
  PROVE  RestoreGoesOn'
<1>1. /\ at[t] = "disable" /\ GoTo(t, "deleteMarker") /\ UNCHANGED <<scale, server, snapshot, read>>
      /\ DisableVdd(read[t].physical)
  BY DEF SafeDisableVdd, At, diskVars, processVars, DisableVdd
<1>2. at'[t] = "deleteMarker" /\ read[t].physical \in BOOLEAN
  BY <1>1, StateTypes DEF GoTo, Snapshots
<1>3. ASSUME server \in {"down", "starting", "up"}, Reattaches(t)' PROVE IsBack(t)'
  <2>1. IsBack(t) /\ read[t].physical
    BY <1>1, <1>3 DEF GuardInv, RestoreGoesOn, Reattaches, Knows
  <2> QED BY <1>1, <1>2, <2>1 DEF IsBack, DisableVdd
<1> QED BY <1>1, <1>2, <1>3, DisableGoesOn DEF WriteSteps

(* So does a clean-up, before it reads the snapshot.                         *)
LEMMA ForceDisableVddGoesOn ==
  ASSUME TypeOK, GuardInv, NEW t \in Tasks, ForceDisableVdd(t)
  PROVE  RestoreGoesOn'
<1>1. /\ at[t] = "forceDisable" /\ UNCHANGED <<scale, server, snapshot, read>>
      /\ GoTo(t, IF snapshot.file = "none" THEN "deleteMarker" ELSE "read")
      /\ DisableVdd(snapshot.physical)
  BY DEF ForceDisableVdd, At, diskVars, processVars, DisableVdd
<1>2. at'[t] = (IF snapshot.file = "none" THEN "deleteMarker" ELSE "read") /\ snapshot.physical \in BOOLEAN
  BY <1>1, StateTypes DEF GoTo, Snapshots
<1>3. ASSUME server \in {"down", "starting", "up"} PROVE ~Knows(t)'
  <2>1. server = "up"
    BY <1>1, <1>3, OneSession DEF GuardInv, TasksTakeTurns, GuardSteps, StartSteps
  <2>2. snapshot.file # "none"
    BY <2>1 DEF GuardInv, SnapshotIsKept, Saved
  <2> QED BY <1>2, <2>2 DEF Knows
<1> QED BY <1>1, <1>2, <1>3, DisableGoesOn DEF WriteSteps, Reattaches

(* A flag that is set or cleared leaves what else the snapshot says.         *)
LEMMA Flagged ==
  ASSUME NEW s \in Snapshots
  PROVE  /\ \A b \in BOOLEAN : /\ [s EXCEPT !.showOnly = b] \in Snapshots
                               /\ [s EXCEPT !.showOnly = b].file = s.file
                               /\ [s EXCEPT !.showOnly = b].scale = s.scale
                               /\ [s EXCEPT !.showOnly = b].physical = s.physical
                               /\ [s EXCEPT !.showOnly = b].showOnly = b
         /\ \A b \in BOOLEAN : /\ [s EXCEPT !.vddOnly = b] \in Snapshots
                               /\ [s EXCEPT !.vddOnly = b].file = s.file
                               /\ [s EXCEPT !.vddOnly = b].scale = s.scale
                               /\ [s EXCEPT !.vddOnly = b].physical = s.physical
                               /\ [s EXCEPT !.vddOnly = b].showOnly = s.showOnly
BY DEF Snapshots

(* A flag that is set or cleared changes what is saved in nothing else, and   *)
(* nothing at all is saved differently while the file is written.            *)
LEMMA RewriteSaves ==
  ASSUME TypeOK, GuardInv, server = "up", NEW step, NEW flagged, NEW write \in WriteSteps, NEW next,
         Rewrite(1, step, flagged, write, next), step \notin WriteSteps,
         snapshot.file = "whole" => flagged.file = "whole"
  PROVE  /\ snapshot.file = "whole" /\ Saved = snapshot
         /\ at'[Session(1)] = write /\ \A u \in Tasks : u # Session(1) => at'[u] = at[u] /\ read'[u] = read[u]
         /\ snapshot'.file = "torn" /\ Saved' = flagged
<1>1. at[Session(1)] = step /\ Saved = snapshot /\ snapshot.file = "whole"
  BY DEF Rewrite, At, Saved, GuardInv, SnapshotIsKept
<1>2. /\ read' = [read EXCEPT ![Session(1)] = flagged] /\ snapshot' = Torn
      /\ at' = [at EXCEPT ![Session(1)] = write]
  BY <1>1 DEF Rewrite, GoTo
<1>3. at'[Session(1)] = write /\ read'[Session(1)] = flagged
  BY <1>2, OneSession, StateTypes
<1>4. snapshot'.file = "torn"
  BY <1>2 DEF Torn, NoSnapshot
<1>5. \A u \in Tasks : u # Session(1) => at'[u] = at[u] /\ read'[u] = read[u]
  BY <1>2, StateTypes
<1> QED BY <1>1, <1>3, <1>4, <1>5 DEF Saved

(* The end of a rewrite puts into the file what its writer held.             *)
LEMMA WriteSaves ==
  ASSUME TypeOK, GuardInv, NEW step \in WriteSteps, NEW next, Write(1, step, next), next \notin WriteSteps
  PROVE  /\ at'[Session(1)] = next /\ \A u \in Tasks : u # Session(1) => at'[u] = at[u] /\ read'[u] = read[u]
         /\ Saved' = Saved /\ snapshot' = Saved
<1>1. at[Session(1)] = step /\ Saved = read[Session(1)] /\ snapshot' = read[Session(1)]
  BY DEF Write, At, Saved
<1>2. at'[Session(1)] = next /\ \A u \in Tasks : u # Session(1) => at'[u] = at[u] /\ read'[u] = read[u]
  BY OneSession, StateTypes DEF Write, GoTo
<1> QED BY <1>1, <1>2 DEF Saved

(* A step of the session that rewrites the snapshot, or waits for it to be    *)
(* written, and changes no more of it than the flags.                        *)
LEMMA RewritingKeeps ==
  ASSUME TypeOK, GuardInv, server # "down", UNCHANGED <<displayVars, marker, processVars, sessionVars>>,
         \A u \in Tasks : u # Session(1) => at'[u] = at[u] /\ read'[u] = read[u],
         server = "up" => /\ Saved'.file = "whole" /\ Saved'.scale = Saved.scale /\ Saved'.physical = Saved.physical
                          /\ Saved'.showOnly = Saved.showOnly \/ at[Hotkey(1)] = "off"
                          /\ at'[Session(1)] \in WriteSteps => snapshot'.file = "torn"
                          /\ Saved'.showOnly \/ (Saved'.showOnly = Saved.showOnly /\ at[Session(1)] # "markShowOnly"),
         at[Session(1)] \in {"markShowOnly", "writeShowOnly", "markVddOnly", "writeVddOnly", "clearVddOnly", "writeCleared"},
         at'[Session(1)] \in {"writeShowOnly", "markVddOnly", "writeVddOnly", "spawnWatchdog", "writeCleared", "end"},
         at'[Session(1)] \in {"writeCleared", "end"} <=> at[Session(1)] \in {"clearVddOnly", "writeCleared"},
         server = "up" /\ IsVddOnly(1) => Saved'.showOnly \/ at'[Session(1)] \in {"writeCleared", "end"}
  PROVE  GuardInv'
<1>1. Server \in Tasks /\ Hotkey(1) \in Tasks /\ Guards \subseteq Tasks
      /\ at'[Server] = at[Server] /\ at'[Hotkey(1)] = at[Hotkey(1)] /\ read'[Server] = read[Server]
      /\ \A t \in Guards : at'[t] = at[t]
  BY OneSession
<1>2. UNCHANGED <<attached, vdd, scale, marker, server, starts, kind, modified>>
  BY DEF displayVars, processVars, sessionVars
<1>3. server # "starting"
  BY DEF GuardInv, TasksTakeTurns
<1>4. at[Server] \notin {"writeSnapshot", "writeMarker"}
  BY <1>3, StateTypes DEF GuardInv, TasksTakeTurns, CleanUpSteps
<1>5. TasksTakeTurns'
  BY <1>1, <1>2, <1>3, OneSession DEF GuardInv, TasksTakeTurns, SetupSteps, EndSteps, CleanUpSteps
<1>6. SnapshotIsKept'
  BY <1>1, <1>2, <1>4 DEF SnapshotIsKept
<1>7. MarkerIsKept' /\ VddIsDisabled'
  BY <1>1, <1>2 DEF GuardInv, MarkerIsKept, VddIsDisabled
<1>8. ChangesAreRecorded'
  BY <1>1, <1>2, <1>3 DEF ChangesAreRecorded, IsVddOnly
<1>9. ASSUME server = "up", NEW u \in Tasks, Knows(u)' PROVE Agrees(u)' /\ Knows(u) /\ u = Hotkey(1)
  <2>1. u # Session(1)
    BY <1>9 DEF Knows
  <2>2. Knows(u)
    BY <1>9, <2>1 DEF Knows
  <2>3. u = Hotkey(1)
    BY <1>9, <2>1, <2>2, OneSession DEF GuardInv, TasksTakeTurns, Knows, GuardSteps
  <2> QED BY <1>9, <2>1, <2>2, <2>3 DEF GuardInv, ReadersAgree, Agrees, Knows
<1>10. ReadersAgree'
  BY <1>2, <1>3, <1>9 DEF ReadersAgree
<1>11. PhysicalIsAttached'
  BY <1>1, <1>2, <1>4 DEF GuardInv, PhysicalIsAttached
<1>12. RestoreGoesOn'
  BY <1>1, <1>2, <1>3, <1>9, OneSession DEF GuardInv, RestoreGoesOn, Reattaches, IsBack
<1> QED BY <1>5, <1>6, <1>7, <1>8, <1>10, <1>11, <1>12 DEF GuardInv

(* What a rewrite changes beside the file: where the session is, and its     *)
(* copy.                                                                     *)
LEMMA SessionRewrites ==
  ASSUME TypeOK, NEW step, NEW flagged, NEW write, NEW next, step # write,
         Rewrite(1, step, flagged, write, next) \/ Write(1, write, next)
  PROVE  /\ at'[Session(1)] \in {write, next} /\ at[Session(1)] \in {step, write}
         /\ at[Session(1)] = write => at'[Session(1)] = next
         /\ \A u \in Tasks : u # Session(1) => at'[u] = at[u] /\ read'[u] = read[u]
         /\ UNCHANGED <<displayVars, marker, processVars, sessionVars>>
<1>1. at \in [Tasks -> Steps] /\ read \in [Tasks -> Snapshots] /\ Session(1) \in Tasks
  BY OneSession, StateTypes
<1>2. CASE Rewrite(1, step, flagged, write, next)
  BY <1>1, <1>2 DEF Rewrite, At, GoTo
<1>3. CASE Write(1, write, next)
  BY <1>1, <1>3 DEF Write, At, GoTo
<1> QED BY <1>2, <1>3

-----------------------------------------------------------------------------
(* Every step keeps the invariant: one lemma for each action, and in it one  *)
(* step for each group of parts that are disturbed together.                 *)

LEMMA MarkShowOnlyKeeps ==
  ASSUME TypeOK, GuardInv, ServerLives, MarkShowOnly(1)
  PROVE  GuardInv'
<1>0. PICK flagged \in Snapshots :
        /\ flagged = [snapshot EXCEPT !.showOnly = TRUE]
        /\ flagged.file = snapshot.file /\ flagged.scale = snapshot.scale
        /\ flagged.physical = snapshot.physical /\ flagged.showOnly
  BY Flagged, StateTypes
<1>1. CASE Rewrite(1, "markShowOnly", flagged, "writeShowOnly", AfterShowOnly(1))
  <2>1. /\ at[Session(1)] = "markShowOnly"
        /\ at'[Session(1)] \in {"writeShowOnly", "markVddOnly", "spawnWatchdog"}
        /\ \A u \in Tasks : u # Session(1) => at'[u] = at[u] /\ read'[u] = read[u]
        /\ UNCHANGED <<displayVars, marker, processVars, sessionVars>>
    <3>1. AfterShowOnly(1) \in {"markVddOnly", "spawnWatchdog"} /\ at[Session(1)] = "markShowOnly"
      BY <1>1 DEF AfterShowOnly, Rewrite, At
    <3> QED BY <1>1, <3>1, SessionRewrites
  <2>2. ASSUME server = "up"
        PROVE  Saved = snapshot /\ Saved' = flagged /\ snapshot'.file = "torn" /\ Saved.file = "whole"
    <3>1. "markShowOnly" \notin WriteSteps /\ "writeShowOnly" \in WriteSteps
      BY DEF WriteSteps
    <3> QED BY <1>1, <1>0, <2>2, <3>1, RewriteSaves
  <2>3. at[Hotkey(1)] = "off"
    BY <2>1 DEF GuardInv, TasksTakeTurns, ServerLives, EndSteps, CleanUpSteps
  <2> QED BY <1>0, <2>1, <2>2, <2>3, RewritingKeeps DEF ServerLives
<1>2. CASE Write(1, "writeShowOnly", AfterShowOnly(1))
  <2>1. /\ at[Session(1)] = "writeShowOnly"
        /\ at'[Session(1)] \in {"markVddOnly", "spawnWatchdog"}
        /\ \A u \in Tasks : u # Session(1) => at'[u] = at[u] /\ read'[u] = read[u]
        /\ UNCHANGED <<displayVars, marker, processVars, sessionVars>>
    BY <1>2, SessionRewrites DEF AfterShowOnly, Write, At
  <2>2. Saved' = Saved
    BY <1>2, WriteSaves DEF AfterShowOnly, WriteSteps
  <2>3. server = "up" => Saved.file = "whole" /\ (IsVddOnly(1) => Saved.showOnly)
    BY <2>1 DEF GuardInv, SnapshotIsKept, ChangesAreRecorded
  <2> QED BY <2>1, <2>2, <2>3, RewritingKeeps DEF ServerLives, WriteSteps
<1> QED BY <1>0, <1>1, <1>2 DEF MarkShowOnly, Rewrite

LEMMA MarkVddOnlyKeeps ==
  ASSUME TypeOK, GuardInv, ServerLives, MarkVddOnly(1)
  PROVE  GuardInv'
<1>0. PICK flagged \in Snapshots :
        /\ flagged = [snapshot EXCEPT !.vddOnly = TRUE]
        /\ flagged.file = snapshot.file /\ flagged.scale = snapshot.scale
        /\ flagged.physical = snapshot.physical /\ flagged.showOnly = snapshot.showOnly
  BY Flagged, StateTypes
<1>1. CASE Rewrite(1, "markVddOnly", flagged, "writeVddOnly", "spawnWatchdog")
  <2>1. /\ at[Session(1)] = "markVddOnly"
        /\ at'[Session(1)] \in {"writeVddOnly", "spawnWatchdog"}
        /\ \A u \in Tasks : u # Session(1) => at'[u] = at[u] /\ read'[u] = read[u]
        /\ UNCHANGED <<displayVars, marker, processVars, sessionVars>>
    BY <1>1, SessionRewrites DEF Rewrite, At
  <2>2. ASSUME server = "up"
        PROVE  Saved = snapshot /\ Saved' = flagged /\ snapshot'.file = "torn" /\ Saved.file = "whole"
    <3>1. "markVddOnly" \notin WriteSteps /\ "writeVddOnly" \in WriteSteps
      BY DEF WriteSteps
    <3> QED BY <1>1, <1>0, <2>2, <3>1, RewriteSaves
  <2>3. server = "up" /\ IsVddOnly(1) => Saved.showOnly
    BY <2>1 DEF GuardInv, ChangesAreRecorded
  <2> QED BY <1>0, <2>1, <2>2, <2>3, RewritingKeeps DEF ServerLives
<1>2. CASE Write(1, "writeVddOnly", "spawnWatchdog")
  <2>1. /\ at[Session(1)] = "writeVddOnly" /\ at'[Session(1)] = "spawnWatchdog"
        /\ \A u \in Tasks : u # Session(1) => at'[u] = at[u] /\ read'[u] = read[u]
        /\ UNCHANGED <<displayVars, marker, processVars, sessionVars>>
    BY <1>2, SessionRewrites DEF Write, At
  <2>2. Saved' = Saved
    BY <1>2, WriteSaves DEF WriteSteps
  <2>3. server = "up" => Saved.file = "whole" /\ (IsVddOnly(1) => Saved.showOnly)
    BY <2>1 DEF GuardInv, SnapshotIsKept, ChangesAreRecorded
  <2> QED BY <2>1, <2>2, <2>3, RewritingKeeps DEF ServerLives, WriteSteps
<1> QED BY <1>0, <1>1, <1>2 DEF MarkVddOnly, Rewrite

LEMMA ClearVddOnlyKeeps ==
  ASSUME TypeOK, GuardInv, ServerLives, ClearVddOnly(1)
  PROVE  GuardInv'
<1>0. PICK flagged \in Snapshots :
        /\ flagged = [snapshot EXCEPT !.vddOnly = FALSE]
        /\ flagged.file = snapshot.file /\ flagged.scale = snapshot.scale
        /\ flagged.physical = snapshot.physical /\ flagged.showOnly = snapshot.showOnly
  BY Flagged, StateTypes
<1>1. CASE Rewrite(1, "clearVddOnly", flagged, "writeCleared", "end")
  <2>1. /\ at[Session(1)] = "clearVddOnly"
        /\ at'[Session(1)] \in {"writeCleared", "end"}
        /\ \A u \in Tasks : u # Session(1) => at'[u] = at[u] /\ read'[u] = read[u]
        /\ UNCHANGED <<displayVars, marker, processVars, sessionVars>>
    BY <1>1, SessionRewrites DEF Rewrite, At
  <2>2. ASSUME server = "up"
        PROVE  Saved = snapshot /\ Saved' = flagged /\ snapshot'.file = "torn" /\ Saved.file = "whole"
    <3>1. "clearVddOnly" \notin WriteSteps /\ "writeCleared" \in WriteSteps
      BY DEF WriteSteps
    <3> QED BY <1>1, <1>0, <2>2, <3>1, RewriteSaves
  <2> QED BY <1>0, <2>1, <2>2, RewritingKeeps DEF ServerLives
<1>2. CASE Write(1, "writeCleared", "end")
  <2>1. /\ at[Session(1)] = "writeCleared" /\ at'[Session(1)] = "end"
        /\ \A u \in Tasks : u # Session(1) => at'[u] = at[u] /\ read'[u] = read[u]
        /\ UNCHANGED <<displayVars, marker, processVars, sessionVars>>
    BY <1>2, SessionRewrites DEF Write, At
  <2>2. Saved' = Saved
    BY <1>2, WriteSaves DEF WriteSteps
  <2>3. server = "up" => Saved.file = "whole"
    BY DEF GuardInv, SnapshotIsKept
  <2> QED BY <2>1, <2>2, <2>3, RewritingKeeps DEF ServerLives, WriteSteps
<1> QED BY <1>0, <1>1, <1>2 DEF ClearVddOnly, Rewrite

(* A server that is started over no restore finds none of what the processes *)
(* before have left behind.                                                  *)
LEMMA StartKeeps ==
  ASSUME TypeOK, NothingRestores, ~modified[1], Start
  PROVE  GuardInv'
<1>1. /\ server' = "starting" /\ starts' \in Processes /\ modified' = modified
      /\ at'[Server] = "check" /\ \A t \in Guards : at'[t] = "off"
      /\ at'[Session(1)] = "off" /\ at'[Hotkey(1)] = "off" /\ \A t \in Idle : at'[t] = "off"
  BY OneSession, StateTypes, DisplayAssumption DEF Start, NothingRestores, At, sessionVars, Guards, Processes
<1>2. TasksTakeTurns' /\ MarkerIsKept' /\ ChangesAreRecorded'
  BY <1>1, OneSession DEF TasksTakeTurns, MarkerIsKept, ChangesAreRecorded, GuardSteps
<1>3. \A t \in Tasks : ~Knows(t)'
  BY <1>1, OneSession DEF Knows
<1>4. ReadersAgree' /\ RestoreGoesOn'
  BY <1>3 DEF ReadersAgree, RestoreGoesOn, Reattaches
<1>5. SnapshotIsKept' /\ PhysicalIsAttached' /\ VddIsDisabled'
  BY <1>1 DEF SnapshotIsKept, PhysicalIsAttached, VddIsDisabled
<1> QED BY <1>2, <1>4, <1>5 DEF GuardInv

LEMMA CaptureKeeps ==
  ASSUME TypeOK, GuardInv, Capture
  PROVE  GuardInv'
<1>1. TasksTakeTurns' /\ MarkerIsKept' /\ ChangesAreRecorded'
    BY OneSession DEF GuardInv, CleanUpSteps, StartSteps, MarkerIsKept, ChangesAreRecorded,
     Capture, TasksTakeTurns, At, GoTo, processVars, sessionVars
<1>2. SnapshotIsKept' /\ ReadersAgree'
    BY OneSession, StateTypes DEF GuardInv, SnapshotIsKept, ReadersAgree, Knows, TasksTakeTurns,
     Capture, Captured, At, GoTo, displayVars, diskVars, processVars, sessionVars, IsVddOnly,
     ActiveDisplays, SetScale
<1>3. PhysicalIsAttached' /\ VddIsDisabled' /\ RestoreGoesOn'
    BY OneSession, StateTypes DEF GuardInv, PhysicalIsAttached, VddIsDisabled, RestoreGoesOn,
     Reattaches, Knows, TasksTakeTurns, Capture, Captured, At, GoTo, displayVars, processVars
<1> QED BY <1>1, <1>2, <1>3 DEF GuardInv

LEMMA WriteSnapshotKeeps ==
  ASSUME TypeOK, GuardInv, WriteSnapshot
  PROVE  GuardInv'
<1>1. TasksTakeTurns' /\ MarkerIsKept' /\ ChangesAreRecorded'
    BY OneSession DEF GuardInv, CleanUpSteps, StartSteps, MarkerIsKept, ChangesAreRecorded,
     WriteSnapshot, TasksTakeTurns, At, GoTo, processVars, sessionVars
<1>2. SnapshotIsKept' /\ ReadersAgree'
    BY OneSession, StateTypes DEF GuardInv, SnapshotIsKept, ReadersAgree, Knows, TasksTakeTurns,
     WriteSnapshot, At, GoTo, processVars
<1>3. PhysicalIsAttached' /\ VddIsDisabled' /\ RestoreGoesOn'
    BY OneSession, StateTypes DEF GuardInv, PhysicalIsAttached, VddIsDisabled, RestoreGoesOn,
     Reattaches, Knows, TasksTakeTurns, WriteSnapshot, At, GoTo, displayVars, processVars
<1> QED BY <1>1, <1>2, <1>3 DEF GuardInv

LEMMA WriteMarkerKeeps ==
  ASSUME TypeOK, GuardInv, WriteMarker
  PROVE  GuardInv'
<1>1. TasksTakeTurns' /\ MarkerIsKept' /\ ChangesAreRecorded'
    BY OneSession, StateTypes DEF GuardInv, CleanUpSteps, MarkerIsKept, ChangesAreRecorded,
     WriteMarker, TasksTakeTurns, At, GoTo, sessionVars
<1>2. SnapshotIsKept' /\ ReadersAgree'
    BY OneSession, StateTypes DEF GuardInv, SnapshotIsKept, Saved, WriteSteps, ReadersAgree,
     Knows, TasksTakeTurns, WriteMarker, At, GoTo, CleanUpSteps
<1>3. PhysicalIsAttached' /\ VddIsDisabled' /\ RestoreGoesOn'
    BY OneSession, StateTypes DEF GuardInv, PhysicalIsAttached, Saved, WriteSteps,
     VddIsDisabled, RestoreGoesOn, Reattaches, Knows, TasksTakeTurns, WriteMarker, At, GoTo,
     displayVars, CleanUpSteps
<1> QED BY <1>1, <1>2, <1>3 DEF GuardInv

LEMMA ExitKeeps ==
  ASSUME TypeOK, GuardInv, Exit
  PROVE  GuardInv'
<1>1. TasksTakeTurns' /\ MarkerIsKept' /\ ChangesAreRecorded'
    BY  DEF GuardInv, MarkerIsKept, ChangesAreRecorded, Exit, TasksTakeTurns
<1>2. SnapshotIsKept' /\ ReadersAgree'
    BY  DEF GuardInv, SnapshotIsKept, ReadersAgree, TasksTakeTurns, Exit
<1>3. PhysicalIsAttached' /\ VddIsDisabled' /\ RestoreGoesOn'
    BY  DEF GuardInv, PhysicalIsAttached, VddIsDisabled, RestoreGoesOn, TasksTakeTurns, Exit
<1> QED BY <1>1, <1>2, <1>3 DEF GuardInv

LEMMA ExitContinuesKeeps ==
  ASSUME TypeOK, GuardInv, ExitContinues
  PROVE  GuardInv'
<1>1. TasksTakeTurns' /\ MarkerIsKept' /\ ChangesAreRecorded'
    BY OneSession, StateTypes DEF GuardInv, CleanUpSteps, MarkerIsKept, ChangesAreRecorded,
     ExitContinues, TasksTakeTurns, GoTo
<1>2. SnapshotIsKept' /\ ReadersAgree'
    BY OneSession, StateTypes DEF SnapshotIsKept, ReadersAgree, ExitContinues, GoTo
<1>3. PhysicalIsAttached' /\ VddIsDisabled' /\ RestoreGoesOn'
    BY OneSession, StateTypes DEF PhysicalIsAttached, VddIsDisabled, RestoreGoesOn,
     ExitContinues, GoTo
<1> QED BY <1>1, <1>2, <1>3 DEF GuardInv

LEMMA MainReturnsKeeps ==
  ASSUME TypeOK, GuardInv, MainReturns
  PROVE  GuardInv'
<1>1. TasksTakeTurns' /\ MarkerIsKept' /\ ChangesAreRecorded'
    BY OneSession DEF GuardInv, MarkerIsKept, ChangesAreRecorded, MainReturns, ProcessEnds,
     TasksTakeTurns, At, Guards
<1>2. SnapshotIsKept' /\ ReadersAgree'
    BY OneSession DEF GuardInv, SnapshotIsKept, ReadersAgree, Knows, TasksTakeTurns,
     MainReturns, ProcessEnds, At, Guards
<1>3. PhysicalIsAttached' /\ VddIsDisabled' /\ RestoreGoesOn'
    BY OneSession DEF GuardInv, PhysicalIsAttached, VddIsDisabled, RestoreGoesOn, Reattaches,
     Knows, TasksTakeTurns, MainReturns, ProcessEnds, At, Guards
<1> QED BY <1>1, <1>2, <1>3 DEF GuardInv

LEMMA CleanUpBeforeEndKeeps ==
  ASSUME TypeOK, GuardInv, CleanUpBeforeEnd
  PROVE  GuardInv'
<1>1. TasksTakeTurns' /\ MarkerIsKept' /\ ChangesAreRecorded'
    BY OneSession DEF GuardInv, MarkerIsKept, ChangesAreRecorded, CleanUpBeforeEnd, ProcessEnds,
     TasksTakeTurns, At, Guards
<1>2. SnapshotIsKept' /\ ReadersAgree'
    BY OneSession DEF GuardInv, SnapshotIsKept, ReadersAgree, Knows, TasksTakeTurns,
     CleanUpBeforeEnd, ProcessEnds, At, Guards
<1>3. PhysicalIsAttached' /\ VddIsDisabled' /\ RestoreGoesOn'
    BY OneSession DEF GuardInv, PhysicalIsAttached, VddIsDisabled, RestoreGoesOn, Reattaches,
     Knows, TasksTakeTurns, CleanUpBeforeEnd, ProcessEnds, At, Guards
<1> QED BY <1>1, <1>2, <1>3 DEF GuardInv

LEMMA CrashKeeps ==
  ASSUME TypeOK, GuardInv, Crash
  PROVE  GuardInv'
<1>1. TasksTakeTurns' /\ MarkerIsKept' /\ ChangesAreRecorded'
    BY OneSession, StateTypes DEF GuardInv, GuardSteps, CleanUpSteps, StartSteps, MarkerIsKept,
     ChangesAreRecorded, Crash, ProcessEnds, TasksTakeTurns, At, Guards
<1>2. SnapshotIsKept' /\ ReadersAgree'
    BY OneSession DEF GuardInv, SnapshotIsKept, ReadersAgree, Knows, TasksTakeTurns, Crash,
     ProcessEnds, At, Guards
<1>3. PhysicalIsAttached' /\ VddIsDisabled' /\ RestoreGoesOn'
    BY OneSession DEF GuardInv, PhysicalIsAttached, VddIsDisabled, RestoreGoesOn, Reattaches,
     Knows, TasksTakeTurns, Crash, ProcessEnds, At, Guards
<1> QED BY <1>1, <1>2, <1>3 DEF GuardInv

LEMMA UnhandledExceptionKeeps ==
  ASSUME TypeOK, GuardInv, UnhandledException
  PROVE  GuardInv'
<1>1. TasksTakeTurns' /\ MarkerIsKept' /\ ChangesAreRecorded'
    BY OneSession, StateTypes DEF GuardInv, CleanUpSteps, MarkerIsKept, ChangesAreRecorded,
     UnhandledException, TasksTakeTurns, GoTo
<1>2. SnapshotIsKept' /\ ReadersAgree'
    BY OneSession, StateTypes DEF SnapshotIsKept, ReadersAgree, UnhandledException, GoTo
<1>3. PhysicalIsAttached' /\ VddIsDisabled' /\ RestoreGoesOn'
    BY OneSession, StateTypes DEF PhysicalIsAttached, VddIsDisabled, RestoreGoesOn,
     UnhandledException, GoTo
<1> QED BY <1>1, <1>2, <1>3 DEF GuardInv

LEMMA PowerLossKeeps ==
  ASSUME TypeOK, GuardInv, PowerLoss
  PROVE  GuardInv'
<1>1. TasksTakeTurns' /\ MarkerIsKept' /\ ChangesAreRecorded'
    BY OneSession, StateTypes DEF GuardInv, GuardSteps, CleanUpSteps, StartSteps, MarkerIsKept,
     ChangesAreRecorded, PowerLoss, ProcessEnds, TasksTakeTurns, At
<1>2. SnapshotIsKept' /\ ReadersAgree'
    BY OneSession DEF SnapshotIsKept, ReadersAgree, Knows, PowerLoss, ProcessEnds, At
<1>3. PhysicalIsAttached' /\ VddIsDisabled' /\ RestoreGoesOn'
    BY OneSession DEF PhysicalIsAttached, VddIsDisabled, RestoreGoesOn, Reattaches, Knows,
     PowerLoss, ProcessEnds, At
<1> QED BY <1>1, <1>2, <1>3 DEF GuardInv

LEMMA WakeKeeps ==
  ASSUME TypeOK, GuardInv, NEW p \in Processes, Wake(p)
  PROVE  GuardInv'
<1>1. TasksTakeTurns' /\ MarkerIsKept' /\ ChangesAreRecorded'
    BY  DEF GuardInv, GuardSteps, MarkerIsKept, ChangesAreRecorded, Wake, TasksTakeTurns, At,
     GoTo, processVars, sessionVars
<1>2. SnapshotIsKept' /\ ReadersAgree'
    BY OneSession DEF GuardInv, SnapshotIsKept, Saved, ReadersAgree, Knows, Agrees, Wake, GoTo,
     diskVars, processVars
<1>3. PhysicalIsAttached' /\ VddIsDisabled' /\ RestoreGoesOn'
    BY  DEF GuardInv, PhysicalIsAttached, VddIsDisabled, RestoreGoesOn, Reattaches, IsBack,
     Knows, TasksTakeTurns, Wake, At, GoTo, displayVars, processVars
<1> QED BY <1>1, <1>2, <1>3 DEF GuardInv

LEMMA ConnectKeeps ==
  ASSUME TypeOK, GuardInv, ServerLives /\ Connect(1)
  PROVE  GuardInv'
<1>1. TasksTakeTurns' /\ MarkerIsKept' /\ ChangesAreRecorded'
    BY OneSession, StateTypes DEF GuardInv, CleanUpSteps, EndSteps, SetupSteps, MarkerIsKept,
     ChangesAreRecorded, IsVddOnly, Connect, TasksTakeTurns, At, GoTo, diskVars, processVars
<1>2. SnapshotIsKept' /\ ReadersAgree'
    BY  DEF GuardInv, SnapshotIsKept, Saved, WriteSteps, ReadersAgree, Knows, Agrees, Connect,
     At, GoTo, diskVars
<1>3. PhysicalIsAttached' /\ VddIsDisabled' /\ RestoreGoesOn'
    BY  DEF GuardInv, PhysicalIsAttached, Saved, WriteSteps, VddIsDisabled, RestoreGoesOn,
     Reattaches, IsBack, Knows, Connect, At, GoTo, displayVars, diskVars
<1> QED BY <1>1, <1>2, <1>3 DEF GuardInv

LEMMA CreateVddKeeps ==
  ASSUME TypeOK, GuardInv, ServerLives /\ CreateVdd(1)
  PROVE  GuardInv'
<1>1. TasksTakeTurns' /\ MarkerIsKept' /\ ChangesAreRecorded'
    BY OneSession, StateTypes DEF GuardInv, CleanUpSteps, EndSteps, SetupSteps, MarkerIsKept,
     ChangesAreRecorded, IsVddOnly, CreateVdd, TasksTakeTurns, At, GoTo, diskVars, processVars
<1>2. SnapshotIsKept' /\ ReadersAgree'
    BY OneSession, StateTypes DEF GuardInv, SnapshotIsKept, Saved, WriteSteps, ReadersAgree,
     Knows, Agrees, CreateVdd, At, GoTo, diskVars, processVars
<1>3. PhysicalIsAttached' /\ VddIsDisabled' /\ RestoreGoesOn'
    BY OneSession, StateTypes DEF GuardInv, PhysicalIsAttached, VddIsDisabled, RestoreGoesOn,
     Reattaches, IsBack, Knows, TasksTakeTurns, CreateVdd, At, GoTo, diskVars, processVars
<1> QED BY <1>1, <1>2, <1>3 DEF GuardInv

LEMMA SetSessionScaleKeeps ==
  ASSUME TypeOK, GuardInv, ServerLives /\ SetSessionScale(1)
  PROVE  GuardInv'
<1>1. TasksTakeTurns' /\ MarkerIsKept' /\ ChangesAreRecorded'
    BY  DEF GuardInv, CleanUpSteps, EndSteps, SetupSteps, MarkerIsKept, ChangesAreRecorded,
     IsVddOnly, SetSessionScale, TasksTakeTurns, At, GoTo, diskVars, processVars
<1>2. SnapshotIsKept' /\ ReadersAgree'
    BY  DEF GuardInv, SnapshotIsKept, Saved, WriteSteps, ReadersAgree, Knows, Agrees,
     SetSessionScale, At, GoTo, diskVars, processVars
<1>3. PhysicalIsAttached' /\ VddIsDisabled' /\ RestoreGoesOn'
    BY OneSession DEF GuardInv, PhysicalIsAttached, Saved, WriteSteps, VddIsDisabled,
     RestoreGoesOn, Reattaches, Knows, TasksTakeTurns, SetSessionScale, At, GoTo, diskVars,
     processVars, CleanUpSteps, EndSteps
<1> QED BY <1>1, <1>2, <1>3 DEF GuardInv

LEMMA SetSessionHzKeeps ==
  ASSUME TypeOK, GuardInv, ServerLives /\ SetSessionHz(1)
  PROVE  GuardInv'
<1>1. TasksTakeTurns' /\ MarkerIsKept' /\ ChangesAreRecorded'
    BY  DEF GuardInv, CleanUpSteps, EndSteps, SetupSteps, MarkerIsKept, ChangesAreRecorded,
     IsVddOnly, SetSessionHz, TasksTakeTurns, At, GoTo, diskVars, processVars, sessionVars
<1>2. SnapshotIsKept' /\ ReadersAgree'
    BY  DEF GuardInv, SnapshotIsKept, Saved, WriteSteps, ReadersAgree, Knows, Agrees,
     SetSessionHz, At, GoTo, diskVars, processVars
<1>3. PhysicalIsAttached' /\ VddIsDisabled' /\ RestoreGoesOn'
    BY  DEF GuardInv, PhysicalIsAttached, Saved, WriteSteps, VddIsDisabled, RestoreGoesOn,
     Reattaches, IsBack, Knows, SetSessionHz, At, GoTo, diskVars, processVars
<1> QED BY <1>1, <1>2, <1>3 DEF GuardInv

LEMMA ExtendKeeps ==
  ASSUME TypeOK, GuardInv, ServerLives /\ Extend(1)
  PROVE  GuardInv'
<1>1. TasksTakeTurns' /\ MarkerIsKept' /\ ChangesAreRecorded'
    BY  DEF GuardInv, CleanUpSteps, EndSteps, SetupSteps, MarkerIsKept, ChangesAreRecorded,
     IsVddOnly, Extend, TasksTakeTurns, At, GoTo, diskVars, processVars, sessionVars
<1>2. SnapshotIsKept' /\ ReadersAgree'
    BY  DEF GuardInv, SnapshotIsKept, Saved, WriteSteps, ReadersAgree, Knows, Agrees, Extend,
     At, GoTo, diskVars, processVars
<1>3. PhysicalIsAttached' /\ VddIsDisabled' /\ RestoreGoesOn'
    BY OneSession DEF GuardInv, PhysicalIsAttached, Saved, WriteSteps, VddIsDisabled,
     RestoreGoesOn, Reattaches, IsBack, Knows, TasksTakeTurns, Extend, At, GoTo, diskVars,
     processVars
<1> QED BY <1>1, <1>2, <1>3 DEF GuardInv

LEMMA SetScaleAgainKeeps ==
  ASSUME TypeOK, GuardInv, ServerLives /\ SetScaleAgain(1)
  PROVE  GuardInv'
<1>1. TasksTakeTurns' /\ MarkerIsKept' /\ ChangesAreRecorded'
    BY  DEF GuardInv, CleanUpSteps, EndSteps, SetupSteps, MarkerIsKept, ChangesAreRecorded,
     IsVddOnly, SetScaleAgain, TasksTakeTurns, At, GoTo, diskVars, processVars
<1>2. SnapshotIsKept' /\ ReadersAgree'
    BY  DEF GuardInv, SnapshotIsKept, Saved, WriteSteps, ReadersAgree, Knows, Agrees,
     SetScaleAgain, At, GoTo, diskVars, processVars
<1>3. PhysicalIsAttached' /\ VddIsDisabled' /\ RestoreGoesOn'
    BY OneSession DEF GuardInv, PhysicalIsAttached, Saved, WriteSteps, VddIsDisabled,
     RestoreGoesOn, Reattaches, Knows, TasksTakeTurns, SetScaleAgain, At, GoTo, diskVars,
     processVars, CleanUpSteps, EndSteps
<1> QED BY <1>1, <1>2, <1>3 DEF GuardInv

LEMMA DetachKeeps ==
  ASSUME TypeOK, GuardInv, ServerLives /\ Detach(1)
  PROVE  GuardInv'
<1>1. TasksTakeTurns' /\ MarkerIsKept' /\ ChangesAreRecorded'
    BY  DEF GuardInv, CleanUpSteps, EndSteps, SetupSteps, MarkerIsKept, ChangesAreRecorded,
     Detach, TasksTakeTurns, At, GoTo, diskVars, processVars
<1>2. SnapshotIsKept' /\ ReadersAgree'
    BY  DEF GuardInv, SnapshotIsKept, Saved, WriteSteps, ReadersAgree, Knows, Agrees, Detach,
     At, GoTo, diskVars, processVars
<1>3. PhysicalIsAttached' /\ VddIsDisabled' /\ RestoreGoesOn'
    BY OneSession, StateTypes DEF GuardInv, PhysicalIsAttached, VddIsDisabled, RestoreGoesOn,
     Reattaches, Knows, TasksTakeTurns, Detach, At, GoTo, processVars, CleanUpSteps, EndSteps
<1> QED BY <1>1, <1>2, <1>3 DEF GuardInv

LEMMA SpawnWatchdogKeeps ==
  ASSUME TypeOK, GuardInv, ServerLives /\ SpawnWatchdog(1)
  PROVE  GuardInv'
<1>1. TasksTakeTurns' /\ MarkerIsKept' /\ ChangesAreRecorded'
    BY OneSession, StateTypes DEF GuardInv, CleanUpSteps, EndSteps, MarkerIsKept,
     ChangesAreRecorded, IsVddOnly, Saved, WriteSteps, SpawnWatchdog, TasksTakeTurns, At,
     diskVars, processVars
<1>2. SnapshotIsKept' /\ ReadersAgree'
    BY OneSession, StateTypes DEF GuardInv, SnapshotIsKept, Saved, WriteSteps, ReadersAgree,
     Knows, Agrees, SpawnWatchdog, At, diskVars, processVars
<1>3. PhysicalIsAttached' /\ VddIsDisabled' /\ RestoreGoesOn'
    BY OneSession, StateTypes DEF GuardInv, PhysicalIsAttached, Saved, WriteSteps,
     VddIsDisabled, RestoreGoesOn, Reattaches, IsBack, Knows, SpawnWatchdog, At, displayVars,
     diskVars, processVars
<1> QED BY <1>1, <1>2, <1>3 DEF GuardInv

LEMMA DisconnectKeeps ==
  ASSUME TypeOK, GuardInv, ServerLives /\ Disconnect(1)
  PROVE  GuardInv'
<1>1. TasksTakeTurns' /\ MarkerIsKept' /\ ChangesAreRecorded'
    BY OneSession, StateTypes DEF GuardInv, EndSteps, MarkerIsKept, ChangesAreRecorded,
     Disconnect, TasksTakeTurns, At, diskVars, processVars
<1>2. SnapshotIsKept' /\ ReadersAgree'
    BY OneSession, StateTypes DEF GuardInv, SnapshotIsKept, Saved, WriteSteps, ReadersAgree,
     Knows, Agrees, Disconnect, At, diskVars, processVars
<1>3. PhysicalIsAttached' /\ VddIsDisabled' /\ RestoreGoesOn'
    BY OneSession, StateTypes DEF GuardInv, PhysicalIsAttached, Saved, WriteSteps,
     VddIsDisabled, RestoreGoesOn, Reattaches, IsBack, Knows, Disconnect, At, displayVars,
     diskVars, processVars
<1> QED BY <1>1, <1>2, <1>3 DEF GuardInv

LEMMA EndSessionKeeps ==
  ASSUME TypeOK, GuardInv, ServerLives /\ EndSession(1)
  PROVE  GuardInv'
<1>1. TasksTakeTurns' /\ MarkerIsKept' /\ ChangesAreRecorded'
    BY  DEF GuardInv, CleanUpSteps, EndSteps, MarkerIsKept, ChangesAreRecorded, EndSession,
     TasksTakeTurns, At, GoTo, diskVars, processVars
<1>2. SnapshotIsKept' /\ ReadersAgree'
    BY  DEF GuardInv, SnapshotIsKept, Saved, WriteSteps, ReadersAgree, Knows, Agrees,
     EndSession, At, GoTo, diskVars, processVars
<1>3. PhysicalIsAttached' /\ VddIsDisabled' /\ RestoreGoesOn'
    BY  DEF GuardInv, PhysicalIsAttached, Saved, WriteSteps, VddIsDisabled, RestoreGoesOn,
     Reattaches, IsBack, Knows, EndSession, At, GoTo, displayVars, diskVars, processVars
<1> QED BY <1>1, <1>2, <1>3 DEF GuardInv

LEMMA EmergencyKeeps ==
  ASSUME TypeOK, GuardInv, ServerLives /\ Emergency(1)
  PROVE  GuardInv'
<1>1. TasksTakeTurns' /\ MarkerIsKept' /\ ChangesAreRecorded'
    BY  DEF GuardInv, CleanUpSteps, MarkerIsKept, ChangesAreRecorded, IsVddOnly, Saved,
     Emergency, TasksTakeTurns, At, GoTo, diskVars, processVars, sessionVars
<1>2. SnapshotIsKept' /\ ReadersAgree'
    BY OneSession DEF GuardInv, SnapshotIsKept, Saved, ReadersAgree, Knows, Agrees, Emergency,
     GoTo, diskVars, processVars
<1>3. PhysicalIsAttached' /\ VddIsDisabled' /\ RestoreGoesOn'
    BY OneSession DEF GuardInv, PhysicalIsAttached, Saved, VddIsDisabled, RestoreGoesOn,
     Reattaches, IsBack, Knows, Emergency, GoTo, displayVars, diskVars, processVars
<1> QED BY <1>1, <1>2, <1>3 DEF GuardInv

LEMMA CheckKeeps ==
  ASSUME TypeOK, GuardInv, NEW t \in Tasks, Running(t) /\ Check(t)
  PROVE  GuardInv'
<1>1. TasksTakeTurns' /\ MarkerIsKept' /\ ChangesAreRecorded'
    BY OneSession DEF GuardInv, GuardSteps, CleanUpSteps, EndSteps, SetupSteps, StartSteps,
     MarkerIsKept, ChangesAreRecorded, Check, AfterRestore, TasksTakeTurns, At, GoTo,
     processVars, sessionVars
<1>2. SnapshotIsKept' /\ ReadersAgree'
    BY  DEF GuardInv, SnapshotIsKept, Saved, WriteSteps, ReadersAgree, Knows, Agrees, Check,
     AfterRestore, At, GoTo, diskVars, processVars
<1>3. PhysicalIsAttached' /\ VddIsDisabled' /\ RestoreGoesOn'
    BY OneSession DEF GuardInv, PhysicalIsAttached, VddIsDisabled, RestoreGoesOn, Reattaches,
     IsBack, Knows, TasksTakeTurns, Check, AfterRestore, At, GoTo, displayVars, processVars,
     CleanUpSteps, EndSteps, SetupSteps
<1> QED BY <1>1, <1>2, <1>3 DEF GuardInv

LEMMA ReadSnapshotKeeps ==
  ASSUME TypeOK, GuardInv, NEW t \in Tasks, Running(t) /\ ReadSnapshot(t)
  PROVE  GuardInv'
<1>1. TasksTakeTurns' /\ MarkerIsKept' /\ ChangesAreRecorded'
    BY  DEF GuardInv, GuardSteps, CleanUpSteps, MarkerIsKept, ChangesAreRecorded, IsVddOnly,
     Saved, ReadSnapshot, After, TasksTakeTurns, At, GoTo, diskVars, processVars, sessionVars
<1>2. SnapshotIsKept'
    BY  DEF GuardInv, SnapshotIsKept, Saved, WriteSteps, ReadSnapshot, After, At, GoTo,
     diskVars, processVars
<1>3. PhysicalIsAttached' /\ VddIsDisabled' /\ RestoreGoesOn'
    BY StateTypes DEF GuardInv, PhysicalIsAttached, Saved, WriteSteps, VddIsDisabled,
     RestoreGoesOn, Reattaches, IsBack, Knows, ReadSnapshot, After, NoSnapshot, At, GoTo,
     displayVars, diskVars, processVars
<1>4. ReadersAgree'
  BY ReadSnapshotAgrees
<1> QED BY <1>1, <1>2, <1>3, <1>4 DEF GuardInv

LEMMA RestoreTopologyKeeps ==
  ASSUME TypeOK, GuardInv, NEW t \in Tasks, Running(t) /\ RestoreTopology(t)
  PROVE  GuardInv'
<1>1. TasksTakeTurns' /\ MarkerIsKept' /\ ChangesAreRecorded'
    BY  DEF GuardInv, GuardSteps, CleanUpSteps, MarkerIsKept, ChangesAreRecorded, IsVddOnly,
     Saved, RestoreTopology, After, TasksTakeTurns, At, GoTo, diskVars, processVars, sessionVars
<1>2. SnapshotIsKept' /\ ReadersAgree'
    BY  DEF GuardInv, SnapshotIsKept, Saved, WriteSteps, ReadersAgree, Knows, Agrees,
     RestoreTopology, After, At, GoTo, diskVars, processVars
<1>3. PhysicalIsAttached' /\ VddIsDisabled'
    BY OneSession, WhoCleansUp, StateTypes DEF GuardInv, PhysicalIsAttached, Saved, WriteSteps,
     VddIsDisabled, TasksTakeTurns, ReadersAgree, SnapshotIsKept, RestoreTopology, Running,
     IsDetachedBySession, After, At, GoTo, displayVars, diskVars, processVars, sessionVars,
     IsVddOnly, Knows, ActiveDisplays, SetScale
<1>4. RestoreGoesOn'
  BY RestoreTopologyGoesOn
<1> QED BY <1>1, <1>2, <1>3, <1>4 DEF GuardInv

LEMMA RestoreScaleKeeps ==
  ASSUME TypeOK, GuardInv, NEW t \in Tasks, Running(t) /\ RestoreScale(t)
  PROVE  GuardInv'
<1>1. TasksTakeTurns' /\ MarkerIsKept' /\ ChangesAreRecorded'
    BY  DEF GuardInv, GuardSteps, CleanUpSteps, MarkerIsKept, ChangesAreRecorded, IsVddOnly,
     Saved, RestoreScale, After, TasksTakeTurns, At, GoTo, diskVars, processVars, sessionVars
<1>2. SnapshotIsKept' /\ ReadersAgree'
    BY  DEF GuardInv, SnapshotIsKept, Saved, WriteSteps, ReadersAgree, Knows, Agrees,
     RestoreScale, After, At, GoTo, diskVars, processVars
<1>3. PhysicalIsAttached' /\ VddIsDisabled'
    BY  DEF GuardInv, PhysicalIsAttached, Saved, WriteSteps, VddIsDisabled, RestoreScale, After,
     At, GoTo, diskVars, processVars
<1>4. RestoreGoesOn'
  BY RestoreScaleGoesOn
<1> QED BY <1>1, <1>2, <1>3, <1>4 DEF GuardInv

LEMMA RestoreModesKeeps ==
  ASSUME TypeOK, GuardInv, NEW t \in Tasks, Running(t) /\ RestoreModes(t)
  PROVE  GuardInv'
<1>1. TasksTakeTurns' /\ MarkerIsKept' /\ ChangesAreRecorded'
    BY WhoCleansUp DEF GuardInv, GuardSteps, CleanUpSteps, MarkerIsKept, ChangesAreRecorded,
     IsVddOnly, Saved, RestoreModes, TasksTakeTurns, At, GoTo, diskVars, processVars,
     sessionVars
<1>2. SnapshotIsKept' /\ ReadersAgree'
    BY  DEF GuardInv, SnapshotIsKept, Saved, WriteSteps, ReadersAgree, Knows, Agrees,
     RestoreModes, At, GoTo, diskVars, processVars
<1>3. PhysicalIsAttached' /\ VddIsDisabled' /\ RestoreGoesOn'
    BY OneSession, WhoCleansUp DEF GuardInv, PhysicalIsAttached, Saved, WriteSteps,
     VddIsDisabled, RestoreGoesOn, Reattaches, IsBack, Knows, Agrees, TasksTakeTurns,
     ReadersAgree, RestoreModes, At, GoTo, diskVars, processVars
<1> QED BY <1>1, <1>2, <1>3 DEF GuardInv

LEMMA SafeDisableVddKeeps ==
  ASSUME TypeOK, GuardInv, NEW t \in Tasks, Running(t) /\ SafeDisableVdd(t)
  PROVE  GuardInv'
<1>1. TasksTakeTurns' /\ MarkerIsKept' /\ ChangesAreRecorded'
    BY OneSession DEF GuardInv, GuardSteps, CleanUpSteps, EndSteps, SetupSteps, MarkerIsKept,
     ChangesAreRecorded, SafeDisableVdd, TasksTakeTurns, At, GoTo, processVars, sessionVars
<1>2. SnapshotIsKept' /\ ReadersAgree'
    BY  DEF GuardInv, SnapshotIsKept, Saved, WriteSteps, ReadersAgree, Knows, Agrees,
     SafeDisableVdd, At, GoTo, diskVars, processVars
<1>3. PhysicalIsAttached' /\ VddIsDisabled'
    BY OneSession DEF GuardInv, PhysicalIsAttached, VddIsDisabled, TasksTakeTurns,
     SafeDisableVdd, At, GoTo, processVars, CleanUpSteps, EndSteps, SetupSteps
<1>4. RestoreGoesOn'
  BY SafeDisableVddGoesOn
<1> QED BY <1>1, <1>2, <1>3, <1>4 DEF GuardInv

LEMMA TimeOutKeeps ==
  ASSUME TypeOK, GuardInv, NEW t \in Tasks, Running(t) /\ TimeOut(t)
  PROVE  GuardInv'
<1>1. TasksTakeTurns' /\ MarkerIsKept' /\ ChangesAreRecorded'
    BY WhoCleansUp DEF GuardInv, CleanUpSteps, MarkerIsKept, ChangesAreRecorded, IsVddOnly,
     Saved, TimeOut, TasksTakeTurns, GoTo, diskVars, processVars, sessionVars
<1>2. SnapshotIsKept'
    BY  DEF GuardInv, SnapshotIsKept, Saved, WriteSteps, TimeOut, GoTo, diskVars, processVars
<1>3. PhysicalIsAttached' /\ VddIsDisabled' /\ RestoreGoesOn'
    BY StateTypes DEF GuardInv, PhysicalIsAttached, Saved, WriteSteps, VddIsDisabled,
     RestoreGoesOn, Reattaches, IsBack, Knows, TimeOut, NoSnapshot, GoTo, displayVars, diskVars,
     processVars
<1>4. ReadersAgree'
  BY ForgetfulAgrees DEF TimeOut, At, RestoreSteps, diskVars, processVars
<1> QED BY <1>1, <1>2, <1>3, <1>4 DEF GuardInv

LEMMA StopWatchdogKeeps ==
  ASSUME TypeOK, GuardInv, NEW t \in Tasks, Running(t) /\ StopWatchdog(t)
  PROVE  GuardInv'
<1>1. TasksTakeTurns' /\ MarkerIsKept' /\ ChangesAreRecorded'
    BY OneSession, StateTypes DEF GuardInv, GuardSteps, CleanUpSteps, StartSteps, MarkerIsKept,
     ChangesAreRecorded, IsVddOnly, Saved, StopWatchdog, TasksTakeTurns, At, diskVars,
     processVars, sessionVars
<1>2. SnapshotIsKept' /\ ReadersAgree'
    BY OneSession, StateTypes DEF GuardInv, SnapshotIsKept, Saved, WriteSteps, ReadersAgree,
     Knows, Agrees, StopWatchdog, At, diskVars, processVars
<1>3. PhysicalIsAttached' /\ VddIsDisabled' /\ RestoreGoesOn'
    BY OneSession, StateTypes DEF GuardInv, PhysicalIsAttached, Saved, WriteSteps,
     VddIsDisabled, RestoreGoesOn, Reattaches, IsBack, Knows, StopWatchdog, At, displayVars,
     diskVars, processVars
<1> QED BY <1>1, <1>2, <1>3 DEF GuardInv

LEMMA ForceDisableVddKeeps ==
  ASSUME TypeOK, GuardInv, NEW t \in Tasks, Running(t) /\ ForceDisableVdd(t)
  PROVE  GuardInv'
<1>1. TasksTakeTurns' /\ MarkerIsKept' /\ ChangesAreRecorded'
    BY  DEF GuardInv, GuardSteps, CleanUpSteps, MarkerIsKept, ChangesAreRecorded, IsVddOnly,
     Saved, ForceDisableVdd, TasksTakeTurns, At, GoTo, diskVars, processVars, sessionVars
<1>2. SnapshotIsKept' /\ ReadersAgree'
    BY OneSession DEF GuardInv, SnapshotIsKept, Saved, WriteSteps, ReadersAgree, Knows, Agrees,
     TasksTakeTurns, ForceDisableVdd, At, GoTo, diskVars, processVars, GuardSteps, StartSteps
<1>3. PhysicalIsAttached' /\ VddIsDisabled'
    BY OneSession, WhoCleansUp, StateTypes DEF GuardInv, PhysicalIsAttached, Saved, WriteSteps,
     VddIsDisabled, TasksTakeTurns, ReadersAgree, SnapshotIsKept, ForceDisableVdd, Running,
     DisableVdd, At, GoTo, displayVars, diskVars, processVars, sessionVars, IsVddOnly, Knows,
     ActiveDisplays, SetScale
<1>4. RestoreGoesOn'
  BY ForceDisableVddGoesOn
<1> QED BY <1>1, <1>2, <1>3, <1>4 DEF GuardInv

LEMMA GuardedRestoreEndsKeeps ==
  ASSUME TypeOK, GuardInv, NEW t \in Tasks, GuardedRestoreEnds(t)
  PROVE  GuardInv'
<1>1. TasksTakeTurns' /\ MarkerIsKept' /\ ChangesAreRecorded'
    BY  DEF GuardInv, StartSteps, MarkerIsKept, ChangesAreRecorded, GuardedRestoreEnds,
     AfterRestore, DeleteMarker, TasksTakeTurns, At, GoTo, processVars, sessionVars, Guards
<1>2. SnapshotIsKept'
    BY  DEF GuardInv, SnapshotIsKept, Saved, WriteSteps, GuardedRestoreEnds, AfterRestore,
     DeleteMarker, At, GoTo, processVars
<1>3. PhysicalIsAttached' /\ VddIsDisabled' /\ RestoreGoesOn'
    BY StateTypes DEF GuardInv, PhysicalIsAttached, Saved, WriteSteps, VddIsDisabled,
     RestoreGoesOn, Reattaches, IsBack, Knows, GuardedRestoreEnds, AfterRestore, DeleteMarker,
     At, GoTo, displayVars, processVars
<1>4. ReadersAgree'
  BY ForgetfulAgrees DEF GuardedRestoreEnds, DeleteMarker, At, AfterRestore, RestoreSteps, processVars
<1> QED BY <1>1, <1>2, <1>3, <1>4 DEF GuardInv

LEMMA CleanUpEndsKeeps ==
  ASSUME TypeOK, GuardInv, NEW t \in Tasks, CleanUpEnds(t, 1)
  PROVE  GuardInv'
<1>1. TasksTakeTurns' /\ MarkerIsKept' /\ ChangesAreRecorded'
    BY OneSession, StateTypes DEF GuardInv, EndSteps, MarkerIsKept, ChangesAreRecorded,
     IsVddOnly, Saved, CleanUpEnds, DeleteMarker, TasksTakeTurns, At, processVars
<1>2. SnapshotIsKept'
    BY  DEF GuardInv, SnapshotIsKept, Saved, WriteSteps, CleanUpEnds, DeleteMarker, At,
     processVars
<1>3. PhysicalIsAttached' /\ VddIsDisabled' /\ RestoreGoesOn'
    BY StateTypes DEF GuardInv, PhysicalIsAttached, Saved, WriteSteps, VddIsDisabled,
     RestoreGoesOn, Reattaches, IsBack, Knows, CleanUpEnds, DeleteMarker, At, displayVars,
     processVars
<1>4. ReadersAgree'
  BY ForgetfulAgrees DEF CleanUpEnds, DeleteMarker, At, GoTo, RestoreSteps, processVars
<1> QED BY <1>1, <1>2, <1>3, <1>4 DEF GuardInv

(* The invariant holds of the initial state.                                 *)
LEMMA GuardInvStarts == Init => GuardInv
<1> SUFFICES ASSUME Init PROVE GuardInv
  OBVIOUS
<1>1. /\ server = "down" /\ \A t \in Tasks : at[t] = "off"
      /\ modified[1] = FALSE
  BY OneSession DEF Init
<1>2. Guards \subseteq Tasks /\ Idle \subseteq Tasks /\ \A p \in Processes : Watchdog(p) \in Tasks
  BY OneSession, TaskNames
<1>3. TasksTakeTurns
  BY <1>1, <1>2, OneSession DEF TasksTakeTurns
<1>4. \A t \in Tasks : ~Knows(t)
  BY <1>1 DEF Knows
<1>5. SnapshotIsKept /\ PhysicalIsAttached
  BY <1>1, OneSession DEF SnapshotIsKept, PhysicalIsAttached
<1>6. MarkerIsKept /\ ChangesAreRecorded /\ VddIsDisabled
  BY <1>1 DEF MarkerIsKept, ChangesAreRecorded, VddIsDisabled
<1>7. ReadersAgree /\ RestoreGoesOn
  BY <1>4 DEF ReadersAgree, RestoreGoesOn, Reattaches
<1> QED BY <1>3, <1>5, <1>6, <1>7 DEF GuardInv

(* Every step keeps it, a start excepted, and one that opens a second session. *)
LEMMA GuardInvStays ==
  ASSUME TypeOK, GuardInv, [Next]_vars, ~Start, lapse' # "secondSession"
  PROVE  GuardInv'
<1>i. \A t \in Idle : at[t] = "off"
  BY DEF GuardInv, TasksTakeTurns
<1>1. CASE ServerStep \/ Failure
  BY <1>1, CaptureKeeps, WriteSnapshotKeeps, WriteMarkerKeeps, ExitKeeps, ExitContinuesKeeps,
     MainReturnsKeeps, CleanUpBeforeEndKeeps, CrashKeeps, UnhandledExceptionKeeps, PowerLossKeeps
     DEF ServerStep, Failure
<1>2. ASSUME NEW p \in Processes, Wake(p) PROVE GuardInv'
  BY <1>2, WakeKeeps
<1>3. ASSUME NEW s \in SessionIds, SessionStep(s) PROVE GuardInv'
  <2>1. s = 1
    <3> SUFFICES ASSUME s # 1 PROVE FALSE
      OBVIOUS
    <3>1. at[Session(s)] = "off" /\ at[Hotkey(s)] = "off" /\ s > 1
      BY <1>i, LaterSession
    <3>2. ~Connect(s)
      BY <3>1 DEF Connect
    <3>3. ~SetUp(s)
      BY <3>1 DEF SetUp, CreateVdd, SetSessionScale, SetSessionHz, Extend, SetScaleAgain, Detach, MarkShowOnly,
                  MarkVddOnly, SpawnWatchdog, Rewrite, Write, At
    <3>4. ~Disconnect(s) /\ ~ClearVddOnly(s) /\ ~EndSession(s) /\ ~Emergency(s)
      BY <3>1 DEF Disconnect, ClearVddOnly, EndSession, Emergency, Rewrite, Write, At
    <3> QED BY <1>3, <3>2, <3>3, <3>4 DEF SessionStep
  <2>2. SessionStep(1)
    BY <1>3, <2>1
  <2> QED BY <2>2, ConnectKeeps, CreateVddKeeps, SetSessionScaleKeeps, SetSessionHzKeeps, ExtendKeeps,
             SetScaleAgainKeeps, DetachKeeps, MarkShowOnlyKeeps, MarkVddOnlyKeeps, ClearVddOnlyKeeps,
             SpawnWatchdogKeeps, DisconnectKeeps, EndSessionKeeps, EmergencyKeeps DEF SessionStep, SetUp
<1>4. ASSUME NEW t \in Tasks, RestoreStep(t) PROVE GuardInv'
  <2>1. CASE Restore(t)
    BY <2>1, CheckKeeps, ReadSnapshotKeeps, RestoreTopologyKeeps, RestoreScaleKeeps, RestoreModesKeeps,
       SafeDisableVddKeeps, TimeOutKeeps DEF Restore
  <2>2. CASE CleanUp(t)
    BY <2>2, StopWatchdogKeeps, ForceDisableVddKeeps DEF CleanUp
  <2>3. ASSUME NEW s \in SessionIds, CleanUpEnds(t, s) PROVE GuardInv'
    <3>1. at[t] = "deleteMarker" /\ t \in {Session(s), Hotkey(s)}
      BY <2>3 DEF CleanUpEnds, DeleteMarker, At
    <3>2. s = 1
      BY <1>i, <3>1, LaterSession
    <3> QED BY <2>3, <3>2, CleanUpEndsKeeps
  <2> QED BY <1>4, <2>1, <2>2, <2>3, GuardedRestoreEndsKeeps DEF RestoreStep
<1>5. CASE UNCHANGED vars
  BY <1>5 DEF vars, GuardInv, TasksTakeTurns, SnapshotIsKept, MarkerIsKept, ChangesAreRecorded, ReadersAgree,
              PhysicalIsAttached, VddIsDisabled, RestoreGoesOn, Saved, Knows, Agrees, Reattaches, IsBack, IsVddOnly
<1> QED BY <1>1, <1>2, <1>3, <1>4, <1>5 DEF Next

(* A process that is down has no session, so none has changed the displays.   *)
DownIsUnmodified == server = "down" => ~modified[1]

(* The invariant of a process that has neither a second session nor been      *)
(* started over a restore, and what the next process can rely on after any.  *)
Guarded == DownIsUnmodified /\ (lapse = "none" => GuardInv)

LEMMA DownStaysUnmodified ==
  ASSUME TypeOK, DownIsUnmodified, [Next]_vars
  PROVE  DownIsUnmodified'
<1>1. modified \in [SessionIds -> BOOLEAN] /\ 1 \in SessionIds
  BY StateTypes, OneSession
<1> SUFFICES ASSUME server' = "down" PROVE ~modified'[1]
  BY DEF DownIsUnmodified
<1>2. ASSUME ServerStep \/ Failure PROVE ~modified'[1]
  BY <1>1, <1>2 DEF ServerStep, Failure, Start, Capture, WriteSnapshot, WriteMarker, Exit, ExitContinues, MainReturns,
     CleanUpBeforeEnd, Crash, UnhandledException, PowerLoss, ProcessEnds, DownIsUnmodified, processVars, sessionVars
<1>3. ASSUME NEW p \in Processes, Wake(p) PROVE ~modified'[1]
  BY <1>3 DEF Wake, DownIsUnmodified, processVars, sessionVars
<1>4. ASSUME NEW s \in SessionIds, SessionStep(s) PROVE FALSE
  <2>1. server' = server
    BY <1>4 DEF SessionStep, SetUp, Connect, CreateVdd, SetSessionScale, SetSessionHz, Extend, SetScaleAgain, Detach,
       MarkShowOnly, MarkVddOnly, SpawnWatchdog, Disconnect, ClearVddOnly, EndSession, Emergency, Rewrite, Write,
       processVars
  <2> QED BY <1>4, <2>1 DEF SessionStep, ServerLives
<1>5. ASSUME NEW t \in Tasks, RestoreStep(t) PROVE ~modified'[1]
  <2>1. CASE Restore(t) \/ CleanUp(t) \/ GuardedRestoreEnds(t)
    BY <2>1 DEF Restore, CleanUp, GuardedRestoreEnds, Check, ReadSnapshot, RestoreTopology, RestoreScale, RestoreModes,
       SafeDisableVdd, TimeOut, StopWatchdog, ForceDisableVdd, DownIsUnmodified, processVars, sessionVars
  <2>2. ASSUME NEW s \in SessionIds, CleanUpEnds(t, s) PROVE FALSE
    BY <2>2 DEF CleanUpEnds, processVars
  <2> QED BY <1>5, <2>1, <2>2 DEF RestoreStep
<1>6. CASE UNCHANGED vars
  BY <1>6 DEF vars, DownIsUnmodified
<1> QED BY <1>2, <1>3, <1>4, <1>5, <1>6 DEF Next

(* A lapse lasts until the next start.                                       *)
LEMMA LapseLasts ==
  ASSUME [Next]_vars, ~Start, lapse' = "none"
  PROVE  lapse = "none"
<1>1. ASSUME ServerStep \/ Failure PROVE lapse' = lapse
  BY <1>1 DEF ServerStep, Failure, Capture, WriteSnapshot, WriteMarker, Exit, ExitContinues, MainReturns,
     CleanUpBeforeEnd, Crash, UnhandledException, PowerLoss, ProcessEnds, processVars
<1>2. ASSUME NEW p \in Processes, Wake(p) PROVE lapse' = lapse
  BY <1>2 DEF Wake, processVars
<1>3. ASSUME NEW s \in SessionIds, SessionStep(s) PROVE lapse = "none"
  BY <1>3 DEF SessionStep, SetUp, Connect, CreateVdd, SetSessionScale, SetSessionHz, Extend, SetScaleAgain, Detach,
     MarkShowOnly, MarkVddOnly, SpawnWatchdog, Disconnect, ClearVddOnly, EndSession, Emergency, Rewrite, Write,
     processVars
<1>4. ASSUME NEW t \in Tasks, RestoreStep(t) PROVE lapse' = lapse
  BY <1>4 DEF RestoreStep, Restore, CleanUp, GuardedRestoreEnds, Check, ReadSnapshot, RestoreTopology, RestoreScale,
     RestoreModes, SafeDisableVdd, TimeOut, StopWatchdog, ForceDisableVdd, CleanUpEnds, processVars
<1>5. CASE UNCHANGED vars
  BY <1>5 DEF vars
<1> QED BY <1>1, <1>2, <1>3, <1>4, <1>5 DEF Next

LEMMA GuardedStays ==
  ASSUME TypeOK, Guarded, [Next]_vars
  PROVE  Guarded'
<1>1. DownIsUnmodified'
  BY DownStaysUnmodified DEF Guarded
<1>2. ASSUME lapse' = "none" PROVE GuardInv'
  <2>1. CASE Start
    BY <1>2, <2>1, StartKeeps DEF Start, Guarded, DownIsUnmodified
  <2>2. CASE ~Start
    BY <1>2, <2>2, LapseLasts, GuardInvStays DEF Guarded
  <2> QED BY <2>1, <2>2
<1> QED BY <1>1, <1>2 DEF Guarded

(* Whatever happened to the processes before, and whatever fails: from its    *)
(* start, unless that was over a restore, until a second session comes, the   *)
(* tasks of a process take turns in such a way that the snapshot, the marker  *)
(* and the displays stay what the restores go by.                            *)
THEOREM GuardInvariant == Spec => [](lapse = "none" => GuardInv)
<1>1. Init => TypeOK /\ Guarded
  <2>1. Init => DownIsUnmodified
    BY OneSession DEF Init, DownIsUnmodified
  <2> QED BY <2>1, InitType, GuardInvStarts DEF Guarded
<1>2. TypeOK /\ Guarded /\ [Next]_vars => TypeOK' /\ Guarded'
  BY NextType, GuardedStays
<1>3. Guarded => (lapse = "none" => GuardInv)
  BY DEF Guarded
<1> QED BY <1>1, <1>2, <1>3, PTL DEF Spec

(* While the first client of a process is streamed to on displays that were   *)
(* changed for it, a crash of the server at that moment can be undone: the    *)
(* marker is there, the snapshot is whole and tells what has been detached,   *)
(* and the watchdog waits.  Of a second client it is not so (the run of       *)
(* SessionIsGuarded).  (DisplayGuard.cs:277, SpawnWatchdog)                  *)
THEOREM SessionsAreGuarded == Spec => []FirstSessionIsGuarded
<1>1. (lapse = "none" => GuardInv) => FirstSessionIsGuarded
  <2> SUFFICES ASSUME GuardInv, NEW s \in SessionIds, server = "up", at[Session(s)] = "streaming",
                      modified[s], kind[s] # "rescale", at[Hotkey(s)] \in {"off", "armed"}
               PROVE  /\ marker /\ snapshot.file = "whole" /\ at[Watchdog(starts)] = "waiting"
                      /\ IsVddOnly(s) => snapshot.showOnly
    BY DEF FirstSessionIsGuarded, SessionIsGuarded, At
  <2>1. s = 1
    BY LaterSession DEF GuardInv, TasksTakeTurns
  <2> QED BY <2>1, OneSession DEF GuardInv, SnapshotIsKept, MarkerIsKept, ChangesAreRecorded, Saved, WriteSteps
<1> QED BY <1>1, GuardInvariant, PTL

(* A restore that has read the snapshot and gone through its steps has put    *)
(* the displays back, whichever other restores run beside it, and whatever    *)
(* failure had interrupted the session.  (DisplayGuard.cs, RestoreInternal)   *)
THEOREM RestoresAreComplete == Spec => []RestoreIsComplete
<1>1. (lapse = "none" => GuardInv) => RestoreIsComplete
  <2> SUFFICES ASSUME GuardInv, NEW t \in Tasks, server \in {"down", "starting", "up"},
                      at[t] = "deleteMarker", read[t].file = "whole", read[t].physical,
                      read[t].showOnly \/ t \in Sessions
               PROVE  attached /\ (\A m \in Monitors : scale[m] = read[t].scale) /\ (vdd => t \in Hotkeys)
    BY DEF RestoreIsComplete, At
  <2>1. t \notin Idle
    BY DEF GuardInv, TasksTakeTurns
  <2>2. t \in Sessions => t = Session(1)
    BY <2>1, OneSession DEF Idle
  <2>3. Reattaches(t)
    BY <2>2 DEF Reattaches, Knows
  <2> QED BY <2>3, OneSession DEF GuardInv, RestoreGoesOn, IsBack
<1> QED BY <1>1, GuardInvariant, PTL
=============================================================================
