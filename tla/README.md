# RemotePlayServer: a TLA+ model of the streaming host

RemotePlayServer is a Windows host that streams its monitors to a client over
WebRTC, with a relay server as fallback path for signalling and for media. This
directory holds a formal model of its concurrent core: TLA+ modules translated
from the C# source and from the C++ of its native encoder wrappers, configurations that check them with TLC, and proofs checked
with TLAPS.

## The system

| Part | State it keeps | Operations | Talks to |
|---|---|---|---|
| Phase protocol (`Application/Protocol/PhaseProtocolHandler.*`) | phase, offers and answers, ICE candidates, restart counter, keepalive counter, relay mode, P2P version | one WebSocket read loop per client; hello, configuration, offer/answer, Phase 3 messages, restart of Phase 2, clean-up | streamer callbacks, capture, relay path |
| Relay video queue (`PhaseProtocolHandler.RelayMedia.cs`) | taint and recovered generation of each track, bounded frame queue, time of the last IDR request | enqueue, drop, send loop, complete key frame | encoder callbacks, WebSocket |
| Relay media lifecycle (same file) | relay mode, worker session, P2P state and version, fallback timer, lifecycle lock | enter, exit, promote, fall back, shut down | streamer, WebSocket, peer-connection callbacks |
| Pairing and peer authentication (`Application/Security`) | paired devices, secrets, failure counters | verify, pair, revoke | phase protocol |
| WebRTC streamer (`SIPSorceryStreamer.*`) | peer connection, tracks, encoders, send queues, RTP clocks; the locks `_lock`, `EncodeLock` of each track, `_relayBitrateLock` | set up, encode, send, change bitrate, restart ICE, dispose | capture, phase protocol |
| Native encoders (`Native/*.cpp`, `AmfNativeWrapper` and its likes, `KeyframeDetector`) | driver objects, settings, time stamp, cached texture registration, a mutex | create, encode, flush, set rates, destroy, callback for each frame | streamer, GPU driver or Media Foundation |
| Adaptive control (`AdaptiveBitrateController`, `AdaptiveFps*`) | current level, streaks, cool-downs | one step per statistics report | streamer, capture |
| Shared encoder (`SharedEncoderManager`) | claim of the host, its streamer and configuration, viewers | elect, register, fan out, remove | phase protocol, streamer |
| Capture (`Infrastructure/Capture`) | frame pacing, last frame, monitor barrier | capture, compare, deliver | streamer |
| Display guard (`Infrastructure/Display`) | saved display configuration, crash marker | save, change, restore, recover after a crash | services |
| Relay presence (`RelayClient*`, `RelayReconnectPolicy`) | socket, access and refresh token, refresh lock, reconnect flag, attempt number | connect, read, refresh token, reconnect, dispose | relay server |
| Relay bridge (`MultiClientRelayBridge`, `RelayWebSocketAdapter`) | adapter of each client, frame queues | create, dispatch, close | relay presence, phase protocol |
| Network helpers (`Infrastructure/Network`) | port mappings, tunnel process, discovery socket | open, refresh, close | operating system |
| TURN credentials (`TurnCredentialProvider`) | cached credential and expiry | get | relay server |
| Signalling server (`Server/`) | accepted sockets, tokens, guest ids, held keys | accept, authenticate, inject input | phase protocol |
| Services (`Services/`) | running parts, rooms | start, stop | everything |
| UI, configuration, vendored SDKs | | | |

### What is hard

* Three kinds of threads touch one client's state without a common lock: the
  WebSocket read loop, the peer-connection callbacks of SIPSorcery and the encoder
  callbacks, with timers and fire-and-forget tasks beside them.
* Media falls back from P2P to the WebSocket and back again, while frames are
  queued, and the client must see text messages and binary media in an order
  it can act on.
* P-frames depend on each other: a frame dropped anywhere invalidates what
  follows until an IDR, and only an IDR encoded after the loss repairs it.
* Sockets fail, time out and are disposed while loops and timers still use them.
* The callback of an encoder runs inside the encode call, with the lock of the track
  and the mutex of the encoder held, and calls back into the streamer.
* Every call to a GPU driver may fail, and three wrappers undo it in three ways.
* The clients of one room share an encoder and a capture: the first is host, the
  others view what it encodes, and each may leave, fall silent or return at any step
  of another's set-up or clean-up.
* The host changes the display configuration of the machine, and must put it
  back after a crash.

### What makes each part correct

* Relay video queue: nothing that depends on a lost frame is sent; a track's
  recovery is completed only by an IDR younger than its last loss; a waiting
  track is eventually repaired; a closed queue is left empty.
* Relay lifecycle: mode, workers and streamer agree whenever no transition is
  in progress; at most one worker session runs; the client is told to read
  media before the first binary frame; a client whose P2P path is down ends up on
  the relay; after clean-up nothing runs.
* Relay presence: a dropped connection is always being repaired unless the user
  disconnected; at most one reconnect loop runs; nothing reconnects after dispose;
  a rotated refresh token is not presented again.
* Native encoders: what a creation acquires is released; the settings of the driver
  are those the program believes in; stamps increase; a key frame is reported as one,
  and one that was asked for comes.
* Streamer: no two threads wait for each other for good; no thread uses an encoder
  that another has destroyed; no frame encoded for one transport leaves on the other.
* Relay room: there is one host at a time, its encoder and capture last as long as
  it does, and when it has gone the next client can become host.
* Phase protocol: candidates are applied after the descriptions they belong to,
  restarts are bounded, a dead client is detected.
* Pairing: a secret is never accepted after it was revoked or locked out.
* Adaptive control: levels stay within bounds and do not oscillate.
* Display guard: whatever a session changes can be undone while it lasts, by its
  clean-up, the watchdog, the start-up task or the next start; what is undone is
  undone completely; and the state it goes back to is the one from before.

## Modules

Each component has a specification module, an `MC` module that instantiates it
for TLC, one configuration per question, and, where something is proved, a
`Proofs` module that extends the specification.

### RelayVideoQueue

One `RelayMediaWorkerSession` of `PhaseProtocolHandler.RelayMedia.cs`: the encoder
callback of each track, the bounded channel, the send loop and the recovery
generations of `RelayKeyframeRecoveryState`.

| In the model | In the code |
|---|---|
| `taint`, `recovered` | `_taintGeneration`, `_recoveredGeneration` |
| `queue`, `Capacity` | `VideoQueue`, `RELAY_QUEUE_FRAMES` |
| `producer[t]`: `Encode`, `AdmitToQueue`, `StampGeneration`, `TryWriteOk`, `TryWriteFull`, `TaintAtProducer`, `RequestAtProducer` | the encoder callback of track `t`: `EnqueueRelayVideoFrame` and `HandleRelayVideoFrameDropped`, one step per access to shared state |
| `sender`: `Dequeue`, `SuppressAtSend`, `SendChunk`, `SendChunkFails`, `CheckComplete`, `WriteRecovered`, ... | `RelayVideoSendLoopAsync`, one step per awaited chunk; `TryCompleteKeyframe` is a read and then a write |
| `forceKey`, `mayRequest` | `ForceNextKeyframe`, the one-second limit of `RequestRelayRecoveryKeyframe` |
| `decoder` | the client's reference chain: not in the source, it says what a property is about |

The payload of a frame is abstracted to its track, whether it is a key frame, its
stamp, and what is missing in front of it.

### MediaRelay and RelayClientView

`MediaRelay` is the life of the relay mode of one client: tasks in `Slots` stand for
the connection callbacks, the promotion to P2P, the fallback timer and clean-up,
which all run concurrently and meet at the `_mediaRelayLifecycle` semaphore
(`lifecycle`) and at the state lock of `RelayP2PState` (one step each). A task
record says which handler it runs, at which await it is, and what it has read
before that await. `EnterMediaRelayModeAsync`, `ExitMediaRelayModeAsync`,
`ShutdownRelayMediaAsync`, `PromoteMediaToP2PAsync`, `OnConnectionFailed`,
`ArmRelayFallbackTimer` and `CleanupAsync` are split at every await and every
access to state another task touches; `TrySendTextAsync` may fail or find the socket
gone; encoders may throw while the relay starts. The send loops of a worker session
check that they are current in one step (`CheckCurrent`) and send in the next
(`SendMedia`, `MediaSent`).

`RelayClientView` is what the client is promised: media is on the socket only
between a start and its stop, from one worker session at a time, and a stop is
said only when nothing is in flight. `MediaRelay` implements it under the
refinement mapping `gate <- clientGate`, `media <- running # {}` (`ImplementsClientView`): media may be
on the socket as long as the loops of a session run.

Left out: the deferred entry of an unpaired peer (pairing is taken as settled), and
`restart_phase2`.

### RelayReconnect

The presence connection of `RelayClient`. Connections are numbered; `current` is
the one in `_presenceWs` and `_cts`. `caller` has a program counter for the two
callers of `ConnectPresenceAsync` (`ConnectRelayAsync`, the reconnect loop),
`reader` one for the read loop of each connection, including those of connections
already replaced, whose `finally` block still writes `State`. `Dispose` runs on
the thread of the user interface in two steps. A token refresh is a delay here;
`RelayPresence` says what happens in it.

### RelayPresence

`RelayReconnect` with its tokens. Every connection has a `TokenRefreshLoopAsync`, and
the one of a connection already replaced notices that only in its fourteen-minute
delay; the reconnect loop refreshes too. `refresher[r]` is where each of them is in
`RefreshTokenAsync`, `lock` the semaphore `_tokenRefreshLock`, `token` the client's
refresh token and `valid` the one the server accepts: a refresh makes the server
issue the next and revoke the one presented, and the answer may be lost afterwards.
Each action is an action of `RelayReconnect` with what it does to the tokens, or
leaves the connections alone, so that its behaviours are behaviours of `RelayReconnect` by
construction; what is checked and proved of this module is what it says of the tokens, and of
connections and tokens together.

### NalUtils, NativeEncoder, NvencWrapper, AmfWrapper, QsvWrapper, NativeEncoders

`NalUtils` holds the two native parsers (`NalUtils.h`) and the managed one
(`KeyframeDetector.cs`) as predicates on a sequence of bytes: a start code at some
position with a header behind it. `MCNativeEncoders` compares the managed one with
the loop the code runs, for all sequences of up to six bytes of a small alphabet.

A native function is an operator from the state of an encoder to the set of its
results, one for every way its driver calls can end; `NativeEncoder` has what the three
wrappers share. An encoder is a record:

| In the model | In the code |
|---|---|
| `ctx` | the context structure: `fps`, `bitrate`, the time stamp `pts`, `cached` texture; `owns` stands for the pointers that are set |
| `drv` | the driver or transform: its settings, the frames `inside`, the textures `registered`, a picture type still forced |
| `held` | how many references of each kind are held: what `owns` does not cover has leaked |
| `sent` | what the last call delivered to the callback |
| `NvencSteps`, `AmfSteps`, `QsvSteps` | the calls of a creation in their order, each with what it acquires and what its failure releases |

`NativeEncoders` is one track with such an encoder, of any of the three vendors: the
handlers of `SIPSorceryStreamer` that create, feed, flush, reconfigure and dispose of
it, with the counters and flags of `TrackInfo`. The creation tries BGRA and then
NV12. `asked` is history: a key frame is due, and whether a call has lost it.

### EncoderLocks

The same streamer seen by its locks, for several tracks and threads. An operation is
the sequence of its steps that take a lock, give it back, or touch an encoder;
`todo[th]` is what a thread has still to do, `held[th]` what it holds, and a step
that calls something puts the steps of that in front. C# monitors are
reentrant, the `std::mutex` inside a native encoder is not. The operations are
those of the phase protocol (`ForceReinitializeEncoders`, `ResetSyncState`, bitrate
and configuration, relay mode on and off, `Dispose`) and the captured frames. Two
steps are merged where no other thread can tell: a release with the step before it,
and the body of a native function with the taking of its mutex, unless it makes its
callback. A loop over `_tracks` is one step, `Each`, with the tracks it has still to do: it puts
the body for its next track (`Body`) and itself for the others in front, and after the last
track what comes behind the loop (`Behind`). `StopRelayMediaMode` keeps the locks of its loop until
the last one has been taken and the mode has changed (`Frozen`). `UpdateConfig` sets the bitrates
again behind its rates, whether or not an encoder has refused.

### RelayRoom

The sessions of one relay room, as `ServerService.ConnectRelayAsync` makes them: a
`MultiClientRelayBridge` and a new `SharedEncoderManager` at each login, and for each
`room_ready` a `PhaseProtocolHandler`, whose role is decided by `TryClaimHost`.

| In the model | In the code |
|---|---|
| `logins`, `online` | the manager in `SharedEncoderManager.Instance` and the present bridge; whether its client is still there. Managers and bridges of earlier logins remain |
| `hostClaimed`, `hostStreamer`, `hostConfig`, `viewers` | the fields of each manager |
| `bridge[h]`, `adapter[h]` | the `PerClientAdapter` of handler `h`: open, closing (`SignalClose` has put a message into its inbox) or silent (`CloseOutputAsync`, which puts none) |
| `stage[h]`: `RoomReady`, `HostCaptures`, `ExchangeEnds`, `Leaves`, `Cleans` | `HandleAsync` of a host and `CleanupAsync` |
| `TakesManager`, `RemovesViewer`, `FindsStreamer`, `ForgetsStreamer`, `RemoveHostThrows`, `ForgetsConfig`, `ReleasesClaim` | the `finally` block in `ServerService`, and `RemoveHost` access by access: no lock covers it |
| `ViewerPolls`, `ViewerJoins` | `RunViewerFastPathAsync`; between the two the host may be removed (`saw`) |
| `callback[h]`, `passed`, `target`: `TracksReady`, `PassesStreamer`, `TestsStreamer`, `Unhooks`, `SetsStreamer`, `Subscribes`, `SetsConfig`, `AddsViewer` | the `OnAllTracksReady` callback, which waits for the media relay and then passes on the streamer it has read (`passed`), to the manager it has read (`target`), access by access: no lock covers this either |
| `KeepAliveGivesUp` | three pongs missing in `StartKeepAlive` |
| `shared` | the static `_sharedCapture` |

Left out: the messages a handler exchanges with its client, the fan-out of frames and
the quality of viewers, and sessions over LAN or USB, which share the static capture too.

### DisplayGuard

What a session does to the displays of the host, and all that is there to undo it:
`DisplayGuard.cs`, `ApplyDisplayConfigAsync` and what it calls, `RunWatchdog` and
the start-up task of `Program.cs`, the hotkey of `DisplaySafetyMonitor`, the exit
and the exception handlers of `App.xaml.cs`.

| In the model | In the code |
|---|---|
| `attached`, `vdd`, `scale`, `hz` | Windows: the physical monitors are part of the desktop, the virtual display is enabled, scale and refresh rate of each display |
| `snapshot`, `marker` | `display_snapshot.json`, `session.lock`. `File.WriteAllText` truncates, then writes: two steps, and a crash in between leaves a `Torn` file |
| `Start`, `Check`, `Capture`, `WriteSnapshot`, `WriteMarker` | `ServerService.StartAsync`, `CaptureSnapshotAtStartup` |
| `Connect`, `CreateVdd`, `SetSessionScale`, `SetSessionHz`, `Extend`, `SetScaleAgain`, `Detach`, `MarkShowOnly`, `MarkVddOnly`, `SpawnWatchdog` | `ApplyDisplayConfigAsync` and the `VirtualDisplayManager` methods, for the four kinds of session: an ultrawide virtual display, a mobile one, an extended desktop, another scale only |
| `ReadSnapshot`, `RestoreTopology`, `RestoreScale`, `RestoreModes`, `SafeDisableVdd` | `RestoreInternal` and `RestoreInternalSafe`, one step per call to Windows |
| `StopWatchdog`, `ForceDisableVdd`, `TimeOut`, `CleanUpEnds` | `RestoreAndCleanupWithTimeout`; the time limit skips the steps that are left |
| `Exit`, `ExitContinues`, `MainReturns` | `OnExit` is `async void`: its restore is the continuation of an await, and the process may end first |
| `Crash`, `PowerLoss`, `UnhandledException` | the end of the server alone, of everything, and the exception handlers |
| `Wake`, `RestoreStep(Boot)` | the watchdog sees the end of its server; the start-up task after a power loss |

Every thread and process is a task with its own step `at[t]` and its own copy
`read[t]` of the snapshot. Windows is taken to do what the code relies on: a
monitor keeps its scale and its mode while it is detached, a setting reaches the
active displays only, and the physical monitors come back when the only display
goes.

Left out: `ResetAndCaptureSnapshot` of the settings page, two local sessions at
the same time, the text scale, the task bar, resolutions and positions.

## Runs

| Run | Instance | Shows |
|---|---|---|
| `video_queue` | one track, capacity 2, 2 chunks, 2 losses, the relay may be left | type, no P-frame after a loss, "recovered" means anchored, only a fresh IDR recovers; a waiting track recovers, a closed queue is emptied |
| `video_queue_chain` (violation) | one track, capacity 2 | the decoder's chain breaks although no track was tainted |
| `media_relay` | two tasks, two path changes, everything may fail | type, consistency when settled, gate, refinement, yields to P2P, quiescence; upgrades to P2P, transitions end, clean-up completes |
| `relay_reconnect` | three connections, two refresh tokens | the shown state is true, no revoked token is presented, log-out stops the loop, a drop is repaired |
| `display_guard` | one monitor, one session of any kind, two starts, one failure | type, the first session of a process is guarded while it is streamed to, a restore is complete, a dark host comes back |
| `display_guard_second` (violation) | one monitor, two sessions of one process | the second is streamed to without a marker: no crash of it is undone |
| `native_encoders` | one track, each vendor and codec, two textures, two rates, both creations may fail | leaks only where a creation failed, registration, settings, stamps, key-frame flags, requests |
| `encoder_recreated` (violation) | Intel, nothing fails | an encoder disposed of for a new frame rate does not come back |
| `encoder_locks` | two tracks, one captured, two callers, two operations | a circle of waiting needs a callback, no callback waits for its own encoder, lock holders meet live encoders, no frame crosses from relay to direct |
| `encoder_deadlock` (violation) | two captured tracks, one caller, one operation | a callback that asks for a key frame and the operation that holds `_lock` wait for each other |
| `relay_room` | two clients, one login | one host at a time, the claim taken exactly as long; the claim comes back |
| `relay_room_capture` (violation) | two clients, one login | a viewer that cleans up takes the capture from the host |

A run marked "violation" states what a comment or a test of the repository says
and finds a behaviour of the code in which it does not hold; the entry of
`PROJECT.json` quotes both.

**Bounds.** `MaxTaint` bounds the losses of a track: one to lose a frame, one to lose
the frame that repairs it. Larger instances give the same results: the
invariants with capacity 3 and 3 losses (1.3 million states), `TrackRecovers` with
two tracks that share one slot and the limiter (175 thousand states).
`Capacity` 2 makes the queue fill with frames of both kinds; `Chunks` 2 is
enough for a frame to be cut in the middle. `MaxEvents` 2 is one path that comes up
and one failure, in either order; two slots let a task of the one meet a task of the other, the timer
or the clean-up at each of their steps (287 thousand states). With three slots an entry, an exit and a
clean-up contend for the semaphore at once: the invariants, which are proved for any number, hold there too. `MaxConnects` is the number of connections: 3 is the first one
and two the loop tries, so that a refresh loop of each of two replaced connections
and the reconnect loop compete for the lock; `MaxTokens` 2 is one rotation, after
which every request with the old token is a replay. The invariants of these
four modules are proved for every value of the constants, so the bounds restrict the liveness
results alone. In `DisplayGuard` one monitor stands for all that are detached and
attached together; one failure and two starts let the
crash, the watchdog and the next start meet at every step of a session, and a
second failure could only hit a restore, which the snapshot on disk outlives. `Kinds`,
`Ends`, `MayTimeOut` and `FastRestart` choose what may happen. What is promised ends with the
first session of a process, and is not given to a process that was started over a restore: the
history variable `lapse` says whether either has come to pass, and the properties of
`display_guard` speak of the states before. That run keeps to `MaxSessions = 1` and
`FastRestart = FALSE`, which leaves those states out and nothing else; `display_guard_second`
shows the first of what comes after.

The safety properties of `DisplayGuard` and of `NativeEncoders` are proved too, for every number of
sessions, failures and starts, every depth and every rate.
In `NativeEncoders` `MaxTime` allows two frames at one rate and one at the other
after them, which the order of stamps needs; `MaxFailures` 2 lets the BGRA and the NV12
creation of one initialisation fail. After a failed creation the time is shorter
(`MaxTimeAfterFailure`), after the last allowed one no frame is captured: what is
looked at then are the references, which the other operations still change. `Depth` 2
is the number of frames a component or transform keeps inside; drivers keep more, and
the order in which they leave is the same. A bitrate is 1 or 2: an old and a new one.
In `EncoderLocks` the operations a thread has run leave nothing behind but the state
of encoders and mode, so two operations at a time against the capture thread meet every
pair of lock orders; the second track, not captured, makes the loops over `_tracks`
and the frozen set of `StopRelayMediaMode` hold two locks. `MaxEncoders` 2 is an encoder and
the one that replaces it. Its properties are proved for all of these numbers.

In `RelayRoom` two handlers are a host and a viewer, or a host and the one that comes after it while
the callback of the first is still under way (125 thousand states). `MaxLogins` is 1 because the properties speak of one login;
what a second one does is said below. `OneHost` is proved for any number of handlers and
logins, so the bound restricts `ClaimComesBack` alone, which is about one host and whoever disturbs it. `TypeOK` of
`RelayRoom` and of `RelayReconnect` hold in the same instances; the runs leave them out
because they are proved.

**What else the model of the displays shows.** The
model has behaviours a maintainer should know of; each is a few lines of
configuration away.

* The second session of a process (`display_guard_second`): the clean-up of the first deletes the marker
  (`DisplayGuard.cs:401`) and only a start of the server writes it (`DisplayGuard.cs:165`).
  The second is streamed to with a watchdog that will find nothing to do, although
  `DisplayGuard.cs:277` promises a restore after a crash for any reason.
* `FastRestart = TRUE`: a server started while the watchdog of the one before still
  restores loses the marker it has just written to that watchdog
  (`DisplayGuard.cs:345`), and `SessionIsGuarded` fails.
* A session that changes the scale alone runs without a watchdog
  (`Phase2.cs:324-384` spawns it only for a new number of monitors or rate);
  `SessionIsGuarded` leaves out this kind, `"rescale"`: `SpawnWatchdog` is not called for it.
* In a standard session the scale is set before `_originalDpiSettings` records it
  (`Phase2.cs:281`, `VirtualDisplayManager.cs:378`); closing the application later
  sets the recorded scale again (`ServerService.cs:169`).
* A crash between the detaching of the monitors (`VirtualDisplayManager.cs:463`) and
  the mark (`Phase2.cs:184`), or while the snapshot is rewritten
  (`DisplayGuard.cs:191`), leaves a state the next start takes for the original one:
  the scale of the session, or a host with its monitors off.
* With two monitors at different scales or rates the restore gives both the scale of
  the first (`DisplayGuard.cs:650`) and 60 Hz (`DisplayGuard.cs:117`).
* A restore that runs into the limit of its clean-up (`DisplayGuard.cs:401`) is not tried
  again: the marker is deleted all the same.

**What else the other models show.** The following behaviours of the code are in the
models; where no run is named, no property speaks of them.

* A P2P path that fails during its own promotion leaves the client with no media. The promotion
  has passed the version check of the exit (`RelayMedia.cs:606-607`); the path fails, and
  `OnConnectionFailed` returns because the relay mode is still set (`Phase2.cs:654`), as
  does `OnFatalError` (`Phase3.cs:183`); then the exit clears the mode and stops the workers
  (`RelayMedia.cs:618-622`). Neither relay nor P2P is left, no timer is armed, and nothing will
  fail again. `Phase2.cs:649-651` resets the flag of the path "so a recovered P2P path can fall back
  again if that recovery later fails". `UpgradesToP2P` covers the opposite outcome alone, a relay that stays on over a
  live path.
* `InitializeEncoders` runs between the path coming up and `MarkConnected` (`Setup.cs:387-398`): a failure may be
  recorded before the success it ended, and the promotion then leaves the relay for a path that is gone.

* The reconnect loop returns on a live connection and releases `_reconnectInFlight` only
  in its `finally` block (`RelayClient.Reconnect.cs:104`). A connection that drops in
  between finds the guard held, and nobody repairs it. `DropIsRepaired` speaks of
  drops that find it free.
* A log-out between the loop's last check and its connect
  (`RelayClient.Reconnect.cs:88`) leaves the new connection open.
* When the answer to a refresh is lost after the server has rotated the token
  (`RelayClient.cs:451`), every later refresh presents the revoked one: the user has
  to log in again. `NoTokenIsReplayed` is about refreshes whose answers arrive.
* An entry into relay mode that waits for the semaphore while clean-up shuts the
  relay down (`PhaseProtocolHandler.RelayMedia.cs:655`) starts workers that nobody stops.
* `QsvFlush` tells the transform to drain and reads nothing (`QsvWrapper.cpp:588`): the frames of
  the session before come out later, under the stamps of the new one.
* A failed creation leaks in `QsvWrapper.cpp` wherever `CHECK_HR` returns, and two references in
  `NvencWrapper.cpp`; `OnlyFailedCreatesLeak` states the limits.
* `UpdateConfig` and `ResetSyncState` differ in their locks: the flush of the latter runs
  without `EncodeLock`, and can meet an encoder that the capture thread has just destroyed
  (`SIPSorceryStreamer.RtpSync.cs:164`). `LockHoldersMeetLiveEncoders` speaks of threads that hold that lock
  and does not see it.
* `relay_room_capture`: a viewer's `CleanupAsync` disposes of the static capture (`Messaging.cs:711-718`), which is
  the one the host streams from, although a viewer has none of its own
  (`ViewerPath.cs:161`). A host on the media relay never registers, so that a second client waits its
  thirty seconds, is told `NO_HOST`, and its clean-up stops the picture of the host.
  `HostKeepsCapture` proves how far the damage goes: the clean-up of a viewer is the one step that takes
  its capture from a host.
* The callback of a handler may have read the streamer (`Phase2.cs:612`) when `CleanupAsync` disposes of it and
  `RemoveHost` runs: it then registers a streamer that is disposed of and a configuration, or, where `RemoveHost`
  runs in between, a configuration without a streamer. Later viewers join the dead encoder until the next host
  registers.
* `RemoveHost` tests `_hostStreamer` and reads it again (`SharedEncoderManager.cs:132-134`). If a late
  `SetHostStreamer(null)` of a former host's callback comes in between, it throws, the claim is never released and every later
  client is a viewer of nobody (`SomeEndBroken`, which `OneHost` and `ClaimComesBack` name as the only exception).
* A viewer that falls silent keeps its handler: `CloseOutputAsync` of the adapter
  (`MultiClientRelayBridge.cs:203`) wakes no receive, and the viewer has no `_fatalErrorCts`. It ends
  when the relay reports the next departure, which closes the adapters of all clients.
* `OnStreamerReady` may come after the clean-up of its handler: a host then un-registers
  whoever is host by that time (`SetHostStreamer(null)`, `SharedEncoderManager.cs:84`, which throws after it
  has forgotten the streamer), a viewer is added and never removed.
* `MaxLogins = 2`: each login makes a new manager (`SharedEncoderManager.cs:79`) while the handlers of the last
  login may still run. Two hosts are then active, and the end of the old one releases the
  claim of the new manager, so that even one bridge gets two.
* A client that joins while the host cleans up is a viewer of nobody and is sent away after thirty
  seconds: the claim is released last (`ServerService.cs:635`), which `OneHost` needs.

**Deadlock** checking is off where the modelled part ends with its session: after
clean-up, after the relay is left, after a log-out, when the server is down
with no start left, when the streamer is disposed of, when every handler has finished, and where a bound is reached.
`EncoderLocks` states its own form of deadlock, since threads that wait for each other need
not stop the rest.

**Fairness.** The tasks of the thread pool go on when they can: weak fairness for each
task, loop and reader. A send ends, with success or after its five-second
time-out. In `RelayVideoQueue` time passes, the encoder goes on producing frames,
and strong fairness is assumed for the two things the code can only hope for: the
encoder sometimes delivers the key frame it was asked for within the chunk limit,
and sometimes a frame finds room in the queue. In `MediaRelay` nothing forces a
path to come up, to fail, or a session to end, except that a session whose socket
is dead ends. In `RelayReconnect` nothing forces a connect to succeed or a
connection to drop. In `DisplayGuard` only Windows is fair: it runs the watchdogs and
the start-up task; no client, exit or restart is forced. In `RelayPresence` the request for tokens ends, and the
reconnect loop is served with strong fairness: `SemaphoreSlim` hands the lock to its
waiters in their order, while other loops take it again and again. In `RelayRoom` a handler goes on until
it waits, and its waits end at their limits or when its adapter is closed; nothing forces a
client to come, to leave or to be heard of no more, and a silent viewer may stay for ever.
In `encoder_recreated`
frames go on coming and sessions go on asking for the missing encoders
(`InitializeEncoders`): with both the encoder still does not come back. The other runs
of the encoders check no liveness.

## Proofs

TLAPS proves, for every value of the constants:

* `RelayVideoQueueProofs`: the type invariant and the three recovery invariants.
  They are not inductive alone. The invariant adds that no generation in
  circulation (recovered, stamped, queued or in flight) is ahead of the track's
  taint generation, that no admitted, queued or in-flight P-frame has a loss in front
  of it, and that a key frame about to be completed has been delivered whole. A stamp
  that equals the taint generation at completion is then known to be younger
  than the last loss.
* `MediaRelayProofs`: type, `SettledConsistently`, `MediaOnlyBehindGate`,
  `RelayOverP2PIsBeingLeft`, `DirectOnlyWhenQuiescent` and the refinement of
  `RelayClientView`. The invariant says that exactly the holder of the semaphore is
  at a step inside it (`LockHeld`), what its step says about mode, workers, loops and
  streamer (`Shape`), that media in flight belongs to a running loop (`FlightOwned`)
  and that the client's gate is open while a loop runs over a live socket
  (`GateOpen`).
* `RelayReconnectProofs`: type, `ConnectedIsTrue`, and that the guard is held
  exactly while a loop runs (`SingleFlight`). The invariant adds that a caller
  between connect and first read has a connection, and that whoever shows
  "connected" has started the read loop that will take it back.

* `RelayPresenceProofs`: every step of the client with its tokens is a step of
  `RelayReconnect` or leaves it alone, by construction (the lemma `IsReconnect`), so that what is proved of the connections
  holds of it too (`ShownStateStaysTrue`); the type of the tokens; and `NoTokenIsReplayed`.
  The invariant says that the lock is held exactly while one request is out, and that
  the client's token is the server's unless an answer is on its way or has been lost.
* `RelayRoomProofs`: type, `OneHost`, and `HostKeepsCapture`, which says of every step that takes the
  capture from a host that a viewer cleans up in it. `OneHost` is nearly inductive, since only an election takes
  the claim and only the last step of a host's end releases it, whatever the callbacks write
  in between. The invariant adds `RolesFit`: no handler is there before the first login, a role comes
  with the handler, and whoever has read a manager (a viewer that has found a host, a `finally`
  block, a callback) has read that of a login, so that with one login all of them mean the same one.
* `EncoderLocksProofs`: type and the other four properties of its run, for any number of tracks, captured or not, of
  callers, encoders and operations. Locks have ranks (`Rank`): the semaphore of the
  handler, `_relayBitrateLock`, `_lock`, the `EncodeLock`s in the order of their tracks, the mutexes of the
  encoders. The invariant `IInv` says of each thread that what it has still to do leads from
  the locks it holds to none: there is a point (`Points`: the locks held, and
  whether the streamer is known to be disposed of) in front of each of its steps, and each step may be
  done at its point and leads to the next (`Effect`). A step may take only what ranks above
  everything held, except that a callback may take `_lock` (`MayTake`); dispose of an encoder only with
  its `EncodeLock` or after disposal of the streamer (`Safe`); leave the relay mode only with all
  tracks frozen (`MaySet`). `...Fragment` lemmas say so of each operation, `ConcatFragments` puts steps in
  front of others, and each action is then shown to replace the first step by a fragment with the same
  ends. With it go that the steps inside a native function are only ever the first of a
  thread (`Serves`) and meet an encoder that has been made, and that no lock is held twice (`Exclusive`).
  `NoCircleWithoutCallback` follows by looking at the lock of the greatest rank that somebody in the circle
  waits for: its holder waits for one of a rank that is greater still, unless it is a callback that waits
  for `_lock`. A capture thread in a callback holds a mutex, which ranks above its `EncodeLock`, so that it
  cannot hold that lock where all tracks are frozen: `FramesStayInRelay`.
  TLC cannot evaluate `IInv` as it stands, since it asks for a function into an infinite set; the
  steps of the argument that could be wrong are those of `Effect`, and a lemma for each operation shows
  that its steps satisfy them.
* `DisplayGuardProofs`: type, `FirstSessionIsGuarded` and `RestoreIsComplete`, for any number of sessions, with
  or without starts over a restore. `lapse` is "none" from a start that is not over a restore until the second session
  of that process; the invariant `Guarded`, which implies `lapse = "none" => GuardInv`, is inductive, since a
  lapse lasts until the next start (`LapseLasts`), and a start with nothing else running brings `GuardInv` about whatever the
  processes before have left behind. `GuardInv` has a part for everything a
  restore relies on:
  - `TasksTakeTurns`: who may be at which step. Watchdogs and the start-up task wait
    while the server lives, the threads are gone when it does not, and a start restores before
    any session is there.
  - `SnapshotIsKept`, with `Saved`: the snapshot is whole, or the session that is rewriting it
    holds it (the file is `Torn` between truncation and write).
  - `MarkerIsKept` and `ChangesAreRecorded`: until a clean-up the marker is there; what has been
    detached is noted before it can be needed, and the watchdog waits once the session streams.
  - `ReadersAgree`: a session and its hotkey may restore side by side, and a watchdog
    beside a start-up task; what they have read agrees with what is saved.
  - `PhysicalIsAttached`, `VddIsDisabled`, `RestoreGoesOn`: what each restore has done after each of its
    steps, which the others then do not undo. `RestoreIsComplete` is its last step; alone it is not
    inductive, since it says nothing of a restore half done.
* `NativeEncodersProofs`: type and all six safety properties of `NativeEncoders`, for each of the three
  wrappers, any textures, rates, bitrates, depth and number of failed creations. The argument goes
  by way of a contract. `HonoursContract` says of an encode or flush that at most one frame
  goes in, under the present time of the context, and the oldest come out in order and are
  delivered as what they are, or one is lost and the call says whether it mattered;
  that the texture cache and the registered textures go together; and that a key frame asked for is
  inside, still forced, or reported lost. `EncodeHonours` and `FlushHonours` prove it of
  the operators of `NvencWrapper`, `AmfWrapper` and `QsvWrapper`; `BitrateIsSet`, `FpsIsChanged`,
  `CreateParts` and `DisposeParts` say what the other calls do. `NativeEncoders` is then
  proved from the contract alone. The invariant `InOrder` adds to the properties that what is inside
  the pipeline is older than the clock of the context and younger than what has been delivered (`Timely`),
  without which the order of stamps is not inductive; that a request was made before the present time of
  the encoder (`Recent`), so that the next frame is late enough to answer it; that a track without an
  encoder has nothing left of one (`Unset`); and that a pipeline of NVIDIA is empty between calls (`Room`).
  Its last part is about `NalUtils`: for byte sequences of any length, the native flag is right when it
  is set, the managed parser misses no key frame, and reports nothing else but for the byte an
  HEVC unit is read beyond its end.

These theorems assume what the modules assume of their constants and nothing else. In `DisplayGuard` a second
session of a process and a start while the watchdog of the last one restores break `SessionIsGuarded`
(see above); the theorems say that nothing else in the model does, whatever crashes, time-outs and
disconnections happen, and that the properties hold again from the next start that is not over a restore.

The three large modules come in lemmas of three kinds: what an operator returns (`...Parts`), that an
action keeps the invariant (`...Keeps`), and the arguments that several of these need.

What stays with TLC:

* Liveness, of every module: it rests on fairness and `ENABLED`, which the prover does not treat.
* In `NalUtils`, that the loop of the managed parser computes the predicate that stands for it
  (`MCNativeEncoders` compares them): an induction over the bytes.
* In `NativeEncoders`, the liveness of a recreated encoder; the run shows that the code does not have it.

## Not modelled

* The FFmpeg and LibAv encoders that are tried when no native one can be made: the model's
  track is then without an encoder. `EncodeNV12Bytes`, the statistics and the
  `IsAvailable` probes of the wrappers; an asynchronous transform of Intel.
* The lock of `RelayP2PState` inside `EncoderLocks`: it is held for a few assignments and
  no lock is taken under it but those of `StartRelayMediaMode`.
* Everything `PROJECT.json` lists as not modelled: packetisation, capture and cursor are GPU and
  operating-system calls with little control of their own, the user interface and the
  network helpers are I/O. The messages of the phase protocol, pairing and adaptive control have
  control worth modelling and are on the plan.
* `Native/AmfWrapper/amf` and `Native/NvencWrapper/nvenc` are the vendors' SDKs, headers and samples:
  by lines most of the C and C++ of the repository, and none of it the program's
  own. The program's own C++ is `NalUtils.h` and the three wrappers, modelled; the rest of the
  program is C#.

## Plan

1. `RelayVideoQueue`, `MediaRelay` with `RelayClientView`, `RelayReconnect` with `RelayPresence`:
   modelled, checked, their invariants proved; `RelayRoom`, `DisplayGuard`, `NativeEncoders` and
   `EncoderLocks` likewise.
2. `ResetAndCaptureSnapshot` and overlapping local sessions in the model of the displays.
3. The delays of `RelayReconnectPolicy` as a function.
4. Phase 2 negotiation, its restarts, ICE candidates and keepalive; the restart of
   Phase 2 in `MediaRelay`, which leaves `_p2pState` as it is
   (`PhaseProtocolHandler.Messaging.cs:518`); pairing, against an abstract "authorised" view.
5. Adaptive controllers (levels in bounds, no step up within a cool-down), RTP
   clocks, the fan-out of `SharedEncoderManager`, the barrier of
   `PerMonitorCapture`, the routing of the bridge, signalling server with its tokens.
6. Proofs of the invariants of 4 and 5.
