---------------------------- MODULE EncoderLocks -----------------------------
(***************************************************************************)
(* Who may wait for whom around the video encoders of SIPSorceryStreamer:    *)
(* the threads that capture, the callers of the streamer's operations, its   *)
(* monitors (_lock, EncodeLock of each track) and the mutex inside each      *)
(* native encoder.                                                           *)
(*                                                                         *)
(* An operation is the sequence of the steps that take or give back a lock,  *)
(* or touch an encoder; a thread has the steps it still has to do.  A step   *)
(* that calls something puts the steps of that in front of the others, and   *)
(* a loop those of its next track.                                           *)
(***************************************************************************)
EXTENDS Integers, Sequences

CONSTANTS
  TrackCount,   \* monitors of the session
  Captured,     \* those that are captured, each on a thread of its own; the
                \* others are paused
  CallerCount,  \* threads that run the operations of the streamer
  MaxEncoders,  \* bound on the encoders made for a track; later ones fail
  MaxCalls      \* bound on the operations the callers start

ASSUME EncoderLocksAssumption ==
  /\ {TrackCount, CallerCount, MaxEncoders, MaxCalls} \subseteq Nat \ {0}
  /\ Captured \subseteq 1 .. TrackCount

Tracks == 1 .. TrackCount
Callers == TrackCount + 1 .. TrackCount + CallerCount
Threads == Tracks \cup Callers    \* the capture thread of a track has its number

VARIABLES
  todo,      \* the steps each thread has still to do
  held,      \* the locks it holds, the last one taken at the end
  encoder,   \* track.Encoder, the number of the encoder, or 0
  context,   \* the state of each encoder made
  tracks,    \* _tracks
  mode,      \* relay: RelayMediaMode; workers: relay workers run and frames
             \* are accepted; disposed: _disposed
  calls      \* operations the callers have started

vars == <<todo, held, encoder, context, tracks, mode, calls>>

-----------------------------------------------------------------------------
StreamLock == <<"stream", 0, 0>>                \* SIPSorceryStreamer._lock
EncodeLock(t) == <<"encode", t, 0>>
RelayBitrateLock == <<"relay", 0, 0>>
RelayLifecycle == <<"lifecycle", 0, 0>>         \* the handler's semaphore
EncodeMutex(t, n) == <<"mutex", t, n>>          \* std::mutex: not reentrant

Do(what, name, t, n) == [do |-> what, name |-> name, track |-> t, number |-> n]
Enter(l) == Do("enter", l[1], l[2], l[3])
Exit(l) == Do("exit", l[1], l[2], l[3])
(* The lock a step has to take first, or gives back.                         *)
LockOf(step) ==
  IF step.do \in {"enter", "exit"} THEN <<step.name, step.track, step.number>>
  ELSE EncodeMutex(step.track, step.number)

With(l, steps) == <<Enter(l)>> \o steps \o <<Exit(l)>>
(* A loop that has still to do the tracks of T.                              *)
Each(name, T) == <<[do |-> "each", name |-> name, rest |-> T]>>

Call(function, t) == <<Do("call", function, t, 0)>>
Create(t) == <<Do("create", "encoder", t, 0)>>
Forget(t) == <<Do("null", "encoder", t, 0)>>
Over(name) == <<Do("over", name, 0, 0)>>        \* a loop over _tracks
Set(name, value) == <<Do("set", name, 0, IF value THEN 1 ELSE 0)>>

-----------------------------------------------------------------------------
(* The operations.                                                           *)
RequestKeyframe == With(StreamLock, << >>)

DisposeEncoder(t) == Call("Dispose", t) \o Forget(t)

(* The encoder is made anew for textures of another size.                    *)
Recreate(t) == DisposeEncoder(t) \o Create(t)

PushTexture(t) == With(EncodeLock(t), <<Do("frame", "encoder", t, 0)>>)
EnsureEncoder(t) == With(EncodeLock(t), <<Do("ensure", "encoder", t, 0)>>)

(* Mutant: a frame asks for a key frame the way the callers do.              *)
RequestingFrame(t, fits, pending) ==
  (IF fits THEN << >> ELSE Recreate(t)) \o RequestKeyframe \o Call("Encode", t)

(* pending: a callback has left a bitrate.                                   *)
FrameSteps(t, fits, pending) ==
  (IF fits THEN << >> ELSE Recreate(t))
  \o (IF pending THEN Call("SetBitrate", t) ELSE << >>) \o Call("Encode", t)

InitializeEncoders == With(StreamLock, Over("Initialize"))
ForceReinitializeEncoders == With(StreamLock, Over("Invalidate")) \o InitializeEncoders
ResetSyncState == With(StreamLock, Over("Flush"))

(* The tracks are copied under the lock and worked on after it.              *)
Copied == {"SetBitrate", "SetFps", "Stop"}
Snapshot(name) == <<Enter(StreamLock)>> \o Over(name)
ForceSetBitrate == Snapshot("SetBitrate")
UpdateConfig == Snapshot("SetFps")

ApplyRelayBitratePolicy == With(RelayBitrateLock, ForceSetBitrate)

StartRelayMediaMode ==
  With(RelayLifecycle,
       Set("workers", TRUE) \o Set("relay", TRUE) \o InitializeEncoders \o ApplyRelayBitratePolicy
       \o ResetSyncState \o Each("Request", Tracks))

StopRelayMediaMode ==
  With(RelayLifecycle,
       Set("workers", FALSE) \o Snapshot("Stop")
       \o Each("Request", Tracks) \o ApplyRelayBitratePolicy)

(* Stop comes first and takes the lock too.                                  *)
Dispose == Set("disposed", TRUE) \o RequestKeyframe \o With(StreamLock, Over("Dispose"))

(* Mutant: the locks of the tracks are held one after another.               *)
OneByOne(t, inside) == With(EncodeLock(t), << >>) \o inside

(* Mutant: the lock of the first track is never given back.                  *)
LeavesOne(t, inside) ==
  IF t = 1 THEN <<Enter(EncodeLock(t))>> \o inside ELSE With(EncodeLock(t), inside)

(* The callbacks of every encoder are frozen while the transport changes: the *)
(* locks of all tracks are held in it, and given back in reverse.            *)
Frozen(t, inside) == With(EncodeLock(t), inside)

(* Mutant: an encoder that refuses its rate is disposed of without its lock. *)
DisposeUnlocked(t) == DisposeEncoder(t)

DisposeRefusing(t) == With(EncodeLock(t), DisposeEncoder(t))

(* What a loop may do with a track.  A paused one is left alone, and that     *)
(* includes an encoder that has refused its rate.                            *)
Body(name, t) ==
  CASE name = "Initialize" -> {EnsureEncoder(t)}
    [] name = "Invalidate" -> {<< >>, With(EncodeLock(t), << >>)}
    [] name = "Flush" -> {Call("Flush", t)}
    [] name = "Dispose" -> {DisposeEncoder(t)}
    [] name = "SetBitrate" -> {With(EncodeLock(t), Call("SetBitrate", t))}
    [] name = "SetFps" -> {With(EncodeLock(t), Call("SetFps", t))}
    [] name = "Refused" -> {With(EncodeLock(t), << >>), DisposeRefusing(t)}
    [] name = "Request" -> {RequestKeyframe}

(* What comes behind a loop that has run, and behind one without tracks.  No  *)
(* encoder may have taken the new rate; they get their bitrate again, unless  *)
(* the resolution changes too.                                               *)
Behind(name) ==
  CASE name = "Dispose" -> {Set("tracks", FALSE)}
    [] name = "Stop" -> {Each("Flush", Tracks) \o Set("relay", FALSE)}
    [] name = "SetFps" -> {<< >>, Snapshot("SetBitrate"), Each("Refused", Tracks),
                           Each("Refused", Tracks) \o Snapshot("SetBitrate")}
    [] OTHER -> {<< >>}

Without(name) ==
  CASE name = "Dispose" -> Set("tracks", FALSE)
    [] name = "Stop" -> Set("relay", FALSE)
    [] OTHER -> << >>

-----------------------------------------------------------------------------
Init ==
  /\ todo = [th \in Threads |-> << >>]
  /\ held = [th \in Threads |-> << >>]
  /\ encoder = [t \in Tracks |-> 1]
  /\ context = [t \in Tracks |-> <<"live">>]
  /\ tracks = Tracks
  /\ mode \in {[relay |-> relay, workers |-> relay, disposed |-> FALSE] : relay \in BOOLEAN}
  /\ calls = 0

(* A captured frame: PushBgraTexture, PushTexture.                           *)
Capture(t) ==
  /\ todo[t] = << >> /\ ~ mode.disposed /\ t \in tracks /\ encoder[t] # 0
  /\ todo' = [todo EXCEPT ![t] = PushTexture(t)]
  /\ UNCHANGED <<held, encoder, context, tracks, mode, calls>>

(* Callers are alike: the first that is idle starts the operation.           *)
Operate(c, steps) ==
  /\ todo[c] = << >> /\ \A b \in Callers : b < c => todo[b] # << >>
  /\ calls < MaxCalls /\ ~ mode.disposed
  /\ todo' = [todo EXCEPT ![c] = steps]
  /\ calls' = calls + 1
  /\ UNCHANGED <<held, encoder, context, tracks, mode>>

-----------------------------------------------------------------------------
First(th) == todo[th][1]
Is(th, what) == todo[th] # << >> /\ First(th).do = what

Holds(th, l) == \E i \in 1 .. Len(held[th]) : held[th][i] = l
Waits(th) == Is(th, "enter") \/ Is(th, "native") \/ Is(th, "close")
Free(th, l) ==
  /\ \A other \in Threads \ {th} : ~ Holds(other, l)
  /\ l[1] = "mutex" => ~ Holds(th, l)

(* The first step of th is done, steps have come in its place, and th holds  *)
(* locks.  The locks that are given back next are given back at once: no     *)
(* other thread can tell.                                                    *)
Goes(th, steps, locks) ==
  LET rest == steps \o Tail(todo[th]) IN
  \E n \in 0 .. Len(rest) :
    /\ \A i \in 1 .. n : rest[i].do = "exit"
    /\ n < Len(rest) => rest[n + 1].do # "exit"
    /\ todo' = [todo EXCEPT ![th] = SubSeq(rest, n + 1, Len(rest))]
    /\ held' = [held EXCEPT ![th] = SubSeq(locks, 1, Len(locks) - n)]

Doing(th, steps) == Goes(th, steps, held[th])

TakeLock(th) ==
  LET l == LockOf(First(th)) IN
  /\ Is(th, "enter") /\ Free(th, l)
  /\ Goes(th, << >>, Append(held[th], l))
  /\ UNCHANGED <<encoder, context, tracks, mode, calls>>

(* The first track of a loop, and the loop over the others behind it.        *)
Iterate(th, before, name, T) ==
  /\ IF T = {} THEN Doing(th, before \o Without(name))
     ELSE LET t == CHOOSE u \in T : \A v \in T : u <= v
              rest == T \ {t}
          IN \E next \in IF rest = {} THEN Behind(name) ELSE {Each(name, rest)} :
               IF name = "Stop" THEN Doing(th, before \o Frozen(t, next))
               ELSE \E body \in Body(name, t) : Doing(th, before \o body \o next)
  /\ UNCHANGED <<encoder, context, tracks, mode, calls>>

(* Where _tracks is copied the lock is given back before the loop begins.    *)
LoopOver(th) ==
  /\ Is(th, "over")
  /\ Iterate(th, IF First(th).name \in Copied THEN <<Exit(StreamLock)>> ELSE << >>, First(th).name, tracks)

GoOn(th) == Is(th, "each") /\ Iterate(th, << >>, First(th).name, First(th).rest)

SetMode(th) ==
  /\ Is(th, "set") /\ Doing(th, << >>)
  /\ IF First(th).name = "tracks" THEN tracks' = {} /\ mode' = mode
     ELSE mode' = [mode EXCEPT ![First(th).name] = First(th).number = 1] /\ tracks' = tracks
  /\ UNCHANGED <<encoder, context, calls>>

(* What a capture thread does with the EncodeLock: it reduces the bitrate     *)
(* because the channel is congested, or it has the frame encoded.            *)
HandleFrame(th) ==
  LET t == First(th).track IN
  /\ Is(th, "frame")
  /\ \/ Doing(th, Call("SetBitrate", t))
     \/ \E fits, pending \in BOOLEAN : Doing(th, FrameSteps(t, fits, pending))
  /\ UNCHANGED <<encoder, context, tracks, mode, calls>>

(* The encoder fits, or the size is unknown, or it is made anew.             *)
EnsureEncoderMatchesResolution(th) ==
  /\ Is(th, "ensure")
  /\ Doing(th, << >>) \/ Doing(th, Recreate(First(th).track))
  /\ UNCHANGED <<encoder, context, tracks, mode, calls>>

CreateEncoder(th) ==
  LET t == First(th).track IN
  /\ Is(th, "create") /\ Doing(th, << >>)
  /\ IF Len(context[t]) = MaxEncoders THEN UNCHANGED <<encoder, context>>
     ELSE /\ context' = [context EXCEPT ![t] = Append(@, "live")]
          /\ encoder' = [encoder EXCEPT ![t] = Len(context[t]) + 1]
  /\ UNCHANGED <<tracks, mode, calls>>

ForgetEncoder(th) ==
  /\ Is(th, "null") /\ Doing(th, << >>)
  /\ encoder' = [encoder EXCEPT ![First(th).track] = 0]
  /\ UNCHANGED <<context, tracks, mode, calls>>

-----------------------------------------------------------------------------
(* The managed wrapper looks at its handle and, but for Flush, at _disposed;  *)
(* the native function at initialized; then it takes the mutex.              *)
CallWrapper(th) ==
  LET call == First(th)
      t == call.track
      n == encoder[t]
      open == {"live"} \cup IF call.name = "Flush" THEN {"disposing"} ELSE {}
  IN /\ Is(th, "call") /\ call.name # "Dispose"
     /\ IF n # 0 /\ context[t][n] \in open
        THEN Doing(th, <<Do("native", call.name, t, n)>>)
        ELSE Doing(th, << >>)
     /\ UNCHANGED <<encoder, context, tracks, mode, calls>>

(* Dispose of the wrapper, once; the native side clears initialized under     *)
(* the mutex and deletes the context, mutex and all, after it.               *)
DisposeWrapper(th) ==
  LET t == First(th).track
      n == encoder[t]
  IN /\ Is(th, "call") /\ First(th).name = "Dispose"
     /\ IF n # 0 /\ context[t][n] = "live"
        THEN /\ context' = [context EXCEPT ![t][n] = "disposing"]
             /\ Doing(th, <<Do("close", "closed", t, n)>>)
        ELSE Doing(th, << >>) /\ context' = context
     /\ UNCHANGED <<encoder, tracks, mode, calls>>

DestroyNative(th) ==
  LET step == First(th) IN
  /\ \/ /\ Is(th, "close") /\ Free(th, LockOf(step))
        /\ Doing(th, <<Do("delete", "freed", step.track, step.number)>>)
     \/ Is(th, "delete") /\ Doing(th, << >>)
  /\ context' = [context EXCEPT ![step.track][step.number] = step.name]
  /\ UNCHANGED <<encoder, tracks, mode, calls>>

(* The native function runs under the mutex; Encode, and Flush of the wrapper *)
(* of AMD, may make the callback, and others have to wait until it returns.  *)
(* With an encoder that has been destroyed what happens is undefined; here   *)
(* nothing does.                                                             *)
RunNative(th) ==
  LET step == First(th) IN
  /\ Is(th, "native") /\ Free(th, LockOf(step))
  /\ \/ Doing(th, << >>)
     \/ /\ step.name \in {"Encode", "Flush"} /\ ~ mode.disposed
        /\ context[step.track][step.number] \in {"live", "disposing"}
        /\ Goes(th, <<Do("deliver", "frame", step.track, 0), Exit(LockOf(step))>>,
                Append(held[th], LockOf(step)))
  /\ UNCHANGED <<encoder, context, tracks, mode, calls>>

(* Mutant: the callback applies a bitrate itself instead of leaving it.      *)
ApplyBitrate(th) ==
  /\ Is(th, "deliver")
  /\ Doing(th, Call("SetBitrate", First(th).track))
  /\ UNCHANGED <<encoder, context, tracks, mode, calls>>

(* In relay mode a frame that finds the queue full, or is too large for it,   *)
(* asks for a key frame.                                                     *)
OnEncodedData(th) ==
  /\ Is(th, "deliver")
  /\ \/ Doing(th, << >>)
     \/ mode.relay /\ mode.workers /\ Doing(th, RequestKeyframe)
  /\ UNCHANGED <<encoder, context, tracks, mode, calls>>

Run(th) ==
  \/ TakeLock(th) \/ LoopOver(th) \/ GoOn(th) \/ SetMode(th)
  \/ HandleFrame(th) \/ EnsureEncoderMatchesResolution(th) \/ CreateEncoder(th) \/ ForgetEncoder(th)
  \/ CallWrapper(th) \/ DisposeWrapper(th) \/ DestroyNative(th)
  \/ RunNative(th) \/ OnEncodedData(th)

CallerStarts(c) ==
  \/ Operate(c, ForceReinitializeEncoders)
  \/ Operate(c, ResetSyncState)
  \/ Operate(c, ForceSetBitrate)
  \/ Operate(c, UpdateConfig)
  \/ ~ mode.relay /\ Operate(c, StartRelayMediaMode)
  \/ mode.relay /\ Operate(c, StopRelayMediaMode)
  \/ Operate(c, Dispose)

Next ==
  \/ \E t \in Captured : Capture(t)
  \/ \E c \in Callers : CallerStarts(c)
  \/ \E th \in Threads : Run(th)

Spec == Init /\ [][Next]_vars

-----------------------------------------------------------------------------
States == {"live", "disposing", "closed", "freed"}

(* Type invariant; a thread that has nothing to do holds nothing.            *)
TypeOK ==
  /\ encoder \in [Tracks -> 0 .. MaxEncoders]
  /\ \A t \in Tracks : /\ encoder[t] <= Len(context[t]) /\ Len(context[t]) <= MaxEncoders
                       /\ \A n \in 1 .. Len(context[t]) : context[t][n] \in States
  /\ tracks \in {{}, Tracks} /\ calls \in 0 .. MaxCalls
  /\ mode \in [relay : BOOLEAN, workers : BOOLEAN, disposed : BOOLEAN]
  /\ \A th \in Threads : todo[th] = << >> => held[th] = << >>

(* th waits for a lock that other holds.                                     *)
WaitsFor(th, other) ==
  /\ Waits(th) /\ Holds(other, LockOf(First(th)))
  /\ th # other \/ ~ Is(th, "enter")

Circular(S) == S # {} /\ \A th \in S : \E other \in S : WaitsFor(th, other)

InCallback(th) == \E i \in 1 .. Len(held[th]) : held[th][i][1] = "mutex"

(* "Lock order: _lock -> track.EncodeLock (same as capture path, no          *)
(* deadlock)" (SIPSorceryStreamer.Bitrate.cs:562): no threads wait for one   *)
(* another in a circle.                                                      *)
NoCircularWait == \A S \in SUBSET Threads : ~ Circular(S)

(* Where threads do wait in a circle, one of them is the callback of an      *)
(* encoder that asks for a key frame and so for _lock: without that request   *)
(* the operations of the streamer never block one another for good.          *)
CircleNeedsCallback ==
  \A S \in SUBSET Threads :
    Circular(S) => \E th \in S : InCallback(th) /\ LockOf(First(th)) = StreamLock

(* A thread does not wait for a mutex it holds: a callback calls nothing of  *)
(* its encoder ("SetBitrate MUST be called OUTSIDE the encode call",         *)
(* SIPSorceryStreamer.FrameSending.cs:188).                                  *)
CallbackLeavesItsEncoder == \A th \in Threads : ~ WaitsFor(th, th)

(* th uses an encoder of track t that is not, or no longer, there.           *)
UsesDead(th, t) ==
  /\ Is(th, "native") \/ Is(th, "close")
  /\ First(th).track = t /\ context[t][First(th).number] \in {"closed", "freed"}

(* Only a thread without the EncodeLock of the track can meet an encoder     *)
(* that has been destroyed under it (ResetSyncState), until the streamer is  *)
(* disposed of, which takes no EncodeLock.                                   *)
LockHoldersMeetLiveEncoders ==
  \A th \in Threads, t \in Tracks :
    UsesDead(th, t) /\ Holds(th, EncodeLock(t)) => mode.disposed

(* When a streamer that goes on leaves relay mode no frame is being encoded:  *)
(* one that started in relay mode would cross into the direct path           *)
(* (SIPSorceryStreamer.Lifecycle.cs:90-108).                                 *)
NoFrameCrossesToDirect ==
  [][mode.relay /\ ~ mode'.relay /\ ~ mode.disposed =>
       \A t \in Tracks : InCallback(t) => ~ Holds(t, EncodeLock(t))]_vars
=============================================================================
