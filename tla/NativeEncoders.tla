--------------------------- MODULE NativeEncoders ----------------------------
(***************************************************************************)
(* One video track of SIPSorceryStreamer and the native encoder it owns:     *)
(* creation and fallback, frames, key-frame requests, changes of rate, of    *)
(* resolution and of bitrate, pause, the start of a session, disposal.  Every *)
(* handler here holds the EncodeLock of the track while it calls the encoder *)
(* (ResetSyncState and Dispose do not: see EncoderLocks).                    *)
(***************************************************************************)
EXTENDS NvencWrapper, AmfWrapper, QsvWrapper

CONSTANTS
  Vendors,       \* encoders to look at
  MaxTime,       \* bound on the time stamps: an encoder gets no frame after it
  MaxTimeAfterFailure,  \* the same bound once a creation has failed
  MaxFailures    \* bound on the creations that fail: no frame after the last

ASSUME NativeEncodersAssumption ==
  /\ Vendors \subseteq {"nvenc", "amf", "qsv"}
  /\ MaxTime \in Nat /\ MaxTimeAfterFailure \in 0 .. MaxTime /\ MaxFailures \in Nat

VARIABLES
  vendor,   \* the wrapper CreateEncoderForGpu picks
  hevc,     \* the negotiated codec is H.265
  enc,      \* track.Encoder and everything below it
  track,    \* the fields of TrackInfo, the settings of the streamer
  asked     \* a key frame was asked for and is still due (history)

vars == <<vendor, hevc, enc, track, asked>>

NothingAsked == [due |-> FALSE, from |-> 0, lost |-> FALSE]

(* force ForceNextKeyframe; encoded EncodedFrames >= 1; sent SentFrames >= 1; *)
(* fps the rate of the streamer; sized Width > 0; fits the textures have the  *)
(* size of the encoder; bgra the capture delivers BGRA textures.  The bitrate *)
(* an encoder is made with is any: the controller changes it at any time.    *)
(* native: the wrapper is still picked, which the one of Intel is not again   *)
(* once it could not be made (_qsvNativeInitFailed).                         *)
(* stale and promised are history: the rate was changed while the track was  *)
(* paused, or by disposing of its encoder.                                   *)
Init ==
  /\ vendor \in Vendors /\ hevc \in BOOLEAN
  /\ enc = NoEncoder
  /\ \E fps \in FpsValues :
       track = [force |-> FALSE, encoded |-> FALSE, sent |-> FALSE, fps |-> fps,
                sized |-> TRUE, fits |-> TRUE, bgra |-> FALSE, paused |-> FALSE,
                disposed |-> FALSE, native |-> TRUE, stale |-> FALSE, promised |-> FALSE]
  /\ asked = NothingAsked

-----------------------------------------------------------------------------
(* ITextureEncoder: the wrapper of the vendor.                               *)
CreateEncoder(e, bgra, rate) ==
  CASE vendor = "nvenc" -> NvencCreateEncoderInternal(e, bgra, hevc, track.fps, rate)
    [] vendor = "amf" -> AmfCreateEncoderInternal(e, bgra, hevc, track.fps, rate)
    [] vendor = "qsv" -> QsvCreateEncoderInternal(e, bgra, hevc, track.fps, rate)

EncodeTexture(e, idr) ==
  CASE vendor = "nvenc" -> NvencEncodeTexture(e, idr)
    [] vendor = "amf" -> AmfEncodeTexture(e, idr)
    [] vendor = "qsv" -> QsvEncodeTexture(e, idr)

EncodeBgraTexture(e, tex, idr) ==
  CASE vendor = "nvenc" -> NvencEncodeBgraTexture(e, tex, idr)
    [] vendor = "amf" -> AmfEncodeBgraTexture(e, tex, idr)
    [] vendor = "qsv" -> QsvEncodeBgraTexture(e, tex, idr)

FlushEncoder(e) ==
  CASE vendor = "nvenc" -> NvencFlush(e)
    [] vendor = "amf" -> AmfFlush(e)
    [] vendor = "qsv" -> QsvFlush(e)

SetEncoderBitrate(e, rate) ==
  CASE vendor = "nvenc" -> NvencSetBitrate(e, rate)
    [] vendor = "amf" -> AmfSetBitrate(e, rate)
    [] vendor = "qsv" -> QsvSetBitrate(e, rate)

SetEncoderFps(e, fps) ==
  CASE vendor = "nvenc" -> NvencSetFps(e, fps)
    [] vendor = "amf" -> AmfSetFps(e, fps)
    [] vendor = "qsv" -> QsvSetFps(e, fps)

DisposeEncoder(e) ==
  CASE vendor = "nvenc" -> NvencDestroyEncoder(e)
    [] vendor = "amf" -> AmfDestroyEncoder(e)
    [] vendor = "qsv" -> QsvDestroyEncoder(e)

(* BGRA first, NV12 if that fails.  The FFmpeg encoder that would be tried   *)
(* next is not modelled: the track is then without a native encoder.         *)
TryInitializeEncoderWithFallback(e) ==
  LET Tries(f, bgra) == UNION {CreateEncoder(f, bgra, rate) : rate \in Bitrates}
      first == Tries(e, TRUE)
      second == UNION {Tries(r.enc, FALSE) : r \in {b \in first : ~ b.ok}}
  IN {r.enc : r \in {b \in first : b.ok} \cup second}

StillNative(e) == vendor = "qsv" => e.ctx.alive

WithinBounds(e) == e.failed <= MaxFailures
TimeIsLeft ==
  \/ enc.failed = 0 /\ enc.ctx.pts <= MaxTime
  \/ enc.failed \in 1 .. MaxFailures - 1 /\ enc.ctx.pts <= MaxTimeAfterFailure

(* What was asked for has to come from the encoder as it is now.             *)
AskedOfNew(a) == [a EXCEPT !.from = 0]
Asked(e) == [due |-> TRUE, from |-> e.ctx.pts, lost |-> FALSE]

KeyFrameSince(e, a) == \E i \in 1 .. Len(e.sent) : e.sent[i].key /\ e.sent[i].due >= a.from

(* What becomes of a request when the encoder goes from e to f.              *)
AskedAfter(a, f, lost) ==
  IF a.due /\ ~ KeyFrameSince(f, a) THEN [a EXCEPT !.lost = @ \/ lost] ELSE NothingAsked

-----------------------------------------------------------------------------
(* OnEncodedData for the frames a call has delivered: before the first key    *)
(* frame the others are dropped and ask for one.                             *)
OnEncodedData(t, e) ==
  LET keys == {i \in 1 .. Len(e.sent) : e.sent[i].reported}
  IN [t EXCEPT !.sent = @ \/ keys # {},
               !.force = @ \/ \E i \in 1 .. Len(e.sent) : ~ t.sent /\ ~ \E k \in keys : k <= i]

InitializeEncoders ==
  /\ track.sized /\ ~ enc.ctx.alive /\ track.native /\ ~ track.disposed
  /\ enc' \in TryInitializeEncoderWithFallback(enc)
  /\ WithinBounds(enc')
  /\ track' = [track EXCEPT !.encoded = FALSE, !.sent = FALSE, !.fits = TRUE,
                            !.bgra = @ \/ enc'.ctx.bgra, !.stale = FALSE,
                            !.native = StillNative(enc'),
                            !.promised = @ /\ ~ enc'.ctx.alive]
  /\ asked' = AskedOfNew(asked)
  /\ UNCHANGED <<vendor, hevc>>

(* Mutant: the counters of the old encoder are kept for the new one.         *)
KeepCounters(t, e) ==
  IF t.fits THEN {[t |-> [t EXCEPT !.sized = TRUE], e |-> e]}
  ELSE {[t |-> [t EXCEPT !.sized = TRUE, !.fits = TRUE, !.stale = FALSE,
                         !.native = StillNative(f)], e |-> f] :
          f \in TryInitializeEncoderWithFallback(DisposeEncoder(e))}

(* The encoder is made anew for textures of another size.                    *)
EnsureEncoderMatchesResolution(t, e) ==
  IF t.fits THEN {[t |-> [t EXCEPT !.sized = TRUE], e |-> e]}
  ELSE {[t |-> [t EXCEPT !.sized = TRUE, !.fits = TRUE, !.stale = FALSE, !.encoded = FALSE,
                         !.sent = FALSE, !.native = StillNative(f)], e |-> f] :
          f \in TryInitializeEncoderWithFallback(DisposeEncoder(e))}

(* Mutant: the request is cleared when the frame has been encoded.           *)
ClearAfterEncode(t, r, meanwhile) ==
  [OnEncodedData(t, r.enc) EXCEPT !.encoded = @ \/ r.ok, !.force = FALSE]

(* The request is cleared before the encoder runs, and not made again when   *)
(* it fails.  RequestKeyframe takes another lock: it may run meanwhile, and   *)
(* the callback itself runs it when the queue of the relay is full.          *)
AfterEncode(t, r, meanwhile) ==
  [OnEncodedData([t EXCEPT !.force = meanwhile], r.enc) EXCEPT !.encoded = @ \/ r.ok]

EncodeFrame(t, e, tex) ==
  LET idr == ~ t.encoded \/ t.force IN
  IF t.bgra THEN EncodeBgraTexture(e, tex, idr) ELSE EncodeTexture(e, idr)

(* PushBgraTexture, PushTexture.  A frame that asks for a key frame itself    *)
(* (input, a change of scene) is a RequestKeyframe in front of it.  Without   *)
(* an encoder the frame is left alone.                                       *)
PushFrame(tex) ==
  /\ ~ track.disposed /\ ~ track.paused /\ enc.ctx.alive /\ TimeIsLeft
  /\ \E s \in EnsureEncoderMatchesResolution(track, Remembered(enc)) :
       LET a == IF track.fits THEN asked ELSE AskedOfNew(asked) IN
       IF s.e.ctx.alive
       THEN \E r \in EncodeFrame(s.t, s.e, tex), meanwhile \in BOOLEAN :
              /\ enc' = r.enc
              /\ track' = AfterEncode(s.t, r, meanwhile)
              /\ asked' = IF meanwhile THEN Asked(r.enc) ELSE AskedAfter(a, r.enc, r.lost)
       ELSE enc' = s.e /\ track' = s.t /\ asked' = a
  /\ WithinBounds(enc')
  /\ UNCHANGED <<vendor, hevc>>

-----------------------------------------------------------------------------
RequestKeyframe ==
  /\ ~ track.disposed
  /\ track' = [track EXCEPT !.force = TRUE]
  /\ asked' = Asked(enc)
  /\ enc' = Remembered(enc)
  /\ UNCHANGED <<vendor, hevc>>

(* The start of a session: counters, a key frame, and what the pipeline held. *)
ResetSyncState ==
  /\ ~ track.disposed
  /\ \E r \in IF enc.ctx.alive THEN FlushEncoder(Remembered(enc))
           ELSE {Result(TRUE, enc)} :
       LET t == [track EXCEPT !.sent = FALSE, !.encoded = FALSE, !.force = TRUE,
                              !.paused = FALSE]
       IN /\ enc' = r.enc
          /\ track' = OnEncodedData(t, r.enc)
          /\ asked' = AskedAfter(Asked(enc), r.enc, FALSE)
  /\ UNCHANGED <<vendor, hevc>>

(* ForceSetBitrate and the adaptive controller.                              *)
SetBitrate(rate) ==
  /\ ~ track.disposed /\ enc.ctx.alive
  /\ \E r \in SetEncoderBitrate(enc, rate) : enc' = Remembered(r.enc)
  /\ UNCHANGED <<vendor, hevc, track, asked>>

(* The rate is set; the bitrate of the new range, or the one it had, is set  *)
(* after it.                                                                 *)
FpsIsSet(fps, rate) ==
  \E r \in {s \in SetEncoderFps(enc, fps) : s.ok} :
    /\ track' = [track EXCEPT !.fps = fps, !.stale = FALSE]
    /\ \E b \in SetEncoderBitrate(r.enc, rate) : enc' = Remembered(b.enc)

(* No encoder can change its rate while it runs: that of a paused track is   *)
(* left to the first frame after the pause, any other is disposed of.        *)
FpsIsRefused(fps, rate) ==
  \E r \in {s \in SetEncoderFps(enc, fps) : ~ s.ok} :
    IF track.paused
    THEN /\ track' = [track EXCEPT !.fps = fps, !.sized = FALSE, !.stale = TRUE]
         /\ \E b \in SetEncoderBitrate(r.enc, rate) : enc' = Remembered(b.enc)
    ELSE /\ track' = [track EXCEPT !.fps = fps, !.sized = FALSE, !.promised = TRUE]
         /\ enc' = DisposeEncoder(r.enc)

UpdateFps(fps, rate) ==
  /\ ~ track.disposed /\ fps # track.fps
  /\ IF enc.ctx.alive THEN FpsIsSet(fps, rate) \/ FpsIsRefused(fps, rate)
     ELSE track' = [track EXCEPT !.fps = fps] /\ enc' = enc
  /\ UNCHANGED <<vendor, hevc, asked>>

(* The resizer delivers textures of another height from now on.              *)
ChangeResolution ==
  /\ enc.ctx.alive /\ track.fits /\ ~ track.disposed
  /\ track' = [track EXCEPT !.fits = FALSE]
  /\ enc' = Remembered(enc)
  /\ UNCHANGED <<vendor, hevc, asked>>

PauseMonitor ==
  /\ ~ track.paused /\ ~ track.disposed
  /\ track' = [track EXCEPT !.paused = TRUE]
  /\ enc' = Remembered(enc)
  /\ UNCHANGED <<vendor, hevc, asked>>

ResumeMonitor ==
  /\ track.paused /\ ~ track.disposed
  /\ track' = [track EXCEPT !.paused = FALSE, !.force = TRUE]
  /\ asked' = Asked(enc)
  /\ enc' = Remembered(enc)
  /\ UNCHANGED <<vendor, hevc>>

(* A new negotiation gives the track its size back.                          *)
Negotiate ==
  /\ ~ track.sized /\ ~ track.disposed
  /\ track' = [track EXCEPT !.sized = TRUE]
  /\ enc' = Remembered(enc)
  /\ UNCHANGED <<vendor, hevc, asked>>

Dispose ==
  /\ ~ track.disposed
  /\ track' = [track EXCEPT !.disposed = TRUE]
  /\ enc' = IF enc.ctx.alive THEN DisposeEncoder(enc) ELSE enc
  /\ UNCHANGED <<vendor, hevc, asked>>

Next ==
  \/ InitializeEncoders
  \/ \E tex \in Textures : PushFrame(tex)
  \/ RequestKeyframe
  \/ ResetSyncState
  \/ \E rate \in Bitrates : SetBitrate(rate)
  \/ \E fps \in FpsValues, rate \in Bitrates : UpdateFps(fps, rate)
  \/ ChangeResolution
  \/ PauseMonitor
  \/ ResumeMonitor
  \/ Negotiate
  \/ Dispose

Spec == Init /\ [][Next]_vars

(* The capture goes on delivering frames, and sessions go on asking for the   *)
(* encoders that are missing.                                                *)
FairSpec ==
  Spec /\ WF_vars(\E tex \in Textures : PushFrame(tex)) /\ WF_vars(InitializeEncoders)

-----------------------------------------------------------------------------
Frames == [time : 0 .. MaxTime + 10000000, key : BOOLEAN]

(* Type invariant.                                                           *)
TypeOK ==
  /\ vendor \in Vendors /\ hevc \in BOOLEAN
  /\ enc.ctx.alive \in BOOLEAN /\ enc.ctx.owns \subseteq Resources
  /\ enc.ctx.cached \in Textures \cup {NoTexture}
  /\ enc.ctx.alive => enc.ctx.fps \in FpsValues /\ enc.ctx.bitrate \in Bitrates
  /\ Len(enc.drv.inside) <= Depth
  /\ \A i \in 1 .. Len(enc.drv.inside) : enc.drv.inside[i] \in Frames
  /\ enc.held \in [Resources -> Nat] /\ enc.failed \in 0 .. MaxFailures
  /\ track.fps \in FpsValues

(* What is held beyond the pointers of the encoder that exists comes from    *)
(* creations that failed: the wrapper of AMD leaves nothing behind, that of  *)
(* NVIDIA two references, that of Intel nothing once streaming has started   *)
(* (NvencWrapper.cpp:145, AmfWrapper.cpp:165, QsvWrapper.cpp:238).           *)
OnlyFailedCreatesLeak ==
  LET Surplus(r) == enc.held[r] - Cardinality(enc.ctx.owns \cap {r}) IN
  \A r \in Resources :
    CASE vendor = "amf" -> Surplus(r) = 0
      [] vendor = "nvenc" -> Surplus(r) = IF r \in {"device", "context"} THEN enc.failed ELSE 0
      [] vendor = "qsv" -> Surplus(r) \in IF r \in {"codecApi", "texture"} THEN {0}
                                           ELSE 0 .. enc.failed

(* The texture the cache names is the only one registered with the driver,   *)
(* whichever call of a change of texture failed (NvencWrapper.cpp:470-500).  *)
RegistrationMatches == enc.drv.registered = {enc.ctx.cached} \ {NoTexture}

(* The encoder runs at the rates its context says, and at the frame rate of  *)
(* the streamer unless that was changed while the track was paused.  A       *)
(* transform that refused the mean rate was given the maximal one.           *)
SettingsAgree ==
  enc.ctx.alive =>
    /\ enc.ctx.fps = enc.drv.fps
    /\ enc.ctx.bitrate \in {enc.drv.mean} \cup IF vendor = "qsv" THEN {enc.drv.max} ELSE {}
    /\ enc.ctx.fps = track.fps \/ track.stale

(* The stamps of the frames an encoder delivers increase, through changes of *)
(* rate, failed frames, full queues and flushes; none is earlier than that   *)
(* of the frame, and only a transform's may be later.                        *)
TimestampsIncrease ==
  \A i \in 1 .. Len(enc.sent) :
    /\ (IF i = 1 THEN enc.last ELSE enc.sent[i - 1].time) < enc.sent[i].time
    /\ enc.sent[i].time >= enc.sent[i].due
    /\ enc.sent[i].time # enc.sent[i].due => vendor = "qsv"

(* A frame is reported as a key frame exactly when it is one, whatever start *)
(* codes it is written with and whichever call delivers it.                  *)
ReportedKeyIsTrue ==
  \A i \in 1 .. Len(enc.sent) : enc.sent[i].reported = enc.sent[i].key

(* A key frame that was asked for is still to come (the request is pending,  *)
(* the driver holds the frame or the forced type) unless a call of the       *)
(* encoder failed on it, AMF was full, the transform has no codec interface  *)
(* or a finished frame could not be read.                                    *)
RequestLossHasCause ==
  asked.due /\ ~ asked.lost /\ enc.ctx.alive =>
    \/ track.force \/ ~ track.encoded \/ enc.drv.force
    \/ \E i \in 1 .. Len(enc.drv.inside) :
         enc.drv.inside[i].key /\ enc.drv.inside[i].time >= asked.from

(* "Encoder doesn't support runtime FPS change (QSV, LibAv) - recreate       *)
(* encoders" (SIPSorceryStreamer.Bitrate.cs:413): a track whose encoder was  *)
(* disposed of for a new rate gets an encoder again.                         *)
EncoderIsRecreated ==
  (track.promised /\ ~ enc.ctx.alive) ~> (enc.ctx.alive \/ track.disposed)
=============================================================================
