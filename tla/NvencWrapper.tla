---------------------------- MODULE NvencWrapper -----------------------------
(***************************************************************************)
(* NvencWrapper.cpp: a session that takes a frame and gives it back in the   *)
(* same call (no B-frames, infinite GOP), fed from a registered texture.     *)
(***************************************************************************)
EXTENDS NativeEncoder

(* Mutant: the reconfiguration uses the rate the encoder was running at.     *)
ConfigureKeepsFps(drv, fps, rate) == [drv EXCEPT !.mean = rate]

ConfigureNvencConfig(drv, fps, rate) == [drv EXCEPT !.fps = fps, !.mean = rate]

(* The calls of the creation, and what the code releases when one fails: the *)
(* references to the device and its context are released nowhere.            *)
NvencSteps(bgra) ==
  LET input == IF bgra THEN {} ELSE {"texture", "registration"} IN
  <<Step({"library"}, {}),                                \* LoadNvencLibrary
    Step({"session"}, {"library"}),                       \* API and session
    Step({}, {"session", "library"})>>                    \* preset, initialisation
  \o (IF bgra THEN << >>
      ELSE <<Step({"texture"}, {"session", "library"}),
             Step({"registration"}, {"texture", "session", "library"})>>)
  \o <<Step({"bitstream"}, input \cup {"session", "library"})>>

NvencCreateEncoderInternal(e, bgra, hevc, fps, rate) ==
  LET steps == NvencSteps(bgra)
      owns == GotBefore({"device", "context"}, steps, Len(steps) + 1)
  IN CreateResults(e, {"device", "context"}, steps, Context(bgra, hevc, fps, rate, owns),
                   ConfigureNvencConfig(NoDriver, fps, rate))

(* The bitstream is locked, the picture type or the data tell a key frame.   *)
NvencRetrieveOutput(e, frame) ==
  {Losing(TRUE, e, frame.key)}
  \cup {Result(TRUE, r) : r \in UNION {
          DeliverResults(e, frame, frame.time, LAMBDA data : says \/ NativeDetect(data, e.ctx.hevc)) :
            says \in {FALSE, frame.key}}}

(* Map, encode, unmap, retrieve.  The time is taken before the encoder runs. *)
NvencPicture(e, idr) ==
  LET frame == FrameOf(e, idr \/ e.drv.first)
      next == Advanced(e)
  IN {Losing(FALSE, e, idr), Losing(FALSE, next, idr)}
     \cup NvencRetrieveOutput([next EXCEPT !.drv.first = FALSE], frame)

(* An encoder in BGRA mode has no staging texture to map.                    *)
NvencEncodeTexture(e, idr) ==
  IF e.ctx.bgra THEN {Losing(FALSE, e, idr)} ELSE NvencPicture(e, idr)

(* Mutant: a failed registration leaves the old texture in the cache.        *)
KeepCached(e) == [e EXCEPT !.drv.registered = {}]

Unregistered(e) == [e EXCEPT !.drv.registered = {}, !.ctx.cached = NoTexture]

Registered(e, tex) == [e EXCEPT !.drv.registered = @ \cup {tex}, !.ctx.cached = tex]

NvencEncodeBgraTexture(e, tex, idr) ==
  IF ~ e.ctx.bgra THEN {Losing(FALSE, e, idr)}
  ELSE IF tex = e.ctx.cached THEN NvencPicture(e, idr)
  ELSE {Losing(FALSE, Unregistered(e), idr)}
       \cup NvencPicture(Registered(Unregistered(e), tex), idr)

(* The end of the stream is signalled; nothing is read.                      *)
NvencFlush(e) == {Result(TRUE, e)}

NvencSetBitrate(e, rate) ==
  {Result(FALSE, e),
   Result(TRUE, [e EXCEPT !.drv = ConfigureNvencConfig(@, e.ctx.fps, rate),
                          !.ctx.bitrate = rate])}

(* Mutant: the clock starts again at a change of rate.                       *)
RestartedClock(e, fps) ==
  {Result(FALSE, e),
   Result(TRUE, [e EXCEPT !.drv = ConfigureNvencConfig(@, fps, e.ctx.bitrate),
                          !.ctx.fps = fps, !.ctx.pts = 0])}

NvencSetFps(e, fps) ==
  {Result(FALSE, e),
   Result(TRUE, [e EXCEPT !.drv = ConfigureNvencConfig(@, fps, e.ctx.bitrate),
                          !.ctx.fps = fps])}

NvencDestroyEncoder(e) ==
  Destroyed(e, {"bitstream", "registration", "session", "texture", "context", "device", "library"})
=============================================================================
