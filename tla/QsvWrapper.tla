----------------------------- MODULE QsvWrapper ------------------------------
(***************************************************************************)
(* QsvWrapper.cpp: a Media Foundation transform that is handed one sample    *)
(* and asked for at most one per call.                                       *)
(***************************************************************************)
EXTENDS NativeEncoder

(* What FindQsvEncoder's and the later failures release.                     *)
QsvBeforeTransform == {"manager", "device", "context", "platform"}

(* Mutant: the messages that start the stream are checked by CHECK_HR too.   *)
StartCheckedByMacro(api) ==
  <<Step({"platform", "device", "context"}, {}), Step({"manager"}, {}), Step({}, {}),
    Step({"transform"}, QsvBeforeTransform), Step({}, {}),
    Step(IF api THEN {"codecApi"} ELSE {}, QsvBeforeTransform \cup {"transform"}), Step({}, {}),
    Step({"texture"}, QsvBeforeTransform \cup {"transform", "codecApi"})>>

(* The calls of the creation: those checked by CHECK_HR release nothing.     *)
QsvSteps(api) ==
  LET all == QsvBeforeTransform \cup {"transform", "codecApi"} IN
  <<Step({"platform", "device", "context"}, {}),     \* MFStartup
    Step({"manager"}, {}),                           \* device manager: CHECK_HR
    Step({}, {}),                                    \* ResetDevice: CHECK_HR
    Step({"transform"}, QsvBeforeTransform),         \* FindQsvEncoder
    Step({}, {}),                                    \* media types: CHECK_HR
    Step(IF api THEN {"codecApi"} ELSE {}, QsvBeforeTransform \cup {"transform"}),  \* SetInputType
    Step({}, all),                                   \* start of streaming
    Step({"texture"}, all)>>                         \* staging texture

QsvCreateEncoderInternal(e, bgra, hevc, fps, rate) ==
  UNION {LET steps == QsvSteps(api)
             owns == GotBefore({}, steps, Len(steps) + 1)
         IN CreateResults(e, {}, steps, Context(bgra, hevc, fps, rate, owns),
                          [NoDriver EXCEPT !.fps = fps, !.mean = rate, !.max = rate,
                                           !.api = api]) :
         api \in BOOLEAN}

(* The oldest frame inside comes out, if any is ready, under the time of the *)
(* sample that has just gone in.                                             *)
QsvProcessOutput(e, sampleTime) ==
  {Result(TRUE, e)}
  \cup IF e.drv.inside = << >> THEN {}
       ELSE LET frame == Head(e.drv.inside)
                rest == [e EXCEPT !.drv.inside = Tail(@)]
            IN {Losing(TRUE, rest, frame.key)}
               \cup {Result(TRUE, r) :
                       r \in DeliverResults(rest, frame, sampleTime,
                                            LAMBDA data : NativeDetect(data, e.ctx.hevc))}

(* A key frame is forced through the codec interface, if there is one, and   *)
(* stays forced for the next sample when ProcessInput fails.                 *)
QsvEncodeTexture(e, idr) ==
  LET next == Advanced([e EXCEPT !.drv.force = @ \/ (idr /\ e.drv.api)])
      key == e.drv.first \/ next.drv.force
      entered == Entered([next EXCEPT !.drv.force = FALSE], FrameOf(e, key))
      ignored == idr /\ ~ key
      Forced(results) == {Losing(r.ok, r.enc, r.lost \/ ignored) : r \in results}
  IN {Losing(FALSE, e, idr),                          \* no input buffer or sample
      Losing(FALSE, next, idr /\ ~ e.drv.api)}        \* ProcessInput
     \cup IF Len(e.drv.inside) = Depth THEN {}
          ELSE Forced({Result(FALSE, entered)}        \* no output buffer or sample
                      \cup QsvProcessOutput(entered, e.ctx.pts))

QsvEncodeBgraTexture(e, tex, idr) ==
  IF e.ctx.bgra THEN QsvEncodeTexture(e, idr) ELSE {Losing(FALSE, e, idr)}

(* The transform is told to drain; nobody asks it for the frames.            *)
QsvFlush(e) == {Result(TRUE, e)}

QsvDestroyEncoder(e) ==
  Destroyed(e, {"transform", "codecApi", "texture", "manager", "context", "device", "platform"})

(* The mean rate, or the maximal one where the transform refuses that.       *)
QsvSetBitrate(e, rate) ==
  {Result(FALSE, e)}
  \cup IF ~ e.drv.api THEN {}
       ELSE {Result(TRUE, [e EXCEPT !.drv.mean = rate, !.ctx.bitrate = rate]),
             Result(TRUE, [e EXCEPT !.drv.max = rate, !.ctx.bitrate = rate])}

QsvSetFps(e, fps) == {Result(FALSE, e)}
=============================================================================
