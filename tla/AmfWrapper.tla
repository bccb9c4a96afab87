----------------------------- MODULE AmfWrapper ------------------------------
(***************************************************************************)
(* AmfWrapper.cpp: a component that takes a surface, works on its own and is *)
(* asked for what is ready after every frame.                                *)
(***************************************************************************)
EXTENDS NativeEncoder

(* Smart pointers release the AMF context and the component.                 *)
AmfSteps ==
  <<Step({}, {}),                          \* factory
    Step({"amfContext"}, {}),                 \* CreateContext
    Step({}, {"amfContext"}),                 \* InitDX11
    Step({"component"}, {"amfContext"}),      \* CreateComponent
    Step({}, {"amfContext", "component"})>>   \* Init

AmfCreateEncoderInternal(e, bgra, hevc, fps, rate) ==
  CreateResults(e, {}, AmfSteps, Context(bgra, hevc, fps, rate, {"amfContext", "component"}),
                [NoDriver EXCEPT !.fps = fps, !.mean = rate])

(* The oldest n frames inside come out, each with its own time.              *)
AmfOutput(e, n, Flag(_)) ==
  LET frame == e.drv.inside
      Read(i, data) == Delivery(e, frame[i], frame[i].time, Flag(data), data)
  IN {Result(TRUE, [e EXCEPT !.drv.inside = SubSeq(frame, n + 1, Len(frame)),
                             !.sent = @ \o [i \in 1 .. n |->
                                Read(i, AccessUnit(frame[i].key, e.ctx.hevc, long[i]))]]) :
        long \in [1 .. n -> BOOLEAN]}

AmfReady(e, Flag(_)) == UNION {AmfOutput(e, n, Flag) : n \in 0 .. Len(e.drv.inside)}

(* The component forces the picture type until the call that forced it has   *)
(* gone through.  A full component takes nothing, and the call succeeds.  An *)
(* IDR also comes with every ten seconds of frames.                          *)
AmfSubmitAndDrain(e, idr) ==
  LET next == Advanced([e EXCEPT !.drv.force = @ \/ idr])
      reset == [next EXCEPT !.drv.force = @ /\ ~ idr]
      accepted == {Entered(reset, FrameOf(e, e.drv.first \/ next.drv.force \/ due)) :
                     due \in BOOLEAN}
      detect(data) == NativeDetect(data, e.ctx.hevc)
  IN {Result(FALSE, next)}
     \cup IF Len(e.drv.inside) = Depth
          THEN {Losing(TRUE, r.enc, idr) : r \in AmfReady(reset, detect)}
          ELSE UNION {AmfReady(a, detect) : a \in accepted}

(* Drain, and ask for what is ready; the key flag is not looked at.          *)
AmfFlush(e) == AmfReady(e, LAMBDA data : FALSE)

AmfDestroyEncoder(e) == Destroyed(e, {"amfContext", "component"})

AmfEncodeTexture(e, idr) == {Losing(FALSE, e, idr)} \cup AmfSubmitAndDrain(e, idr)

AmfEncodeBgraTexture(e, tex, idr) ==
  {Losing(FALSE, e, idr)} \cup IF e.ctx.bgra THEN AmfSubmitAndDrain(e, idr) ELSE {}

(* Mutant: the rate is noted whether the property was set or not.            *)
BitrateWithoutResult(e, rate) ==
  {Result(FALSE, [e EXCEPT !.ctx.bitrate = rate]),
   Result(TRUE, [e EXCEPT !.drv.mean = rate, !.ctx.bitrate = rate])}

AmfSetBitrate(e, rate) ==
  {Result(FALSE, e), Result(TRUE, [e EXCEPT !.drv.mean = rate, !.ctx.bitrate = rate])}

AmfSetFps(e, fps) ==
  {Result(FALSE, e), Result(TRUE, [e EXCEPT !.drv.fps = fps, !.ctx.fps = fps])}
=============================================================================
