---------------------------- MODULE NativeEncoder ----------------------------
(***************************************************************************)
(* What the three native encoder wrappers (Native/) share: the state of an  *)
(* encoder, the driver or Media Foundation transform behind it, and how a   *)
(* frame that comes out of it reaches the program.                          *)
(*                                                                         *)
(* A native function is an operator from the state of the encoder to the    *)
(* set of its results, one for each way the calls it makes can end, so that *)
(* a caller that makes two calls composes two operators.                    *)
(***************************************************************************)
EXTENDS NalUtils, FiniteSets

CONSTANTS
  Textures,    \* capture textures a BGRA encoder is handed
  FpsValues,   \* frame rates the program asks for
  Bitrates,    \* target bitrates
  Depth        \* frames an AMF component or a transform buffers

ASSUME NativeEncoderAssumption ==
  /\ FpsValues \subseteq 1 .. 120 /\ FpsValues # {}
  /\ Bitrates \subseteq Nat \ {0} /\ Bitrates # {}
  /\ Depth \in Nat \ {0}
  /\ "none" \notin Textures

NoTexture == "none"

-----------------------------------------------------------------------------
(* The context structure; owns stands for the pointers in it that are set.   *)
NoContext ==
  [alive |-> FALSE, bgra |-> FALSE, hevc |-> FALSE, fps |-> 0, bitrate |-> 0, pts |-> 0,
   cached |-> NoTexture, owns |-> {}]

Context(bgra, hevc, fps, rate, owns) ==
  [NoContext EXCEPT !.alive = TRUE, !.bgra = bgra, !.hevc = hevc, !.fps = fps,
                    !.bitrate = rate, !.owns = owns]

(* The driver's side: its settings, the frames inside, the textures that are *)
(* registered with it, a picture type that is still forced, whether a frame  *)
(* has been accepted yet and whether the transform has a codec interface.    *)
NoDriver ==
  [fps |-> 0, mean |-> 0, max |-> 0, inside |-> << >>, registered |-> {},
   force |-> FALSE, first |-> TRUE, api |-> FALSE]

Resources == {"device", "context", "library", "session", "texture", "registration",
              "bitstream", "amfContext", "component", "platform", "manager", "transform", "codecApi"}

NoEncoder ==
  [ctx |-> NoContext, drv |-> NoDriver, held |-> [r \in Resources |-> 0], failed |-> 0,
   sent |-> << >>, last |-> -1]

(* What an encoder has delivered is history: sent is what its last call       *)
(* delivered, last the time of the frame before that.                        *)
Remembered(e) ==
  IF e.sent = << >> THEN e ELSE [e EXCEPT !.last = e.sent[Len(e.sent)].time, !.sent = << >>]

(* lost: the call has lost a key frame that was asked for.                   *)
Result(ok, e) == [ok |-> ok, enc |-> e, lost |-> FALSE]
Losing(ok, e, key) == [ok |-> ok, enc |-> e, lost |-> key]

-----------------------------------------------------------------------------
(* Creation is a sequence of calls.  One that fails gives back what it names *)
(* in undo; gets is what it has acquired otherwise.                          *)
Step(gets, undo) == [gets |-> gets, undo |-> undo]

GotBefore(start, steps, i) == start \cup UNION {steps[j].gets : j \in 1 .. i - 1}

Adding(held, set, n) == [r \in Resources |-> IF r \in set THEN held[r] + n ELSE held[r]]

CreateResults(e, start, steps, ctx, drv) ==
  {Result(FALSE, [e EXCEPT !.held = Adding(@, GotBefore(start, steps, i) \ steps[i].undo, 1),
                           !.failed = @ + 1]) : i \in 1 .. Len(steps)}
  \cup {Result(TRUE, [e EXCEPT !.held = Adding(@, ctx.owns, 1), !.ctx = ctx, !.drv = drv,
                               !.sent = << >>, !.last = -1])}

(* Mutant: what the context does not point to is released all the same.      *)
ReleasedUnset(e, releases) ==
  [e EXCEPT !.held = Adding(@, releases, -1), !.ctx = NoContext, !.drv = NoDriver,
            !.sent = << >>, !.last = -1]

Destroyed(e, releases) ==
  [e EXCEPT !.held = Adding(@, e.ctx.owns \cap releases, -1), !.ctx = NoContext, !.drv = NoDriver,
            !.sent = << >>, !.last = -1]

-----------------------------------------------------------------------------
(* Time stamps count 100 ns; a frame takes the one of the context.           *)
Advanced(e) == [e EXCEPT !.ctx.pts = @ + 10000000 \div e.ctx.fps]
FrameOf(e, key) == [time |-> e.ctx.pts, key |-> key]

Entered(e, frame) == [e EXCEPT !.drv.inside = Append(@, frame), !.drv.first = FALSE]

(* What an encoder writes: start codes of three or four bytes, parameter     *)
(* sets in front of an IDR slice, or the slice of another picture.           *)
Nal(long, bytes) == (IF long THEN <<0, 0, 0, 1>> ELSE <<0, 0, 1>>) \o bytes \o <<136>>
AccessUnit(key, hevc, long) ==
  IF key THEN Nal(long, IF hevc THEN <<64, 1>> ELSE <<103>>)
              \o Nal(long, IF hevc THEN <<38, 1>> ELSE <<101>>)
         ELSE Nal(long, IF hevc THEN <<2, 1>> ELSE <<65>>)

(* Mutant: the flag of the native side is taken as it is.                    *)
TrustNative(native, data, hevc) == native

(* The managed callback looks for itself when the native side says no.       *)
ReportedKey(native, data, hevc) == native \/ IsKeyframe(data, hevc, 0)

(* What reaches OnEncodedData, and which frame it really is.                 *)
Delivery(e, frame, time, native, data) ==
  [time |-> time, due |-> frame.time, key |-> frame.key,
   reported |-> ReportedKey(native, data, e.ctx.hevc)]

(* A frame is read by the driver, and the callback is made.                  *)
DeliverResults(e, frame, time, Flag(_)) ==
  {[e EXCEPT !.sent = Append(@, Delivery(e, frame, time, Flag(data), data))] :
     data \in {AccessUnit(frame.key, e.ctx.hevc, long) : long \in BOOLEAN}}
=============================================================================
