------------------------ MODULE NativeEncodersProofs -------------------------
(***************************************************************************)
(* What a track may rely on of its native encoder, whichever wrapper it is,  *)
(* for any textures, rates and bitrates, any depth of the pipeline and any    *)
(* number of creations that fail.                                            *)
(***************************************************************************)
EXTENDS NativeEncoders, FiniteSetTheorems, TLAPS

Stamped == [time : Nat, key : BOOLEAN]
Deliveries == [time : Nat, due : Nat, key : BOOLEAN, reported : BOOLEAN]

Contexts ==
  [alive : BOOLEAN, bgra : BOOLEAN, hevc : BOOLEAN, fps : Nat, bitrate : Nat, pts : Nat,
   cached : Textures \cup {NoTexture}, owns : SUBSET Resources]

Drivers ==
  [fps : Nat, mean : Nat, max : Nat, inside : Seq(Stamped), registered : SUBSET Textures,
   force : BOOLEAN, first : BOOLEAN, api : BOOLEAN]

Encoders ==
  [ctx : Contexts, drv : Drivers, held : [Resources -> Int], failed : Nat,
   sent : Seq(Deliveries), last : Nat \cup {-1}]

-----------------------------------------------------------------------------
(* What no call on a running encoder changes.                                *)
Kept(e, f) ==
  /\ f.ctx.alive = e.ctx.alive /\ f.ctx.bgra = e.ctx.bgra /\ f.ctx.hevc = e.ctx.hevc
  /\ f.ctx.owns = e.ctx.owns
  /\ f.drv.api = e.drv.api /\ f.drv.max = e.drv.max
  /\ f.held = e.held /\ f.failed = e.failed /\ f.last = e.last

(* And what only the calls that set a rate change.                           *)
SameRates(e, f) ==
  /\ f.ctx.fps = e.ctx.fps /\ f.ctx.bitrate = e.ctx.bitrate
  /\ f.drv.fps = e.drv.fps /\ f.drv.mean = e.drv.mean

(* The parts of an encoder have their types.                                 *)
LEMMA ContextPart ==
  ASSUME NEW e \in Encoders
  PROVE  /\ e.ctx \in Contexts /\ e.drv \in Drivers
         /\ e.held \in [Resources -> Int] /\ e.failed \in Nat
         /\ e.sent \in Seq(Deliveries) /\ e.last \in Nat \cup {-1}
         /\ e.ctx.fps \in Nat /\ e.ctx.pts \in Nat /\ e.drv.inside \in Seq(Stamped)
         /\ e.ctx.hevc \in BOOLEAN /\ e.ctx.alive \in BOOLEAN /\ e.ctx.bgra \in BOOLEAN
         /\ e.drv.force \in BOOLEAN /\ e.drv.first \in BOOLEAN /\ e.drv.api \in BOOLEAN
BY DEF Encoders, Contexts, Drivers

(* The clock of the context goes on with every frame.                        *)
Tick(fps) == 10000000 \div fps

(* A frame takes time.                                                       *)
LEMMA TimeGoesOn ==
  ASSUME NEW fps \in FpsValues
  PROVE  Tick(fps) \in Nat \ {0}
<1>1. fps \in 1 .. 120
  BY NativeEncoderAssumption
<1> QED BY <1>1, SMT DEF Tick

(* Taking a stamp moves the clock on and nothing else.                       *)
LEMMA AdvancedParts ==
  ASSUME NEW e \in Encoders, e.ctx.fps \in FpsValues
  PROVE  /\ Advanced(e) \in Encoders
         /\ Advanced(e).ctx.pts \in Nat /\ Advanced(e).ctx.pts > e.ctx.pts
         /\ Kept(e, Advanced(e)) /\ SameRates(e, Advanced(e))
         /\ Advanced(e).drv = e.drv /\ Advanced(e).sent = e.sent /\ Advanced(e).ctx.cached = e.ctx.cached
<1>1. Tick(e.ctx.fps) \in Nat \ {0}
  BY TimeGoesOn
<1> DEFINE pts == e.ctx.pts + Tick(e.ctx.fps)
<1>2. pts \in Nat /\ pts > e.ctx.pts
  BY <1>1, ContextPart
<1>3. Advanced(e) = [e EXCEPT !.ctx.pts = pts]
  BY SMT DEF Advanced, Tick
<1> HIDE DEF pts
<1>4. /\ Advanced(e) \in Encoders /\ Advanced(e).ctx.pts = pts
      /\ Advanced(e).drv = e.drv /\ Advanced(e).sent = e.sent /\ Advanced(e).ctx.cached = e.ctx.cached
  BY <1>2, <1>3 DEF Encoders, Contexts
<1>5. Kept(e, Advanced(e)) /\ SameRates(e, Advanced(e))
  BY <1>3 DEF Encoders, Contexts, Kept, SameRates
<1> QED BY <1>2, <1>4, <1>5

(* A frame has the time of the context.                                      *)
LEMMA FrameParts ==
  ASSUME NEW e \in Encoders, NEW key \in BOOLEAN
  PROVE  FrameOf(e, key) \in Stamped /\ FrameOf(e, key).time = e.ctx.pts /\ FrameOf(e, key).key = key
BY ContextPart DEF FrameOf, Stamped

(* What a call does to the driver.                                           *)
LEMMA DriverParts ==
  ASSUME NEW e \in Encoders, NEW f, NEW drv \in Drivers,
         f = [e EXCEPT !.drv = drv], drv.api = e.drv.api, drv.max = e.drv.max
  PROVE  f \in Encoders /\ Kept(e, f) /\ f.ctx = e.ctx /\ f.sent = e.sent /\ f.drv = drv
BY DEF Encoders, Kept

(* A frame that is accepted is the last one inside.                          *)
LEMMA EnteredParts ==
  ASSUME NEW e \in Encoders, NEW frame \in Stamped
  PROVE  LET f == Entered(e, frame) IN
         /\ f \in Encoders /\ Kept(e, f) /\ SameRates(e, f) /\ f.ctx = e.ctx /\ f.sent = e.sent
         /\ f.drv.inside = Append(e.drv.inside, frame) /\ f.drv.force = e.drv.force
         /\ f.drv.registered = e.drv.registered
<1> DEFINE drv == [e.drv EXCEPT !.inside = Append(e.drv.inside, frame), !.first = FALSE]
<1>1. Append(e.drv.inside, frame) \in Seq(Stamped)
  BY ContextPart
<1>2. /\ drv \in Drivers /\ drv.api = e.drv.api /\ drv.max = e.drv.max
      /\ drv.inside = Append(e.drv.inside, frame) /\ drv.force = e.drv.force
      /\ drv.registered = e.drv.registered /\ drv.fps = e.drv.fps /\ drv.mean = e.drv.mean
  BY <1>1, ContextPart DEF Drivers
<1>3. Entered(e, frame) = [e EXCEPT !.drv = drv]
  BY ContextPart DEF Entered, Encoders, Drivers
<1> HIDE DEF drv
<1> QED BY <1>2, <1>3, DriverParts DEF SameRates

-----------------------------------------------------------------------------
(* What is delivered                                                         *)

(* The bytes of a NAL unit: a start code, the header, the payload.           *)
LongUnit(d, b) == d \in Seq(Nat) /\ Len(d) >= 6 /\ d[1] = 0 /\ d[2] = 0 /\ d[3] = 0 /\ d[4] = 1 /\ d[5] = b
ShortUnit(d, b) == d \in Seq(Nat) /\ Len(d) >= 5 /\ d[1] = 0 /\ d[2] = 0 /\ d[3] = 1 /\ d[4] = b

SliceH264(d, long) ==
  IF long THEN LongUnit(d, 65) /\ Len(d) = 6 /\ d[6] = 136
          ELSE ShortUnit(d, 65) /\ Len(d) = 5 /\ d[5] = 136
SliceHevc(d, long) ==
  IF long THEN LongUnit(d, 2) /\ Len(d) = 7 /\ d[6] = 1 /\ d[7] = 136
          ELSE ShortUnit(d, 2) /\ Len(d) = 6 /\ d[5] = 1 /\ d[6] = 136

(* A picture that is no key frame, byte for byte.                            *)
LEMMA SliceBytes ==
  /\ SliceH264(Nal(TRUE, <<65>>), TRUE)
  /\ SliceH264(Nal(FALSE, <<65>>), FALSE)
  /\ SliceHevc(Nal(TRUE, <<2, 1>>), TRUE)
  /\ SliceHevc(Nal(FALSE, <<2, 1>>), FALSE)
<1>1. SliceH264(Nal(TRUE, <<65>>), TRUE)
  BY DEF SliceH264, Nal, LongUnit
<1>2. SliceH264(Nal(FALSE, <<65>>), FALSE)
  BY DEF SliceH264, Nal, ShortUnit
<1>3. SliceHevc(Nal(TRUE, <<2, 1>>), TRUE)
  BY DEF SliceHevc, Nal, LongUnit
<1>4. SliceHevc(Nal(FALSE, <<2, 1>>), FALSE)
  BY DEF SliceHevc, Nal, ShortUnit
<1> QED BY <1>1, <1>2, <1>3, <1>4

(* The slice of a picture that is no key frame is taken for one by nobody.   *)
LEMMA SliceH264Unseen ==
  ASSUME NEW d, NEW long \in BOOLEAN, SliceH264(d, long)
  PROVE  ~ DetectKeyframeH264(d) /\ ~ IsKeyframe(d, FALSE, 0)
<1>1. CASE long = TRUE
  <2>1. d \in Seq(Nat) /\ Len(d) = 6 /\ d[1] = 0 /\ d[2] = 0 /\ d[3] = 0 /\ d[4] = 1 /\ d[5] = 65 /\ d[6] = 136
    BY <1>1 DEF SliceH264, LongUnit
  <2>2. ~ DetectKeyframeH264(d)
    BY ONLY <2>1 DEF DetectKeyframeH264, LongStartAt, IsKeyHeaderH264
  <2>3. ~ IsKeyframe(d, FALSE, 0)
    BY ONLY <2>1 DEF IsKeyframe, LongStartAt, ShortStartAt, IsKeyHeader, IsKeyHeaderH264
  <2> QED BY <2>2, <2>3
<1>2. CASE long = FALSE
  <2>1. d \in Seq(Nat) /\ Len(d) = 5 /\ d[1] = 0 /\ d[2] = 0 /\ d[3] = 1 /\ d[4] = 65 /\ d[5] = 136
    BY <1>2 DEF SliceH264, ShortUnit
  <2>2. ~ DetectKeyframeH264(d)
    BY ONLY <2>1 DEF DetectKeyframeH264, LongStartAt, IsKeyHeaderH264
  <2>3. ~ IsKeyframe(d, FALSE, 0)
    BY ONLY <2>1 DEF IsKeyframe, LongStartAt, ShortStartAt, IsKeyHeader, IsKeyHeaderH264
  <2> QED BY <2>2, <2>3
<1> QED BY <1>1, <1>2

(* The same for H.265.                                                       *)
LEMMA SliceHevcUnseen ==
  ASSUME NEW d, NEW long \in BOOLEAN, SliceHevc(d, long)
  PROVE  ~ DetectKeyframeHEVC(d) /\ ~ IsKeyframe(d, TRUE, 0)
<1>1. CASE long = TRUE
  <2>1. d \in Seq(Nat) /\ Len(d) = 7 /\ d[1] = 0 /\ d[2] = 0 /\ d[3] = 0 /\ d[4] = 1 /\ d[5] = 2 /\ d[6] = 1 /\ d[7] = 136
    BY <1>1 DEF SliceHevc, LongUnit
  <2>2. ~ DetectKeyframeHEVC(d)
    BY ONLY <2>1 DEF DetectKeyframeHEVC, LongStartAt, IsKeyHeaderHevc
  <2>3. ~ IsKeyframe(d, TRUE, 0)
    BY ONLY <2>1 DEF IsKeyframe, LongStartAt, ShortStartAt, IsKeyHeader, IsKeyHeaderHevc
  <2> QED BY <2>2, <2>3
<1>2. CASE long = FALSE
  <2>1. d \in Seq(Nat) /\ Len(d) = 6 /\ d[1] = 0 /\ d[2] = 0 /\ d[3] = 1 /\ d[4] = 2 /\ d[5] = 1 /\ d[6] = 136
    BY <1>2 DEF SliceHevc, ShortUnit
  <2>2. ~ DetectKeyframeHEVC(d)
    BY ONLY <2>1 DEF DetectKeyframeHEVC, LongStartAt, IsKeyHeaderHevc
  <2>3. ~ IsKeyframe(d, TRUE, 0)
    BY ONLY <2>1 DEF IsKeyframe, LongStartAt, ShortStartAt, IsKeyHeader, IsKeyHeaderHevc
  <2> QED BY <2>2, <2>3
<1> QED BY <1>1, <1>2

(* A picture that is no key frame is reported as none.                       *)
LEMMA OtherPictures ==
  ASSUME NEW hevc1 \in BOOLEAN, NEW long \in BOOLEAN
  PROVE  ~ NativeDetect(AccessUnit(FALSE, hevc1, long), hevc1) /\ ~ IsKeyframe(AccessUnit(FALSE, hevc1, long), hevc1, 0)
<1>1. CASE hevc1 = FALSE
  <2>1. AccessUnit(FALSE, FALSE, long) = Nal(long, <<65>>)
    BY DEF AccessUnit
  <2>2. SliceH264(AccessUnit(FALSE, FALSE, long), long)
    BY <2>1, SliceBytes
  <2> QED BY <1>1, <2>2, SliceH264Unseen DEF NativeDetect
<1>2. CASE hevc1 = TRUE
  <2>1. AccessUnit(FALSE, TRUE, long) = Nal(long, <<2, 1>>)
    BY DEF AccessUnit
  <2>2. SliceHevc(AccessUnit(FALSE, TRUE, long), long)
    BY <2>1, SliceBytes
  <2> QED BY <1>2, <2>2, SliceHevcUnseen DEF NativeDetect
<1> QED BY <1>1, <1>2

(* An access unit that begins with the start code and the header of a         *)
(* parameter set is seen by the managed parser, whatever follows.            *)
LEMMA HeadIsSeen ==
  ASSUME NEW hevc1 \in BOOLEAN, NEW b \in Nat, IsKeyHeader(b, hevc1),
         NEW s \in Seq(Nat), NEW t \in Seq(Nat), LongUnit(s, b) \/ ShortUnit(s, b)
  PROVE  IsKeyframe(s \o t, hevc1, 0)
<1> DEFINE d == s \o t
<1>1. Len(s) \in Nat /\ Len(t) \in Nat
  OBVIOUS
<1>2. d \in Seq(Nat) /\ Len(d) = Len(s) + Len(t) /\ \A i \in 1 .. Len(s) : d[i] = s[i]
  OBVIOUS
<1>3. LongUnit(d, b) \/ ShortUnit(d, b)
  BY <1>1, <1>2 DEF LongUnit, ShortUnit
<1> HIDE DEF d
<1>4. CASE LongUnit(d, b)
  <2>1. LongStartAt(d, 1) /\ 1 + 4 <= Len(d) /\ IsKeyHeader(d[1 + 4], hevc1)
        /\ 1 \in 1 .. Len(d) - 2 /\ Len(d) >= 4
    BY <1>2, <1>4 DEF LongStartAt, LongUnit
  <2> QED BY <2>1 DEF IsKeyframe, d
<1>5. CASE ShortUnit(d, b)
  <2>1. ~ LongStartAt(d, 1) /\ ShortStartAt(d, 1) /\ 1 + 3 <= Len(d) /\ IsKeyHeader(d[1 + 3], hevc1)
        /\ 1 \in 1 .. Len(d) - 2 /\ Len(d) >= 4
    BY <1>2, <1>5 DEF LongStartAt, ShortStartAt, ShortUnit
  <2> QED BY <2>1 DEF IsKeyframe, d
<1> QED BY <1>3, <1>4, <1>5

(* The parameter sets in front of an IDR slice give it away.                 *)
LEMMA KeyPictures ==
  ASSUME NEW hevc1 \in BOOLEAN, NEW long \in BOOLEAN
  PROVE  IsKeyframe(AccessUnit(TRUE, hevc1, long), hevc1, 0)
<1>1. IsKeyHeader(64, TRUE) /\ IsKeyHeader(103, FALSE) /\ 64 \in Nat /\ 103 \in Nat
  BY DEF IsKeyHeader, IsKeyHeaderHevc, IsKeyHeaderH264
<1>2. CASE hevc1 = TRUE /\ long = TRUE
  <2>1. AccessUnit(TRUE, TRUE, TRUE) = Nal(TRUE, <<64, 1>>) \o Nal(TRUE, <<38, 1>>)
    BY DEF AccessUnit
  <2>2. LongUnit(Nal(TRUE, <<64, 1>>), 64) /\ Nal(TRUE, <<64, 1>>) \in Seq(Nat)
    BY DEF Nal, LongUnit
  <2>3. Nal(TRUE, <<38, 1>>) \in Seq(Nat)
    BY DEF Nal
  <2>4. IsKeyframe(Nal(TRUE, <<64, 1>>) \o Nal(TRUE, <<38, 1>>), TRUE, 0)
    BY <1>1, <2>2, <2>3, HeadIsSeen, Zenon
  <2> QED BY <1>2, <2>1, <2>4
<1>3. CASE hevc1 = TRUE /\ long = FALSE
  <2>1. AccessUnit(TRUE, TRUE, FALSE) = Nal(FALSE, <<64, 1>>) \o Nal(FALSE, <<38, 1>>)
    BY DEF AccessUnit
  <2>2. ShortUnit(Nal(FALSE, <<64, 1>>), 64) /\ Nal(FALSE, <<64, 1>>) \in Seq(Nat)
    BY DEF Nal, ShortUnit
  <2>3. Nal(FALSE, <<38, 1>>) \in Seq(Nat)
    BY DEF Nal
  <2>4. IsKeyframe(Nal(FALSE, <<64, 1>>) \o Nal(FALSE, <<38, 1>>), TRUE, 0)
    BY <1>1, <2>2, <2>3, HeadIsSeen, Zenon
  <2> QED BY <1>3, <2>1, <2>4
<1>4. CASE hevc1 = FALSE /\ long = TRUE
  <2>1. AccessUnit(TRUE, FALSE, TRUE) = Nal(TRUE, <<103>>) \o Nal(TRUE, <<101>>)
    BY DEF AccessUnit
  <2>2. LongUnit(Nal(TRUE, <<103>>), 103) /\ Nal(TRUE, <<103>>) \in Seq(Nat)
    BY DEF Nal, LongUnit
  <2>3. Nal(TRUE, <<101>>) \in Seq(Nat)
    BY DEF Nal
  <2>4. IsKeyframe(Nal(TRUE, <<103>>) \o Nal(TRUE, <<101>>), FALSE, 0)
    BY <1>1, <2>2, <2>3, HeadIsSeen, Zenon
  <2> QED BY <1>4, <2>1, <2>4
<1>5. CASE hevc1 = FALSE /\ long = FALSE
  <2>1. AccessUnit(TRUE, FALSE, FALSE) = Nal(FALSE, <<103>>) \o Nal(FALSE, <<101>>)
    BY DEF AccessUnit
  <2>2. ShortUnit(Nal(FALSE, <<103>>), 103) /\ Nal(FALSE, <<103>>) \in Seq(Nat)
    BY DEF Nal, ShortUnit
  <2>3. Nal(FALSE, <<101>>) \in Seq(Nat)
    BY DEF Nal
  <2>4. IsKeyframe(Nal(FALSE, <<103>>) \o Nal(FALSE, <<101>>), FALSE, 0)
    BY <1>1, <2>2, <2>3, HeadIsSeen, Zenon
  <2> QED BY <1>5, <2>1, <2>4
<1> QED BY <1>2, <1>3, <1>4, <1>5

(* The managed parser decides, and the native one never says too much.       *)
LEMMA UnitsTell ==
  ASSUME NEW key \in BOOLEAN, NEW hevc1 \in BOOLEAN, NEW long \in BOOLEAN
  PROVE  /\ IsKeyframe(AccessUnit(key, hevc1, long), hevc1, 0) <=> key
         /\ NativeDetect(AccessUnit(key, hevc1, long), hevc1) => key
<1>1. CASE key = TRUE
  BY <1>1, KeyPictures
<1>2. CASE key = FALSE
  BY <1>2, OtherPictures
<1> QED BY <1>1, <1>2

-----------------------------------------------------------------------------
(* The contract of a call that hands over a frame, and of a flush            *)

(* The texture the cache names is the one registered with the driver.        *)
Matches(e) == e.drv.registered = {e.ctx.cached} \ {NoTexture}

(* The frame has gone in, with the time of the context, or it has not and    *)
(* the forced type is still to come; a key frame that was asked for has gone *)
(* in, is still forced, or the call says that it is lost.                    *)
TakesFrame(e, idr, r, all) ==
  \E frame \in Stamped :
    /\ all = Append(e.drv.inside, frame) /\ Len(e.drv.inside) < Depth
    /\ frame.time = e.ctx.pts /\ r.enc.ctx.pts > e.ctx.pts
    /\ idr => frame.key \/ r.lost
    /\ e.drv.force => frame.key \/ r.enc.drv.force

TakesNothing(e, idr, r, all) ==
  /\ all = e.drv.inside
  /\ idr \/ e.drv.force => r.lost \/ r.enc.drv.force

(* The n oldest frames come out and are delivered as what they are, or the    *)
(* oldest is lost; a transform gives one at a time, under the present time.   *)
Delivers(e, r, all, n) ==
  /\ Len(r.enc.sent) = n
  /\ \A i \in 1 .. n :
       /\ r.enc.sent[i].due = all[i].time /\ r.enc.sent[i].key = all[i].key
       /\ r.enc.sent[i].reported = all[i].key
       /\ IF vendor = "qsv" THEN n = 1 /\ r.enc.sent[i].time = e.ctx.pts /\ r.enc.ctx.pts > e.ctx.pts
                            ELSE r.enc.sent[i].time = all[i].time

LosesFrame(r, all, n) == r.enc.sent = << >> /\ n = 1 /\ (all[1].key => r.lost)

Contract(e, idr, r, all, n) ==
  /\ r.enc \in Encoders /\ r.lost \in BOOLEAN /\ all \in Seq(Stamped) /\ n \in 0 .. Len(all)
  /\ Kept(e, r.enc) /\ SameRates(e, r.enc)
  /\ Matches(e) => Matches(r.enc)
  /\ r.enc.ctx.pts >= e.ctx.pts
  /\ TakesFrame(e, idr, r, all) \/ TakesNothing(e, idr, r, all)
  /\ Len(r.enc.drv.inside) = Len(all) - n
  /\ \A i \in 1 .. Len(all) - n : r.enc.drv.inside[i] = all[i + n]
  /\ Delivers(e, r, all, n) \/ LosesFrame(r, all, n)

HonoursContract(e, idr, r) == \E all \in Seq(Stamped) : \E n \in 0 .. Len(all) : Contract(e, idr, r, all, n)

(* A call that takes and gives nothing.                                      *)
LEMMA IdleHonours ==
  ASSUME NEW e \in Encoders, e.sent = << >>, NEW idr \in BOOLEAN, NEW r,
         r.enc \in Encoders, r.lost \in BOOLEAN, Kept(e, r.enc), SameRates(e, r.enc),
         Matches(e) => Matches(r.enc), r.enc.ctx.pts >= e.ctx.pts,
         idr \/ e.drv.force => r.lost \/ r.enc.drv.force,
         r.enc.drv.inside = e.drv.inside, r.enc.sent = << >>
  PROVE  HonoursContract(e, idr, r)
<1> DEFINE all == e.drv.inside
<1>1. all \in Seq(Stamped) /\ Len(all) \in Nat /\ 0 \in 0 .. Len(all)
  BY ContextPart
<1>2. TakesNothing(e, idr, r, all)
  BY DEF TakesNothing
<1>3. Delivers(e, r, all, 0)
  BY DEF Delivers
<1>4. Contract(e, idr, r, all, 0)
  BY <1>1, <1>2, <1>3 DEF Contract
<1> QED BY <1>1, <1>4 DEF HonoursContract

(* The data of an access unit tells what it is.                              *)
LEMMA DeliveryParts ==
  ASSUME NEW e \in Encoders, NEW frame \in Stamped, NEW time \in Nat, NEW long \in BOOLEAN,
         NEW native \in BOOLEAN, native => frame.key,
         NEW d, d = Delivery(e, frame, time, native, AccessUnit(frame.key, e.ctx.hevc, long))
  PROVE  /\ d \in Deliveries
         /\ d.time = time /\ d.due = frame.time /\ d.key = frame.key /\ d.reported = frame.key
<1> DEFINE data == AccessUnit(frame.key, e.ctx.hevc, long)
<1>1. frame.key \in BOOLEAN /\ frame.time \in Nat
  BY DEF Stamped
<1>2. IsKeyframe(data, e.ctx.hevc, 0) <=> frame.key
  BY <1>1, UnitsTell, ContextPart
<1> HIDE DEF data
<1>3. ReportedKey(native, data, e.ctx.hevc) = frame.key
  BY <1>1, <1>2 DEF ReportedKey
<1> QED BY <1>1, <1>3 DEF Delivery, Deliveries, data

(* The flag of the native side is a Boolean, and never set for another picture. *)
LEMMA DetectionTells ==
  ASSUME NEW e \in Encoders, NEW frame \in Stamped, NEW long \in BOOLEAN
  PROVE  LET native == NativeDetect(AccessUnit(frame.key, e.ctx.hevc, long), e.ctx.hevc) IN
         native \in BOOLEAN /\ (native => frame.key)
<1>1. frame.key \in BOOLEAN
  BY DEF Stamped
<1>2. NativeDetect(AccessUnit(frame.key, e.ctx.hevc, long), e.ctx.hevc) => frame.key
  BY <1>1, UnitsTell, ContextPart
<1>3. NativeDetect(AccessUnit(frame.key, e.ctx.hevc, long), e.ctx.hevc) \in BOOLEAN
  BY DEF NativeDetect, DetectKeyframeH264, DetectKeyframeHEVC
<1> QED BY <1>2, <1>3

(* The callback is made for one frame.                                       *)
With(e, d) == [e EXCEPT !.sent = Append(@, d)]

(* What the callback has been handed is all that was delivered.              *)
LEMMA SentParts ==
  ASSUME NEW e \in Encoders, e.sent = << >>, NEW d \in Deliveries, NEW r,
         r.enc = With(e, d)
  PROVE  /\ r.enc \in Encoders /\ r.enc.ctx = e.ctx /\ r.enc.drv = e.drv
         /\ r.enc.held = e.held /\ r.enc.failed = e.failed /\ r.enc.last = e.last
         /\ Len(r.enc.sent) = 1 /\ r.enc.sent[1] = d
<1> DEFINE one == <<d>>
<1>1. Append(e.sent, d) = one /\ one \in Seq(Deliveries) /\ Len(one) = 1 /\ one[1] = d
  OBVIOUS
<1>2. r.enc = [e EXCEPT !.sent = one]
  BY <1>1 DEF With
<1> HIDE DEF one
<1>3. /\ r.enc \in Encoders /\ r.enc.ctx = e.ctx /\ r.enc.drv = e.drv
      /\ r.enc.held = e.held /\ r.enc.failed = e.failed /\ r.enc.last = e.last /\ r.enc.sent = one
  BY <1>1, <1>2 DEF Encoders
<1> QED BY <1>1, <1>3 DEF one

(* What a call reads from the encoder and hands to the callback.             *)
LEMMA OneDelivered ==
  ASSUME NEW e \in Encoders, NEW idr \in BOOLEAN, NEW r,
         NEW f \in Encoders, f.sent = << >>, f.ctx.hevc \in BOOLEAN,
         Kept(e, f), SameRates(e, f), Matches(e) => Matches(f),
         NEW all \in Seq(Stamped), Len(all) >= 1, f.ctx.pts > e.ctx.pts,
         NEW time \in Nat, time = IF vendor = "qsv" THEN e.ctx.pts ELSE all[1].time,
         Len(f.drv.inside) = Len(all) - 1,
         \A i \in 1 .. Len(all) - 1 : f.drv.inside[i] = all[i + 1],
         NEW native \in BOOLEAN, native => all[1].key, NEW long \in BOOLEAN,
         r.enc = With(f, Delivery(f, all[1], time, native, AccessUnit(all[1].key, f.ctx.hevc, long))),
         r.lost \in BOOLEAN,
         TakesFrame(e, idr, [enc |-> f, lost |-> r.lost], all) \/ TakesNothing(e, idr, [enc |-> f, lost |-> r.lost], all)
  PROVE  HonoursContract(e, idr, r)
<1> DEFINE d == Delivery(f, all[1], time, native, AccessUnit(all[1].key, f.ctx.hevc, long))
<1>1. all[1] \in Stamped
  OBVIOUS
<1>2. d \in Deliveries /\ d.time = time /\ d.due = all[1].time /\ d.key = all[1].key /\ d.reported = all[1].key
  BY <1>1, DeliveryParts
<1>3. r.enc = With(f, d)
  OBVIOUS
<1> HIDE DEF d
<1>4. /\ r.enc \in Encoders /\ r.enc.ctx = f.ctx /\ r.enc.drv = f.drv
      /\ r.enc.held = f.held /\ r.enc.failed = f.failed /\ r.enc.last = f.last
      /\ Len(r.enc.sent) = 1 /\ r.enc.sent[1] = d
  BY <1>2, <1>3, SentParts
<1>5. TakesFrame(e, idr, r, all) \/ TakesNothing(e, idr, r, all)
  BY <1>4 DEF TakesFrame, TakesNothing
<1>6. Delivers(e, r, all, 1)
  <2>1. \A i \in 1 .. 1 : i = 1
    OBVIOUS
  <2> QED BY <1>2, <1>4, <2>1 DEF Delivers
<1>7. Kept(e, r.enc) /\ SameRates(e, r.enc) /\ (Matches(e) => Matches(r.enc))
  BY <1>4 DEF Kept, SameRates, Matches
<1>8. 1 \in 0 .. Len(all) /\ r.enc.ctx.pts >= e.ctx.pts
  BY <1>4, ContextPart
<1>9. Contract(e, idr, r, all, 1)
  BY <1>4, <1>5, <1>6, <1>7, <1>8 DEF Contract
<1> QED BY <1>8, <1>9 DEF HonoursContract

(* A finished frame cannot be read.                                          *)
LEMMA OneLost ==
  ASSUME NEW e \in Encoders, NEW idr \in BOOLEAN, NEW r,
         r.enc \in Encoders, r.enc.sent = << >>,
         Kept(e, r.enc), SameRates(e, r.enc), Matches(e) => Matches(r.enc),
         NEW all \in Seq(Stamped), Len(all) >= 1, r.enc.ctx.pts > e.ctx.pts,
         Len(r.enc.drv.inside) = Len(all) - 1,
         \A i \in 1 .. Len(all) - 1 : r.enc.drv.inside[i] = all[i + 1],
         r.lost \in BOOLEAN, all[1].key => r.lost,
         TakesFrame(e, idr, r, all) \/ TakesNothing(e, idr, r, all)
  PROVE  HonoursContract(e, idr, r)
<1>1. 1 \in 0 .. Len(all) /\ r.enc.ctx.pts >= e.ctx.pts
  BY ContextPart
<1>2. LosesFrame(r, all, 1)
  BY DEF LosesFrame
<1>3. Contract(e, idr, r, all, 1)
  BY <1>1, <1>2 DEF Contract
<1> QED BY <1>1, <1>3 DEF HonoursContract

(* A call made on behalf of another, once the texture has been exchanged.    *)
LEMMA HonoursFrom ==
  ASSUME NEW e \in Encoders, NEW f \in Encoders, NEW idr \in BOOLEAN, NEW r,
         Kept(e, f), SameRates(e, f), Matches(e) => Matches(f), f.ctx.pts = e.ctx.pts,
         f.drv.inside = e.drv.inside, f.drv.force = e.drv.force, HonoursContract(f, idr, r)
  PROVE  HonoursContract(e, idr, r)
<1>1. PICK all \in Seq(Stamped) : \E n \in 0 .. Len(all) : Contract(f, idr, r, all, n)
  BY DEF HonoursContract
<1>2. PICK n \in 0 .. Len(all) : Contract(f, idr, r, all, n)
  BY <1>1
<1>3. TakesFrame(f, idr, r, all) => TakesFrame(e, idr, r, all)
  BY DEF TakesFrame
<1>4. TakesNothing(f, idr, r, all) => TakesNothing(e, idr, r, all)
  BY DEF TakesNothing
<1>5. Delivers(f, r, all, n) => Delivers(e, r, all, n)
  BY DEF Delivers
<1>6. Kept(e, r.enc) /\ SameRates(e, r.enc)
  BY <1>2 DEF Contract, Kept, SameRates
<1>7. Contract(e, idr, r, all, n)
  BY <1>2, <1>3, <1>4, <1>5, <1>6 DEF Contract
<1> QED BY <1>7 DEF HonoursContract

(* A call that does nothing keeps everything.                                *)
LEMMA KeptSelf ==
  ASSUME NEW e
  PROVE  Kept(e, e) /\ SameRates(e, e)
BY DEF Kept, SameRates

-----------------------------------------------------------------------------
(* The wrapper of NVIDIA                                                     *)

(* A picture goes in and comes out in the same call (NvencWrapper.cpp).      *)
LEMMA NvencPictureHonours ==
  ASSUME vendor = "nvenc", NEW e \in Encoders, e.sent = << >>, e.drv.inside = << >>,
         e.ctx.fps \in FpsValues, NEW idr \in BOOLEAN, NEW r \in NvencPicture(e, idr)
  PROVE  HonoursContract(e, idr, r)
<1> DEFINE frame == FrameOf(e, idr \/ e.drv.first)
           next == Advanced(e)
           drv == [e.drv EXCEPT !.first = FALSE]
           f == [next EXCEPT !.drv.first = FALSE]
           all == <<frame>>
<1>1. /\ next \in Encoders /\ next.ctx.pts > e.ctx.pts /\ Kept(e, next) /\ SameRates(e, next)
      /\ next.drv = e.drv /\ next.sent = << >> /\ next.ctx.cached = e.ctx.cached
      /\ next.ctx.pts >= e.ctx.pts
  BY AdvancedParts, ContextPart
<1>2. frame \in Stamped /\ frame.time = e.ctx.pts /\ frame.key = (idr \/ e.drv.first)
  BY FrameParts, ContextPart
<1>3. drv \in Drivers /\ drv.api = e.drv.api /\ drv.max = e.drv.max /\ drv.inside = << >>
      /\ drv.force = e.drv.force /\ drv.registered = e.drv.registered /\ drv.fps = e.drv.fps /\ drv.mean = e.drv.mean
  BY ContextPart DEF Drivers
<1>4. f = [next EXCEPT !.drv = drv]
  BY <1>1 DEF Encoders
<1>5. \/ r = Losing(FALSE, e, idr) \/ r = Losing(FALSE, next, idr) \/ r \in NvencRetrieveOutput(f, frame)
  BY DEF NvencPicture
<1> HIDE DEF next, drv, f
<1>6. /\ f \in Encoders /\ Kept(next, f) /\ f.ctx = next.ctx /\ f.sent = << >> /\ f.drv = drv
  BY <1>1, <1>3, <1>4, DriverParts
<1>7. /\ Kept(e, f) /\ SameRates(e, f) /\ (Matches(e) => Matches(f))
  BY <1>1, <1>3, <1>6 DEF Kept, SameRates, Matches
<1>8. all \in Seq(Stamped) /\ Len(all) = 1 /\ all[1] = frame /\ all = Append(e.drv.inside, frame)
  BY <1>2
<1> HIDE DEF frame, all
<1>9. CASE r = Losing(FALSE, e, idr)
  <2>1. r.enc = e /\ r.lost = idr
    BY <1>9 DEF Losing
  <2>2. e.ctx.pts >= e.ctx.pts
    BY ContextPart
  <2> QED BY <2>1, <2>2, KeptSelf, IdleHonours
<1>10. CASE r = Losing(FALSE, next, idr)
  <2>1. r.enc = next /\ r.lost = idr
    BY <1>10 DEF Losing
  <2>2. Matches(e) => Matches(next)
    BY <1>1 DEF Matches
  <2> QED BY <1>1, <2>1, <2>2, IdleHonours
<1>11. ASSUME NEW x, x.enc = f
       PROVE  TakesFrame(e, idr, x, all)
  <2>1. f.ctx.pts > e.ctx.pts /\ Len(e.drv.inside) < Depth
    BY <1>1, <1>6, NativeEncoderAssumption
  <2>2. (idr => frame.key) /\ (e.drv.force => frame.key \/ f.drv.force)
    BY <1>2, <1>3, <1>6
  <2> QED BY <1>2, <1>8, <1>11, <2>1, <2>2 DEF TakesFrame
<1>12. CASE r = Losing(TRUE, f, frame.key)
  <2>1. r.enc = f /\ r.lost = frame.key /\ frame.key \in BOOLEAN
    BY <1>2, <1>12 DEF Stamped, Losing
  <2>2. /\ Len(r.enc.drv.inside) = Len(all) - 1
        /\ \A i \in 1 .. Len(all) - 1 : r.enc.drv.inside[i] = all[i + 1]
        /\ r.enc.ctx.pts > e.ctx.pts /\ (all[1].key => r.lost) /\ Len(all) >= 1
    BY <1>1, <1>3, <1>6, <1>8, <2>1
  <2>3. TakesFrame(e, idr, r, all)
    BY <1>11, <2>1
  <2> QED BY <1>6, <1>7, <1>8, <2>1, <2>2, <2>3, OneLost
<1>13. ASSUME NEW says \in {FALSE, frame.key}, NEW x \in DeliverResults(f, frame, frame.time, LAMBDA data : says \/ NativeDetect(data, f.ctx.hevc)),
              r = Result(TRUE, x)
       PROVE  HonoursContract(e, idr, r)
  <2>1. PICK long \in BOOLEAN :
          x = With(f, Delivery(f, frame, frame.time,
                says \/ NativeDetect(AccessUnit(frame.key, f.ctx.hevc, long), f.ctx.hevc),
                AccessUnit(frame.key, f.ctx.hevc, long)))
    BY <1>13 DEF DeliverResults, With
  <2> DEFINE native == says \/ NativeDetect(AccessUnit(frame.key, f.ctx.hevc, long), f.ctx.hevc)
  <2>2. native \in BOOLEAN /\ (native => all[1].key)
    BY <1>2, <1>6, <1>8, DetectionTells DEF Stamped
  <2> HIDE DEF native
  <2>3. r.lost = FALSE /\ r.enc = With(f, Delivery(f, all[1], frame.time, native, AccessUnit(all[1].key, f.ctx.hevc, long)))
    BY <1>8, <1>13, <2>1 DEF Result, native
  <2>4. /\ Len(f.drv.inside) = Len(all) - 1
        /\ \A i \in 1 .. Len(all) - 1 : f.drv.inside[i] = all[i + 1]
        /\ f.ctx.pts > e.ctx.pts /\ Len(all) >= 1 /\ f.ctx.hevc \in BOOLEAN
    BY <1>1, <1>3, <1>6, <1>8, ContextPart
  <2>5. frame.time \in Nat /\ frame.time = (IF vendor = "qsv" THEN e.ctx.pts ELSE all[1].time)
    BY <1>2, <1>8 DEF Stamped
  <2>6. TakesFrame(e, idr, [enc |-> f, lost |-> r.lost], all)
    <3>1. [enc |-> f, lost |-> r.lost].enc = f
      OBVIOUS
    <3> QED BY <1>11, <3>1
  <2> QED BY <1>6, <1>7, <1>8, <2>2, <2>3, <2>4, <2>5, <2>6, OneDelivered
<1>14. CASE r \in NvencRetrieveOutput(f, frame)
  <2>1. \/ r = Losing(TRUE, f, frame.key)
        \/ \E says \in {FALSE, frame.key} :
             \E x \in DeliverResults(f, frame, frame.time, LAMBDA data : says \/ NativeDetect(data, f.ctx.hevc)) : r = Result(TRUE, x)
    BY <1>14 DEF NvencRetrieveOutput
  <2> QED BY <1>12, <1>13, <2>1
<1> QED BY <1>5, <1>9, <1>10, <1>14

(* The texture is exchanged in two steps; each of them may fail.             *)
LEMMA ExchangeParts ==
  ASSUME NEW e \in Encoders, NEW tex \in Textures,
         NEW f \in {Unregistered(e), Registered(Unregistered(e), tex)}
  PROVE  /\ f \in Encoders /\ Kept(e, f) /\ SameRates(e, f) /\ Matches(f)
         /\ f.ctx.pts = e.ctx.pts /\ f.drv.inside = e.drv.inside /\ f.drv.force = e.drv.force
         /\ f.sent = e.sent /\ f.ctx.fps = e.ctx.fps
<1>1. Unregistered(e).drv = [e.drv EXCEPT !.registered = {}] /\ Unregistered(e).ctx = [e.ctx EXCEPT !.cached = NoTexture]
  BY DEF Unregistered, Encoders
<1> DEFINE g == Unregistered(e)
           h == Registered(g, tex)
<1>2. g.drv \in Drivers /\ g.ctx \in Contexts
  BY <1>1, ContextPart DEF Drivers, Contexts
<1>3. g \in Encoders
  BY <1>2 DEF Unregistered, Encoders
<1>4. Kept(e, g) /\ SameRates(e, g) /\ g.ctx.pts = e.ctx.pts /\ g.drv.inside = e.drv.inside
      /\ g.drv.force = e.drv.force /\ g.sent = e.sent
  BY DEF Unregistered, Encoders, Contexts, Drivers, Kept, SameRates
<1>5. g.ctx.cached = NoTexture /\ g.drv.registered = {}
  BY DEF Unregistered, Encoders, Contexts, Drivers
<1>6. Matches(g)
  BY <1>5 DEF Matches
<1> HIDE DEF g
<1>7. h.drv = [g.drv EXCEPT !.registered = {tex}] /\ h.ctx = [g.ctx EXCEPT !.cached = tex]
  BY <1>3, <1>5 DEF Registered, Encoders
<1>8. h.drv \in Drivers /\ h.ctx \in Contexts
  <2>1. {tex} \in SUBSET Textures /\ tex \in Textures \cup {NoTexture}
    OBVIOUS
  <2>2. h.drv \in Drivers
    BY <1>2, <1>7, <2>1 DEF Drivers
  <2>3. h.ctx \in Contexts
    BY <1>2, <1>7, <2>1 DEF Contexts
  <2> QED BY <2>2, <2>3
<1>9. h \in Encoders
  BY <1>3, <1>8 DEF Registered, Encoders
<1>10. Kept(g, h) /\ SameRates(g, h) /\ h.ctx.pts = g.ctx.pts /\ h.drv.inside = g.drv.inside
      /\ h.drv.force = g.drv.force /\ h.sent = g.sent
  BY <1>3 DEF Registered, Encoders, Contexts, Drivers, Kept, SameRates
<1>11. h.ctx.cached = tex /\ h.drv.registered = {tex}
  BY <1>2, <1>7 DEF Contexts, Drivers
<1>12. Matches(h)
  BY <1>11, NativeEncoderAssumption DEF Matches, NoTexture
<1> HIDE DEF h
<1>13. Kept(e, h) /\ SameRates(e, h)
  BY <1>4, <1>10 DEF Kept, SameRates
<1>14. f = g \/ f = h
  BY DEF g, h
<1> QED BY <1>3, <1>4, <1>6, <1>9, <1>10, <1>12, <1>13, <1>14 DEF SameRates

(* Both ways of handing a frame to the wrapper of NVIDIA.                    *)
LEMMA NvencEncodeHonours ==
  ASSUME vendor = "nvenc", NEW e \in Encoders, e.sent = << >>, e.drv.inside = << >>,
         e.drv.force = FALSE, e.ctx.fps \in FpsValues, NEW idr \in BOOLEAN, NEW tex \in Textures,
         NEW r \in NvencEncodeTexture(e, idr) \cup NvencEncodeBgraTexture(e, tex, idr)
  PROVE  HonoursContract(e, idr, r)
<1> DEFINE g == Unregistered(e)
           h == Registered(g, tex)
<1>1. ASSUME r = Losing(FALSE, e, idr)
      PROVE  HonoursContract(e, idr, r)
  <2>1. r.enc = e /\ r.lost = idr /\ e.ctx.pts >= e.ctx.pts
    BY <1>1, ContextPart DEF Losing
  <2> QED BY <2>1, KeptSelf, IdleHonours
<1>2. ASSUME r \in NvencPicture(e, idr)
      PROVE  HonoursContract(e, idr, r)
  BY <1>2, NvencPictureHonours
<1>3. g \in {g, h} /\ h \in {g, h}
  OBVIOUS
<1>4. /\ g \in Encoders /\ Kept(e, g) /\ SameRates(e, g) /\ Matches(g)
      /\ g.ctx.pts = e.ctx.pts /\ g.drv.inside = e.drv.inside /\ g.drv.force = e.drv.force
      /\ g.sent = e.sent /\ g.ctx.fps = e.ctx.fps
  BY ExchangeParts
<1>5. /\ h \in Encoders /\ Kept(e, h) /\ SameRates(e, h) /\ Matches(h)
      /\ h.ctx.pts = e.ctx.pts /\ h.drv.inside = e.drv.inside /\ h.drv.force = e.drv.force
      /\ h.sent = e.sent /\ h.ctx.fps = e.ctx.fps
  BY ExchangeParts
<1>6. \/ r = Losing(FALSE, e, idr) \/ r \in NvencPicture(e, idr)
      \/ r = Losing(FALSE, g, idr) \/ r \in NvencPicture(h, idr)
  BY DEF NvencEncodeTexture, NvencEncodeBgraTexture
<1> HIDE DEF g, h
<1>7. CASE r = Losing(FALSE, g, idr)
  <2>1. r.enc = g /\ r.lost = idr /\ g.ctx.pts >= e.ctx.pts
    BY <1>4, <1>7, ContextPart DEF Losing
  <2> QED BY <1>4, <2>1, IdleHonours
<1>8. CASE r \in NvencPicture(h, idr)
  <2>1. HonoursContract(h, idr, r)
    BY <1>5, <1>8, NvencPictureHonours
  <2> QED BY <1>5, <2>1, HonoursFrom
<1> QED BY <1>1, <1>2, <1>6, <1>7, <1>8

-----------------------------------------------------------------------------
(* The wrapper of Intel                                                      *)

(* A driver that has been told, or not, to force a key frame.                *)
Forcing(e, force) == [e EXCEPT !.drv.force = force]

(* A picture type is forced through the codec interface.                     *)
LEMMA ForcingParts ==
  ASSUME NEW e \in Encoders, NEW force \in BOOLEAN
  PROVE  LET f == Forcing(e, force) IN
         /\ f \in Encoders /\ Kept(e, f) /\ SameRates(e, f) /\ f.ctx = e.ctx /\ f.sent = e.sent
         /\ f.drv.force = force /\ f.drv.inside = e.drv.inside /\ f.drv.registered = e.drv.registered
         /\ f.drv.first = e.drv.first
<1> DEFINE drv == [e.drv EXCEPT !.force = force]
<1>1. /\ drv \in Drivers /\ drv.api = e.drv.api /\ drv.max = e.drv.max /\ drv.force = force
      /\ drv.inside = e.drv.inside /\ drv.registered = e.drv.registered /\ drv.fps = e.drv.fps
      /\ drv.mean = e.drv.mean /\ drv.first = e.drv.first
  BY ContextPart DEF Drivers
<1>2. Forcing(e, force) = [e EXCEPT !.drv = drv]
  BY DEF Forcing, Encoders
<1> HIDE DEF drv
<1> QED BY <1>1, <1>2, DriverParts DEF SameRates

(* The rest of the driver's queue.                                           *)
Taken(e) == [e EXCEPT !.drv.inside = Tail(@)]

(* The transform has taken the sample.                                       *)
LEMMA TakenParts ==
  ASSUME NEW e \in Encoders, e.drv.inside # << >>
  PROVE  LET f == Taken(e) IN
         /\ f \in Encoders /\ Kept(e, f) /\ SameRates(e, f) /\ f.ctx = e.ctx /\ f.sent = e.sent
         /\ f.drv.force = e.drv.force /\ f.drv.registered = e.drv.registered
         /\ f.drv.inside = Tail(e.drv.inside)
<1> DEFINE drv == [e.drv EXCEPT !.inside = Tail(e.drv.inside)]
<1>1. Tail(e.drv.inside) \in Seq(Stamped)
  BY ContextPart
<1>2. /\ drv \in Drivers /\ drv.api = e.drv.api /\ drv.max = e.drv.max /\ drv.force = e.drv.force
      /\ drv.inside = Tail(e.drv.inside) /\ drv.registered = e.drv.registered /\ drv.fps = e.drv.fps
      /\ drv.mean = e.drv.mean
  BY <1>1, ContextPart DEF Drivers
<1>3. Taken(e) = [e EXCEPT !.drv = drv]
  BY DEF Encoders, Taken
<1> HIDE DEF drv
<1> QED BY <1>2, <1>3, DriverParts DEF SameRates

(* The oldest frame comes out.                                               *)
LEMMA HeadAndTail ==
  ASSUME NEW all \in Seq(Stamped), all # << >>
  PROVE  /\ Head(all) = all[1] /\ Len(all) >= 1 /\ Len(Tail(all)) = Len(all) - 1
         /\ \A i \in 1 .. Len(all) - 1 : Tail(all)[i] = all[i + 1]
OBVIOUS

(* A sample goes in and at most one comes out (QsvWrapper.cpp).              *)
LEMMA QsvEncodeTextureHonours ==
  ASSUME vendor = "qsv", NEW e \in Encoders, e.sent = << >>, Len(e.drv.inside) <= Depth,
         e.ctx.fps \in FpsValues, NEW idr \in BOOLEAN, NEW r \in QsvEncodeTexture(e, idr)
  PROVE  HonoursContract(e, idr, r)
<1> DEFINE told == Forcing(e, e.drv.force \/ (idr /\ e.drv.api))
           next == Advanced(told)
           key == e.drv.first \/ next.drv.force
           clear == Forcing(next, FALSE)
           frame == FrameOf(e, key)
           entered == Entered(clear, frame)
           ignored == idr /\ ~ key
           all == Append(e.drv.inside, frame)
           rest == Taken(entered)
<1>10. \/ r = Losing(FALSE, e, idr) \/ r = Losing(FALSE, next, idr /\ ~ e.drv.api)
       \/ Len(e.drv.inside) # Depth /\ \E x \in {Result(FALSE, entered)} \cup QsvProcessOutput(entered, e.ctx.pts) :
            r = Losing(x.ok, x.enc, x.lost \/ ignored)
  BY DEF QsvEncodeTexture, Forcing
<1>1. e.drv.force \in BOOLEAN /\ e.drv.api \in BOOLEAN /\ e.drv.first \in BOOLEAN /\ e.ctx.pts \in Nat
      /\ Len(e.drv.inside) \in Nat /\ e.drv.inside \in Seq(Stamped) /\ e.ctx.hevc \in BOOLEAN
  BY ContextPart
<1>2. /\ told \in Encoders /\ Kept(e, told) /\ SameRates(e, told) /\ told.ctx = e.ctx /\ told.sent = << >>
      /\ told.drv.force = (e.drv.force \/ (idr /\ e.drv.api)) /\ told.drv.inside = e.drv.inside
      /\ told.drv.registered = e.drv.registered /\ told.drv.first = e.drv.first
  BY <1>1, ForcingParts
<1> HIDE DEF told
<1>3. /\ next \in Encoders /\ next.ctx.pts \in Nat /\ next.ctx.pts > e.ctx.pts /\ Kept(told, next) /\ SameRates(told, next)
      /\ next.drv = told.drv /\ next.sent = << >> /\ next.ctx.cached = e.ctx.cached
  BY <1>2, AdvancedParts
<1> HIDE DEF next
<1>4. /\ clear \in Encoders /\ Kept(next, clear) /\ SameRates(next, clear) /\ clear.ctx = next.ctx
      /\ clear.sent = << >> /\ clear.drv.force = FALSE /\ clear.drv.inside = e.drv.inside
      /\ clear.drv.registered = e.drv.registered
  <2> DEFINE no == FALSE
  <2>1. no \in BOOLEAN /\ clear = Forcing(next, no) /\ no = FALSE
    OBVIOUS
  <2> HIDE DEF no, clear
  <2> QED BY <1>2, <1>3, <2>1, ForcingParts
<1> HIDE DEF clear
<1>5. key \in BOOLEAN
  BY <1>1, <1>2, <1>3
<1>6. frame \in Stamped /\ frame.time = e.ctx.pts /\ frame.key = key
  BY <1>5, FrameParts
<1> HIDE DEF frame
<1>7. /\ entered \in Encoders /\ Kept(clear, entered) /\ SameRates(clear, entered) /\ entered.ctx = next.ctx
      /\ entered.sent = << >> /\ entered.drv.force = FALSE /\ entered.drv.inside = all
      /\ entered.drv.registered = e.drv.registered
  BY <1>4, <1>6, EnteredParts
<1>8. all \in Seq(Stamped) /\ all # << >> /\ Len(all) = Len(e.drv.inside) + 1
  BY <1>1, <1>6
<1>9. /\ rest \in Encoders /\ Kept(entered, rest) /\ SameRates(entered, rest) /\ rest.ctx = next.ctx
      /\ rest.sent = << >> /\ rest.drv.force = FALSE /\ rest.drv.registered = e.drv.registered
      /\ rest.drv.inside = Tail(all)
  BY <1>7, <1>8, TakenParts
<1> HIDE DEF entered
<1>11. QsvProcessOutput(entered, e.ctx.pts) =
         {Result(TRUE, entered), Losing(TRUE, rest, all[1].key)} \cup
         {Result(TRUE, x) : x \in DeliverResults(rest, all[1], e.ctx.pts, LAMBDA data : NativeDetect(data, entered.ctx.hevc))}
  BY <1>7, <1>8, HeadAndTail DEF QsvProcessOutput, Taken
<1> HIDE DEF rest, all
<1>12. Kept(e, next) /\ SameRates(e, next) /\ (Matches(e) => Matches(next))
  BY <1>2, <1>3 DEF Kept, SameRates, Matches
<1>13. Kept(e, entered) /\ SameRates(e, entered) /\ (Matches(e) => Matches(entered))
  BY <1>3, <1>4, <1>7, <1>12 DEF Kept, SameRates, Matches
<1>14. Kept(e, rest) /\ SameRates(e, rest) /\ (Matches(e) => Matches(rest))
  BY <1>7, <1>9, <1>13 DEF Kept, SameRates, Matches
<1>15. CASE r = Losing(FALSE, e, idr)
  <2>1. r.enc = e /\ r.lost = idr /\ e.ctx.pts >= e.ctx.pts
    BY <1>1, <1>15 DEF Losing
  <2> QED BY <2>1, KeptSelf, IdleHonours
<1>16. CASE r = Losing(FALSE, next, idr /\ ~ e.drv.api)
  <2>1. r.enc = next /\ r.lost = (idr /\ ~ e.drv.api) /\ next.ctx.pts >= e.ctx.pts /\ r.lost \in BOOLEAN
    BY <1>1, <1>3, <1>16 DEF Losing
  <2>2. idr \/ e.drv.force => r.lost \/ r.enc.drv.force
    BY <1>1, <1>2, <1>3, <2>1
  <2> QED BY <1>2, <1>3, <1>12, <2>1, <2>2, IdleHonours
<1>17. ASSUME Len(e.drv.inside) # Depth, NEW x, x.enc.ctx = next.ctx, idr /\ ~ key => x.lost
       PROVE  TakesFrame(e, idr, x, all)
  <2>1. x.enc.ctx.pts > e.ctx.pts /\ Len(e.drv.inside) < Depth
    BY <1>1, <1>3, <1>17, NativeEncoderAssumption
  <2>2. (idr => frame.key \/ x.lost) /\ (e.drv.force => frame.key)
    BY <1>1, <1>2, <1>3, <1>6, <1>17
  <2> QED BY <1>6, <2>1, <2>2 DEF TakesFrame, all
<1>18. ASSUME Len(e.drv.inside) # Depth, r.enc = entered, r.lost = ignored
       PROVE  HonoursContract(e, idr, r)
  <2>1. r.lost \in BOOLEAN
    BY <1>5, <1>18
  <2>2. TakesFrame(e, idr, r, all)
    BY <1>7, <1>17, <1>18
  <2>3. Delivers(e, r, all, 0)
    BY <1>7, <1>18 DEF Delivers
  <2>4. 0 \in 0 .. Len(all) /\ Len(all) \in Nat /\ r.enc.ctx.pts >= e.ctx.pts
    BY <1>1, <1>3, <1>7, <1>8, <1>18
  <2>5. Len(r.enc.drv.inside) = Len(all) - 0 /\ \A i \in 1 .. Len(all) - 0 : r.enc.drv.inside[i] = all[i + 0]
    BY <1>7, <1>8, <1>18, <2>4
  <2>6. Contract(e, idr, r, all, 0)
    BY <1>7, <1>8, <1>13, <1>18, <2>1, <2>2, <2>3, <2>4, <2>5 DEF Contract
  <2> QED BY <1>8, <2>4, <2>6 DEF HonoursContract
<1>19. ASSUME Len(e.drv.inside) # Depth, r.enc = rest, r.lost = (all[1].key \/ ignored)
       PROVE  HonoursContract(e, idr, r)
  <2>1. r.lost \in BOOLEAN /\ (all[1].key => r.lost)
    BY <1>5, <1>8, <1>19, HeadAndTail DEF Stamped
  <2>2. TakesFrame(e, idr, r, all)
    BY <1>9, <1>17, <1>19
  <2> QED BY <1>3, <1>8, <1>9, <1>14, <1>19, <2>1, <2>2, HeadAndTail, OneLost
<1>20. ASSUME Len(e.drv.inside) # Depth,
              NEW x \in DeliverResults(rest, all[1], e.ctx.pts, LAMBDA data : NativeDetect(data, entered.ctx.hevc)),
              r.enc = x, r.lost = ignored
       PROVE  HonoursContract(e, idr, r)
  <2>1. PICK long \in BOOLEAN :
          x = With(rest, Delivery(rest, all[1], e.ctx.pts,
                NativeDetect(AccessUnit(all[1].key, rest.ctx.hevc, long), rest.ctx.hevc),
                AccessUnit(all[1].key, rest.ctx.hevc, long)))
    BY <1>7, <1>9, <1>20 DEF DeliverResults, With
  <2> DEFINE native == NativeDetect(AccessUnit(all[1].key, rest.ctx.hevc, long), rest.ctx.hevc)
  <2>2. all[1] \in Stamped
    BY <1>8, HeadAndTail
  <2>3. native \in BOOLEAN /\ (native => all[1].key)
    BY <1>9, <2>2, DetectionTells
  <2> HIDE DEF native
  <2>4. r.lost \in BOOLEAN
        /\ r.enc = With(rest, Delivery(rest, all[1], e.ctx.pts, native, AccessUnit(all[1].key, rest.ctx.hevc, long)))
    BY <1>5, <1>20, <2>1 DEF native
  <2>5. TakesFrame(e, idr, [enc |-> rest, lost |-> r.lost], all)
    <3>1. [enc |-> rest, lost |-> r.lost].enc = rest /\ [enc |-> rest, lost |-> r.lost].lost = r.lost
      OBVIOUS
    <3> QED BY <1>9, <1>17, <1>20, <2>4, <3>1
  <2>6. rest.ctx.hevc \in BOOLEAN /\ rest.ctx.pts > e.ctx.pts
    BY <1>3, <1>9, ContextPart
  <2>7. e.ctx.pts = (IF vendor = "qsv" THEN e.ctx.pts ELSE all[1].time) /\ Len(all) >= 1
    BY <1>8, HeadAndTail
  <2>8. Len(rest.drv.inside) = Len(all) - 1 /\ \A i \in 1 .. Len(all) - 1 : rest.drv.inside[i] = all[i + 1]
    BY <1>8, <1>9, HeadAndTail
  <2> QED BY <1>1, <1>8, <1>9, <1>14, <2>3, <2>4, <2>5, <2>6, <2>7, <2>8, OneDelivered
<1>21. ASSUME Len(e.drv.inside) # Depth, NEW x \in {Result(FALSE, entered)} \cup QsvProcessOutput(entered, e.ctx.pts),
              r = Losing(x.ok, x.enc, x.lost \/ ignored)
       PROVE  HonoursContract(e, idr, r)
  <2>1. \/ x = Result(FALSE, entered) \/ x = Result(TRUE, entered) \/ x = Losing(TRUE, rest, all[1].key)
        \/ \E y \in DeliverResults(rest, all[1], e.ctx.pts, LAMBDA data : NativeDetect(data, entered.ctx.hevc)) : x = Result(TRUE, y)
    BY <1>11, <1>21
  <2>2. r.enc = x.enc /\ r.lost = (x.lost \/ ignored)
    BY <1>21 DEF Losing
  <2>3. CASE x = Result(FALSE, entered) \/ x = Result(TRUE, entered)
    <3>1. x.enc = entered /\ x.lost = FALSE
      BY <2>3 DEF Result
    <3>2. r.enc = entered /\ r.lost = ignored
      BY <2>2, <3>1
    <3> QED BY <1>18, <1>21, <3>2
  <2>4. CASE x = Losing(TRUE, rest, all[1].key)
    <3>1. x.enc = rest /\ x.lost = all[1].key
      BY <2>4 DEF Losing
    <3> QED BY <1>19, <1>21, <2>2, <3>1
  <2>5. ASSUME NEW y \in DeliverResults(rest, all[1], e.ctx.pts, LAMBDA data : NativeDetect(data, entered.ctx.hevc)), x = Result(TRUE, y)
        PROVE  HonoursContract(e, idr, r)
    <3>1. x.enc = y /\ x.lost = FALSE
      BY <2>5 DEF Result
    <3>2. r.enc = y /\ r.lost = ignored
      BY <2>2, <3>1
    <3> QED BY <1>20, <1>21, <3>2
  <2> QED BY <2>1, <2>3, <2>4, <2>5
<1> QED BY <1>10, <1>15, <1>16, <1>21

(* Both ways of handing a frame to the wrapper of Intel.                     *)
LEMMA QsvEncodeHonours ==
  ASSUME vendor = "qsv", NEW e \in Encoders, e.sent = << >>, Len(e.drv.inside) <= Depth,
         e.ctx.fps \in FpsValues, NEW idr \in BOOLEAN, NEW tex \in Textures,
         NEW r \in QsvEncodeTexture(e, idr) \cup QsvEncodeBgraTexture(e, tex, idr)
  PROVE  HonoursContract(e, idr, r)
<1>1. r \in QsvEncodeTexture(e, idr) \/ r = Losing(FALSE, e, idr)
  BY DEF QsvEncodeBgraTexture
<1>2. CASE r = Losing(FALSE, e, idr)
  <2>1. r.enc = e /\ r.lost = idr /\ e.ctx.pts >= e.ctx.pts
    BY <1>2, ContextPart DEF Losing
  <2> QED BY <2>1, KeptSelf, IdleHonours
<1> QED BY <1>1, <1>2, QsvEncodeTextureHonours

-----------------------------------------------------------------------------
(* The wrapper of AMD                                                        *)

(* The n oldest frames are read; out is what the callback is given.          *)
Drained(e, n, out) ==
  [e EXCEPT !.drv.inside = SubSeq(e.drv.inside, n + 1, Len(e.drv.inside)), !.sent = @ \o out]

Reading(e, n, native, long) ==
  [i \in 1 .. n |-> Delivery(e, e.drv.inside[i], e.drv.inside[i].time, native[i],
                             AccessUnit(e.drv.inside[i].key, e.ctx.hevc, long[i]))]

(* Frames have come out of the component.                                    *)
LEMMA DrainedParts ==
  ASSUME NEW e \in Encoders, e.sent = << >>, NEW n \in 0 .. Len(e.drv.inside), NEW out \in Seq(Deliveries)
  PROVE  LET f == Drained(e, n, out) IN
         /\ f \in Encoders /\ Kept(e, f) /\ SameRates(e, f) /\ f.ctx = e.ctx /\ f.sent = out
         /\ f.drv.force = e.drv.force /\ f.drv.registered = e.drv.registered
         /\ Len(f.drv.inside) = Len(e.drv.inside) - n
         /\ \A i \in 1 .. Len(e.drv.inside) - n : f.drv.inside[i] = e.drv.inside[i + n]
<1> DEFINE rest == SubSeq(e.drv.inside, n + 1, Len(e.drv.inside))
           drv == [e.drv EXCEPT !.inside = rest]
<1>1. e.drv.inside \in Seq(Stamped) /\ Len(e.drv.inside) \in Nat /\ n \in Nat
  BY ContextPart
<1>2. /\ rest \in Seq(Stamped) /\ Len(rest) = Len(e.drv.inside) - n
      /\ \A i \in 1 .. Len(e.drv.inside) - n : rest[i] = e.drv.inside[i + n]
  BY <1>1
<1> HIDE DEF rest
<1>3. /\ drv \in Drivers /\ drv.api = e.drv.api /\ drv.max = e.drv.max /\ drv.force = e.drv.force
      /\ drv.inside = rest /\ drv.registered = e.drv.registered /\ drv.fps = e.drv.fps
      /\ drv.mean = e.drv.mean
  BY <1>2, ContextPart DEF Drivers
<1>4. e.sent \o out = out
  OBVIOUS
<1>5. Drained(e, n, out) = [e EXCEPT !.drv = drv, !.sent = out]
  BY <1>4 DEF Drained, Encoders, rest
<1> HIDE DEF drv
<1>6. /\ Drained(e, n, out) \in Encoders /\ Drained(e, n, out).drv = drv /\ Drained(e, n, out).ctx = e.ctx
      /\ Drained(e, n, out).sent = out /\ Drained(e, n, out).held = e.held
      /\ Drained(e, n, out).failed = e.failed /\ Drained(e, n, out).last = e.last
  BY <1>3, <1>5 DEF Encoders
<1> QED BY <1>2, <1>3, <1>6 DEF Kept, SameRates

(* What is read from the frames that come out.                               *)
LEMMA ReadingParts ==
  ASSUME NEW e \in Encoders, NEW n \in 0 .. Len(e.drv.inside),
         NEW native \in [1 .. n -> BOOLEAN], NEW long \in [1 .. n -> BOOLEAN],
         \A i \in 1 .. n : native[i] => e.drv.inside[i].key
  PROVE  LET out == Reading(e, n, native, long) IN
         /\ out \in Seq(Deliveries) /\ Len(out) = n
         /\ \A i \in 1 .. n :
              /\ out[i].time = e.drv.inside[i].time /\ out[i].due = e.drv.inside[i].time
              /\ out[i].key = e.drv.inside[i].key /\ out[i].reported = e.drv.inside[i].key
<1> DEFINE out == Reading(e, n, native, long)
<1>1. e.drv.inside \in Seq(Stamped) /\ n \in Nat
  BY ContextPart
<1>2. ASSUME NEW i \in 1 .. n
      PROVE  /\ out[i] \in Deliveries
             /\ out[i].time = e.drv.inside[i].time /\ out[i].due = e.drv.inside[i].time
             /\ out[i].key = e.drv.inside[i].key /\ out[i].reported = e.drv.inside[i].key
  <2>1. e.drv.inside[i] \in Stamped
    BY <1>1
  <2>2. e.drv.inside[i].time \in Nat /\ native[i] \in BOOLEAN /\ long[i] \in BOOLEAN /\ (native[i] => e.drv.inside[i].key)
    BY <2>1 DEF Stamped
  <2>3. out[i] = Delivery(e, e.drv.inside[i], e.drv.inside[i].time, native[i],
                          AccessUnit(e.drv.inside[i].key, e.ctx.hevc, long[i]))
    BY DEF Reading
  <2> HIDE DEF out
  <2> QED BY <2>1, <2>2, <2>3, DeliveryParts
<1>3. DOMAIN out = 1 .. n /\ out = [i \in 1 .. n |-> out[i]]
  BY DEF Reading
<1> HIDE DEF out
<1>4. out \in [1 .. n -> Deliveries]
  BY <1>2, <1>3
<1>5. out \in Seq(Deliveries) /\ Len(out) = n
  BY <1>1, <1>4
<1> QED BY <1>2, <1>5 DEF out

(* What is ready is handed out, some of it or all of it.                     *)
LEMMA DrainHonours ==
  ASSUME vendor = "amf", NEW e \in Encoders, NEW idr \in BOOLEAN, NEW r,
         NEW a \in Encoders, a.sent = << >>, Kept(e, a), SameRates(e, a), Matches(e) => Matches(a),
         a.ctx.pts >= e.ctx.pts, r.lost \in BOOLEAN,
         TakesFrame(e, idr, [enc |-> a, lost |-> r.lost], a.drv.inside)
           \/ TakesNothing(e, idr, [enc |-> a, lost |-> r.lost], a.drv.inside),
         NEW n \in 0 .. Len(a.drv.inside),
         NEW native \in [1 .. n -> BOOLEAN], NEW long \in [1 .. n -> BOOLEAN],
         \A i \in 1 .. n : native[i] => a.drv.inside[i].key,
         r.enc = Drained(a, n, Reading(a, n, native, long))
  PROVE  HonoursContract(e, idr, r)
<1> DEFINE all == a.drv.inside
           out == Reading(a, n, native, long)
           f == Drained(a, n, out)
<1>1. /\ out \in Seq(Deliveries) /\ Len(out) = n
      /\ \A i \in 1 .. n :
           /\ out[i].time = all[i].time /\ out[i].due = all[i].time
           /\ out[i].key = all[i].key /\ out[i].reported = all[i].key
  BY ReadingParts
<1>2. r.enc = f /\ all \in Seq(Stamped)
  BY ContextPart
<1> HIDE DEF out
<1>3. /\ f \in Encoders /\ Kept(a, f) /\ SameRates(a, f) /\ f.ctx = a.ctx /\ f.sent = out
      /\ f.drv.force = a.drv.force /\ f.drv.registered = a.drv.registered
      /\ Len(f.drv.inside) = Len(all) - n
      /\ \A i \in 1 .. Len(all) - n : f.drv.inside[i] = all[i + n]
  <2>1. out \in Seq(Deliveries) /\ a.sent = << >>
    BY <1>1
  <2> QED BY <2>1, DrainedParts, Zenon
<1> HIDE DEF f, all
<1>4. TakesFrame(e, idr, [enc |-> a, lost |-> r.lost], all) => TakesFrame(e, idr, r, all)
  BY <1>2, <1>3 DEF TakesFrame
<1>5. TakesNothing(e, idr, [enc |-> a, lost |-> r.lost], all) => TakesNothing(e, idr, r, all)
  BY <1>2, <1>3 DEF TakesNothing
<1>6. TakesFrame(e, idr, r, all) \/ TakesNothing(e, idr, r, all)
  BY <1>4, <1>5 DEF all
<1>7. Delivers(e, r, all, n)
  BY <1>1, <1>2, <1>3 DEF Delivers
<1>8. Kept(e, f) /\ SameRates(e, f) /\ (Matches(e) => Matches(f))
  BY <1>3 DEF Kept, SameRates, Matches
<1>9. n \in 0 .. Len(all) /\ f.ctx.pts >= e.ctx.pts
  BY <1>3 DEF all
<1>10. Contract(e, idr, r, all, n)
  BY <1>2, <1>3, <1>6, <1>7, <1>8, <1>9 DEF Contract
<1> QED BY <1>2, <1>9, <1>10 DEF HonoursContract

(* Whether the native side looks for a key frame, or does not.               *)
LEMMA FlushedResults ==
  ASSUME NEW e \in Encoders, e.sent = << >>, NEW r \in AmfReady(e, LAMBDA data : FALSE)
  PROVE  /\ r.lost = FALSE
         /\ \E n \in 0 .. Len(e.drv.inside) : \E native, long \in [1 .. n -> BOOLEAN] :
              /\ \A i \in 1 .. n : native[i] => e.drv.inside[i].key
              /\ r.enc = Drained(e, n, Reading(e, n, native, long))
<1>1. e.drv.inside \in Seq(Stamped) /\ Len(e.drv.inside) \in Nat
  BY ContextPart
<1>2. PICK n \in 0 .. Len(e.drv.inside) : r \in AmfOutput(e, n, LAMBDA data : FALSE)
  BY DEF AmfReady
<1>3. PICK long \in [1 .. n -> BOOLEAN] :
        r = Result(TRUE, [e EXCEPT !.drv.inside = SubSeq(e.drv.inside, n + 1, Len(e.drv.inside)),
                                   !.sent = @ \o [i \in 1 .. n |->
               Delivery(e, e.drv.inside[i], e.drv.inside[i].time, FALSE,
                        AccessUnit(e.drv.inside[i].key, e.ctx.hevc, long[i]))]])
  BY <1>2 DEF AmfOutput
<1> DEFINE native == [i \in 1 .. n |-> FALSE]
<1>4. native \in [1 .. n -> BOOLEAN] /\ \A i \in 1 .. n : native[i] = FALSE
  OBVIOUS
<1>5. Reading(e, n, native, long) = [i \in 1 .. n |->
               Delivery(e, e.drv.inside[i], e.drv.inside[i].time, FALSE,
                        AccessUnit(e.drv.inside[i].key, e.ctx.hevc, long[i]))]
  BY <1>4 DEF Reading
<1>6. r.lost = FALSE /\ r.enc = Drained(e, n, Reading(e, n, native, long))
  BY <1>3, <1>5 DEF Result, Drained
<1> HIDE DEF native
<1> QED BY <1>4, <1>6

(* What the drain behind a frame delivers.                                   *)
LEMMA DetectedResults ==
  ASSUME NEW e \in Encoders, e.sent = << >>, NEW r \in AmfReady(e, LAMBDA data : NativeDetect(data, e.ctx.hevc))
  PROVE  /\ r.lost = FALSE
         /\ \E n \in 0 .. Len(e.drv.inside) : \E native, long \in [1 .. n -> BOOLEAN] :
              /\ \A i \in 1 .. n : native[i] => e.drv.inside[i].key
              /\ r.enc = Drained(e, n, Reading(e, n, native, long))
<1>1. e.drv.inside \in Seq(Stamped) /\ Len(e.drv.inside) \in Nat
  BY ContextPart
<1>2. PICK n \in 0 .. Len(e.drv.inside) : r \in AmfOutput(e, n, LAMBDA data : NativeDetect(data, e.ctx.hevc))
  BY DEF AmfReady
<1>3. PICK long \in [1 .. n -> BOOLEAN] :
        r = Result(TRUE, [e EXCEPT !.drv.inside = SubSeq(e.drv.inside, n + 1, Len(e.drv.inside)),
                                   !.sent = @ \o [i \in 1 .. n |->
               Delivery(e, e.drv.inside[i], e.drv.inside[i].time,
                        NativeDetect(AccessUnit(e.drv.inside[i].key, e.ctx.hevc, long[i]), e.ctx.hevc),
                        AccessUnit(e.drv.inside[i].key, e.ctx.hevc, long[i]))]])
  BY <1>2 DEF AmfOutput
<1> DEFINE native == [i \in 1 .. n |-> NativeDetect(AccessUnit(e.drv.inside[i].key, e.ctx.hevc, long[i]), e.ctx.hevc)]
<1>4. ASSUME NEW i \in 1 .. n
      PROVE  native[i] \in BOOLEAN /\ (native[i] => e.drv.inside[i].key)
             /\ native[i] = NativeDetect(AccessUnit(e.drv.inside[i].key, e.ctx.hevc, long[i]), e.ctx.hevc)
  <2>1. e.drv.inside[i] \in Stamped /\ long[i] \in BOOLEAN
    BY <1>1
  <2> QED BY <2>1, DetectionTells
<1>5. native \in [1 .. n -> BOOLEAN]
  BY <1>4
<1>6. Reading(e, n, native, long) = [i \in 1 .. n |->
               Delivery(e, e.drv.inside[i], e.drv.inside[i].time,
                        NativeDetect(AccessUnit(e.drv.inside[i].key, e.ctx.hevc, long[i]), e.ctx.hevc),
                        AccessUnit(e.drv.inside[i].key, e.ctx.hevc, long[i]))]
  BY <1>4 DEF Reading
<1>7. r.lost = FALSE /\ r.enc = Drained(e, n, Reading(e, n, native, long))
  BY <1>3, <1>6 DEF Result, Drained
<1> HIDE DEF native
<1> QED BY <1>4, <1>5, <1>7

(* A surface goes in, and all that is ready comes out (AmfWrapper.cpp).      *)
LEMMA AmfSubmitHonours ==
  ASSUME vendor = "amf", NEW e \in Encoders, e.sent = << >>, Len(e.drv.inside) <= Depth,
         e.ctx.fps \in FpsValues, NEW idr \in BOOLEAN, NEW r \in AmfSubmitAndDrain(e, idr)
  PROVE  HonoursContract(e, idr, r)
<1> DEFINE told == Forcing(e, e.drv.force \/ idr)
           next == Advanced(told)
           reset == Forcing(next, next.drv.force /\ ~ idr)
           key(due) == e.drv.first \/ next.drv.force \/ due
           entered(due) == Entered(reset, FrameOf(e, key(due)))
<1>1. \/ r = Result(FALSE, next)
      \/ /\ Len(e.drv.inside) = Depth
         /\ \E x \in AmfReady(reset, LAMBDA data : NativeDetect(data, e.ctx.hevc)) : r = Losing(TRUE, x.enc, idr)
      \/ /\ Len(e.drv.inside) # Depth
         /\ \E due \in BOOLEAN : r \in AmfReady(entered(due), LAMBDA data : NativeDetect(data, e.ctx.hevc))
  BY DEF AmfSubmitAndDrain, Forcing
<1>2. e.drv.force \in BOOLEAN /\ e.drv.first \in BOOLEAN /\ e.ctx.pts \in Nat
      /\ Len(e.drv.inside) \in Nat /\ e.drv.inside \in Seq(Stamped) /\ e.ctx.hevc \in BOOLEAN
  BY ContextPart
<1>3. /\ told \in Encoders /\ Kept(e, told) /\ SameRates(e, told) /\ told.ctx = e.ctx /\ told.sent = << >>
      /\ told.drv.force = (e.drv.force \/ idr) /\ told.drv.inside = e.drv.inside
      /\ told.drv.registered = e.drv.registered /\ told.drv.first = e.drv.first
  BY <1>2, ForcingParts
<1> HIDE DEF told
<1>4. /\ next \in Encoders /\ next.ctx.pts \in Nat /\ next.ctx.pts > e.ctx.pts /\ Kept(told, next) /\ SameRates(told, next)
      /\ next.drv = told.drv /\ next.sent = << >> /\ next.ctx.cached = e.ctx.cached
  BY <1>3, AdvancedParts
<1> HIDE DEF next
<1>5. /\ reset \in Encoders /\ Kept(next, reset) /\ SameRates(next, reset) /\ reset.ctx = next.ctx
      /\ reset.sent = << >> /\ reset.drv.force = (next.drv.force /\ ~ idr) /\ reset.drv.inside = e.drv.inside
      /\ reset.drv.registered = e.drv.registered
  <2> DEFINE still == next.drv.force /\ ~ idr
  <2>1. still \in BOOLEAN /\ reset = Forcing(next, still)
    OBVIOUS
  <2> HIDE DEF reset, still
  <2>2. /\ reset \in Encoders /\ Kept(next, reset) /\ SameRates(next, reset) /\ reset.ctx = next.ctx
        /\ reset.sent = next.sent /\ reset.drv.force = still /\ reset.drv.inside = next.drv.inside
        /\ reset.drv.registered = next.drv.registered
    BY <1>4, <2>1, ForcingParts
  <2> QED BY <1>3, <1>4, <2>2 DEF still
<1> HIDE DEF reset
<1>6. Kept(e, next) /\ SameRates(e, next) /\ (Matches(e) => Matches(next))
  BY <1>3, <1>4 DEF Kept, SameRates, Matches
<1>7. Kept(e, reset) /\ SameRates(e, reset) /\ (Matches(e) => Matches(reset)) /\ reset.ctx.hevc = e.ctx.hevc
  BY <1>3, <1>4, <1>5, <1>6 DEF Kept, SameRates, Matches
<1>8. CASE r = Result(FALSE, next)
  <2>1. r.enc = next /\ r.lost = FALSE /\ next.ctx.pts >= e.ctx.pts
    BY <1>2, <1>4, <1>8 DEF Result
  <2>2. idr \/ e.drv.force => r.lost \/ r.enc.drv.force
    BY <1>3, <1>4, <2>1
  <2> QED BY <1>3, <1>4, <1>6, <2>1, <2>2, IdleHonours
<1>9. ASSUME NEW x \in AmfReady(reset, LAMBDA data : NativeDetect(data, e.ctx.hevc)), r = Losing(TRUE, x.enc, idr)
      PROVE  HonoursContract(e, idr, r)
  <2>1. r.enc = x.enc /\ r.lost = idr
    BY <1>9 DEF Losing
  <2>2. x \in AmfReady(reset, LAMBDA data : NativeDetect(data, reset.ctx.hevc))
    BY <1>7
  <2>3. PICK n \in 0 .. Len(reset.drv.inside) : \E native, long \in [1 .. n -> BOOLEAN] :
          /\ \A i \in 1 .. n : native[i] => reset.drv.inside[i].key
          /\ x.enc = Drained(reset, n, Reading(reset, n, native, long))
    BY <1>5, <2>2, DetectedResults
  <2>4. PICK native \in [1 .. n -> BOOLEAN], long \in [1 .. n -> BOOLEAN] :
          /\ \A i \in 1 .. n : native[i] => reset.drv.inside[i].key
          /\ x.enc = Drained(reset, n, Reading(reset, n, native, long))
    BY <2>3
  <2>5. TakesNothing(e, idr, [enc |-> reset, lost |-> r.lost], reset.drv.inside)
    BY <1>3, <1>4, <1>5, <2>1 DEF TakesNothing
  <2>6. reset.ctx.pts >= e.ctx.pts
    BY <1>2, <1>4, <1>5
  <2> QED BY <1>5, <1>7, <2>1, <2>4, <2>5, <2>6, DrainHonours
<1>10. ASSUME Len(e.drv.inside) # Depth, NEW due \in BOOLEAN,
              r \in AmfReady(entered(due), LAMBDA data : NativeDetect(data, e.ctx.hevc))
       PROVE  HonoursContract(e, idr, r)
  <2> DEFINE frame == FrameOf(e, key(due))
             a == Entered(reset, frame)
  <2>1. key(due) \in BOOLEAN
    BY <1>2, <1>3, <1>4
  <2>2. frame \in Stamped /\ frame.time = e.ctx.pts /\ frame.key = key(due)
    BY <2>1, FrameParts
  <2>12. r \in AmfReady(a, LAMBDA data : NativeDetect(data, e.ctx.hevc))
    BY <1>10
  <2> HIDE DEF frame
  <2>3. /\ a \in Encoders /\ Kept(reset, a) /\ SameRates(reset, a) /\ a.ctx = reset.ctx /\ a.sent = << >>
        /\ a.drv.inside = Append(e.drv.inside, frame) /\ a.drv.force = reset.drv.force
        /\ a.drv.registered = e.drv.registered
    <3>1. frame \in Stamped
      BY <2>2
    <3>2. /\ a \in Encoders /\ Kept(reset, a) /\ SameRates(reset, a) /\ a.ctx = reset.ctx /\ a.sent = reset.sent
          /\ a.drv.inside = Append(reset.drv.inside, frame) /\ a.drv.force = reset.drv.force
          /\ a.drv.registered = reset.drv.registered
      BY ONLY <1>5, <3>1, EnteredParts
    <3> HIDE DEF a
    <3> QED BY <1>5, <3>2
  <2> HIDE DEF a
  <2>4. Kept(e, a) /\ SameRates(e, a) /\ (Matches(e) => Matches(a)) /\ a.ctx.hevc = e.ctx.hevc
    BY <1>5, <1>7, <2>3 DEF Kept, SameRates, Matches
  <2>5. r \in AmfReady(a, LAMBDA data : NativeDetect(data, a.ctx.hevc))
    <3> DEFINE h == a.ctx.hevc
    <3>1. e.ctx.hevc = h
      BY <2>4
    <3> HIDE DEF h
    <3>2. r \in AmfReady(a, LAMBDA data : NativeDetect(data, h))
      BY ONLY <2>12, <3>1, SMT
    <3> QED BY <3>2 DEF h
  <2>6. PICK n \in 0 .. Len(a.drv.inside) : \E native, long \in [1 .. n -> BOOLEAN] :
          /\ \A i \in 1 .. n : native[i] => a.drv.inside[i].key
          /\ r.enc = Drained(a, n, Reading(a, n, native, long))
    BY <2>3, <2>5, DetectedResults
  <2>7. PICK native \in [1 .. n -> BOOLEAN], long \in [1 .. n -> BOOLEAN] :
          /\ \A i \in 1 .. n : native[i] => a.drv.inside[i].key
          /\ r.enc = Drained(a, n, Reading(a, n, native, long))
    BY <2>6
  <2>8. r.lost = FALSE
    BY <2>3, <2>5, DetectedResults
  <2>9. a.ctx.pts > e.ctx.pts /\ a.ctx.pts >= e.ctx.pts /\ Len(e.drv.inside) < Depth
    BY <1>2, <1>4, <1>5, <1>10, <2>3, NativeEncoderAssumption
  <2>10. (idr => frame.key) /\ (e.drv.force => frame.key)
    BY <1>3, <1>4, <2>2
  <2>11. TakesFrame(e, idr, [enc |-> a, lost |-> r.lost], a.drv.inside)
    BY <2>2, <2>3, <2>9, <2>10 DEF TakesFrame
  <2> QED BY <2>3, <2>4, <2>7, <2>8, <2>9, <2>11, DrainHonours
<1> QED BY <1>1, <1>8, <1>9, <1>10

(* Both ways of handing a frame to the wrapper of AMD.                       *)
LEMMA AmfEncodeHonours ==
  ASSUME vendor = "amf", NEW e \in Encoders, e.sent = << >>, Len(e.drv.inside) <= Depth,
         e.ctx.fps \in FpsValues, NEW idr \in BOOLEAN, NEW tex \in Textures,
         NEW r \in AmfEncodeTexture(e, idr) \cup AmfEncodeBgraTexture(e, tex, idr)
  PROVE  HonoursContract(e, idr, r)
<1>1. r \in AmfSubmitAndDrain(e, idr) \/ r = Losing(FALSE, e, idr)
  BY DEF AmfEncodeTexture, AmfEncodeBgraTexture
<1>2. CASE r = Losing(FALSE, e, idr)
  <2>1. r.enc = e /\ r.lost = idr /\ e.ctx.pts >= e.ctx.pts
    BY <1>2, ContextPart DEF Losing
  <2> QED BY <2>1, KeptSelf, IdleHonours
<1> QED BY <1>1, <1>2, AmfSubmitHonours

-----------------------------------------------------------------------------
(* Whichever wrapper it is                                                   *)

(* The contract holds of every wrapper, whichever call of it fails.          *)
LEMMA EncodeHonours ==
  ASSUME vendor \in {"nvenc", "amf", "qsv"}, NEW e \in Encoders, e.sent = << >>, Len(e.drv.inside) <= Depth,
         vendor = "nvenc" => e.drv.inside = << >> /\ e.drv.force = FALSE,
         e.ctx.fps \in FpsValues, NEW idr \in BOOLEAN, NEW tex \in Textures,
         NEW r \in EncodeTexture(e, idr) \cup EncodeBgraTexture(e, tex, idr)
  PROVE  HonoursContract(e, idr, r)
<1>1. CASE vendor = "nvenc"
  BY <1>1, NvencEncodeHonours DEF EncodeTexture, EncodeBgraTexture
<1>2. CASE vendor = "amf"
  BY <1>2, AmfEncodeHonours DEF EncodeTexture, EncodeBgraTexture
<1>3. CASE vendor = "qsv"
  BY <1>3, QsvEncodeHonours DEF EncodeTexture, EncodeBgraTexture
<1> QED BY <1>1, <1>2, <1>3

(* A flush takes no frame and says of none that it is lost.                  *)
LEMMA FlushHonours ==
  ASSUME vendor \in {"nvenc", "amf", "qsv"}, NEW e \in Encoders, e.sent = << >>,
         NEW r \in FlushEncoder(e)
  PROVE  HonoursContract(e, FALSE, r) /\ r.lost = FALSE /\ r.enc.ctx.pts = e.ctx.pts
<1>1. CASE vendor = "amf"
  <2>1. r \in AmfReady(e, LAMBDA data : FALSE)
    BY <1>1 DEF FlushEncoder, AmfFlush
  <2>2. PICK n \in 0 .. Len(e.drv.inside) : \E native, long \in [1 .. n -> BOOLEAN] :
          /\ \A i \in 1 .. n : native[i] => e.drv.inside[i].key
          /\ r.enc = Drained(e, n, Reading(e, n, native, long))
    BY <2>1, FlushedResults
  <2>3. PICK native \in [1 .. n -> BOOLEAN], long \in [1 .. n -> BOOLEAN] :
          /\ \A i \in 1 .. n : native[i] => e.drv.inside[i].key
          /\ r.enc = Drained(e, n, Reading(e, n, native, long))
    BY <2>2
  <2>4. r.lost = FALSE
    BY <2>1, FlushedResults
  <2>5. TakesNothing(e, FALSE, [enc |-> e, lost |-> r.lost], e.drv.inside)
    BY DEF TakesNothing
  <2>6. HonoursContract(e, FALSE, r)
    <3>1. e.ctx.pts >= e.ctx.pts
      BY ContextPart
    <3> QED BY <1>1, <2>3, <2>4, <2>5, <3>1, KeptSelf, DrainHonours
  <2>7. r.enc.ctx.pts = e.ctx.pts
    <3>1. Reading(e, n, native, long) \in Seq(Deliveries)
      BY <2>3, ReadingParts
    <3> DEFINE out == Reading(e, n, native, long)
    <3> HIDE DEF out
    <3>2. Drained(e, n, out).ctx = e.ctx
      BY <3>1, DrainedParts DEF out
    <3> QED BY <2>3, <3>2 DEF out
  <2> QED BY <2>4, <2>6, <2>7
<1>2. CASE vendor # "amf"
  <2>1. r.enc = e /\ r.lost = FALSE /\ e.ctx.pts >= e.ctx.pts
    BY <1>2, ContextPart DEF FlushEncoder, NvencFlush, QsvFlush, Result
  <2>2. HonoursContract(e, FALSE, r)
    BY <2>1, KeptSelf, IdleHonours
  <2> QED BY <2>1, <2>2
<1> QED BY <1>1, <1>2

-----------------------------------------------------------------------------
(* Changes of rate                                                           *)

(* What a change of rate leaves alone.                                       *)
Tuned(e, f) ==
  /\ f.ctx.alive = e.ctx.alive /\ f.ctx.owns = e.ctx.owns /\ f.ctx.pts = e.ctx.pts
  /\ f.ctx.cached = e.ctx.cached
  /\ f.drv.inside = e.drv.inside /\ f.drv.force = e.drv.force /\ f.drv.registered = e.drv.registered
  /\ f.held = e.held /\ f.failed = e.failed /\ f.sent = e.sent /\ f.last = e.last

(* The encoder runs as its context says, at rates the program asks for.      *)
Settled(e) ==
  /\ e.ctx.fps \in FpsValues /\ e.ctx.bitrate \in Bitrates
  /\ e.ctx.fps = e.drv.fps
  /\ e.ctx.bitrate \in {e.drv.mean} \cup IF vendor = "qsv" THEN {e.drv.max} ELSE {}

(* A change of rate that is refused changes nothing.                         *)
LEMMA TunedSelf ==
  ASSUME NEW e
  PROVE  Tuned(e, e)
BY DEF Tuned

(* A context and a driver with other rates.                                  *)
Rated(e, fps, rate, hw, mean, max) ==
  [e EXCEPT !.ctx = [e.ctx EXCEPT !.fps = fps, !.bitrate = rate],
            !.drv = [e.drv EXCEPT !.fps = hw, !.mean = mean, !.max = max]]

(* Other rates leave the rest as it was.                                     *)
LEMMA RatedParts ==
  ASSUME NEW e \in Encoders, NEW fps \in Nat, NEW rate \in Nat, NEW mean \in Nat, NEW max \in Nat, NEW hw \in Nat
  PROVE  LET f == Rated(e, fps, rate, hw, mean, max) IN
            /\ f \in Encoders /\ Tuned(e, f) /\ f.ctx.fps = fps /\ f.ctx.bitrate = rate
            /\ f.drv.fps = hw /\ f.drv.mean = mean /\ f.drv.max = max
<1> DEFINE ctx == [e.ctx EXCEPT !.fps = fps, !.bitrate = rate]
           drv == [e.drv EXCEPT !.fps = hw, !.mean = mean, !.max = max]
           f == Rated(e, fps, rate, hw, mean, max)
<1>1. ctx \in Contexts /\ ctx.fps = fps /\ ctx.bitrate = rate
      /\ ctx.alive = e.ctx.alive /\ ctx.owns = e.ctx.owns /\ ctx.pts = e.ctx.pts /\ ctx.cached = e.ctx.cached
  BY ContextPart DEF Contexts
<1>2. drv \in Drivers /\ drv.fps = hw /\ drv.mean = mean /\ drv.max = max
      /\ drv.inside = e.drv.inside /\ drv.force = e.drv.force /\ drv.registered = e.drv.registered
  BY ContextPart DEF Drivers
<1>3. f = [e EXCEPT !.ctx = ctx, !.drv = drv]
  BY DEF Rated
<1> HIDE DEF ctx, drv, f
<1>4. f \in Encoders /\ f.ctx = ctx /\ f.drv = drv
      /\ f.held = e.held /\ f.failed = e.failed /\ f.sent = e.sent /\ f.last = e.last
  BY <1>1, <1>2, <1>3 DEF Encoders
<1>5. Tuned(e, f)
  BY <1>1, <1>2, <1>4 DEF Tuned
<1> QED BY <1>1, <1>2, <1>4, <1>5 DEF f

(* The rates are numbers.                                                    *)
LEMMA RatesAreNumbers ==
  ASSUME NEW e \in Encoders
  PROVE  /\ e.drv.mean \in Nat /\ e.drv.max \in Nat /\ e.drv.fps \in Nat
         /\ e.ctx.bitrate \in Nat /\ e.ctx.fps \in Nat
         /\ Bitrates \subseteq Nat /\ FpsValues \subseteq Nat
BY NativeEncoderAssumption DEF Encoders, Contexts, Drivers

(* The bitrate is that of the call, or what it was.                          *)
LEMMA BitrateIsSet ==
  ASSUME vendor \in {"nvenc", "amf", "qsv"}, NEW e \in Encoders, Settled(e), NEW rate \in Bitrates,
         NEW r \in SetEncoderBitrate(e, rate)
  PROVE  r.enc \in Encoders /\ Tuned(e, r.enc) /\ Settled(r.enc) /\ r.enc.ctx.fps = e.ctx.fps
<1> DEFINE fps == e.ctx.fps
           hw == e.drv.fps
           mean == e.drv.mean
           max == e.drv.max
           lower == Rated(e, fps, rate, hw, rate, max)
           upper == Rated(e, fps, rate, hw, mean, rate)
<1>0. mean \in Nat /\ max \in Nat /\ hw \in Nat /\ fps \in Nat /\ rate \in Nat
  BY RatesAreNumbers
<1> HIDE DEF fps, hw, mean, max
<1>1. CASE r.enc = e
  BY <1>1, TunedSelf
<1>2. CASE r.enc = lower
  <2>1. /\ lower \in Encoders /\ Tuned(e, lower) /\ lower.ctx.fps = fps /\ lower.ctx.bitrate = rate
        /\ lower.drv.fps = hw /\ lower.drv.mean = rate
    BY <1>0, RatedParts
  <2> QED BY <1>2, <2>1 DEF Settled, fps, hw
<1>3. CASE r.enc = upper /\ vendor = "qsv"
  <2>1. /\ upper \in Encoders /\ Tuned(e, upper) /\ upper.ctx.fps = fps /\ upper.ctx.bitrate = rate
        /\ upper.drv.fps = hw /\ upper.drv.max = rate
    BY <1>0, RatedParts
  <2> QED BY <1>3, <2>1 DEF Settled, fps, hw
<1>4. CASE vendor = "nvenc"
  <2>1. r.enc = e \/ r.enc = [e EXCEPT !.drv = ConfigureNvencConfig(@, e.ctx.fps, rate), !.ctx.bitrate = rate]
    BY <1>4 DEF SetEncoderBitrate, NvencSetBitrate, Result
  <2>2. [e EXCEPT !.drv = ConfigureNvencConfig(@, e.ctx.fps, rate), !.ctx.bitrate = rate] = lower
    BY DEF ConfigureNvencConfig, Rated, Settled, Encoders, Contexts, Drivers, fps, hw, mean, max
  <2> QED BY <1>1, <1>2, <2>1, <2>2
<1>5. CASE vendor = "amf"
  <2>1. r.enc = e \/ r.enc = [e EXCEPT !.drv.mean = rate, !.ctx.bitrate = rate]
    BY <1>5 DEF SetEncoderBitrate, AmfSetBitrate, Result
  <2>2. [e EXCEPT !.drv.mean = rate, !.ctx.bitrate = rate] = lower
    BY DEF Rated, Encoders, Contexts, Drivers, fps, hw, mean, max
  <2> QED BY <1>1, <1>2, <2>1, <2>2
<1>6. CASE vendor = "qsv"
  <2>1. \/ r.enc = e \/ r.enc = [e EXCEPT !.drv.mean = rate, !.ctx.bitrate = rate]
        \/ r.enc = [e EXCEPT !.drv.max = rate, !.ctx.bitrate = rate]
    BY <1>6 DEF SetEncoderBitrate, QsvSetBitrate, Result
  <2>2. [e EXCEPT !.drv.mean = rate, !.ctx.bitrate = rate] = lower
    BY DEF Rated, Encoders, Contexts, Drivers, fps, hw, mean, max
  <2>3. [e EXCEPT !.drv.max = rate, !.ctx.bitrate = rate] = upper
    BY DEF Rated, Encoders, Contexts, Drivers, fps, hw, mean, max
  <2> QED BY <1>1, <1>2, <1>3, <1>6, <2>1, <2>2, <2>3
<1> QED BY <1>4, <1>5, <1>6

(* The frame rate is that of the call, or what it was and the call says so.  *)
LEMMA FpsIsChanged ==
  ASSUME vendor \in {"nvenc", "amf", "qsv"}, NEW e \in Encoders, Settled(e), NEW fps \in FpsValues,
         NEW r \in SetEncoderFps(e, fps)
  PROVE  /\ r.enc \in Encoders /\ Tuned(e, r.enc) /\ Settled(r.enc)
         /\ r.ok => r.enc.ctx.fps = fps
<1> DEFINE rate == e.ctx.bitrate
           mean == e.drv.mean
           max == e.drv.max
           kept == Rated(e, fps, rate, fps, mean, max)
           set == Rated(e, fps, rate, fps, rate, max)
<1>0. mean \in Nat /\ max \in Nat /\ rate \in Nat /\ fps \in Nat
  BY RatesAreNumbers
<1> HIDE DEF rate, mean, max
<1>1. CASE r.enc = e /\ ~ r.ok
  BY <1>1, TunedSelf
<1>2. CASE r.enc = kept
  <2>1. /\ kept \in Encoders /\ Tuned(e, kept) /\ kept.ctx.fps = fps /\ kept.ctx.bitrate = rate
        /\ kept.drv.fps = fps /\ kept.drv.mean = mean /\ kept.drv.max = max
    BY <1>0, RatedParts
  <2> QED BY <1>2, <2>1 DEF Settled, rate, mean, max
<1>3. CASE r.enc = set
  <2>1. /\ set \in Encoders /\ Tuned(e, set) /\ set.ctx.fps = fps /\ set.ctx.bitrate = rate
        /\ set.drv.fps = fps /\ set.drv.mean = rate
    BY <1>0, RatedParts
  <2> QED BY <1>3, <2>1 DEF Settled, rate, mean, max
<1>4. CASE vendor = "nvenc"
  <2>1. (r.enc = e /\ ~ r.ok) \/ r.enc = [e EXCEPT !.drv = ConfigureNvencConfig(@, fps, e.ctx.bitrate), !.ctx.fps = fps]
    BY <1>4 DEF SetEncoderFps, NvencSetFps, Result
  <2>2. [e EXCEPT !.drv = ConfigureNvencConfig(@, fps, e.ctx.bitrate), !.ctx.fps = fps] = set
    BY DEF ConfigureNvencConfig, Rated, Encoders, Contexts, Drivers, rate, mean, max
  <2> QED BY <1>1, <1>3, <2>1, <2>2
<1>5. CASE vendor = "amf"
  <2>1. (r.enc = e /\ ~ r.ok) \/ r.enc = [e EXCEPT !.drv.fps = fps, !.ctx.fps = fps]
    BY <1>5 DEF SetEncoderFps, AmfSetFps, Result
  <2>2. [e EXCEPT !.drv.fps = fps, !.ctx.fps = fps] = kept
    BY DEF Rated, Encoders, Contexts, Drivers, rate, mean, max
  <2> QED BY <1>1, <1>2, <2>1, <2>2
<1>6. CASE vendor = "qsv"
  BY <1>1, <1>6 DEF SetEncoderFps, QsvSetFps, Result
<1> QED BY <1>4, <1>5, <1>6

-----------------------------------------------------------------------------
(* Creation and destruction                                                  *)

(* What a wrapper's destruction releases.                                    *)
Releases ==
  CASE vendor = "nvenc" -> {"bitstream", "registration", "session", "texture", "context", "device", "library"}
    [] vendor = "amf" -> {"amfContext", "component"}
    [] vendor = "qsv" -> {"transform", "codecApi", "texture", "manager", "context", "device", "platform"}

(* What is held beyond the pointers that are set.                            *)
SurplusOf(e, r) == e.held[r] - IF r \in e.ctx.owns THEN 1 ELSE 0

Accounted(e) ==
  /\ e.ctx.owns \subseteq Releases
  /\ \A r \in Resources :
       /\ vendor = "amf" => SurplusOf(e, r) = 0
       /\ vendor = "nvenc" => SurplusOf(e, r) = IF r \in {"device", "context"} THEN e.failed ELSE 0
       /\ vendor = "qsv" => SurplusOf(e, r) \in IF r \in {"codecApi", "texture"} THEN {0} ELSE 0 .. e.failed

(* There is no encoder.                                                      *)
Unset(e) == e.ctx = NoContext /\ e.drv = NoDriver /\ e.sent = << >> /\ e.last = -1

(* There is one, and nothing has been handed to it yet.                      *)
Fresh(e, fps) ==
  /\ e.ctx.alive /\ e.ctx.fps = fps /\ e.ctx.pts = 0 /\ e.ctx.cached = NoTexture
  /\ e.drv.inside = << >> /\ e.drv.force = FALSE /\ e.drv.registered = {}
  /\ e.drv.fps = fps /\ e.ctx.bitrate \in Bitrates /\ e.drv.mean = e.ctx.bitrate
  /\ e.sent = << >> /\ e.last = -1

(* No encoder has the type of one.                                           *)
LEMMA NothingIsTyped ==
  NoContext \in Contexts /\ NoDriver \in Drivers /\ NoEncoder \in Encoders
<1>1. NoContext \in Contexts
  BY DEF NoContext, Contexts
<1>2. NoDriver \in Drivers
  BY DEF NoDriver, Drivers
<1>3. [r \in Resources |-> 0] \in [Resources -> Int]
  OBVIOUS
<1> QED BY <1>1, <1>2, <1>3 DEF NoEncoder, Encoders

(* What is acquired or given back, resource by resource.                     *)
LEMMA AddingParts ==
  ASSUME NEW held \in [Resources -> Int], NEW set, NEW n \in Int
  PROVE  /\ Adding(held, set, n) \in [Resources -> Int]
         /\ \A r \in Resources : Adding(held, set, n)[r] = IF r \in set THEN held[r] + n ELSE held[r]
BY DEF Adding

EncoderOf(ctx, drv, held, failed, sent, last) ==
  [ctx |-> ctx, drv |-> drv, held |-> held, failed |-> failed, sent |-> sent, last |-> last]

(* An encoder is made of its parts.                                          *)
LEMMA EncoderParts ==
  ASSUME NEW ctx \in Contexts, NEW drv \in Drivers, NEW held \in [Resources -> Int],
         NEW failed \in Nat, NEW sent \in Seq(Deliveries), NEW last \in Nat \cup {-1}
  PROVE  LET f == EncoderOf(ctx, drv, held, failed, sent, last) IN
         /\ f \in Encoders /\ f.ctx = ctx /\ f.drv = drv /\ f.held = held
         /\ f.failed = failed /\ f.sent = sent /\ f.last = last
BY DEF Encoders, EncoderOf

(* What the context points to is given back, and nothing else.               *)
LEMMA DestroyedParts ==
  ASSUME NEW e \in Encoders, e.ctx.owns \subseteq Releases, Accounted(e)
  PROVE  LET f == Destroyed(e, Releases) IN
         f \in Encoders /\ Unset(f) /\ f.failed = e.failed /\ Accounted(f)
<1> DEFINE f == Destroyed(e, Releases)
           held == Adding(e.held, e.ctx.owns, -1)
<1>1. /\ held \in [Resources -> Int]
      /\ \A r \in Resources : held[r] = IF r \in e.ctx.owns THEN e.held[r] - 1 ELSE e.held[r]
  BY ContextPart, AddingParts
<1>2. e.ctx.owns \cap Releases = e.ctx.owns
  OBVIOUS
<1>3. f = [e EXCEPT !.held = held, !.ctx = NoContext, !.drv = NoDriver, !.sent = << >>, !.last = -1]
  BY <1>2 DEF Destroyed
<1> HIDE DEF f, held
<1>4. /\ f \in Encoders /\ f.held = held /\ f.ctx = NoContext /\ f.drv = NoDriver
      /\ f.sent = << >> /\ f.last = -1 /\ f.failed = e.failed
  <2> DEFINE c == NoContext
             d == NoDriver
             n == e.failed
             s == << >>
             l == -1
  <2>1. f = EncoderOf(c, d, held, n, s, l)
    BY <1>3 DEF Encoders, EncoderOf
  <2>2. c \in Contexts /\ d \in Drivers /\ n \in Nat /\ s \in Seq(Deliveries) /\ l \in Nat \cup {-1}
    BY ContextPart, NothingIsTyped
  <2> HIDE DEF c, d, n, s, l
  <2>3. /\ f \in Encoders /\ f.ctx = c /\ f.drv = d /\ f.held = held
        /\ f.failed = n /\ f.sent = s /\ f.last = l
    BY ONLY <1>1, <2>1, <2>2, EncoderParts
  <2> QED BY <2>3 DEF c, d, n, s, l
<1>5. f.ctx.owns = {}
  BY <1>4 DEF NoContext
<1>6. \A r \in Resources : SurplusOf(f, r) = SurplusOf(e, r)
  <2>1. e.held \in [Resources -> Int]
    BY ContextPart
  <2> QED BY <1>1, <1>4, <1>5, <2>1 DEF SurplusOf
<1>7. Accounted(f)
  BY <1>4, <1>5, <1>6 DEF Accounted
<1> QED BY <1>4, <1>7 DEF Unset, f

(* The same whichever wrapper it is.                                         *)
LEMMA DisposeParts ==
  ASSUME vendor \in {"nvenc", "amf", "qsv"}, NEW e \in Encoders, Accounted(e)
  PROVE  /\ DisposeEncoder(e) \in Encoders /\ Unset(DisposeEncoder(e))
         /\ DisposeEncoder(e).failed = e.failed /\ Accounted(DisposeEncoder(e))
<1>1. DisposeEncoder(e) = Destroyed(e, Releases)
  BY DEF DisposeEncoder, NvencDestroyEncoder, AmfDestroyEncoder, QsvDestroyEncoder, Releases
<1>2. e.ctx.owns \subseteq Releases
  BY DEF Accounted
<1> QED BY <1>1, <1>2, DestroyedParts

(* What a creation that fails leaves behind.                                 *)
LeftBehind(set) ==
  /\ set \subseteq Resources
  /\ vendor = "amf" => set = {}
  /\ vendor = "nvenc" => set = {"device", "context"}
  /\ vendor = "qsv" => set \cap {"codecApi", "texture"} = {}

(* A creation that fails adds to what is held exactly what it leaves behind. *)
LEMMA FailedParts ==
  ASSUME NEW e \in Encoders, Unset(e), Accounted(e), NEW set, LeftBehind(set),
         vendor \in {"nvenc", "amf", "qsv"},
         NEW f, f = [e EXCEPT !.held = Adding(@, set, 1), !.failed = @ + 1]
  PROVE  f \in Encoders /\ Unset(f) /\ Accounted(f) /\ f.failed = e.failed + 1
<1> DEFINE held == Adding(e.held, set, 1)
<1>1. /\ held \in [Resources -> Int] /\ e.held \in [Resources -> Int] /\ e.failed \in Nat
      /\ \A r \in Resources : held[r] = IF r \in set THEN e.held[r] + 1 ELSE e.held[r]
  BY ContextPart, AddingParts
<1> HIDE DEF held
<1>2. f = [e EXCEPT !.held = held, !.failed = e.failed + 1]
  BY DEF held
<1>3. /\ f \in Encoders /\ f.held = held /\ f.failed = e.failed + 1
      /\ f.ctx = e.ctx /\ f.drv = e.drv /\ f.sent = e.sent /\ f.last = e.last
  <2> DEFINE c == e.ctx
             d == e.drv
             n == e.failed + 1
             s == e.sent
             l == e.last
  <2>1. f = EncoderOf(c, d, held, n, s, l)
    BY <1>2 DEF Encoders, EncoderOf
  <2>2. c \in Contexts /\ d \in Drivers /\ n \in Nat /\ s \in Seq(Deliveries) /\ l \in Nat \cup {-1}
    BY <1>1, ContextPart
  <2> HIDE DEF c, d, n, s, l
  <2>3. /\ f \in Encoders /\ f.ctx = c /\ f.drv = d /\ f.held = held
        /\ f.failed = n /\ f.sent = s /\ f.last = l
    BY ONLY <1>1, <2>1, <2>2, EncoderParts
  <2> QED BY <2>3 DEF c, d, n, s, l
<1>4. Unset(f) /\ f.ctx.owns = {} /\ e.ctx.owns = {}
  BY <1>3 DEF Unset, NoContext
<1>5. ASSUME NEW r \in Resources
      PROVE  /\ SurplusOf(e, r) = e.held[r] /\ SurplusOf(f, r) = IF r \in set THEN e.held[r] + 1 ELSE e.held[r]
             /\ e.held[r] \in Int
  BY <1>1, <1>3, <1>4 DEF SurplusOf
<1>6. ASSUME NEW r \in Resources
      PROVE  /\ vendor = "amf" => SurplusOf(f, r) = 0
             /\ vendor = "nvenc" => SurplusOf(f, r) = IF r \in {"device", "context"} THEN f.failed ELSE 0
             /\ vendor = "qsv" => SurplusOf(f, r) \in IF r \in {"codecApi", "texture"} THEN {0} ELSE 0 .. f.failed
  <2>1. CASE vendor = "amf"
    BY <1>5, <2>1 DEF Accounted, LeftBehind
  <2>2. CASE vendor = "nvenc"
    BY <1>1, <1>3, <1>5, <2>2 DEF Accounted, LeftBehind
  <2>3. CASE vendor = "qsv"
    <3>1. e.held[r] \in IF r \in {"codecApi", "texture"} THEN {0} ELSE 0 .. e.failed
      BY <1>5, <2>3 DEF Accounted
    <3>2. r \in {"codecApi", "texture"} => r \notin set
      BY <2>3 DEF LeftBehind
    <3> QED BY <1>1, <1>3, <1>5, <2>3, <3>1, <3>2
  <2> QED BY <2>1, <2>2, <2>3
<1>7. Accounted(f)
  BY <1>4, <1>6 DEF Accounted
<1> QED BY <1>3, <1>4, <1>7

Made(e, ctx, drv) ==
  [e EXCEPT !.held = Adding(@, ctx.owns, 1), !.ctx = ctx, !.drv = drv, !.sent = << >>, !.last = -1]

(* A creation that succeeds holds exactly what its context points to.        *)
LEMMA MadeParts ==
  ASSUME NEW e \in Encoders, Unset(e), Accounted(e), NEW ctx \in Contexts, NEW drv \in Drivers,
         ctx.owns \subseteq Releases,
         NEW f, f = Made(e, ctx, drv)
  PROVE  /\ f \in Encoders /\ f.ctx = ctx /\ f.drv = drv /\ f.sent = << >> /\ f.last = -1
         /\ f.failed = e.failed /\ Accounted(f)
<1> DEFINE held == Adding(e.held, ctx.owns, 1)
<1>1. /\ held \in [Resources -> Int] /\ e.held \in [Resources -> Int]
      /\ \A r \in Resources : held[r] = IF r \in ctx.owns THEN e.held[r] + 1 ELSE e.held[r]
  BY ContextPart, AddingParts
<1> HIDE DEF held
<1>2. f = [e EXCEPT !.held = held, !.ctx = ctx, !.drv = drv, !.sent = << >>, !.last = -1]
  BY DEF held, Made
<1>3. /\ f \in Encoders /\ f.held = held /\ f.failed = e.failed
      /\ f.ctx = ctx /\ f.drv = drv /\ f.sent = << >> /\ f.last = -1
  <2> DEFINE c == ctx
             d == drv
             n == e.failed
             s == << >>
             l == -1
  <2>1. f = EncoderOf(c, d, held, n, s, l)
    BY <1>2 DEF Encoders, EncoderOf
  <2>2. c \in Contexts /\ d \in Drivers /\ n \in Nat /\ s \in Seq(Deliveries) /\ l \in Nat \cup {-1}
    BY ContextPart
  <2> HIDE DEF c, d, n, s, l
  <2>3. /\ f \in Encoders /\ f.ctx = c /\ f.drv = d /\ f.held = held
        /\ f.failed = n /\ f.sent = s /\ f.last = l
    BY ONLY <1>1, <2>1, <2>2, EncoderParts
  <2> QED BY <2>3 DEF c, d, n, s, l
<1>4. e.ctx.owns = {}
  BY DEF Unset, NoContext
<1>5. \A r \in Resources : SurplusOf(f, r) = SurplusOf(e, r)
  BY <1>1, <1>3, <1>4 DEF SurplusOf
<1>6. Accounted(f)
  BY <1>3, <1>5 DEF Accounted
<1> QED BY <1>3, <1>6

(* A creation succeeds with everything, or fails at one of its steps.        *)
LEMMA CreationParts ==
  ASSUME vendor \in {"nvenc", "amf", "qsv"}, NEW e \in Encoders, Unset(e), Accounted(e),
         NEW start, NEW steps, NEW ctx \in Contexts, NEW drv \in Drivers, ctx.owns \subseteq Releases,
         \A i \in 1 .. Len(steps) : LeftBehind(GotBefore(start, steps, i) \ steps[i].undo),
         NEW r \in CreateResults(e, start, steps, ctx, drv)
  PROVE  /\ r.enc \in Encoders /\ Accounted(r.enc)
         /\ \/ ~ r.ok /\ Unset(r.enc) /\ r.enc.failed = e.failed + 1
            \/ /\ r.ok = TRUE /\ r.enc.failed = e.failed /\ r.enc.ctx = ctx /\ r.enc.drv = drv
               /\ r.enc.sent = << >> /\ r.enc.last = -1
<1>1. ASSUME NEW i \in 1 .. Len(steps),
             r = Result(FALSE, [e EXCEPT !.held = Adding(@, GotBefore(start, steps, i) \ steps[i].undo, 1), !.failed = @ + 1])
      PROVE  /\ r.enc \in Encoders /\ Accounted(r.enc) /\ ~ r.ok /\ Unset(r.enc) /\ r.enc.failed = e.failed + 1
  <2> DEFINE set == GotBefore(start, steps, i) \ steps[i].undo
  <2>1. LeftBehind(set)
    OBVIOUS
  <2> HIDE DEF set
  <2>2. ~ r.ok /\ r.enc = [e EXCEPT !.held = Adding(@, set, 1), !.failed = @ + 1]
    BY <1>1 DEF Result, set
  <2> QED BY ONLY <2>1, <2>2, FailedParts, e \in Encoders, Unset(e), Accounted(e), vendor \in {"nvenc", "amf", "qsv"}
<1>2. ASSUME r = Result(TRUE, [e EXCEPT !.held = Adding(@, ctx.owns, 1), !.ctx = ctx, !.drv = drv, !.sent = << >>, !.last = -1])
      PROVE  /\ r.enc \in Encoders /\ Accounted(r.enc) /\ r.ok = TRUE /\ r.enc.failed = e.failed
             /\ r.enc.ctx = ctx /\ r.enc.drv = drv /\ r.enc.sent = << >> /\ r.enc.last = -1
  <2>1. r.ok = TRUE /\ r.enc = Made(e, ctx, drv)
    BY <1>2 DEF Result, Made
  <2> QED BY <2>1, MadeParts
<1>3. \/ \E i \in 1 .. Len(steps) :
           r = Result(FALSE, [e EXCEPT !.held = Adding(@, GotBefore(start, steps, i) \ steps[i].undo, 1), !.failed = @ + 1])
      \/ r = Result(TRUE, [e EXCEPT !.held = Adding(@, ctx.owns, 1), !.ctx = ctx, !.drv = drv, !.sent = << >>, !.last = -1])
  BY DEF CreateResults
<1> QED BY <1>1, <1>2, <1>3

(* The calls of each creation, one by one.                                   *)
LEMMA AmfLeaves ==
  ASSUME vendor = "amf"
  PROVE  \A i \in 1 .. Len(AmfSteps) : LeftBehind(GotBefore({}, AmfSteps, i) \ AmfSteps[i].undo)
<1>1. /\ Len(AmfSteps) = 5
      /\ AmfSteps[1].gets = {} /\ AmfSteps[2].gets = {"amfContext"} /\ AmfSteps[3].gets = {}
      /\ AmfSteps[4].gets = {"component"} /\ AmfSteps[5].gets = {}
      /\ AmfSteps[1].undo = {} /\ AmfSteps[2].undo = {} /\ AmfSteps[3].undo = {"amfContext"}
      /\ AmfSteps[4].undo = {"amfContext"} /\ AmfSteps[5].undo = {"amfContext", "component"}
  BY DEF AmfSteps, Step
<1>2. ASSUME NEW i \in 1 .. 5
      PROVE  GotBefore({}, AmfSteps, i) \ AmfSteps[i].undo = {}
  <2>1. SUFFICES ASSUME NEW x, x \in GotBefore({}, AmfSteps, i) PROVE x \in AmfSteps[i].undo
    OBVIOUS
  <2>2. PICK j \in 1 .. i - 1 : x \in AmfSteps[j].gets
    BY <2>1 DEF GotBefore
  <2> QED BY <1>1, <2>2
<1> QED BY <1>1, <1>2 DEF LeftBehind

(* Neither the codec interface nor the texture is left behind (QsvWrapper.cpp). *)
LEMMA QsvLeaves ==
  ASSUME vendor = "qsv", NEW api \in BOOLEAN
  PROVE  /\ \A i \in 1 .. Len(QsvSteps(api)) : LeftBehind(GotBefore({}, QsvSteps(api), i) \ QsvSteps(api)[i].undo)
         /\ GotBefore({}, QsvSteps(api), Len(QsvSteps(api)) + 1) \subseteq Releases \cap Resources
<1> DEFINE s == QsvSteps(api)
<1>1. /\ Len(s) = 8
      /\ s[1].gets = {"platform", "device", "context"} /\ s[2].gets = {"manager"} /\ s[3].gets = {}
      /\ s[4].gets = {"transform"} /\ s[5].gets = {} /\ s[6].gets \subseteq {"codecApi"}
      /\ s[7].gets = {} /\ s[8].gets = {"texture"}
      /\ "codecApi" \in s[7].undo /\ "codecApi" \in s[8].undo
  BY DEF QsvSteps, Step
<1> HIDE DEF s
<1>2. ASSUME NEW i \in 1 .. 8
      PROVE  LeftBehind(GotBefore({}, s, i) \ s[i].undo)
  <2>1. \A x \in GotBefore({}, s, i) : \E j \in 1 .. i - 1 : x \in s[j].gets
    BY DEF GotBefore
  <2>2. GotBefore({}, s, i) \subseteq Resources
    BY <1>1, <2>1 DEF Resources
  <2>3. "texture" \notin GotBefore({}, s, i)
    BY <1>1, <2>1
  <2>4. "codecApi" \in GotBefore({}, s, i) => i \in {7, 8}
    BY <1>1, <2>1
  <2>5. (GotBefore({}, s, i) \ s[i].undo) \cap {"codecApi", "texture"} = {}
    BY <1>1, <2>3, <2>4
  <2> QED BY <2>2, <2>5 DEF LeftBehind
<1>3. GotBefore({}, s, 9) \subseteq Releases \cap Resources
  <2>1. \A x \in GotBefore({}, s, 9) : \E j \in 1 .. 8 : x \in s[j].gets
    BY DEF GotBefore
  <2> QED BY <1>1, <2>1 DEF Releases, Resources
<1> QED BY <1>1, <1>2, <1>3 DEF s

(* The device and its context are left behind, and nothing else (NvencWrapper.cpp). *)
LEMMA NvencLeaves ==
  ASSUME vendor = "nvenc", NEW bgra \in BOOLEAN
  PROVE  LET start == {"device", "context"}
             s == NvencSteps(bgra)
         IN /\ \A i \in 1 .. Len(s) : LeftBehind(GotBefore(start, s, i) \ s[i].undo)
            /\ GotBefore(start, s, Len(s) + 1) \subseteq Releases \cap Resources
<1> DEFINE start == {"device", "context"}
           s == NvencSteps(bgra)
           base == {"session", "library"}
<1>1. CASE bgra = TRUE
  <2>1. /\ Len(s) = 4
        /\ s[1].gets = {"library"} /\ s[2].gets = {"session"} /\ s[3].gets = {} /\ s[4].gets = {"bitstream"}
        /\ s[1].undo = {} /\ s[2].undo = {"library"} /\ s[3].undo = {"session", "library"}
        /\ s[4].undo = {"session", "library"}
    BY <1>1 DEF NvencSteps, Step
  <2> HIDE DEF s
  <2>2. ASSUME NEW i \in 1 .. 4
        PROVE  GotBefore(start, s, i) \ s[i].undo = {"device", "context"}
    <3>1. \A x : x \in GotBefore(start, s, i) <=> x \in start \/ \E j \in 1 .. i - 1 : x \in s[j].gets
      BY DEF GotBefore
    <3> QED BY <2>1, <3>1
  <2>3. GotBefore(start, s, 5) \subseteq Releases \cap Resources
    <3>1. \A x \in GotBefore(start, s, 5) : x \in start \/ \E j \in 1 .. 4 : x \in s[j].gets
      BY DEF GotBefore
    <3> QED BY <2>1, <3>1 DEF Releases, Resources
  <2>4. LeftBehind({"device", "context"})
    BY DEF LeftBehind, Resources
  <2>5. \A i \in 1 .. Len(s) : LeftBehind(GotBefore(start, s, i) \ s[i].undo)
    BY <2>1, <2>2, <2>4
  <2>6. GotBefore(start, s, Len(s) + 1) \subseteq Releases \cap Resources
    BY <2>1, <2>3
  <2> QED BY <2>5, <2>6 DEF s
<1>2. CASE bgra = FALSE
  <2>1. /\ Len(s) = 6
        /\ s[1].gets = {"library"} /\ s[2].gets = {"session"} /\ s[3].gets = {}
        /\ s[4].gets = {"texture"} /\ s[5].gets = {"registration"} /\ s[6].gets = {"bitstream"}
        /\ s[1].undo = {} /\ s[2].undo = {"library"} /\ s[3].undo = {"session", "library"}
        /\ s[4].undo = {"session", "library"} /\ s[5].undo = {"texture", "session", "library"}
        /\ s[6].undo = {"texture", "registration", "session", "library"}
    BY <1>2 DEF NvencSteps, Step
  <2> HIDE DEF s
  <2>2. ASSUME NEW i \in 1 .. 6
        PROVE  GotBefore(start, s, i) \ s[i].undo = {"device", "context"}
    <3>1. \A x : x \in GotBefore(start, s, i) <=> x \in start \/ \E j \in 1 .. i - 1 : x \in s[j].gets
      BY DEF GotBefore
    <3> QED BY <2>1, <3>1
  <2>3. GotBefore(start, s, 7) \subseteq Releases \cap Resources
    <3>1. \A x \in GotBefore(start, s, 7) : x \in start \/ \E j \in 1 .. 6 : x \in s[j].gets
      BY DEF GotBefore
    <3> QED BY <2>1, <3>1 DEF Releases, Resources
  <2>4. LeftBehind({"device", "context"})
    BY DEF LeftBehind, Resources
  <2>5. \A i \in 1 .. Len(s) : LeftBehind(GotBefore(start, s, i) \ s[i].undo)
    BY <2>1, <2>2, <2>4
  <2>6. GotBefore(start, s, Len(s) + 1) \subseteq Releases \cap Resources
    BY <2>1, <2>3
  <2> QED BY <2>5, <2>6 DEF s
<1> QED BY <1>1, <1>2

(* The settings a driver starts with.                                        *)
DriverAt(fps, mean) == [NoDriver EXCEPT !.fps = fps, !.mean = mean]
TransformAt(fps, mean, api) == [NoDriver EXCEPT !.fps = fps, !.mean = mean, !.max = mean, !.api = api]

StartsAt(drv, fps, mean) ==
  /\ drv \in Drivers /\ drv.inside = << >> /\ drv.force = FALSE /\ drv.registered = {}
  /\ drv.fps = fps /\ drv.mean = mean

(* Those of NVIDIA and AMD.                                                  *)
LEMMA DriverAtParts ==
  ASSUME NEW fps \in Nat, NEW mean \in Nat
  PROVE  StartsAt(DriverAt(fps, mean), fps, mean)
<1> DEFINE drv == DriverAt(fps, mean)
<1>1. NoDriver \in Drivers /\ NoDriver.inside = << >> /\ NoDriver.force = FALSE /\ NoDriver.registered = {}
  BY NothingIsTyped DEF NoDriver
<1>2. drv \in Drivers
  BY <1>1 DEF Drivers, DriverAt
<1>3. drv.inside = << >> /\ drv.force = FALSE /\ drv.registered = {} /\ drv.fps = fps /\ drv.mean = mean
  BY <1>1 DEF Drivers, DriverAt
<1> QED BY <1>2, <1>3 DEF StartsAt

(* Those of a transform.                                                     *)
LEMMA TransformAtParts ==
  ASSUME NEW fps \in Nat, NEW mean \in Nat, NEW api \in BOOLEAN
  PROVE  StartsAt(TransformAt(fps, mean, api), fps, mean)
<1> DEFINE drv == TransformAt(fps, mean, api)
<1>1. NoDriver \in Drivers /\ NoDriver.inside = << >> /\ NoDriver.force = FALSE /\ NoDriver.registered = {}
  BY NothingIsTyped DEF NoDriver
<1>2. drv \in Drivers
  BY <1>1 DEF Drivers, TransformAt
<1>3. drv.inside = << >> /\ drv.force = FALSE /\ drv.registered = {} /\ drv.fps = fps /\ drv.mean = mean
  BY <1>1 DEF Drivers, TransformAt
<1> QED BY <1>2, <1>3 DEF StartsAt

Tries(e, bgra) == UNION {CreateEncoder(e, bgra, rate) : rate \in Bitrates}

(* Whichever wrapper makes the encoder.                                      *)
LEMMA CreateParts ==
  ASSUME vendor \in {"nvenc", "amf", "qsv"}, hevc \in BOOLEAN, track.fps \in FpsValues,
         NEW e \in Encoders, Unset(e), Accounted(e), NEW bgra \in BOOLEAN, NEW rate \in Bitrates,
         NEW r \in CreateEncoder(e, bgra, rate)
  PROVE  /\ r.enc \in Encoders /\ Accounted(r.enc)
         /\ \/ ~ r.ok /\ Unset(r.enc) /\ r.enc.failed = e.failed + 1
            \/ r.ok = TRUE /\ r.enc.failed = e.failed /\ Fresh(r.enc, track.fps)
<1>1. track.fps \in Nat /\ rate \in Nat
  BY RatesAreNumbers
<1>2. ASSUME NEW owns \in SUBSET Resources
      PROVE  LET ctx == Context(bgra, hevc, track.fps, rate, owns) IN
             /\ ctx \in Contexts /\ ctx.owns = owns /\ ctx.alive /\ ctx.fps = track.fps /\ ctx.pts = 0
             /\ ctx.cached = NoTexture /\ ctx.bitrate = rate
  BY <1>1 DEF Context, NoContext, Contexts
<1>3. ASSUME NEW ctx, NEW drv, r.enc.ctx = ctx, r.enc.drv = drv, r.enc.sent = << >>, r.enc.last = -1,
             ctx.alive, ctx.fps = track.fps, ctx.pts = 0, ctx.cached = NoTexture, ctx.bitrate = rate,
             drv.inside = << >>, drv.force = FALSE, drv.registered = {}, drv.fps = track.fps, drv.mean = rate
      PROVE  Fresh(r.enc, track.fps)
  BY <1>3 DEF Fresh
<1>4. CASE vendor = "nvenc"
  <2> DEFINE owns == GotBefore({"device", "context"}, NvencSteps(bgra), Len(NvencSteps(bgra)) + 1)
             ctx == Context(bgra, hevc, track.fps, rate, owns)
             drv == ConfigureNvencConfig(NoDriver, track.fps, rate)
  <2>1. r \in CreateResults(e, {"device", "context"}, NvencSteps(bgra), ctx, drv)
    BY <1>4 DEF CreateEncoder, NvencCreateEncoderInternal
  <2>2. /\ owns \in SUBSET Resources /\ owns \subseteq Releases
        /\ \A i \in 1 .. Len(NvencSteps(bgra)) :
             LeftBehind(GotBefore({"device", "context"}, NvencSteps(bgra), i) \ NvencSteps(bgra)[i].undo)
    BY <1>4, NvencLeaves
  <2>3. drv \in Drivers /\ drv.inside = << >> /\ drv.force = FALSE /\ drv.registered = {} /\ drv.fps = track.fps /\ drv.mean = rate
    <3> DEFINE fps == track.fps
               zero == 0
               no == FALSE
    <3>1. drv = DriverAt(fps, rate)
      BY DEF ConfigureNvencConfig, DriverAt
    <3>2. fps \in Nat /\ rate \in Nat /\ zero \in Nat /\ no \in BOOLEAN
      BY <1>1
    <3> HIDE DEF fps, zero, no, drv
    <3>3. StartsAt(drv, fps, rate)
      BY <3>1, <3>2, DriverAtParts
    <3> QED BY <3>3 DEF StartsAt, fps
  <2> HIDE DEF owns, drv
  <2>4. /\ ctx \in Contexts /\ ctx.owns = owns /\ ctx.alive /\ ctx.fps = track.fps /\ ctx.pts = 0
        /\ ctx.cached = NoTexture /\ ctx.bitrate = rate
    BY <1>2, <2>2
  <2> HIDE DEF ctx
  <2>5. /\ r.enc \in Encoders /\ Accounted(r.enc)
        /\ \/ ~ r.ok /\ Unset(r.enc) /\ r.enc.failed = e.failed + 1
           \/ /\ r.ok = TRUE /\ r.enc.failed = e.failed /\ r.enc.ctx = ctx /\ r.enc.drv = drv
              /\ r.enc.sent = << >> /\ r.enc.last = -1
    BY <2>1, <2>2, <2>3, <2>4, CreationParts
  <2> QED BY <1>3, <2>3, <2>4, <2>5
<1>5. CASE vendor = "amf"
  <2> DEFINE owns == {"amfContext", "component"}
             ctx == Context(bgra, hevc, track.fps, rate, owns)
             drv == [NoDriver EXCEPT !.fps = track.fps, !.mean = rate]
  <2>1. r \in CreateResults(e, {}, AmfSteps, ctx, drv)
    BY <1>5 DEF CreateEncoder, AmfCreateEncoderInternal
  <2>2. /\ owns \in SUBSET Resources /\ owns \subseteq Releases
        /\ \A i \in 1 .. Len(AmfSteps) : LeftBehind(GotBefore({}, AmfSteps, i) \ AmfSteps[i].undo)
    BY <1>5, AmfLeaves DEF Releases, Resources
  <2>3. drv \in Drivers /\ drv.inside = << >> /\ drv.force = FALSE /\ drv.registered = {} /\ drv.fps = track.fps /\ drv.mean = rate
    <3> DEFINE fps == track.fps
               zero == 0
               no == FALSE
    <3>1. drv = DriverAt(fps, rate)
      BY DEF DriverAt
    <3>2. fps \in Nat /\ rate \in Nat /\ zero \in Nat /\ no \in BOOLEAN
      BY <1>1
    <3> HIDE DEF fps, zero, no, drv
    <3>3. StartsAt(drv, fps, rate)
      BY <3>1, <3>2, DriverAtParts
    <3> QED BY <3>3 DEF StartsAt, fps
  <2> HIDE DEF owns, drv
  <2>4. /\ ctx \in Contexts /\ ctx.owns = owns /\ ctx.alive /\ ctx.fps = track.fps /\ ctx.pts = 0
        /\ ctx.cached = NoTexture /\ ctx.bitrate = rate
    BY <1>2, <2>2
  <2> HIDE DEF ctx
  <2>5. /\ r.enc \in Encoders /\ Accounted(r.enc)
        /\ \/ ~ r.ok /\ Unset(r.enc) /\ r.enc.failed = e.failed + 1
           \/ /\ r.ok = TRUE /\ r.enc.failed = e.failed /\ r.enc.ctx = ctx /\ r.enc.drv = drv
              /\ r.enc.sent = << >> /\ r.enc.last = -1
    BY <2>1, <2>2, <2>3, <2>4, CreationParts
  <2> QED BY <1>3, <2>3, <2>4, <2>5
<1>6. CASE vendor = "qsv"
  <2>0. PICK api \in BOOLEAN :
          r \in CreateResults(e, {}, QsvSteps(api),
                 Context(bgra, hevc, track.fps, rate, GotBefore({}, QsvSteps(api), Len(QsvSteps(api)) + 1)),
                 [NoDriver EXCEPT !.fps = track.fps, !.mean = rate, !.max = rate, !.api = api])
    BY <1>6 DEF CreateEncoder, QsvCreateEncoderInternal
  <2> DEFINE owns == GotBefore({}, QsvSteps(api), Len(QsvSteps(api)) + 1)
             ctx == Context(bgra, hevc, track.fps, rate, owns)
             drv == [NoDriver EXCEPT !.fps = track.fps, !.mean = rate, !.max = rate, !.api = api]
  <2>1. r \in CreateResults(e, {}, QsvSteps(api), ctx, drv)
    BY <2>0
  <2>2. /\ owns \in SUBSET Resources /\ owns \subseteq Releases
        /\ \A i \in 1 .. Len(QsvSteps(api)) : LeftBehind(GotBefore({}, QsvSteps(api), i) \ QsvSteps(api)[i].undo)
    BY <1>6, QsvLeaves
  <2>3. drv \in Drivers /\ drv.inside = << >> /\ drv.force = FALSE /\ drv.registered = {} /\ drv.fps = track.fps /\ drv.mean = rate
    <3> DEFINE fps == track.fps
               zero == 0
               no == FALSE
    <3>1. drv = TransformAt(fps, rate, api)
      BY DEF TransformAt
    <3>2. fps \in Nat /\ rate \in Nat /\ zero \in Nat /\ no \in BOOLEAN
      BY <1>1
    <3> HIDE DEF fps, zero, no, drv
    <3>3. StartsAt(drv, fps, rate)
      BY <3>1, <3>2, TransformAtParts
    <3> QED BY <3>3 DEF StartsAt, fps
  <2> HIDE DEF owns, drv
  <2>4. /\ ctx \in Contexts /\ ctx.owns = owns /\ ctx.alive /\ ctx.fps = track.fps /\ ctx.pts = 0
        /\ ctx.cached = NoTexture /\ ctx.bitrate = rate
    BY <1>2, <2>2
  <2> HIDE DEF ctx
  <2>5. /\ r.enc \in Encoders /\ Accounted(r.enc)
        /\ \/ ~ r.ok /\ Unset(r.enc) /\ r.enc.failed = e.failed + 1
           \/ /\ r.ok = TRUE /\ r.enc.failed = e.failed /\ r.enc.ctx = ctx /\ r.enc.drv = drv
              /\ r.enc.sent = << >> /\ r.enc.last = -1
    BY <2>1, <2>2, <2>3, <2>4, CreationParts
  <2> QED BY <1>3, <2>3, <2>4, <2>5
<1> QED BY <1>4, <1>5, <1>6

(* BGRA, and NV12 if that fails: there is a new encoder, or there is none.    *)
LEMMA InitializationParts ==
  ASSUME vendor \in {"nvenc", "amf", "qsv"}, hevc \in BOOLEAN, track.fps \in FpsValues,
         NEW e \in Encoders, Unset(e), Accounted(e),
         NEW f \in TryInitializeEncoderWithFallback(e)
  PROVE  f \in Encoders /\ Accounted(f) /\ (Unset(f) \/ Fresh(f, track.fps))
<1> DEFINE first == Tries(e, TRUE)
           second == UNION {Tries(t.enc, FALSE) : t \in {b \in first : ~ b.ok}}
<1>0. PICK x \in {b \in first : b.ok} \cup second : f = x.enc
  BY DEF TryInitializeEncoderWithFallback, Tries
<1>1. PICK r \in first :
        \/ r.ok /\ f = r.enc
        \/ ~ r.ok /\ \E rate \in Bitrates : \E y \in CreateEncoder(r.enc, FALSE, rate) : f = y.enc
  <2>1. CASE x \in {b \in first : b.ok}
    BY <1>0, <2>1
  <2>2. CASE x \in second
    <3>1. PICK b \in {b \in first : ~ b.ok} : x \in Tries(b.enc, FALSE)
      BY <2>2
    <3> QED BY <1>0, <3>1 DEF Tries
  <2> QED BY <1>0, <2>1, <2>2
<1>2. PICK b \in Bitrates : r \in CreateEncoder(e, TRUE, b)
  BY <1>1 DEF Tries
<1> HIDE DEF first, second
<1>3. /\ r.enc \in Encoders /\ Accounted(r.enc)
      /\ \/ ~ r.ok /\ Unset(r.enc)
         \/ r.ok = TRUE /\ Fresh(r.enc, track.fps)
  BY <1>2, CreateParts
<1>4. CASE r.ok /\ f = r.enc
  BY <1>3, <1>4
<1>5. ASSUME ~ r.ok, NEW rate \in Bitrates, NEW y \in CreateEncoder(r.enc, FALSE, rate), f = y.enc
      PROVE  f \in Encoders /\ Accounted(f) /\ (Unset(f) \/ Fresh(f, track.fps))
  <2>1. Unset(r.enc) /\ r.enc \in Encoders /\ Accounted(r.enc)
    BY <1>3, <1>5
  <2>2. /\ y.enc \in Encoders /\ Accounted(y.enc)
        /\ Unset(y.enc) \/ Fresh(y.enc, track.fps)
    BY <1>5, <2>1, CreateParts
  <2> QED BY <1>5, <2>2
<1> QED BY <1>1, <1>4, <1>5

-----------------------------------------------------------------------------
(* What holds of an encoder between two calls                                *)

(* An encoder of NVIDIA keeps no frame and no picture type to itself.        *)
SamePending(e, f) == f.drv.inside = e.drv.inside /\ f.drv.force = e.drv.force

(* The frame is gone when the call returns.                                  *)
LEMMA NvencPictureKeeps ==
  ASSUME NEW e \in Encoders, e.ctx.fps \in FpsValues, NEW idr, NEW r \in NvencPicture(e, idr)
  PROVE  SamePending(e, r.enc)
<1> DEFINE next == Advanced(e)
           drv == [next.drv EXCEPT !.first = FALSE]
           f == [next EXCEPT !.drv = drv]
           frame == FrameOf(e, idr \/ e.drv.first)
<1>1. next \in Encoders /\ next.drv = e.drv /\ next.drv \in Drivers
  BY AdvancedParts, ContextPart
<1>2. f.drv = drv /\ drv.inside = e.drv.inside /\ drv.force = e.drv.force
  BY <1>1 DEF Encoders, Drivers
<1>3. [next EXCEPT !.drv.first = FALSE] = f
  BY <1>1 DEF Encoders
<1> HIDE DEF next, drv, f, frame
<1>4. \/ r = Losing(FALSE, e, idr) \/ r = Losing(FALSE, next, idr) \/ r \in NvencRetrieveOutput(f, frame)
  BY <1>3 DEF NvencPicture, next, frame
<1>5. CASE r \in NvencRetrieveOutput(f, frame)
  <2>1. \/ r = Losing(TRUE, f, frame.key)
        \/ \E says \in {FALSE, frame.key} :
             \E x \in DeliverResults(f, frame, frame.time, LAMBDA data : says \/ NativeDetect(data, f.ctx.hevc)) : r = Result(TRUE, x)
    BY <1>5 DEF NvencRetrieveOutput
  <2>2. ASSUME NEW says \in {FALSE, frame.key},
               NEW x \in DeliverResults(f, frame, frame.time, LAMBDA data : says \/ NativeDetect(data, f.ctx.hevc)),
               r = Result(TRUE, x)
        PROVE  r.enc.drv = f.drv
    <3>1. f \in Encoders
      <4>1. drv \in Drivers
        BY <1>1 DEF Drivers, drv
      <4> QED BY <1>1, <4>1 DEF Encoders, f
    <3>2. \E d : x = With(f, d)
      BY <2>2 DEF DeliverResults, With
    <3>3. \A d : With(f, d).drv = f.drv
      BY <3>1 DEF With, Encoders
    <3>4. r.enc = x
      BY <2>2 DEF Result
    <3> QED BY <3>2, <3>3, <3>4
  <2>3. r = Losing(TRUE, f, frame.key) => r.enc.drv = f.drv
    BY DEF Losing
  <2>4. r.enc.drv = f.drv
    BY <2>1, <2>2, <2>3
  <2> QED BY <1>2, <2>4 DEF SamePending
<1>6. CASE r = Losing(FALSE, e, idr) \/ r = Losing(FALSE, next, idr)
  BY <1>1, <1>6 DEF Losing, SamePending
<1> QED BY <1>4, <1>5, <1>6

(* Whichever texture it comes from.                                          *)
LEMMA NvencKeeps ==
  ASSUME vendor = "nvenc", NEW e \in Encoders, e.ctx.fps \in FpsValues, NEW idr \in BOOLEAN, NEW tex \in Textures,
         NEW r \in EncodeTexture(e, idr) \cup EncodeBgraTexture(e, tex, idr)
  PROVE  SamePending(e, r.enc)
<1> DEFINE f == Unregistered(e)
           g == Registered(f, tex)
<1>1. /\ g \in Encoders /\ f.drv.inside = e.drv.inside /\ f.drv.force = e.drv.force
      /\ g.drv.inside = e.drv.inside /\ g.drv.force = e.drv.force /\ g.ctx.fps = e.ctx.fps
  BY ExchangeParts
<1> HIDE DEF f, g
<1>2. \/ r = Losing(FALSE, e, idr) \/ r = Losing(FALSE, f, idr)
      \/ r \in NvencPicture(e, idr) \/ r \in NvencPicture(g, idr)
  BY DEF EncodeTexture, EncodeBgraTexture, NvencEncodeTexture, NvencEncodeBgraTexture, f, g
<1>3. CASE r = Losing(FALSE, e, idr) \/ r = Losing(FALSE, f, idr)
  BY <1>1, <1>3 DEF Losing, SamePending
<1>4. CASE r \in NvencPicture(e, idr)
  BY <1>4, NvencPictureKeeps
<1>5. CASE r \in NvencPicture(g, idr)
  <2>1. SamePending(g, r.enc)
    BY <1>1, <1>5, NvencPictureKeeps
  <2> QED BY <1>1, <2>1 DEF SamePending
<1> QED BY <1>2, <1>3, <1>4, <1>5

-----------------------------------------------------------------------------
(* The inductive invariant of an encoder                                     *)

(* The pipeline is not longer than its depth, and that of NVIDIA is none.    *)
Room(e) ==
  /\ Len(e.drv.inside) <= Depth
  /\ vendor = "nvenc" => e.drv.inside = << >> /\ e.drv.force = FALSE

(* The time of the last frame that was delivered.                            *)
LastTime(e) == IF e.sent = << >> THEN e.last ELSE e.sent[Len(e.sent)].time

(* What is inside is later than what was delivered and earlier than what     *)
(* will go in, in the order in which it went in; a transform stamps what     *)
(* comes out with the present time, so that only the clock counts there.     *)
Ordered(s, least, most) ==
  /\ \A i \in 1 .. Len(s) : s[i].time < most
  /\ vendor # "qsv" => /\ \A i \in 1 .. Len(s) : s[i].time > least
                       /\ \A i, j \in 1 .. Len(s) : i < j => s[i].time < s[j].time

Timely(e) ==
  /\ LastTime(e) < e.ctx.pts
  /\ Ordered(e.drv.inside, LastTime(e), e.ctx.pts)

(* The stamps of what the last call delivered.                               *)
Increasing(e) ==
  \A i \in 1 .. Len(e.sent) :
    /\ (IF i = 1 THEN e.last ELSE e.sent[i - 1].time) < e.sent[i].time
    /\ e.sent[i].time >= e.sent[i].due
    /\ e.sent[i].time # e.sent[i].due => vendor = "qsv"

Truthful(e) == \A i \in 1 .. Len(e.sent) : e.sent[i].reported = e.sent[i].key

(* No frame goes in after MaxTime.                                           *)
Early(e) == \A i \in 1 .. Len(e.drv.inside) : e.drv.inside[i].time <= MaxTime

Healthy(e) ==
  /\ e \in Encoders
  /\ ~ e.ctx.alive => Unset(e)
  /\ e.ctx.alive => Settled(e)
  /\ Matches(e) /\ Accounted(e) /\ Room(e)
  /\ Timely(e) /\ Increasing(e) /\ Truthful(e) /\ Early(e)

(* No encoder, or a new one.                                                 *)
LEMMA EmptyIsHealthy ==
  ASSUME NEW e \in Encoders, Accounted(e), NEW fps \in FpsValues, Unset(e) \/ Fresh(e, fps)
  PROVE  Healthy(e)
<1>1. /\ e.drv.inside = << >> /\ e.drv.force = FALSE /\ e.drv.registered = {} /\ e.ctx.cached = NoTexture
      /\ e.sent = << >> /\ e.last = -1 /\ e.ctx.pts = 0
  BY DEF Unset, Fresh, NoContext, NoDriver
<1>2. (~ e.ctx.alive => Unset(e)) /\ (e.ctx.alive => Settled(e))
  BY DEF Unset, Fresh, NoContext, Settled
<1>3. Matches(e) /\ Room(e)
  BY <1>1, NativeEncoderAssumption DEF Matches, Room
<1>4. Timely(e)
  BY <1>1 DEF Timely, LastTime, Ordered
<1>5. Increasing(e) /\ Truthful(e) /\ Early(e)
  BY <1>1 DEF Increasing, Truthful, Early
<1> QED BY <1>2, <1>3, <1>4, <1>5 DEF Healthy

(* What is delivered becomes the past.                                       *)
LEMMA RememberedIsHealthy ==
  ASSUME NEW e, Healthy(e)
  PROVE  /\ Healthy(Remembered(e)) /\ Remembered(e).sent = << >>
         /\ Remembered(e).ctx = e.ctx /\ Remembered(e).drv = e.drv /\ Remembered(e).failed = e.failed
<1> DEFINE f == Remembered(e)
           n == Len(e.sent)
           time == e.sent[n].time
<1>1. CASE e.sent = << >>
  BY <1>1 DEF Remembered
<1>2. CASE e.sent # << >>
  <2>1. e \in Encoders /\ e.sent \in Seq(Deliveries)
    BY ContextPart DEF Healthy
  <2>2. n \in 1 .. n /\ time \in Nat
    <3>1. n \in 1 .. n /\ e.sent[n] \in Deliveries
      BY <1>2, <2>1
    <3> QED BY <3>1 DEF Deliveries
  <2>3. f = [e EXCEPT !.last = time, !.sent = << >>]
    BY <1>2 DEF Remembered
  <2>4. LastTime(e) = time
    BY <1>2 DEF LastTime
  <2> DEFINE none == << >>
  <2>10. f = [e EXCEPT !.last = time, !.sent = none] /\ none \in Seq(Deliveries)
    BY <2>3
  <2> HIDE DEF f, time, n, none
  <2>11. /\ f \in Encoders /\ f.ctx = e.ctx /\ f.drv = e.drv /\ f.held = e.held /\ f.failed = e.failed
        /\ f.sent = none /\ f.last = time
    BY <2>1, <2>2, <2>10 DEF Encoders
  <2>5. /\ f \in Encoders /\ f.ctx = e.ctx /\ f.drv = e.drv /\ f.held = e.held /\ f.failed = e.failed
        /\ f.sent = << >> /\ f.last = time
    BY <2>11 DEF none
  <2>6. LastTime(f) = LastTime(e)
    BY <2>4, <2>5 DEF LastTime
  <2>7. f.ctx.alive
    BY <1>2, <2>5 DEF Healthy, Unset
  <2>8. Settled(f) /\ Matches(f) /\ Accounted(f) /\ Room(f) /\ Early(f)
    BY <2>5, <2>7 DEF Healthy, Settled, Matches, Accounted, SurplusOf, Room, Early
  <2>9. Timely(f) /\ Increasing(f) /\ Truthful(f)
    BY <2>5, <2>6 DEF Healthy, Timely, Increasing, Truthful
  <2> QED BY <2>5, <2>7, <2>8, <2>9 DEF Healthy, f
<1> QED BY <1>1, <1>2

(* A change of rate.                                                         *)
LEMMA TunedIsHealthy ==
  ASSUME NEW e, Healthy(e), e.ctx.alive, NEW f \in Encoders, Tuned(e, f), Settled(f)
  PROVE  Healthy(f)
<1>1. LastTime(f) = LastTime(e)
  BY DEF Tuned, LastTime
<1>2. Timely(f) /\ Increasing(f) /\ Truthful(f) /\ Early(f)
  BY <1>1 DEF Healthy, Tuned, Timely, Increasing, Truthful, Early
<1>3. Matches(f) /\ Accounted(f) /\ Room(f)
  BY DEF Healthy, Tuned, Matches, Accounted, SurplusOf, Room
<1> QED BY <1>2, <1>3 DEF Healthy, Tuned

(* A call that honours its contract.                                         *)
LEMMA ServedIsHealthy ==
  ASSUME NEW e, Healthy(e), e.ctx.alive, e.sent = << >>, NEW idr \in BOOLEAN, NEW r,
         HonoursContract(e, idr, r), vendor = "nvenc" => SamePending(e, r.enc),
         e.ctx.pts <= MaxTime \/ r.enc.ctx.pts = e.ctx.pts
  PROVE  /\ Healthy(r.enc) /\ r.enc.ctx.alive /\ r.enc.ctx.fps = e.ctx.fps
         /\ r.enc.ctx.pts >= e.ctx.pts /\ r.enc.failed = e.failed
<1> DEFINE f == r.enc
<1>1. PICK all \in Seq(Stamped) : \E n \in 0 .. Len(all) : Contract(e, idr, r, all, n)
  BY DEF HonoursContract
<1>2. PICK n \in 0 .. Len(all) : Contract(e, idr, r, all, n)
  BY <1>1
<1>3. /\ e \in Encoders /\ f \in Encoders /\ Kept(e, f) /\ SameRates(e, f) /\ (Matches(e) => Matches(f))
      /\ f.ctx.pts >= e.ctx.pts /\ Len(f.drv.inside) = Len(all) - n
      /\ \A i \in 1 .. Len(all) - n : f.drv.inside[i] = all[i + n]
      /\ Delivers(e, r, all, n) \/ LosesFrame(r, all, n)
      /\ TakesFrame(e, idr, r, all) \/ TakesNothing(e, idr, r, all)
  BY <1>2 DEF Contract, Healthy
<1>4. /\ e.ctx.pts \in Nat /\ f.ctx.pts \in Nat /\ e.last \in Nat \cup {-1}
      /\ e.drv.inside \in Seq(Stamped) /\ f.sent \in Seq(Deliveries) /\ f.last = e.last
  BY <1>3, ContextPart DEF Kept
<1>5. LastTime(e) = e.last /\ e.last < e.ctx.pts /\ Ordered(e.drv.inside, e.last, e.ctx.pts)
  BY DEF Healthy, Timely, LastTime
<1>6. /\ Ordered(all, e.last, f.ctx.pts)
      /\ \A i \in 1 .. Len(all) : all[i].time \in Nat /\ all[i].time <= e.ctx.pts /\ all[i].time <= MaxTime
      /\ Len(all) <= Depth
  <2>0. ASSUME NEW s \in Seq(Stamped), NEW i \in 1 .. Len(s)
        PROVE  s[i].time \in Nat
    <3>1. s[i] \in Stamped
      OBVIOUS
    <3> QED BY <3>1 DEF Stamped
  <2>1. \A i \in 1 .. Len(all) : all[i].time \in Nat
    BY <2>0
  <2>2. \A i \in 1 .. Len(e.drv.inside) : e.drv.inside[i].time \in Nat
    BY <1>4, <2>0
  <2>3. CASE TakesFrame(e, idr, r, all)
    <3>1. PICK frame \in Stamped :
            /\ all = Append(e.drv.inside, frame) /\ Len(e.drv.inside) < Depth
            /\ frame.time = e.ctx.pts /\ f.ctx.pts > e.ctx.pts
      BY <2>3 DEF TakesFrame
    <3>2. /\ Len(all) = Len(e.drv.inside) + 1 /\ all[Len(all)] = frame
          /\ \A i \in 1 .. Len(e.drv.inside) : all[i] = e.drv.inside[i]
      BY <1>4, <3>1
    <3>3. Len(all) \in Nat /\ Len(e.drv.inside) \in Nat /\ Depth \in Nat
      BY <1>4, NativeEncoderAssumption
    <3>4. \A i \in 1 .. Len(all) : i = Len(all) \/ i \in 1 .. Len(e.drv.inside)
      BY <3>2, <3>3
    <3>5. \A i \in 1 .. Len(all) : all[i].time <= e.ctx.pts /\ all[i].time < f.ctx.pts
      BY <1>4, <1>5, <2>1, <2>2, <3>1, <3>2, <3>4 DEF Ordered
    <3>6. \A i \in 1 .. Len(all) : all[i].time <= MaxTime
      BY <1>4, <3>1, <3>2, <3>4 DEF Healthy, Early
    <3>7. Len(all) <= Depth
      BY <3>1, <3>2, <3>3
    <3>8. ASSUME vendor # "qsv"
          PROVE  /\ \A i \in 1 .. Len(all) : all[i].time > e.last
                 /\ \A i, j \in 1 .. Len(all) : i < j => all[i].time < all[j].time
      <4>1. \A i \in 1 .. Len(all) : all[i].time > e.last
        BY <1>5, <3>1, <3>2, <3>4, <3>8 DEF Ordered
      <4>2. ASSUME NEW i \in 1 .. Len(all), NEW j \in 1 .. Len(all), i < j
            PROVE  all[i].time < all[j].time
        <5>1. i \in 1 .. Len(e.drv.inside)
          BY <3>2, <3>3, <4>2
        <5>2. CASE j = Len(all)
          BY <1>5, <3>1, <3>2, <5>1, <5>2 DEF Ordered
        <5>3. CASE j \in 1 .. Len(e.drv.inside)
          BY <1>5, <3>2, <3>8, <4>2, <5>1, <5>3 DEF Ordered
        <5> QED BY <3>4, <5>2, <5>3
      <4> QED BY <4>1, <4>2
    <3> QED BY <2>1, <3>5, <3>6, <3>7, <3>8 DEF Ordered
  <2>4. CASE TakesNothing(e, idr, r, all)
    <3>1. all = e.drv.inside
      BY <2>4 DEF TakesNothing
    <3>2. Len(all) <= Depth /\ \A i \in 1 .. Len(all) : all[i].time <= MaxTime
      BY <3>1 DEF Healthy, Room, Early
    <3>3. \A i \in 1 .. Len(all) : all[i].time <= e.ctx.pts /\ all[i].time < f.ctx.pts
      BY <1>3, <1>4, <1>5, <2>1, <3>1 DEF Ordered
    <3>4. Ordered(all, e.last, f.ctx.pts)
      BY <1>5, <3>1, <3>3 DEF Ordered
    <3> QED BY <2>1, <3>2, <3>3, <3>4
  <2> QED BY <1>3, <2>3, <2>4
<1>7. /\ \A i \in 1 .. Len(f.drv.inside) : i + n \in 1 .. Len(all) /\ f.drv.inside[i] = all[i + n]
      /\ Len(f.drv.inside) \in Nat /\ n \in Nat
  BY <1>3
<1>8. Room(f)
  <2>1. Len(f.drv.inside) <= Depth
    BY <1>3, <1>6, NativeEncoderAssumption
  <2>2. vendor = "nvenc" => f.drv.inside = << >> /\ f.drv.force = FALSE
    BY DEF Healthy, Room, SamePending
  <2> QED BY <2>1, <2>2 DEF Room
<1>9. Early(f)
  BY <1>6, <1>7 DEF Early
<1>10. Truthful(f)
  BY <1>3 DEF Delivers, LosesFrame, Truthful
<1>11. Increasing(f)
  <2>1. CASE f.sent = << >>
    BY <2>1 DEF Increasing
  <2>2. CASE f.sent # << >> /\ vendor = "qsv"
    <3>1. Delivers(e, r, all, n)
      BY <1>3, <2>2 DEF LosesFrame
    <3>2. Len(f.sent) = 1 /\ n = 1
      <4>1. 1 \in 1 .. Len(f.sent)
        BY <1>4, <2>2
      <4> QED BY <2>2, <3>1, <4>1 DEF Delivers
    <3>3. f.sent[1].time = e.ctx.pts /\ f.sent[1].due = all[1].time
      BY <2>2, <3>1, <3>2 DEF Delivers
    <3>4. all[1].time <= e.ctx.pts /\ all[1].time \in Nat
      BY <1>6, <3>2
    <3>5. \A i \in 1 .. Len(f.sent) : i = 1
      BY <3>2
    <3> QED BY <1>4, <1>5, <2>2, <3>3, <3>4, <3>5 DEF Increasing
  <2>3. CASE f.sent # << >> /\ vendor # "qsv"
    <3>1. Delivers(e, r, all, n)
      BY <1>3, <2>3 DEF LosesFrame
    <3>2. /\ Len(f.sent) = n
          /\ \A i \in 1 .. n : f.sent[i].time = all[i].time /\ f.sent[i].due = all[i].time
                               /\ i \in 1 .. Len(all) /\ all[i].time \in Nat
      BY <1>6, <2>3, <3>1 DEF Delivers
    <3>3. ASSUME NEW i \in 1 .. n
          PROVE  (IF i = 1 THEN f.last ELSE f.sent[i - 1].time) < f.sent[i].time
      <4>1. CASE i = 1
        BY <1>4, <1>6, <2>3, <3>2, <4>1 DEF Ordered
      <4>2. CASE i # 1
        <5>1. i - 1 \in 1 .. n /\ i - 1 < i
          BY <4>2
        <5> QED BY <1>6, <2>3, <3>2, <4>2, <5>1 DEF Ordered
      <4> QED BY <4>1, <4>2
    <3>4. ASSUME NEW i \in 1 .. n
          PROVE  f.sent[i].time >= f.sent[i].due /\ f.sent[i].time = f.sent[i].due
      BY <3>2
    <3> QED BY <3>2, <3>3, <3>4 DEF Increasing
  <2> QED BY <2>1, <2>2, <2>3
<1>12. Timely(f)
  <2>1. \A i \in 1 .. Len(f.drv.inside) : f.drv.inside[i].time < f.ctx.pts
    BY <1>6, <1>7 DEF Ordered
  <2>2. CASE f.sent = << >>
    <3>1. LastTime(f) = e.last
      BY <1>4, <2>2 DEF LastTime
    <3>2. ASSUME vendor # "qsv"
          PROVE  /\ \A i \in 1 .. Len(f.drv.inside) : f.drv.inside[i].time > e.last
                 /\ \A i, j \in 1 .. Len(f.drv.inside) : i < j => f.drv.inside[i].time < f.drv.inside[j].time
      <4>1. \A i \in 1 .. Len(f.drv.inside) : f.drv.inside[i].time > e.last
        BY <1>6, <1>7, <3>2 DEF Ordered
      <4>2. ASSUME NEW i \in 1 .. Len(f.drv.inside), NEW j \in 1 .. Len(f.drv.inside), i < j
            PROVE  f.drv.inside[i].time < f.drv.inside[j].time
        <5>1. i + n < j + n
          BY <1>7, <4>2
        <5> QED BY <1>6, <1>7, <3>2, <5>1 DEF Ordered
      <4> QED BY <4>1, <4>2
    <3>3. Ordered(f.drv.inside, e.last, f.ctx.pts)
      BY <2>1, <3>2 DEF Ordered
    <3> QED BY <3>3, <1>3, <1>4, <1>5, <3>1, <3>2 DEF Timely
  <2>3. CASE f.sent # << >> /\ vendor = "qsv"
    <3>1. Delivers(e, r, all, n) /\ n \in 1 .. n /\ Len(f.sent) = n
      BY <1>3, <1>4, <1>7, <2>3 DEF LosesFrame, Delivers
    <3>2. LastTime(f) = e.ctx.pts /\ f.ctx.pts > e.ctx.pts
      BY <2>3, <3>1 DEF Delivers, LastTime
    <3>3. Ordered(f.drv.inside, LastTime(f), f.ctx.pts)
      BY <2>1, <2>3 DEF Ordered
    <3> QED BY <1>4, <3>2, <3>3 DEF Timely
  <2>4. CASE f.sent # << >> /\ vendor # "qsv"
    <3>1. Delivers(e, r, all, n) /\ n \in 1 .. n /\ Len(f.sent) = n
      BY <1>3, <1>4, <1>7, <2>4 DEF LosesFrame, Delivers
    <3>2. LastTime(f) = all[n].time /\ n \in 1 .. Len(all)
      BY <2>4, <3>1 DEF Delivers, LastTime
    <3>3. LastTime(f) < f.ctx.pts
      BY <1>6, <3>2 DEF Ordered
    <3>4. \A i \in 1 .. Len(f.drv.inside) : f.drv.inside[i].time > LastTime(f)
      <4> TAKE i \in 1 .. Len(f.drv.inside)
      <4>1. n < i + n /\ i + n \in 1 .. Len(all)
        BY <1>7
      <4> QED BY <1>6, <1>7, <2>4, <3>2, <4>1 DEF Ordered
    <3>5. \A i, j \in 1 .. Len(f.drv.inside) : i < j => f.drv.inside[i].time < f.drv.inside[j].time
      <4> TAKE i, j \in 1 .. Len(f.drv.inside)
      <4>1. i < j => i + n < j + n
        BY <1>7
      <4> QED BY <1>6, <1>7, <2>4, <4>1 DEF Ordered
    <3> QED BY <2>1, <3>3, <3>4, <3>5 DEF Timely, Ordered
  <2> QED BY <2>2, <2>3, <2>4
<1>13. Accounted(f) /\ Matches(f)
  BY <1>3 DEF Healthy, Kept, Accounted, SurplusOf
<1>14. Settled(f) /\ f.ctx.alive /\ f.ctx.fps = e.ctx.fps /\ f.failed = e.failed
  BY <1>3 DEF Healthy, Settled, Kept, SameRates
<1> QED BY <1>3, <1>8, <1>9, <1>10, <1>11, <1>12, <1>13, <1>14 DEF Healthy

-----------------------------------------------------------------------------
(* The inductive invariant of a track                                        *)

Tracks ==
  [force : BOOLEAN, encoded : BOOLEAN, sent : BOOLEAN, fps : FpsValues, sized : BOOLEAN,
   fits : BOOLEAN, bgra : BOOLEAN, paused : BOOLEAN, disposed : BOOLEAN, native : BOOLEAN,
   stale : BOOLEAN, promised : BOOLEAN]

Asks == [due : BOOLEAN, from : Nat, lost : BOOLEAN]

(* The encoder runs at the frame rate of the track.                          *)
Agreed(t, e) == e.ctx.alive => e.ctx.fps = t.fps \/ t.stale

(* What was asked for was asked for before now, on the clock of the encoder. *)
Recent(a, e) == e.ctx.alive => a.from <= e.ctx.pts

KeyInside(e, a) ==
  \E i \in 1 .. Len(e.drv.inside) : e.drv.inside[i].key /\ e.drv.inside[i].time >= a.from

(* A key frame that was asked for is still to come.                          *)
Pending(t, e, a) ==
  a.due /\ ~ a.lost /\ e.ctx.alive => t.force \/ ~ t.encoded \/ e.drv.force \/ KeyInside(e, a)

InOrder(t, e, a) ==
  /\ t \in Tracks /\ a \in Asks /\ Healthy(e) /\ e.failed <= MaxFailures
  /\ Agreed(t, e) /\ Recent(a, e) /\ Pending(t, e, a)

IInv == vendor \in Vendors /\ hevc \in BOOLEAN /\ InOrder(track, enc, asked)

(* The parts of the invariant as the steps use them.                         *)
LEMMA InvariantParts ==
  ASSUME IInv
  PROVE  /\ vendor \in {"nvenc", "amf", "qsv"} /\ hevc \in BOOLEAN
         /\ track \in Tracks /\ track.fps \in FpsValues /\ asked \in Asks
         /\ enc \in Encoders /\ Healthy(enc) /\ Accounted(enc) /\ enc.failed <= MaxFailures
         /\ Agreed(track, enc) /\ Recent(asked, enc) /\ Pending(track, enc, asked)
         /\ ~ enc.ctx.alive => Unset(enc)
         /\ enc.ctx.alive => Settled(enc)
<1>1. vendor \in {"nvenc", "amf", "qsv"}
  BY NativeEncodersAssumption DEF IInv
<1> QED BY <1>1 DEF IInv, InOrder, Healthy, Tracks

(* What a frame and its callback do to the track.                            *)
LEMMA EncodedDataParts ==
  ASSUME NEW t \in Tracks, NEW e
  PROVE  /\ OnEncodedData(t, e) \in Tracks
         /\ OnEncodedData(t, e).fps = t.fps /\ OnEncodedData(t, e).stale = t.stale
         /\ t.force => OnEncodedData(t, e).force
<1> DEFINE keys == {i \in 1 .. Len(e.sent) : e.sent[i].reported}
           sent == t.sent \/ keys # {}
           force == t.force \/ \E i \in 1 .. Len(e.sent) : ~ t.sent /\ ~ \E k \in keys : k <= i
<1>1. OnEncodedData(t, e) = [t EXCEPT !.sent = sent, !.force = force]
  BY DEF OnEncodedData
<1>2. sent \in BOOLEAN /\ force \in BOOLEAN /\ (t.force => force)
  BY DEF Tracks
<1> HIDE DEF sent, force
<1> QED BY <1>1, <1>2 DEF Tracks

(* A frame leaves the rate of the track alone, and a request made meanwhile stays. *)
LEMMA AfterEncodeParts ==
  ASSUME NEW t \in Tracks, NEW r, NEW meanwhile \in BOOLEAN
  PROVE  /\ AfterEncode(t, r, meanwhile) \in Tracks
         /\ AfterEncode(t, r, meanwhile).fps = t.fps /\ AfterEncode(t, r, meanwhile).stale = t.stale
         /\ meanwhile => AfterEncode(t, r, meanwhile).force
<1> DEFINE u == [t EXCEPT !.force = meanwhile]
           v == OnEncodedData(u, r.enc)
           encoded == v.encoded \/ r.ok
<1>1. u \in Tracks /\ u.fps = t.fps /\ u.stale = t.stale /\ u.force = meanwhile
  BY DEF Tracks
<1> HIDE DEF u
<1>2. v \in Tracks /\ v.fps = t.fps /\ v.stale = t.stale /\ (meanwhile => v.force)
  BY <1>1, EncodedDataParts
<1>3. AfterEncode(t, r, meanwhile) = [v EXCEPT !.encoded = encoded]
  BY DEF AfterEncode, u
<1>4. encoded \in BOOLEAN
  OBVIOUS
<1> HIDE DEF v, encoded
<1> QED BY <1>2, <1>3, <1>4 DEF Tracks

(* A creation ends with no encoder, or with one at the rate of the track.    *)
LEMMA RecreatedParts ==
  ASSUME IInv, NEW e \in Encoders, Unset(e), Accounted(e), NEW f \in TryInitializeEncoderWithFallback(e)
  PROVE  /\ Healthy(f) /\ f.sent = << >>
         /\ f.ctx.alive => f.ctx.fps = track.fps /\ f.ctx.pts = 0
<1>1. f \in Encoders /\ Accounted(f) /\ (Unset(f) \/ Fresh(f, track.fps))
  BY InvariantParts, InitializationParts
<1>2. Healthy(f)
  BY <1>1, InvariantParts, EmptyIsHealthy
<1>3. f.sent = << >> /\ (f.ctx.alive => f.ctx.fps = track.fps /\ f.ctx.pts = 0)
  BY <1>1 DEF Unset, Fresh, NoContext
<1> QED BY <1>2, <1>3

(* A key frame that was asked for comes out, is still to come or is lost.    *)
LEMMA RequestGoesOn ==
  ASSUME NEW e \in Encoders, NEW idr \in BOOLEAN, NEW r, HonoursContract(e, idr, r),
         NEW a \in Asks, a.from <= e.ctx.pts,
         idr \/ e.drv.force \/ KeyInside(e, a),
         ~ r.lost, ~ KeyFrameSince(r.enc, a)
  PROVE  r.enc.drv.force \/ KeyInside(r.enc, a)
<1>1. PICK all \in Seq(Stamped) : \E n \in 0 .. Len(all) : Contract(e, idr, r, all, n)
  BY DEF HonoursContract
<1>2. PICK n \in 0 .. Len(all) : Contract(e, idr, r, all, n)
  BY <1>1
<1>3. /\ Len(r.enc.drv.inside) = Len(all) - n
      /\ \A i \in 1 .. Len(all) - n : r.enc.drv.inside[i] = all[i + n]
      /\ Delivers(e, r, all, n) \/ LosesFrame(r, all, n)
      /\ TakesFrame(e, idr, r, all) \/ TakesNothing(e, idr, r, all)
  BY <1>2 DEF Contract
<1>4. /\ e.ctx.pts \in Nat /\ e.drv.inside \in Seq(Stamped) /\ a.from \in Nat
      /\ Len(e.drv.inside) \in Nat /\ Len(all) \in Nat
  BY ContextPart DEF Asks
<1>5. CASE r.enc.drv.force
  BY <1>5
<1>6. CASE \E i \in 1 .. Len(all) : all[i].key /\ all[i].time >= a.from
  <2>1. PICK i \in 1 .. Len(all) : all[i].key /\ all[i].time >= a.from
    BY <1>6
  <2>2. CASE i \in 1 .. n
    <3>1. CASE Delivers(e, r, all, n)
      <4>1. /\ i \in 1 .. Len(r.enc.sent) /\ r.enc.sent[i].key /\ r.enc.sent[i].due >= a.from
        BY <2>1, <2>2, <3>1 DEF Delivers
      <4> QED BY <4>1 DEF KeyFrameSince
    <3>2. CASE LosesFrame(r, all, n)
      BY <2>1, <2>2, <3>2 DEF LosesFrame
    <3> QED BY <1>3, <3>1, <3>2
  <2>3. CASE i \notin 1 .. n
    <3>1. i - n \in 1 .. Len(all) - n /\ (i - n) + n = i
      BY <1>4, <2>3
    <3>2. r.enc.drv.inside[i - n] = all[i] /\ i - n \in 1 .. Len(r.enc.drv.inside)
      BY <1>3, <3>1
    <3> QED BY <2>1, <3>2 DEF KeyInside
  <2> QED BY <2>2, <2>3
<1>7. CASE TakesNothing(e, idr, r, all)
  <2>1. all = e.drv.inside
    BY <1>7 DEF TakesNothing
  <2>2. idr \/ e.drv.force => r.enc.drv.force
    BY <1>7 DEF TakesNothing
  <2> QED BY <1>5, <1>6, <2>1, <2>2 DEF KeyInside
<1>8. CASE TakesFrame(e, idr, r, all)
  <2>1. PICK frame \in Stamped :
          /\ all = Append(e.drv.inside, frame) /\ frame.time = e.ctx.pts
          /\ idr => frame.key
          /\ e.drv.force => frame.key \/ r.enc.drv.force
    BY <1>8 DEF TakesFrame
  <2>2. /\ Len(all) = Len(e.drv.inside) + 1 /\ all[Len(all)] = frame /\ Len(all) \in 1 .. Len(all)
        /\ \A i \in 1 .. Len(e.drv.inside) : all[i] = e.drv.inside[i] /\ i \in 1 .. Len(all)
    BY <1>4, <2>1
  <2>3. CASE frame.key
    BY <1>6, <2>1, <2>2, <2>3
  <2>4. CASE KeyInside(e, a)
    BY <1>6, <2>2, <2>4 DEF KeyInside
  <2> QED BY <1>5, <2>1, <2>3, <2>4
<1> QED BY <1>3, <1>7, <1>8

(* The request after a call.                                                 *)
LEMMA AskedParts ==
  ASSUME NEW a \in Asks, NEW f, NEW lost \in BOOLEAN
  PROVE  /\ AskedAfter(a, f, lost) \in Asks
         /\ AskedAfter(a, f, lost).from \in {0, a.from}
         /\ AskedAfter(a, f, lost).due =>
              /\ a.due /\ ~ KeyFrameSince(f, a) /\ AskedAfter(a, f, lost).from = a.from
              /\ AskedAfter(a, f, lost).lost = (a.lost \/ lost)
<1> DEFINE b == [a EXCEPT !.lost = a.lost \/ lost]
<1>1. b \in Asks /\ b.from = a.from /\ b.lost = (a.lost \/ lost) /\ b.due = a.due
  BY DEF Asks
<1>2. NothingAsked \in Asks /\ NothingAsked.from = 0 /\ NothingAsked.due = FALSE
  BY DEF NothingAsked, Asks
<1>3. AskedAfter(a, f, lost) = IF a.due /\ ~ KeyFrameSince(f, a) THEN b ELSE NothingAsked
  BY DEF AskedAfter
<1> HIDE DEF b
<1>4. CASE a.due /\ ~ KeyFrameSince(f, a)
  BY <1>1, <1>3, <1>4
<1>5. CASE ~ (a.due /\ ~ KeyFrameSince(f, a))
  BY <1>2, <1>3, <1>5
<1> QED BY <1>4, <1>5

(* A request made now.                                                       *)
LEMMA AskedNow ==
  ASSUME NEW e \in Encoders
  PROVE  Asked(e) \in Asks /\ Asked(e).from = e.ctx.pts /\ Recent(Asked(e), e)
BY ContextPart DEF Asked, Asks, Recent

(* A request made of an encoder that is gone is one to the next.             *)
LEMMA AskedAnew ==
  ASSUME NEW a \in Asks
  PROVE  /\ AskedOfNew(a) \in Asks /\ AskedOfNew(a).from = 0
         /\ AskedOfNew(a).due = a.due /\ AskedOfNew(a).lost = a.lost
BY DEF AskedOfNew, Asks

-----------------------------------------------------------------------------
(* Each action keeps the invariant                                           *)

(* A step that neither makes nor feeds an encoder.                           *)
Quiet(e, f) ==
  /\ Healthy(f) /\ f.ctx.alive = e.ctx.alive /\ f.ctx.pts = e.ctx.pts /\ SamePending(e, f)
  /\ f.failed = e.failed

(* What was asked for is then as far as it was.                              *)
LEMMA QuietStep ==
  ASSUME IInv, NEW f, Quiet(enc, f), NEW t \in Tracks, track.force => t.force, t.encoded = track.encoded,
         Agreed(t, f)
  PROVE  InOrder(t, f, asked)
<1>1. Recent(asked, f)
  BY InvariantParts DEF Quiet, Recent
<1>2. Pending(t, f, asked)
  BY InvariantParts DEF Quiet, SamePending, Pending, KeyInside
<1> QED BY <1>1, <1>2, InvariantParts DEF InOrder, Quiet

(* Remembering what was delivered is such a step.                            *)
LEMMA RememberedIsQuiet ==
  ASSUME NEW e, Healthy(e)
  PROVE  Quiet(e, Remembered(e)) /\ Remembered(e).ctx = e.ctx
BY RememberedIsHealthy DEF Quiet, SamePending

(* The track is changed, and the encoder is left alone.                      *)
LEMMA TrackStep ==
  ASSUME IInv, NEW t \in Tracks, track.force => t.force, t.encoded = track.encoded,
         t.fps = track.fps, t.stale = track.stale
  PROVE  InOrder(t, Remembered(enc), asked)
<1>1. Quiet(enc, Remembered(enc)) /\ Remembered(enc).ctx = enc.ctx
  BY InvariantParts, RememberedIsQuiet
<1>2. Agreed(t, Remembered(enc))
  BY <1>1, InvariantParts DEF Agreed
<1> QED BY <1>1, <1>2, QuietStep

(* A key frame is asked for.                                                 *)
LEMMA RequestStep ==
  ASSUME IInv, NEW t \in Tracks, t.force, t.fps = track.fps, t.stale = track.stale
  PROVE  InOrder(t, Remembered(enc), Asked(enc))
<1>1. Quiet(enc, Remembered(enc)) /\ Remembered(enc).ctx = enc.ctx
  BY InvariantParts, RememberedIsQuiet
<1>2. Agreed(t, Remembered(enc))
  BY <1>1, InvariantParts DEF Agreed
<1>3. Asked(enc) \in Asks /\ Recent(Asked(enc), Remembered(enc))
  BY <1>1, InvariantParts, AskedNow DEF Recent
<1>4. Pending(t, Remembered(enc), Asked(enc))
  BY DEF Pending
<1> QED BY <1>1, <1>2, <1>3, <1>4, InvariantParts DEF InOrder, Quiet

(* InitializeEncoders.                                                       *)
LEMMA InitializeEncodersKeeps ==
  ASSUME IInv, InitializeEncoders
  PROVE  InOrder(track', enc', asked')
<1> DEFINE bgra == track.bgra \/ enc'.ctx.bgra
           native == StillNative(enc')
           promised == track.promised /\ ~ enc'.ctx.alive
           t == [track EXCEPT !.encoded = FALSE, !.sent = FALSE, !.fits = TRUE, !.bgra = bgra,
                              !.stale = FALSE, !.native = native, !.promised = promised]
<1>1. /\ Unset(enc) /\ enc' \in TryInitializeEncoderWithFallback(enc) /\ enc'.failed <= MaxFailures
      /\ track' = t /\ asked' = AskedOfNew(asked)
  BY InvariantParts DEF InitializeEncoders, WithinBounds
<1>2. Healthy(enc') /\ (enc'.ctx.alive => enc'.ctx.fps = track.fps /\ enc'.ctx.pts = 0)
  BY <1>1, InvariantParts, RecreatedParts
<1>3. bgra \in BOOLEAN /\ native \in BOOLEAN /\ promised \in BOOLEAN
  BY DEF StillNative
<1>4. track \in Tracks
  BY InvariantParts
<1> HIDE DEF bgra, native, promised
<1>5. t \in Tracks /\ t.encoded = FALSE /\ t.fps = track.fps
  <2>1. t \in Tracks
    BY <1>3, <1>4 DEF Tracks
  <2>2. t.encoded = FALSE
    BY <1>4 DEF Tracks
  <2>3. t.fps = track.fps
    BY <1>4 DEF Tracks
  <2> QED BY <2>1, <2>2, <2>3
<1> HIDE DEF t
<1>6. asked' \in Asks /\ Recent(asked', enc')
  <2>1. asked' \in Asks /\ asked'.from = 0
    BY <1>1, InvariantParts, AskedAnew
  <2> QED BY <1>2, <2>1 DEF Recent
<1>7. Pending(track', enc', asked')
  BY <1>1, <1>5 DEF Pending
<1>8. Agreed(track', enc')
  BY <1>1, <1>2, <1>5 DEF Agreed
<1> QED BY <1>1, <1>2, <1>5, <1>6, <1>7, <1>8 DEF InOrder

(* What a frame meets: the encoder, or one made anew for its size.           *)
LEMMA EnsureParts ==
  ASSUME IInv, enc.ctx.alive, NEW s \in EnsureEncoderMatchesResolution(track, Remembered(enc))
  PROVE  /\ s.t \in Tracks /\ s.t.fps = track.fps /\ Healthy(s.e) /\ s.e.sent = << >> /\ Agreed(s.t, s.e)
         /\ track.fits => /\ s.e.ctx = enc.ctx /\ s.e.drv = enc.drv
                          /\ s.t.force = track.force /\ s.t.encoded = track.encoded
         /\ ~ track.fits => s.t.encoded = FALSE /\ (s.e.ctx.alive => s.e.ctx.pts = 0)
<1> DEFINE e == Remembered(enc)
           gone == DisposeEncoder(e)
<1>1. /\ track \in Tracks /\ Agreed(track, enc) /\ vendor \in {"nvenc", "amf", "qsv"}
      /\ Healthy(e) /\ e.sent = << >> /\ e.ctx = enc.ctx /\ e.drv = enc.drv
  BY InvariantParts, RememberedIsHealthy
<1> HIDE DEF e
<1>2. CASE track.fits
  <2>1. s = [t |-> [track EXCEPT !.sized = TRUE], e |-> e]
    BY <1>2 DEF EnsureEncoderMatchesResolution, e
  <2>2. s.e = e /\ s.t = [track EXCEPT !.sized = TRUE]
    BY <2>1
  <2>3. /\ s.t \in Tracks /\ s.t.fps = track.fps /\ s.t.force = track.force /\ s.t.encoded = track.encoded
        /\ s.t.stale = track.stale
    BY <1>1, <2>2 DEF Tracks
  <2>4. Agreed(s.t, s.e)
    BY <1>1, <2>2, <2>3 DEF Agreed
  <2> QED BY <1>1, <1>2, <2>2, <2>3, <2>4
<1>3. CASE ~ track.fits
  <2>1. PICK f \in TryInitializeEncoderWithFallback(gone) :
          s = [t |-> [track EXCEPT !.sized = TRUE, !.fits = TRUE, !.stale = FALSE, !.encoded = FALSE,
                                   !.sent = FALSE, !.native = StillNative(f)], e |-> f]
    BY <1>3 DEF EnsureEncoderMatchesResolution, e
  <2>2. gone \in Encoders /\ Unset(gone) /\ Accounted(gone)
    BY <1>1, DisposeParts DEF Healthy
  <2> HIDE DEF gone
  <2>3. Healthy(f) /\ f.sent = << >> /\ (f.ctx.alive => f.ctx.fps = track.fps /\ f.ctx.pts = 0)
    BY <2>2, RecreatedParts
  <2> DEFINE native == StillNative(f)
             t == [track EXCEPT !.sized = TRUE, !.fits = TRUE, !.stale = FALSE, !.encoded = FALSE,
                                !.sent = FALSE, !.native = native]
  <2>4. native \in BOOLEAN
    BY DEF StillNative
  <2>5. s.e = f /\ s.t = t
    BY <2>1
  <2> HIDE DEF native
  <2>6. t \in Tracks /\ t.fps = track.fps /\ t.encoded = FALSE
    BY <1>1, <2>4 DEF Tracks
  <2> HIDE DEF t
  <2>7. Agreed(s.t, s.e)
    BY <2>3, <2>5, <2>6 DEF Agreed
  <2> QED BY <1>3, <2>3, <2>5, <2>6, <2>7
<1> QED BY <1>2, <1>3

(* PushBgraTexture and PushTexture.                                          *)
LEMMA PushFrameKeeps ==
  ASSUME IInv, NEW tex \in Textures, PushFrame(tex)
  PROVE  InOrder(track', enc', asked')
<1> DEFINE a == IF track.fits THEN asked ELSE AskedOfNew(asked)
<1>1. PICK s \in EnsureEncoderMatchesResolution(track, Remembered(enc)) :
        IF s.e.ctx.alive
        THEN \E r \in EncodeFrame(s.t, s.e, tex), meanwhile \in BOOLEAN :
               /\ enc' = r.enc
               /\ track' = AfterEncode(s.t, r, meanwhile)
               /\ asked' = IF meanwhile THEN Asked(r.enc) ELSE AskedAfter(a, r.enc, r.lost)
        ELSE enc' = s.e /\ track' = s.t /\ asked' = a
  BY DEF PushFrame
<1>2. enc.ctx.alive /\ TimeIsLeft /\ enc'.failed <= MaxFailures
  BY DEF PushFrame, WithinBounds
<1>3. /\ s.t \in Tracks /\ s.t.fps = track.fps /\ Healthy(s.e) /\ s.e.sent = << >> /\ Agreed(s.t, s.e)
      /\ track.fits => /\ s.e.ctx = enc.ctx /\ s.e.drv = enc.drv
                       /\ s.t.force = track.force /\ s.t.encoded = track.encoded
      /\ ~ track.fits => s.t.encoded = FALSE /\ (s.e.ctx.alive => s.e.ctx.pts = 0)
  BY <1>2, EnsureParts
<1>4. /\ a \in Asks
      /\ s.e.ctx.alive => a.from <= s.e.ctx.pts
  <2>1. CASE track.fits
    BY <1>3, <2>1, InvariantParts DEF Recent
  <2>2. CASE ~ track.fits
    BY <1>3, <2>2, InvariantParts, AskedAnew
  <2> QED BY <2>1, <2>2
<1>5. CASE ~ s.e.ctx.alive
  <2>1. enc' = s.e /\ track' = s.t /\ asked' = a
    BY <1>1, <1>5
  <2> QED BY <1>2, <1>3, <1>4, <1>5, <2>1 DEF InOrder, Recent, Pending
<1>6. CASE s.e.ctx.alive
  <2> DEFINE e == s.e
             idr == ~ s.t.encoded \/ s.t.force
  <2>1. PICK r \in EncodeFrame(s.t, s.e, tex), meanwhile \in BOOLEAN :
          /\ enc' = r.enc
          /\ track' = AfterEncode(s.t, r, meanwhile)
          /\ asked' = IF meanwhile THEN Asked(r.enc) ELSE AskedAfter(a, r.enc, r.lost)
    BY <1>1, <1>6
  <2>2. idr \in BOOLEAN /\ r \in EncodeTexture(e, idr) \cup EncodeBgraTexture(e, tex, idr)
    BY <2>1 DEF EncodeFrame
  <2>3. e \in Encoders /\ e.ctx.fps \in FpsValues /\ Room(e)
    BY <1>3, <1>6 DEF Healthy, Settled
  <2>4. vendor \in {"nvenc", "amf", "qsv"}
    BY InvariantParts
  <2>5. e.ctx.pts <= MaxTime
    <3>1. MaxTime \in Nat /\ MaxTimeAfterFailure \in 0 .. MaxTime /\ enc.ctx.pts \in Nat
      BY NativeEncodersAssumption, InvariantParts, ContextPart
    <3>2. enc.ctx.pts <= MaxTime
      BY <1>2, <3>1 DEF TimeIsLeft
    <3> QED BY <1>3, <1>6, <3>1, <3>2
  <2>15. idr \/ e.drv.force \/ KeyInside(e, a) \/ a.lost \/ ~ a.due
    <3>1. CASE track.fits
      <4>1. a = asked /\ Pending(track, enc, asked) /\ a \in Asks
        BY <3>1, InvariantParts
      <4> QED BY <1>2, <1>3, <3>1, <4>1 DEF Pending, KeyInside
    <3>2. CASE ~ track.fits
      BY <1>3, <3>2
    <3> QED BY <3>1, <3>2
  <2>6. s.e.ctx.alive /\ s.e.sent = << >> /\ Healthy(s.e)
    BY <1>3, <1>6
  <2> HIDE DEF idr, a
  <2>7. HonoursContract(e, idr, r)
    BY <2>2, <2>3, <2>4, <2>6, EncodeHonours DEF Room
  <2>8. vendor = "nvenc" => SamePending(e, r.enc)
    BY <2>2, <2>3, NvencKeeps
  <2>9. /\ Healthy(r.enc) /\ r.enc.ctx.alive /\ r.enc.ctx.fps = e.ctx.fps
        /\ r.enc.ctx.pts >= e.ctx.pts
    BY <2>2, <2>5, <2>6, <2>7, <2>8, ServedIsHealthy
  <2>10. /\ track' \in Tracks /\ track'.fps = s.t.fps /\ track'.stale = s.t.stale
         /\ meanwhile => track'.force
    BY <1>3, <2>1, AfterEncodeParts
  <2>11. Agreed(track', enc')
    BY <1>3, <2>1, <2>6, <2>9, <2>10 DEF Agreed
  <2>12. r.enc \in Encoders /\ r.enc.ctx.pts \in Nat /\ e.ctx.pts \in Nat /\ r.lost \in BOOLEAN
    <3>1. r.lost \in BOOLEAN
      BY <2>7 DEF HonoursContract, Contract
    <3> QED BY <2>3, <2>9, <3>1, ContextPart DEF Healthy
  <2>13. CASE meanwhile
    <3>1. asked' = Asked(r.enc)
      BY <2>1, <2>13
    <3>2. asked' \in Asks /\ Recent(asked', enc')
      BY <2>1, <2>12, <3>1, AskedNow
    <3>3. Pending(track', enc', asked')
      BY <2>10, <2>13 DEF Pending
    <3> QED BY <1>2, <2>1, <2>9, <2>10, <2>11, <3>2, <3>3 DEF InOrder
  <2>14. CASE ~ meanwhile
    <3>1. asked' = AskedAfter(a, r.enc, r.lost)
      BY <2>1, <2>14
    <3>2. /\ asked' \in Asks /\ asked'.from \in {0, a.from}
          /\ asked'.due => /\ a.due /\ ~ KeyFrameSince(r.enc, a) /\ asked'.from = a.from
                           /\ asked'.lost = (a.lost \/ r.lost)
      BY <1>4, <2>12, <3>1, AskedParts
    <3>3. Recent(asked', enc')
      <4>1. a.from \in Nat
        BY <1>4 DEF Asks
      <4> QED BY <1>4, <2>1, <2>6, <2>9, <2>12, <3>2, <4>1 DEF Recent
    <3>4. ASSUME asked'.due, ~ asked'.lost
          PROVE  r.enc.drv.force \/ KeyInside(r.enc, a)
      <4>1. a.due /\ ~ a.lost /\ ~ r.lost /\ ~ KeyFrameSince(r.enc, a)
        BY <3>2, <3>4
      <4>2. a.from <= e.ctx.pts
        BY <1>4, <2>6
      <4> QED BY <1>4, <2>2, <2>3, <2>7, <2>15, <4>1, <4>2, RequestGoesOn
    <3>5. asked'.due => (KeyInside(r.enc, a) <=> KeyInside(r.enc, asked'))
      BY <3>2 DEF KeyInside
    <3>6. Pending(track', enc', asked')
      BY <2>1, <3>4, <3>5 DEF Pending
    <3> QED BY <1>2, <2>1, <2>9, <2>10, <2>11, <3>2, <3>3, <3>6 DEF InOrder
  <2> QED BY <2>13, <2>14
<1> QED BY <1>5, <1>6

(* RequestKeyframe.                                                          *)
LEMMA RequestKeyframeKeeps ==
  ASSUME IInv, RequestKeyframe
  PROVE  InOrder(track', enc', asked')
<1>1. track' = [track EXCEPT !.force = TRUE] /\ asked' = Asked(enc) /\ enc' = Remembered(enc)
  BY DEF RequestKeyframe
<1>2. track' \in Tracks /\ track'.force /\ track'.fps = track.fps /\ track'.stale = track.stale
  BY <1>1, InvariantParts DEF Tracks
<1> QED BY <1>1, <1>2, RequestStep

(* ResetSyncState: the flush may deliver, and takes nothing.                 *)
LEMMA ResetSyncStateKeeps ==
  ASSUME IInv, ResetSyncState
  PROVE  InOrder(track', enc', asked')
<1> DEFINE t == [track EXCEPT !.sent = FALSE, !.encoded = FALSE, !.force = TRUE, !.paused = FALSE]
           e == Remembered(enc)
           no == FALSE
<1>1. PICK r \in IF enc.ctx.alive THEN FlushEncoder(Remembered(enc)) ELSE {Result(TRUE, enc)} :
        enc' = r.enc /\ track' = OnEncodedData(t, r.enc) /\ asked' = AskedAfter(Asked(enc), r.enc, FALSE)
  BY DEF ResetSyncState
<1>2. t \in Tracks /\ t.force /\ t.fps = track.fps /\ t.stale = track.stale
  BY InvariantParts DEF Tracks
<1> HIDE DEF t
<1>3. track' \in Tracks /\ track'.force /\ track'.fps = track.fps /\ track'.stale = track.stale
  BY <1>1, <1>2, EncodedDataParts
<1>4. /\ Healthy(enc') /\ enc'.ctx.alive = enc.ctx.alive /\ enc'.failed = enc.failed
      /\ enc'.ctx.pts = enc.ctx.pts /\ (enc.ctx.alive => enc'.ctx.fps = enc.ctx.fps)
  <2>1. CASE enc.ctx.alive
    <3>1. /\ Healthy(e) /\ e.sent = << >> /\ e.ctx = enc.ctx /\ e.drv = enc.drv /\ e.failed = enc.failed
      BY InvariantParts, RememberedIsHealthy
    <3>2. r \in FlushEncoder(e) /\ vendor \in {"nvenc", "amf", "qsv"} /\ e \in Encoders /\ no \in BOOLEAN
      BY <1>1, <2>1, <3>1, InvariantParts DEF Healthy
    <3>3. HonoursContract(e, FALSE, r) /\ r.enc.ctx.pts = e.ctx.pts
      BY <3>1, <3>2, FlushHonours
    <3>4. vendor = "nvenc" => SamePending(e, r.enc)
      BY <3>2 DEF FlushEncoder, NvencFlush, Result, SamePending
    <3>5. HonoursContract(e, no, r)
      BY <3>3
    <3> HIDE DEF no, e
    <3>6. /\ Healthy(r.enc) /\ r.enc.ctx.alive /\ r.enc.ctx.fps = e.ctx.fps /\ r.enc.failed = e.failed
      BY <2>1, <3>1, <3>2, <3>3, <3>4, <3>5, ServedIsHealthy
    <3>7. enc.ctx.alive \in BOOLEAN /\ r.enc.ctx.alive \in BOOLEAN
      BY <3>6, InvariantParts, ContextPart DEF Healthy
    <3> QED BY <1>1, <2>1, <3>1, <3>3, <3>6, <3>7
  <2>2. CASE ~ enc.ctx.alive
    <3>1. enc' = enc
      BY <1>1, <2>2 DEF Result
    <3> QED BY <2>2, <3>1, InvariantParts
  <2> QED BY <2>1, <2>2
<1>5. asked' \in Asks /\ asked'.from \in {0, enc.ctx.pts}
  <2>1. Asked(enc) \in Asks /\ Asked(enc).from = enc.ctx.pts /\ no \in BOOLEAN /\ asked' = AskedAfter(Asked(enc), r.enc, no)
    BY <1>1, InvariantParts, AskedNow
  <2> HIDE DEF no
  <2> QED BY <2>1, AskedParts
<1>6. Recent(asked', enc')
  BY <1>4, <1>5, InvariantParts, ContextPart DEF Recent
<1>7. Pending(track', enc', asked')
  BY <1>3 DEF Pending
<1>8. Agreed(track', enc')
  BY <1>3, <1>4, InvariantParts DEF Agreed
<1> QED BY <1>3, <1>4, <1>5, <1>6, <1>7, <1>8, InvariantParts DEF InOrder

(* The encoder is gone, or was not there.                                    *)
LEMMA GoneStep ==
  ASSUME IInv, NEW f \in Encoders, Unset(f), Accounted(f), f.failed = enc.failed, NEW t \in Tracks
  PROVE  InOrder(t, f, asked)
<1>1. PICK fps \in FpsValues : TRUE
  BY NativeEncoderAssumption
<1>2. Healthy(f)
  BY EmptyIsHealthy
<1>3. ~ f.ctx.alive
  BY DEF Unset, NoContext
<1> QED BY <1>2, <1>3, InvariantParts DEF InOrder, Agreed, Recent, Pending

(* ForceSetBitrate and the controller.                                       *)
LEMMA SetBitrateKeeps ==
  ASSUME IInv, NEW rate \in Bitrates, SetBitrate(rate)
  PROVE  InOrder(track', enc', asked')
<1>1. PICK r \in SetEncoderBitrate(enc, rate) : enc' = Remembered(r.enc)
  BY DEF SetBitrate
<1>2. enc.ctx.alive /\ track' = track /\ asked' = asked
  BY DEF SetBitrate
<1>3. r.enc \in Encoders /\ Tuned(enc, r.enc) /\ Settled(r.enc) /\ r.enc.ctx.fps = enc.ctx.fps
  BY <1>2, InvariantParts, BitrateIsSet
<1>4. Healthy(r.enc)
  BY <1>2, <1>3, InvariantParts, TunedIsHealthy
<1>5. Quiet(r.enc, enc') /\ enc'.ctx = r.enc.ctx
  BY <1>1, <1>4, RememberedIsQuiet
<1>6. Quiet(enc, enc')
  BY <1>3, <1>5 DEF Quiet, Tuned, SamePending
<1>7. Agreed(track', enc')
  BY <1>2, <1>3, <1>5, InvariantParts DEF Agreed
<1> QED BY <1>2, <1>6, <1>7, InvariantParts, QuietStep

(* UpdateFps: set, left for later, or answered with the end of the encoder.  *)
LEMMA UpdateFpsKeeps ==
  ASSUME IInv, NEW fps \in FpsValues, NEW rate \in Bitrates, UpdateFps(fps, rate)
  PROVE  InOrder(track', enc', asked')
<1>1. asked' = asked /\ track \in Tracks
  BY InvariantParts DEF UpdateFps
<1>2. CASE enc.ctx.alive /\ FpsIsSet(fps, rate)
  <2>1. PICK r \in {s \in SetEncoderFps(enc, fps) : s.ok} :
          /\ track' = [track EXCEPT !.fps = fps, !.stale = FALSE]
          /\ \E b \in SetEncoderBitrate(r.enc, rate) : enc' = Remembered(b.enc)
    BY <1>2 DEF FpsIsSet
  <2>2. PICK b \in SetEncoderBitrate(r.enc, rate) : enc' = Remembered(b.enc)
    BY <2>1
  <2>3. r.enc \in Encoders /\ Tuned(enc, r.enc) /\ Settled(r.enc) /\ r.enc.ctx.fps = fps
    BY <1>2, <2>1, InvariantParts, FpsIsChanged
  <2>4. b.enc \in Encoders /\ Tuned(r.enc, b.enc) /\ Settled(b.enc) /\ b.enc.ctx.fps = fps
    BY <2>2, <2>3, InvariantParts, BitrateIsSet
  <2>5. Tuned(enc, b.enc)
    BY <2>3, <2>4 DEF Tuned
  <2>6. Healthy(b.enc)
    BY <1>2, <2>4, <2>5, InvariantParts, TunedIsHealthy
  <2>7. Quiet(b.enc, enc') /\ enc'.ctx = b.enc.ctx
    BY <2>2, <2>6, RememberedIsQuiet
  <2>8. Quiet(enc, enc')
    BY <2>5, <2>7 DEF Quiet, Tuned, SamePending
  <2>9. /\ track' \in Tracks /\ track'.fps = fps /\ track'.force = track.force
        /\ track'.encoded = track.encoded
    BY <1>1, <2>1 DEF Tracks
  <2>10. Agreed(track', enc')
    BY <2>4, <2>7, <2>9 DEF Agreed
  <2> QED BY <1>1, <2>8, <2>9, <2>10, QuietStep
<1>3. CASE enc.ctx.alive /\ FpsIsRefused(fps, rate)
  <2>1. PICK r \in {s \in SetEncoderFps(enc, fps) : ~ s.ok} :
          IF track.paused
          THEN /\ track' = [track EXCEPT !.fps = fps, !.sized = FALSE, !.stale = TRUE]
               /\ \E b \in SetEncoderBitrate(r.enc, rate) : enc' = Remembered(b.enc)
          ELSE /\ track' = [track EXCEPT !.fps = fps, !.sized = FALSE, !.promised = TRUE]
               /\ enc' = DisposeEncoder(r.enc)
    BY <1>3 DEF FpsIsRefused
  <2>2. r.enc \in Encoders /\ Tuned(enc, r.enc) /\ Settled(r.enc)
    BY <1>3, InvariantParts, FpsIsChanged
  <2>3. CASE track.paused
    <3>1. PICK b \in SetEncoderBitrate(r.enc, rate) : enc' = Remembered(b.enc)
      BY <2>1, <2>3
    <3>2. b.enc \in Encoders /\ Tuned(r.enc, b.enc) /\ Settled(b.enc)
      BY <2>2, <3>1, InvariantParts, BitrateIsSet
    <3>3. Tuned(enc, b.enc)
      BY <2>2, <3>2 DEF Tuned
    <3>4. Healthy(b.enc)
      BY <1>3, <3>2, <3>3, InvariantParts, TunedIsHealthy
    <3>5. Quiet(b.enc, enc') /\ enc'.ctx = b.enc.ctx
      BY <3>1, <3>4, RememberedIsQuiet
    <3>6. Quiet(enc, enc')
      BY <3>3, <3>5 DEF Quiet, Tuned, SamePending
    <3>7. /\ track' \in Tracks /\ track'.stale /\ track'.force = track.force
          /\ track'.encoded = track.encoded
      BY <1>1, <2>1, <2>3 DEF Tracks
    <3>8. Agreed(track', enc')
      BY <3>7 DEF Agreed
    <3> QED BY <1>1, <3>6, <3>7, <3>8, QuietStep
  <2>4. CASE ~ track.paused
    <3>1. track' \in Tracks
      BY <1>1, <2>1, <2>4 DEF Tracks
    <3>2. Accounted(r.enc) /\ r.enc.failed = enc.failed
      BY <2>2, InvariantParts DEF Tuned, Accounted, SurplusOf
    <3>3. /\ enc' \in Encoders /\ Unset(enc') /\ enc'.failed = enc.failed /\ Accounted(enc')
      BY <2>1, <2>2, <2>4, <3>2, InvariantParts, DisposeParts
    <3> QED BY <1>1, <3>1, <3>3, GoneStep
  <2> QED BY <2>3, <2>4
<1>4. CASE ~ enc.ctx.alive
  <2>1. track' = [track EXCEPT !.fps = fps] /\ enc' = enc
    BY <1>4 DEF UpdateFps
  <2>2. track' \in Tracks
    BY <1>1, <2>1 DEF Tracks
  <2>3. Unset(enc) /\ Accounted(enc) /\ enc \in Encoders
    BY <1>4, InvariantParts
  <2> QED BY <1>1, <2>1, <2>2, <2>3, GoneStep
<1> QED BY <1>2, <1>3, <1>4 DEF UpdateFps

(* Dispose.                                                                  *)
LEMMA DisposeKeeps ==
  ASSUME IInv, Dispose
  PROVE  InOrder(track', enc', asked')
<1>1. /\ asked' = asked /\ track' = [track EXCEPT !.disposed = TRUE]
      /\ enc' = IF enc.ctx.alive THEN DisposeEncoder(enc) ELSE enc
  BY DEF Dispose
<1>2. track' \in Tracks
  BY <1>1, InvariantParts DEF Tracks
<1>3. enc' \in Encoders /\ Unset(enc') /\ Accounted(enc') /\ enc'.failed = enc.failed
  BY <1>1, InvariantParts, DisposeParts
<1> QED BY <1>1, <1>2, <1>3, GoneStep

(* A change of resolution.                                                   *)
LEMMA ChangeResolutionKeeps ==
  ASSUME IInv, ChangeResolution
  PROVE  InOrder(track', enc', asked')
<1>1. track' = [track EXCEPT !.fits = FALSE] /\ enc' = Remembered(enc) /\ asked' = asked
  BY DEF ChangeResolution
<1>2. /\ track' \in Tracks /\ track'.force = track.force /\ track'.encoded = track.encoded
      /\ track'.fps = track.fps /\ track'.stale = track.stale
  BY <1>1, InvariantParts DEF Tracks
<1> QED BY <1>1, <1>2, TrackStep

(* PauseMonitor.                                                             *)
LEMMA PauseMonitorKeeps ==
  ASSUME IInv, PauseMonitor
  PROVE  InOrder(track', enc', asked')
<1>1. track' = [track EXCEPT !.paused = TRUE] /\ enc' = Remembered(enc) /\ asked' = asked
  BY DEF PauseMonitor
<1>2. /\ track' \in Tracks /\ track'.force = track.force /\ track'.encoded = track.encoded
      /\ track'.fps = track.fps /\ track'.stale = track.stale
  BY <1>1, InvariantParts DEF Tracks
<1> QED BY <1>1, <1>2, TrackStep

(* ResumeMonitor.                                                            *)
LEMMA ResumeMonitorKeeps ==
  ASSUME IInv, ResumeMonitor
  PROVE  InOrder(track', enc', asked')
<1>1. /\ track' = [track EXCEPT !.paused = FALSE, !.force = TRUE]
      /\ enc' = Remembered(enc) /\ asked' = Asked(enc)
  BY DEF ResumeMonitor
<1>2. track' \in Tracks /\ track'.force /\ track'.fps = track.fps /\ track'.stale = track.stale
  BY <1>1, InvariantParts DEF Tracks
<1> QED BY <1>1, <1>2, RequestStep

(* A new negotiation.                                                        *)
LEMMA NegotiateKeeps ==
  ASSUME IInv, Negotiate
  PROVE  InOrder(track', enc', asked')
<1>1. track' = [track EXCEPT !.sized = TRUE] /\ enc' = Remembered(enc) /\ asked' = asked
  BY DEF Negotiate
<1>2. /\ track' \in Tracks /\ track'.force = track.force /\ track'.encoded = track.encoded
      /\ track'.fps = track.fps /\ track'.stale = track.stale
  BY <1>1, InvariantParts DEF Tracks
<1> QED BY <1>1, <1>2, TrackStep

-----------------------------------------------------------------------------
(* The theorems                                                              *)

(* What is in order with the variables of the next state is so in it.        *)
LEMMA InOrderNext ==
  ASSUME vendor' = vendor, InOrder(track', enc', asked')
  PROVE  InOrder(track, enc, asked)'
<1>1. (Settled(enc'))  => Settled(enc)'
  BY DEF Settled
<1>2. Accounted(enc') => Accounted(enc)'
  BY DEF Accounted, SurplusOf, Releases
<1>3. Room(enc') => Room(enc)'
  BY DEF Room
<1>4. Timely(enc') => Timely(enc)'
  BY DEF Timely, LastTime, Ordered
<1>5. Increasing(enc') => Increasing(enc)'
  BY DEF Increasing
<1>6. Healthy(enc)'
  BY <1>1, <1>2, <1>3, <1>4, <1>5 DEF InOrder, Healthy, Unset, Matches, Truthful, Early
<1>7. (Agreed(track, enc) /\ Recent(asked, enc) /\ Pending(track, enc, asked))'
  BY DEF InOrder, Agreed, Recent, Pending, KeyInside
<1> QED BY <1>6, <1>7 DEF InOrder

(* The initial state: no encoder, nothing asked for.                         *)
LEMMA InitHolds ==
  ASSUME Init
  PROVE  IInv
<1>1. track \in Tracks
  BY DEF Init, Tracks
<1>2. asked \in Asks
  BY DEF Init, NothingAsked, Asks
<1>3. /\ enc \in Encoders /\ enc.ctx = NoContext /\ enc.drv = NoDriver /\ enc.sent = << >> /\ enc.last = -1
      /\ enc.failed = 0 /\ enc.held = [r \in Resources |-> 0]
  BY NothingIsTyped DEF Init, NoEncoder
<1>4. Unset(enc) /\ ~ enc.ctx.alive /\ enc.ctx.owns = {}
  BY <1>3 DEF Unset, NoContext
<1>5. Accounted(enc)
  <2>1. \A r \in Resources : SurplusOf(enc, r) = 0
    BY <1>3, <1>4 DEF SurplusOf
  <2> QED BY <1>3, <1>4, <2>1 DEF Accounted
<1>6. Healthy(enc)
  <2>1. PICK fps \in FpsValues : TRUE
    BY NativeEncoderAssumption
  <2> QED BY <1>3, <1>4, <1>5, EmptyIsHealthy
<1>7. enc.failed <= MaxFailures
  BY <1>3, NativeEncodersAssumption
<1>8. Agreed(track, enc) /\ Recent(asked, enc) /\ Pending(track, enc, asked)
  BY <1>4 DEF Agreed, Recent, Pending
<1> QED BY <1>1, <1>2, <1>6, <1>7, <1>8 DEF Init, IInv, InOrder

(* Every step keeps the invariant.                                           *)
LEMMA StepHolds ==
  ASSUME IInv, [Next]_vars
  PROVE  IInv'
<1>1. CASE UNCHANGED vars
  <2>1. InOrder(track', enc', asked') /\ vendor' = vendor /\ hevc' = hevc
    BY <1>1 DEF vars, IInv
  <2> QED BY <2>1, InOrderNext DEF IInv
<1>2. CASE Next
  <2>1. vendor' = vendor /\ hevc' = hevc
    BY <1>2 DEF Next, InitializeEncoders, PushFrame, RequestKeyframe, ResetSyncState, SetBitrate, UpdateFps,
                ChangeResolution, PauseMonitor, ResumeMonitor, Negotiate, Dispose
  <2>2. InOrder(track', enc', asked')
    BY <1>2, InitializeEncodersKeeps, PushFrameKeeps, RequestKeyframeKeeps, ResetSyncStateKeeps,
       SetBitrateKeeps, UpdateFpsKeeps, ChangeResolutionKeeps, PauseMonitorKeeps, ResumeMonitorKeeps,
       NegotiateKeeps, DisposeKeeps DEF Next
  <2> QED BY <2>1, <2>2, InOrderNext DEF IInv
<1> QED BY <1>1, <1>2

(* The invariant the theorems rest on, in every reachable state.             *)
THEOREM EncoderInvariant == Spec => []IInv
<1>1. Init => IInv
  BY InitHolds
<1>2. IInv /\ [Next]_vars => IInv'
  BY StepHolds
<1> QED BY <1>1, <1>2, PTL DEF Spec

(* TypeOK: the state has its type, the pipeline its depth, nothing is given   *)
(* back that was not held, and the creations that failed stay counted.       *)
THEOREM TypeCorrect == Spec => []TypeOK
<1>1. IInv => TypeOK
  <2> SUFFICES ASSUME IInv PROVE TypeOK
    OBVIOUS
  <2>1. /\ enc \in Encoders /\ Accounted(enc) /\ Room(enc) /\ Early(enc)
        /\ enc.ctx.alive => Settled(enc)
    BY InvariantParts DEF Healthy
  <2>2. /\ enc.ctx.alive \in BOOLEAN /\ enc.ctx.owns \subseteq Resources
        /\ enc.ctx.cached \in Textures \cup {NoTexture} /\ enc.drv.inside \in Seq(Stamped)
        /\ enc.held \in [Resources -> Int] /\ enc.failed \in Nat
    BY <2>1 DEF Encoders, Contexts, Drivers
  <2>3. ASSUME NEW i \in 1 .. Len(enc.drv.inside)
        PROVE  enc.drv.inside[i] \in Frames
    <3>1. enc.drv.inside[i] \in Stamped
      BY <2>2
    <3>2. enc.drv.inside[i].time <= MaxTime /\ MaxTime \in Nat
      BY <2>1, NativeEncodersAssumption DEF Early
    <3> QED BY <3>1, <3>2, SMT DEF Frames, Stamped
  <2>4. ASSUME NEW r \in Resources
        PROVE  enc.held[r] \in Nat
    <3>1. SurplusOf(enc, r) \in Nat
      BY <2>1, <2>2, InvariantParts DEF Accounted
    <3> QED BY <2>2, <3>1 DEF SurplusOf
  <2>5. enc.held \in [Resources -> Nat]
    BY <2>2, <2>4
  <2>6. enc.failed \in 0 .. MaxFailures
    BY <2>2, InvariantParts, NativeEncodersAssumption
  <2> QED BY <2>1, <2>2, <2>3, <2>5, <2>6, InvariantParts DEF TypeOK, Room, Settled, IInv
<1> QED BY <1>1, EncoderInvariant, PTL

(* RegistrationMatches: whichever call of a change of texture has failed, the *)
(* texture the cache names is the one the driver knows                       *)
(* (NvencWrapper.cpp:470-500).                                               *)
THEOREM CacheIsTrue == Spec => []RegistrationMatches
<1>1. IInv => RegistrationMatches
  BY InvariantParts DEF Healthy, Matches, RegistrationMatches
<1> QED BY <1>1, EncoderInvariant, PTL

(* SettingsAgree: the driver runs at the rates the context and the streamer   *)
(* say, whichever of the calls that change them has failed.                  *)
THEOREM RatesAgree == Spec => []SettingsAgree
<1>1. IInv => SettingsAgree
  BY InvariantParts DEF Settled, Agreed, SettingsAgree
<1> QED BY <1>1, EncoderInvariant, PTL

(* TimestampsIncrease: the stamps of what an encoder delivers increase, over  *)
(* changes of rate, failed frames, full pipelines and flushes.               *)
THEOREM StampsIncrease == Spec => []TimestampsIncrease
<1>1. IInv => TimestampsIncrease
  BY InvariantParts DEF Healthy, Increasing, TimestampsIncrease
<1> QED BY <1>1, EncoderInvariant, PTL

(* ReportedKeyIsTrue: a frame is reported as a key frame exactly when it is   *)
(* one, whichever call delivers it and however its start codes are written.  *)
THEOREM ReportsAreTrue == Spec => []ReportedKeyIsTrue
<1>1. IInv => ReportedKeyIsTrue
  BY InvariantParts DEF Healthy, Truthful, ReportedKeyIsTrue
<1> QED BY <1>1, EncoderInvariant, PTL

(* OnlyFailedCreatesLeak: what is held beyond the pointers that are set comes *)
(* from creations that failed, of each resource as much as the wrapper that  *)
(* failed leaves behind, and from nothing else.                              *)
THEOREM LeaksAreCounted == Spec => []OnlyFailedCreatesLeak
<1>1. IInv => OnlyFailedCreatesLeak
  <2> SUFFICES ASSUME IInv PROVE OnlyFailedCreatesLeak
    OBVIOUS
  <2>1. ASSUME NEW r \in Resources
        PROVE  enc.held[r] - Cardinality(enc.ctx.owns \cap {r}) = SurplusOf(enc, r)
    <3>1. CASE r \in enc.ctx.owns
      <4>1. enc.ctx.owns \cap {r} = {r}
        BY <3>1
      <4>2. Cardinality({r}) = 1
        BY FS_Singleton
      <4> QED BY <3>1, <4>1, <4>2 DEF SurplusOf
    <3>2. CASE r \notin enc.ctx.owns
      <4>1. enc.ctx.owns \cap {r} = {}
        BY <3>2
      <4>2. Cardinality({}) = 0
        BY FS_EmptySet
      <4> QED BY <3>2, <4>1, <4>2 DEF SurplusOf
    <3> QED BY <3>1, <3>2
  <2>2. Accounted(enc) /\ vendor \in {"nvenc", "amf", "qsv"}
    BY InvariantParts
  <2>3. CASE vendor = "amf"
    BY <2>1, <2>2, <2>3 DEF Accounted, OnlyFailedCreatesLeak
  <2>4. CASE vendor = "nvenc"
    BY <2>1, <2>2, <2>4 DEF Accounted, OnlyFailedCreatesLeak
  <2>5. CASE vendor = "qsv"
    BY <2>1, <2>2, <2>5 DEF Accounted, OnlyFailedCreatesLeak
  <2> QED BY <2>2, <2>3, <2>4, <2>5
<1> QED BY <1>1, EncoderInvariant, PTL

(* RequestLossHasCause: a key frame that was asked for is still to come,       *)
(* unless a call has failed on it, the component was full, the transform has  *)
(* no codec interface or the finished frame could not be read.               *)
THEOREM RequestsAreKept == Spec => []RequestLossHasCause
<1>1. IInv => RequestLossHasCause
  BY InvariantParts DEF Pending, KeyInside, RequestLossHasCause
<1> QED BY <1>1, EncoderInvariant, PTL

-----------------------------------------------------------------------------
(* What the two key-frame detectors find, for access units of any length.    *)

(* A long start code is a zero byte and a short one, one position on.      *)
LEMMA LongEndsInShort ==
  ASSUME NEW data \in Seq(Byte), NEW i \in Nat \ {0}, LongStartAt(data, i)
  PROVE  ShortStartAt(data, i + 1)
BY DEF LongStartAt, ShortStartAt

(* What begins with a long start code does not begin with a short one.     *)
LEMMA LongIsNotShort ==
  ASSUME NEW data \in Seq(Byte), NEW i \in Nat \ {0}, LongStartAt(data, i)
  PROVE  ~ ShortStartAt(data, i)
BY DEF LongStartAt, ShortStartAt

(* A frame the native wrapper takes for a key frame contains a key-frame    *)
(* NAL unit (NalUtils.h): trusting it needs no second look.                *)
THEOREM NativeFlagIsRight ==
  ASSUME NEW data \in Seq(Byte), NEW isHevc \in BOOLEAN, NativeDetect(data, isHevc)
  PROVE  ContainsKeyNal(data, isHevc)
<1>1. PICK i \in 1 .. Len(data) - 4 : LongStartAt(data, i) /\ IsKeyHeader(data[i + 4], isHevc)
  BY DEF NativeDetect, DetectKeyframeH264, DetectKeyframeHEVC, IsKeyHeader
<1>2. i + 1 \in 1 .. Len(data) - 3 /\ i \in Nat \ {0} /\ (i + 1) + 3 = i + 4
  BY <1>1
<1>3. ShortStartAt(data, i + 1)
  BY <1>1, <1>2, LongEndsInShort
<1> QED
  BY <1>1, <1>2, <1>3 DEF ContainsKeyNal

(* The managed parser finds every key frame, whatever start codes the       *)
(* encoder writes (KeyframeDetector.cs:22).                                *)
THEOREM NoKeyFrameIsMissed ==
  ASSUME NEW data \in Seq(Byte), NEW isHevc \in BOOLEAN, NEW stale \in Byte,
         ContainsKeyNal(data, isHevc)
  PROVE  IsKeyframe(data, isHevc, stale)
<1>1. PICK i \in 1 .. Len(data) - 3 : ShortStartAt(data, i) /\ IsKeyHeader(data[i + 3], isHevc)
  BY DEF ContainsKeyNal
<1>2. Len(data) \in Nat /\ Len(data) >= 4 /\ i \in 1 .. Len(data) - 2 /\ i + 3 <= Len(data)
  BY <1>1
<1>3. ~ LongStartAt(data, i)
  BY <1>1, <1>2, LongIsNotShort
<1> QED
  BY <1>1, <1>2, <1>3 DEF IsKeyframe

(* And it finds nothing else, unless the access unit of an HEVC encoder ends *)
(* in a start code: then it reads on (KeyframeDetector.cs:57).             *)
THEOREM NothingElseIsKey ==
  ASSUME NEW data \in Seq(Byte), NEW isHevc \in BOOLEAN, NEW stale \in Byte,
         isHevc => ~ LongStartAt(data, Len(data) - 3),
         IsKeyframe(data, isHevc, stale)
  PROVE  ContainsKeyNal(data, isHevc)
<1>1. PICK i \in 1 .. Len(data) - 2 :
        IF LongStartAt(data, i)
        THEN IF i + 4 <= Len(data) THEN IsKeyHeader(data[i + 4], isHevc)
                                   ELSE isHevc /\ IsKeyHeaderHevc(stale)
        ELSE ShortStartAt(data, i) /\ i + 3 <= Len(data) /\ IsKeyHeader(data[i + 3], isHevc)
  BY DEF IsKeyframe
<1>2. Len(data) \in Nat /\ i \in Nat \ {0}
  BY <1>1
<1>3. CASE LongStartAt(data, i)
  <2>1. ShortStartAt(data, i + 1)
    BY <1>2, <1>3, LongEndsInShort
  <2>2. i + 4 <= Len(data)
    <3>1. SUFFICES ASSUME ~ (i + 4 <= Len(data)) PROVE FALSE
      OBVIOUS
    <3>2. i + 3 <= Len(data)
      BY <1>3 DEF LongStartAt
    <3>3. i = Len(data) - 3
      BY <1>2, <3>1, <3>2
    <3> QED
      BY <1>1, <1>3, <3>1, <3>3
  <2>3. i + 1 \in 1 .. Len(data) - 3 /\ (i + 1) + 3 = i + 4
    BY <1>2, <2>2
  <2> QED
    BY <1>1, <1>3, <2>1, <2>2, <2>3 DEF ContainsKeyNal
<1>4. CASE ~ LongStartAt(data, i)
  <2>1. i \in 1 .. Len(data) - 3
    BY <1>1, <1>2, <1>4
  <2> QED
    BY <1>1, <1>4, <2>1 DEF ContainsKeyNal
<1> QED
  BY <1>3, <1>4
=============================================================================
