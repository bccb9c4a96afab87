-------------------------- MODULE MCNativeEncoders ---------------------------
(* Instances of NativeEncoders, and the loop of KeyframeDetector compared     *)
(* with the existence of a match.                                            *)
EXTENDS NativeEncoders, TLC

CONSTANTS t1, t2

TextureSymmetry == Permutations(Textures)

(* The loop of KeyframeDetector (KeyframeDetector.cs:52-104) goes on behind a *)
(* start code that no key frame follows; stale is what the reused buffer     *)
(* holds behind the data.                                                    *)
Scan(data, codec, stale) ==
  LET Header(i) == IF i <= Len(data) THEN IsKeyHeader(data[i], codec)
                   ELSE codec /\ IsKeyHeader(stale, codec)
      Cut(i) == i > Len(data) /\ ~ codec
      found[i \in 1 .. Len(data) + 4] ==
        IF i > Len(data) - 2 THEN FALSE
        ELSE IF LongStartAt(data, i) THEN ~ Cut(i + 4) /\ (Header(i + 4) \/ found[i + 4])
        ELSE IF ShortStartAt(data, i)
             THEN i + 3 <= Len(data) /\ (Header(i + 3) \/ found[i + 3])
        ELSE found[i + 1]
  IN Len(data) >= 4 /\ found[1]

ASSUME \A n \in 0 .. 6 : \A data \in [1 .. n -> {0, 1, 64, 103}], codec, late \in BOOLEAN :
         LET stale == IF late THEN 64 ELSE 0 IN
         Scan(data, codec, stale) = IsKeyframe(data, codec, stale)
=============================================================================
