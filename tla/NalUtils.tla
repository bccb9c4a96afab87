------------------------------ MODULE NalUtils ------------------------------
(***************************************************************************)
(* How an encoded access unit is recognised as a key frame: by the native  *)
(* wrappers (NalUtils.h), which know start codes of four bytes, and by the *)
(* managed parser that overrules them (KeyframeDetector.cs), which also    *)
(* knows those of three.  Both loops return at the first match, so each is *)
(* written as the existence of a match.                                    *)
(***************************************************************************)
EXTENDS Integers, Sequences

Byte == 0 .. 255

(* A start code of three or four bytes begins at position i of data.       *)
ShortStartAt(data, i) ==
  i + 2 <= Len(data) /\ data[i] = 0 /\ data[i + 1] = 0 /\ data[i + 2] = 1

LongStartAt(data, i) ==
  /\ i + 3 <= Len(data)
  /\ data[i] = 0 /\ data[i + 1] = 0 /\ data[i + 2] = 0 /\ data[i + 3] = 1

(* The header byte that follows a start code: an IDR slice or the parameter *)
(* sets that come with one.                                                *)
IsKeyHeaderH264(b) == b % 32 \in {5, 7}
IsKeyHeaderHevc(b) == (b \div 2) % 64 \in {19, 20, 21, 32, 33}

IsKeyHeader(b, hevc) == IF hevc THEN IsKeyHeaderHevc(b) ELSE IsKeyHeaderH264(b)

DetectKeyframeH264(data) ==
  \E i \in 1 .. Len(data) - 4 : LongStartAt(data, i) /\ IsKeyHeaderH264(data[i + 4])

DetectKeyframeHEVC(data) ==
  \E i \in 1 .. Len(data) - 5 : LongStartAt(data, i) /\ IsKeyHeaderHevc(data[i + 4])

NativeDetect(data, hevc) ==
  IF hevc THEN DetectKeyframeHEVC(data) ELSE DetectKeyframeH264(data)

(* The managed parser.  Behind a long start code that ends the data the HEVC *)
(* branch reads one byte of whatever the reused buffer held before.        *)
IsKeyframe(data, hevc, stale) ==
  /\ Len(data) >= 4
  /\ \E i \in 1 .. Len(data) - 2 :
       IF LongStartAt(data, i)
       THEN IF i + 4 <= Len(data) THEN IsKeyHeader(data[i + 4], hevc)
                                  ELSE hevc /\ IsKeyHeaderHevc(stale)
       ELSE ShortStartAt(data, i) /\ i + 3 <= Len(data) /\ IsKeyHeader(data[i + 3], hevc)

(* What the standard says: a NAL unit of a key-frame type follows a start  *)
(* code.  A long start code ends in a short one.                           *)
ContainsKeyNal(data, hevc) ==
  \E i \in 1 .. Len(data) - 3 : ShortStartAt(data, i) /\ IsKeyHeader(data[i + 3], hevc)
=============================================================================
