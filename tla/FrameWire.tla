------------------------------ MODULE FrameWire ------------------------------
(***************************************************************************)
(* The wire layer the FrameParser of internal/wire/frame_parser.go calls:  *)
(* the variable-length integer codec (quicvarint), the frame-type table    *)
(* (frame_type.go) and the decode routines of the frame kinds.  None of    *)
(* these files is part of this repository, so every operator here is       *)
(* written from spec.md (sections 4.1-4.3, 6) and the wire format it       *)
(* fixes.                                                                  *)
(*                                                                         *)
(* A frame is abstracted to a record: its type code, the values of its    *)
(* variable-length-integer fields in wire order, and the number of payload *)
(* bytes it carries (STREAM, CRYPTO, DATAGRAM, CONNECTION_CLOSE reason).   *)
(* A byte region is a sequence of integers in 0..255.                      *)
(***************************************************************************)
EXTENDS Integers, Sequences, SequencesExt, Bitwise

EncLevels == {"Initial", "Handshake", "0RTT", "1RTT"}

\* protocol.DefaultAckDelayExponent
DefaultAckDelayExponent == 3

\* The byte every payload (stream data, token, reason phrase) is made of.
PayloadByte == 42

-----------------------------------------------------------------------------
(* Variable-length integers: the two high bits of the first byte select    *)
(* an encoding of 1, 2, 4 or 8 bytes; the rest is the value, big-endian.   *)

VarIntLen(first) == 2 ^ (first \div 64)

\* quicvarint.Parse: value, bytes consumed, and "EOF" on an empty region or
\* "UnexpectedEOF" when the region is shorter than the encoding (0 consumed).
VarIntParse(b) ==
  IF b = <<>> THEN [val |-> 0, l |-> 0, err |-> "EOF"]
  ELSE LET n == VarIntLen(b[1])
       IN IF Len(b) < n THEN [val |-> 0, l |-> 0, err |-> "UnexpectedEOF"]
          ELSE [val |-> FoldLeft(LAMBDA acc, x : acc * 256 + x,
                                 b[1] % 64, SubSeq(b, 2, n)),
                l |-> n, err |-> "none"]

\* The last n bytes of v, big-endian.
RECURSIVE BigEndian(_, _)
BigEndian(v, n) == IF n = 0 THEN <<>> ELSE BigEndian(v \div 256, n - 1) \o <<v % 256>>

\* The width code (0..3, for 1, 2, 4 or 8 bytes) of the shortest varint
\* that holds v < 2^62.
VarIntWidth(v) ==
  CASE v < 2^6  -> 0
    [] v < 2^14 -> 1
    [] v < 2^30 -> 2
    [] OTHER    -> 3

\* quicvarint.AppendWithLen: v in 2^w bytes, the width code in the two high
\* bits of the first byte (w >= VarIntWidth(v)).
VarIntAppendWithLen(v, w) == [BigEndian(v, 2^w) EXCEPT ![1] = @ + 64 * w]

\* quicvarint.Append: the minimal-length encoding.
VarIntAppend(v) == VarIntAppendWithLen(v, VarIntWidth(v))

-----------------------------------------------------------------------------
(* The frame-type table (frame_type.go).                                   *)

AckTypes      == {2, 3}
DatagramTypes == {48, 49}                 \* 0x30, 0x31
ResetStreamAtFrameType == 36              \* 0x24

\* NewFrameType(typ) succeeds: the RFC 9000 kinds 0x01-0x1e, which include
\* the STREAM range 0x08-0x0f, and the two extensions.
KnownFrameTypes == (1..30) \cup {ResetStreamAtFrameType} \cup DatagramTypes

\* The STREAM test of ParseFrame, byte(frameTyp) & 0xf8 == 0x8: bits 3-7 of
\* the code are 00001 (t & 248 keeps exactly those bits of the low byte).
IsStreamFrameType(t) == (t & 248) = 8

\* FrameType.isAllowedAtEncLevel: Initial and Handshake admit only PING,
\* ACK, CRYPTO and CONNECTION_CLOSE (0x1c); 0-RTT excludes ACK, CRYPTO,
\* NEW_TOKEN, RETIRE_CONNECTION_ID, PATH_RESPONSE and HANDSHAKE_DONE.
isAllowedAtEncLevel(t, lv) ==
  CASE lv \in {"Initial", "Handshake"} -> t \in {1, 2, 3, 6, 28}
    [] lv = "0RTT"                     -> t \notin {2, 3, 6, 7, 25, 27, 30}
    [] lv = "1RTT"                     -> TRUE

-----------------------------------------------------------------------------
(* Frame bodies.  Each decode routine reads a fixed number of varint       *)
(* fields, then a payload whose length is the last field, a fixed size, or *)
(* the rest of the region.                                                 *)

Bit(t, k) == (t \div 2 ^ k) % 2

\* Fields before the payload: STREAM has a stream ID, an offset when bit 2
\* is set and a length when bit 1 is set; the rest per frame kind.
FixedFields(t) ==
  CASE IsStreamFrameType(t)                         -> 1 + Bit(t, 2) + Bit(t, 1)
    [] t \in {1, 26, 27, 30, 48}                    -> 0
    [] t \in {7, 16, 18, 19, 20, 22, 23, 25, 49}    -> 1
    [] t \in {5, 6, 17, 21, 29}                     -> 2
    [] t \in {4, 24, 28}                            -> 3
    [] t = ResetStreamAtFrameType                   -> 4

\* A STREAM frame without its length bit and DATAGRAM 0x30 extend to the
\* end of the region.
ExtendsToEnd(t) == (IsStreamFrameType(t) /\ Bit(t, 1) = 0) \/ t = 48

PayloadLength(t, fields, rest) ==
  CASE ExtendsToEnd(t)                                  -> rest
    [] IsStreamFrameType(t) \/ t \in {6, 7, 28, 29, 49} -> fields[Len(fields)]
    [] t \in {26, 27}                                   -> 8
    [] t = 24                                           -> fields[3] + 16
    [] OTHER                                            -> 0

\* Field checks of the decode routines: an empty NEW_TOKEN, a connection ID
\* length outside 1..20 or a retire-prior-to above the sequence number, a RESET_STREAM_AT whose reliable size exceeds its
\* final size.
MalformedBody(t, fields) ==
  \/ t = 7 /\ fields[1] = 0
  \/ t = 24 /\ (fields[3] \notin 1..20 \/ fields[2] > fields[1])
  \/ t = ResetStreamAtFrameType /\ fields[4] > fields[3]

\* A frame value with no kind: a nil Frame, and an AckFrame after Reset().
NoFrame == [type |-> 0, fields |-> <<>>, payload |-> 0]

Fail(e) == [frame |-> NoFrame, l |-> 0, err |-> e]

\* F(v), with v computed once and F given its value: a strict LET.
Apply(v, F(_)) == CHOOSE y \in {F(x) : x \in {v}} : TRUE

\* The field v read in front of the fields r read after it.
ConsField(v, r) == [r EXCEPT !.vals = <<v.val>> \o @, !.l = @ + v.l]

\* k varint fields read off b in order; ok is FALSE when b runs out.
RECURSIVE ParseFields(_, _)
ParseFields(b, k) ==
  IF k = 0 THEN [vals |-> <<>>, l |-> 0, ok |-> TRUE]
  ELSE Apply(VarIntParse(b), LAMBDA v :
         IF v.err # "none" THEN [vals |-> <<>>, l |-> 0, ok |-> FALSE]
         ELSE Apply(ParseFields(SubSeq(b, v.l + 1, Len(b)), k - 1),
                    LAMBDA r : ConsField(v, r)))

\* A body whose fields fs were read off a region of len bytes.
BodyResult(t, fs, len) ==
  LET rest == len - fs.l
      n    == PayloadLength(t, fs.vals, rest)
  IN CASE ~fs.ok                    -> Fail("EOF")
       [] n > rest                  -> Fail("EOF")
       [] MalformedBody(t, fs.vals) -> Fail("malformed")
       [] OTHER -> [frame |-> [type |-> t, fields |-> fs.vals, payload |-> n],
                    l |-> fs.l + n, err |-> "none"]

\* The decode routine of every kind except ACK (ParseStreamFrame,
\* parseCryptoFrame, ParseDatagramFrame, parseResetStreamFrame, ...).
ParseBody(b, t) ==
  Apply(ParseFields(b, FixedFields(t)), LAMBDA fs : BodyResult(t, fs, Len(b)))

\* ACK ranges: the first range ends at the largest acknowledged packet;
\* each (gap, length) pair starts gap + 2 below the previous smallest.
RECURSIVE RangesValid(_, _)
RangesValid(smallest, pairs) ==
  \/ pairs = <<>>
  \/ LET gap == pairs[1]  len == pairs[2]
     IN /\ smallest >= gap + 2
        /\ len <= smallest - gap - 2
        /\ RangesValid(smallest - gap - 2 - len, SubSeq(pairs, 3, Len(pairs)))

\* fields = largest, delay, range count, first range, pairs, [ECN counts]
AckRangesValid(fields) ==
  /\ fields[4] <= fields[1]
  /\ RangesValid(fields[1] - fields[4], SubSeq(fields, 5, 4 + 2 * fields[3]))

\* The decoded ACK carries the delay scaled by 2^exponent.
AckValue(t, fields, exp) ==
  [type |-> t, fields |-> [fields EXCEPT ![2] = @ * 2 ^ exp], payload |-> 0]

\* An ACK whose header hd and ranges and ECN counts tl have been read.
AckResult(t, hd, tl, exp) ==
  CASE ~tl.ok                               -> Fail("EOF")
    [] ~AckRangesValid(hd.vals \o tl.vals) -> Fail("malformed")
    [] OTHER -> [frame |-> AckValue(t, hd.vals \o tl.vals, exp),
                 l |-> hd.l + tl.l, err |-> "none"]

\* ParseAckFrame: four fields, 2 * count range fields, three ECN counts
\* for type 0x03.
ParseAckBody(b, t, exp) ==
  Apply(ParseFields(b, 4), LAMBDA hd :
    IF ~hd.ok THEN Fail("EOF")
    ELSE Apply(ParseFields(SubSeq(b, hd.l + 1, Len(b)),
                           2 * hd.vals[3] + (IF t = 3 THEN 3 ELSE 0)),
               LAMBDA tl : AckResult(t, hd, tl, exp)))

-----------------------------------------------------------------------------
(* Encoding: Frame.Append writes the type code, the fields and the payload *)
(* in wire order.                                                          *)

\* A sender may write the type code wider than minimal (tw is the least
\* width code it uses): quicvarint.Parse reads any width.
EncodeFrame(f, tw) ==
  VarIntAppendWithLen(f.type, Max({tw, VarIntWidth(f.type)}))
    \o FlattenSeq([i \in DOMAIN f.fields |-> VarIntAppend(f.fields[i])])
    \o [i \in 1..f.payload |-> PayloadByte]

\* Frame.Append writes the type code minimally.
AppendFrame(f) == EncodeFrame(f, 0)

\* framesToBuffer (frame_parser_test.go): the frames appended in order.
framesToBuffer(frames) ==
  FlattenSeq([i \in DOMAIN frames |-> AppendFrame(frames[i])])

\* The same frames from a sender writing type codes at width code >= tw.
WideTypesBuffer(frames, tw) ==
  FlattenSeq([i \in DOMAIN frames |-> EncodeFrame(frames[i], tw)])

=============================================================================
