----------------------------- MODULE FrameParser -----------------------------
(***************************************************************************)
(* The FrameParser of internal/wire/frame_parser.go and the receive loop   *)
(* that drives it, one packet payload at a time.  The parser keeps its     *)
(* configuration (ackDelayExponent and the two extension toggles) and the  *)
(* one ACK frame it reuses for every ACK decode.  A caller sweeps a packet *)
(* either with ParseNext (mode "next", as evaluateFrames of the tests      *)
(* does) or with ParseType followed by the decode routine for that type    *)
(* (mode "typed": ParseAckFrame, ParseDatagramFrame, ParseStreamFrame or   *)
(* ParseLessCommonFrame).                                                  *)
(***************************************************************************)
EXTENDS FrameWire, FiniteSets

CONSTANTS
  Frames,      \* the frames a packet is built from (records, see FrameWire)
  MaxFrames,   \* the most frames in one packet
  MaxCut,      \* the most bytes cut off the end of a packet
  Exponents,   \* the values SetAckDelayExponent is called with
  TypeWidths   \* the least width codes a sender writes type codes at

ASSUME MaxCut \in Nat /\ MaxFrames \in Nat \ {0}
ASSUME TypeWidths # {} /\ TypeWidths \subseteq 0..3

VARIABLES
  ackDelayExponent,      \* FrameParser.ackDelayExponent
  supportsDatagrams,     \* FrameParser.supportsDatagrams
  supportsResetStreamAt, \* FrameParser.supportsResetStreamAt
  ackFrame,              \* *FrameParser.ackFrame, the reused ACK frame
  level,                 \* encryption level of the packet being parsed
  sent,                  \* the frames the packet was built from
  cut,                   \* bytes cut off its end
  typeWidth,             \* the least width code of its type codes
  mode,                  \* "next" or "typed": the API the caller uses
  data,                  \* the bytes of the packet not yet consumed
  got,                   \* the frames the caller has obtained, in order
  status,                \* "idle", "parsing", "peeked", "done", "failed"
  peeked,                \* the type ParseType returned (mode "typed")
  lastErr,               \* the error that ended the packet
  exponentSet            \* history: SetAckDelayExponent was called on this parser

parser == <<ackDelayExponent, supportsDatagrams, supportsResetStreamAt, ackFrame>>
caller == <<level, sent, cut, typeWidth, mode, data, got, status, peeked, lastErr>>
vars   == <<parser, caller, exponentSet>>

\* An error: its kind, TransportError.FrameType, whether it is a
\* *qerr.TransportError, and the type code read (not part of the Go value).
Err(kind, ft, transport, typ) ==
  [kind |-> kind, frameType |-> ft, transport |-> transport, typ |-> typ]
NoErr == Err("none", 0, FALSE, 0)

Rest(b, l) == SubSeq(b, l + 1, Len(b))

\* The kinds the switch of ParseLessCommonFrame and ParseFrame decodes with
\* parse*Frame(b, v): RESET_STREAM .. NEW_TOKEN and MAX_DATA .. APPLICATION_CLOSE.
LessCommonTypes == (4..7) \cup (16..29)

Ok(t) == [frame |-> [NoFrame EXCEPT !.type = t], l |-> 0, err |-> "none"]

\* A decode result together with the ACK frame the parser holds afterwards.
KeepAck(r) == [frame |-> r.frame, l |-> r.l, err |-> r.err, ack |-> ackFrame]

-----------------------------------------------------------------------------
(* NewFrameParser                                                          *)

NewFrameParser(d, r) ==
  [ackDelayExponent |-> 0, supportsDatagrams |-> d,
   supportsResetStreamAt |-> r, ackFrame |-> NoFrame]

ParserIs(p) ==
  /\ ackDelayExponent = p.ackDelayExponent
  /\ supportsDatagrams = p.supportsDatagrams
  /\ supportsResetStreamAt = p.supportsResetStreamAt
  /\ ackFrame = p.ackFrame

ParserBecomes(p) ==
  /\ ackDelayExponent' = p.ackDelayExponent
  /\ supportsDatagrams' = p.supportsDatagrams
  /\ supportsResetStreamAt' = p.supportsResetStreamAt
  /\ ackFrame' = p.ackFrame

\* The receive loop between two packets.
IdleCaller ==
  [level |-> "1RTT", sent |-> <<>>, cut |-> 0, typeWidth |-> 0, mode |-> "next", data |-> <<>>,
   got |-> <<>>, status |-> "idle", peeked |-> 0, lastErr |-> NoErr]

CallerIs(c) ==
  /\ level = c.level /\ sent = c.sent /\ cut = c.cut /\ mode = c.mode
  /\ typeWidth = c.typeWidth
  /\ data = c.data /\ got = c.got /\ status = c.status /\ peeked = c.peeked
  /\ lastErr = c.lastErr

CallerBecomes(c) ==
  /\ level' = c.level /\ sent' = c.sent /\ cut' = c.cut /\ mode' = c.mode
  /\ typeWidth' = c.typeWidth
  /\ data' = c.data /\ got' = c.got /\ status' = c.status
  /\ peeked' = c.peeked /\ lastErr' = c.lastErr

Init ==
  \E d, r \in BOOLEAN : ParserIs(NewFrameParser(d, r)) /\ CallerIs(IdleCaller)
                        /\ exponentSet = FALSE

-----------------------------------------------------------------------------
(* ACK decoding, shared by ParseFrame and ParseAckFrame                    *)

\* Mutant of AckDelayExponentFor: the configured exponent also applies at
\* the Handshake level.
AckDelayExponentForHandshake(lv) ==
  IF lv = "Initial" THEN DefaultAckDelayExponent ELSE ackDelayExponent

\* The configured exponent applies at 1-RTT only.
AckDelayExponentFor(lv) ==
  IF lv # "1RTT" THEN DefaultAckDelayExponent ELSE ackDelayExponent

\* The decode result r, and the reused frame holding it or reset.
AckHeld(r) ==
  [frame |-> r.frame, l |-> r.l, err |-> r.err,
   ack |-> IF r.err = "none" THEN r.frame ELSE NoFrame]

\* p.ackFrame.Reset(); ParseAckFrame(p.ackFrame, ...): the reused frame is
\* overwritten; after a failed decode it holds what was read before the
\* error, abstracted to the reset value.
DecodeAck(b, t, lv) == Apply(ParseAckBody(b, t, AckDelayExponentFor(lv)), AckHeld)

-----------------------------------------------------------------------------
(* ParseFrame: dispatch on the type read by parseNext, then the            *)
(* encryption-level check.  The STREAM test looks at byte(frameTyp) only.  *)

\* The branch of ParseFrame's dispatch that handles type t: a decode routine
\* ("body"), a frame without body ("empty"), the ACK decode, or
\* errUnknownFrameType, also for an extension that is switched off.
Routine(t) ==
  CASE ((t % 256) & 248) = 8      -> "body"
    [] t \in {1, 30}              -> "empty"
    [] t \in AckTypes             -> "ack"
    [] t \in DatagramTypes        -> IF supportsDatagrams THEN "body" ELSE "unknown"
    [] t = ResetStreamAtFrameType -> IF supportsResetStreamAt THEN "body" ELSE "unknown"
    [] t \in LessCommonTypes      -> "body"
    [] OTHER                      -> "unknown"

\* The result of the branch, with the ACK frame held afterwards.
Decode(b, t, lv, routine) ==
  IF routine = "ack" THEN DecodeAck(b, t, lv)
  ELSE Apply(CASE routine = "body"  -> ParseBody(b, t)
               [] routine = "empty" -> Ok(t)
               [] OTHER             -> Fail("unknown"),
             KeepAck)

\* After the switch: an error returns (nil, 0, err); a type not allowed at
\* the level returns (nil, l, err) once the body has been decoded.
CheckLevel(r, t, lv) ==
  CASE r.err # "none"               -> [r EXCEPT !.frame = NoFrame, !.l = 0]
    [] ~isAllowedAtEncLevel(t, lv) -> [r EXCEPT !.frame = NoFrame, !.err = "enclevel"]
    [] OTHER                        -> r

ParseFrame(b, t, lv) ==
  Apply(Decode(b, t, lv, Routine(t)), LAMBDA r : CheckLevel(r, t, lv))

\* Mutant of FrameResult: the bytes of the type code are not counted.
FrameResultUncounted(f, v, parsed) ==
  [frame |-> IF f.err # "none" THEN NoFrame ELSE f.frame,
   l     |-> parsed + f.l,
   err   |-> IF f.err # "none" THEN Err(f.err, v.val, TRUE, v.val) ELSE NoErr,
   ack   |-> f.ack]

\* Mutant of FrameResult: the type code is counted as one byte, as if every
\* frame type fitted in one.
FrameResultOneByteType(f, v, parsed) ==
  [frame |-> IF f.err # "none" THEN NoFrame ELSE f.frame,
   l     |-> parsed + 1 + f.l,
   err   |-> IF f.err # "none" THEN Err(f.err, v.val, TRUE, v.val) ELSE NoErr,
   ack   |-> f.ack]

\* parseNext after ParseFrame returned f for the type v.val read after
\* `parsed` bytes of PADDING: the error becomes a TransportError carrying
\* the type; the consumed count includes what ParseFrame reports.
FrameResult(f, v, parsed) ==
  [frame |-> IF f.err # "none" THEN NoFrame ELSE f.frame,
   l     |-> parsed + v.l + f.l,
   err   |-> IF f.err # "none" THEN Err(f.err, v.val, TRUE, v.val) ELSE NoErr,
   ack   |-> f.ack]

\* parseNext: skip PADDING, read the type, decode the frame.  Errors are
\* wrapped in a TransportError carrying the type read.
RECURSIVE parseNext(_, _, _)
parseNext(b, parsed, lv) ==
  IF b = <<>> THEN [frame |-> NoFrame, l |-> parsed, err |-> NoErr, ack |-> ackFrame]
  ELSE Apply(VarIntParse(b), LAMBDA v :
         CASE v.err # "none" ->
                [frame |-> NoFrame, l |-> parsed + v.l,
                 err |-> Err(v.err, 0, TRUE, 0), ack |-> ackFrame]
           [] v.val = 0 -> parseNext(Rest(b, v.l), parsed + v.l, lv)
           [] OTHER     -> Apply(ParseFrame(Rest(b, v.l), v.val, lv),
                                 LAMBDA f : FrameResult(f, v, parsed)))

\* ParseNext: parseNext from the start of the region, (l, frame, err).
ParseNextCall(b, lv) == parseNext(b, 0, lv)

-----------------------------------------------------------------------------
(* ParseType and the routines a caller uses after it                       *)

\* Mutant of ParseType: the NewFrameType lookup is dropped.
RECURSIVE ParseTypeUnmapped(_, _, _)
ParseTypeUnmapped(b, parsed, lv) ==
  IF b = <<>> THEN [typ |-> 0, l |-> parsed, err |-> Err("EOF", 0, FALSE, 0)]
  ELSE
    LET v == VarIntParse(b)
        l == parsed + v.l
    IN CASE v.err # "none" -> [typ |-> 0, l |-> l, err |-> Err(v.err, 0, TRUE, 0)]
         [] v.val = 0      -> ParseTypeUnmapped(Rest(b, v.l), l, lv)
         [] ~isAllowedAtEncLevel(v.val, lv) ->
              [typ |-> 0, l |-> l, err |-> Err("enclevel", 0, TRUE, v.val)]
         [] OTHER -> [typ |-> v.val, l |-> l, err |-> NoErr]

\* ParseType: skip PADDING, read and classify the type, check the level.
\* Its errors carry no FrameType; an empty remainder is io.EOF.
RECURSIVE ParseType(_, _, _)
ParseType(b, parsed, lv) ==
  IF b = <<>> THEN [typ |-> 0, l |-> parsed, err |-> Err("EOF", 0, FALSE, 0)]
  ELSE
    LET v == VarIntParse(b)
        l == parsed + v.l
    IN CASE v.err # "none" -> [typ |-> 0, l |-> l, err |-> Err(v.err, 0, TRUE, 0)]
         [] v.val = 0      -> ParseType(Rest(b, v.l), l, lv)
         [] v.val \notin KnownFrameTypes ->
              [typ |-> 0, l |-> l, err |-> Err("unknown", 0, TRUE, v.val)]
         [] ~isAllowedAtEncLevel(v.val, lv) ->
              [typ |-> 0, l |-> l, err |-> Err("enclevel", 0, TRUE, v.val)]
         [] OTHER -> [typ |-> v.val, l |-> l, err |-> NoErr]

\* ParseLessCommonFrame: every kind but STREAM, ACK and DATAGRAM.
ParseLessCommonFrame(t, b) ==
  CASE t \in {1, 30}              -> Ok(t)
    [] t = ResetStreamAtFrameType ->
         IF supportsResetStreamAt THEN ParseBody(b, t) ELSE Fail("unknown")
    [] t \in LessCommonTypes      -> ParseBody(b, t)
    [] OTHER                      -> Fail("unknown")

\* FrameParser.ParseAckFrame returns the reused frame, also on error.
ParseAckFrame(t, b, lv) == DecodeAck(b, t, lv)

ParseDatagramFrame(t, b) ==
  IF ~supportsDatagrams THEN Fail("unknown") ELSE ParseBody(b, t)

\* The caller's choice of routine for the type ParseType returned.
ParseTyped(t, b, lv) ==
  CASE IsStreamFrameType(t)  -> Apply(ParseBody(b, t), KeepAck)
    [] t \in AckTypes        -> ParseAckFrame(t, b, lv)
    [] t \in DatagramTypes   -> Apply(ParseDatagramFrame(t, b), KeepAck)
    [] OTHER                 -> Apply(ParseLessCommonFrame(t, b), KeepAck)

-----------------------------------------------------------------------------
(* Actions                                                                 *)

\* A packet payload arrives: the frames of a test appended by
\* framesToBuffer, or by a sender that writes type codes wider than
\* minimal, possibly cut short, at one encryption level.  Only the last
\* frame may extend to the end of the region.
Packets ==
  {s \in BoundedSeq(Frames, MaxFrames) :
     s # <<>> /\ \A i \in 1..Len(s) - 1 : ~ExtendsToEnd(s[i].type)}

ReceivePacket ==
  /\ status = "idle"
  /\ \E fs \in Packets, c \in 0..MaxCut, tw \in TypeWidths, lv \in EncLevels,
       m \in {"next", "typed"} :
       LET buf == WideTypesBuffer(fs, tw)
       IN /\ c < Len(buf)
          /\ sent' = fs /\ cut' = c /\ typeWidth' = tw /\ level' = lv /\ mode' = m
          /\ data' = SubSeq(buf, 1, Len(buf) - c)
          /\ status' = "parsing"
  /\ UNCHANGED <<parser, got, peeked, lastErr, exponentSet>>

\* The caller's handling of what ParseNext returned: an error ends the
\* packet, a nil frame without error ends it too, a frame is kept and the
\* caller advances by l (data = data[l:]).
AfterParseNext(r) ==
  /\ ackFrame' = r.ack
  /\ \/ /\ r.err # NoErr
        /\ status' = "failed" /\ lastErr' = r.err
        /\ UNCHANGED <<data, got>>
     \/ /\ r.err = NoErr /\ r.frame = NoFrame
        /\ data' = Rest(data, r.l) /\ status' = "done"
        /\ UNCHANGED <<got, lastErr>>
     \/ /\ r.err = NoErr /\ r.frame # NoFrame
        /\ data' = Rest(data, r.l) /\ got' = Append(got, r.frame)
        /\ UNCHANGED <<status, lastErr>>

\* One call of ParseNext on the unread region.
ParseNext ==
  /\ mode = "next" /\ status = "parsing"
  /\ \E r \in {ParseNextCall(data, level)} : AfterParseNext(r)
  /\ UNCHANGED <<ackDelayExponent, supportsDatagrams, supportsResetStreamAt, exponentSet,
                 level, sent, cut, typeWidth, mode, peeked>>

\* Mutant of AfterParseType: on io.EOF the caller calls ParseType again.
AfterParseTypeRetries(r) ==
  \/ /\ r.err.kind = "EOF"
     /\ data' = Rest(data, r.l)
     /\ UNCHANGED <<status, peeked, lastErr>>
  \/ /\ r.err.kind \notin {"none", "EOF"}
     /\ status' = "failed" /\ lastErr' = r.err
     /\ UNCHANGED <<data, peeked>>
  \/ /\ r.err = NoErr
     /\ data' = Rest(data, r.l) /\ peeked' = r.typ /\ status' = "peeked"
     /\ UNCHANGED lastErr

\* The caller's handling of what ParseType returned: io.EOF ends the
\* packet, another error fails it, a type is kept for the next call; the
\* caller advances by l.
AfterParseType(r) ==
  \/ /\ r.err.kind = "EOF"
     /\ data' = Rest(data, r.l) /\ status' = "done"
     /\ UNCHANGED <<peeked, lastErr>>
  \/ /\ r.err.kind \notin {"none", "EOF"}
     /\ status' = "failed" /\ lastErr' = r.err
     /\ UNCHANGED <<data, peeked>>
  \/ /\ r.err = NoErr
     /\ data' = Rest(data, r.l) /\ peeked' = r.typ /\ status' = "peeked"
     /\ UNCHANGED lastErr

\* One call of ParseType on the unread region.
ParseTypeStep ==
  /\ mode = "typed" /\ status = "parsing"
  /\ \E r \in {ParseType(data, 0, level)} : AfterParseType(r)
  /\ UNCHANGED <<parser, level, sent, cut, typeWidth, mode, got, exponentSet>>

\* The caller's handling of what the routine for the peeked type returned.
AfterParseTyped(r) ==
  /\ ackFrame' = r.ack
  /\ \/ /\ r.err # "none"
        /\ status' = "failed" /\ lastErr' = Err(r.err, 0, FALSE, peeked)
        /\ UNCHANGED <<data, got>>
     \/ /\ r.err = "none"
        /\ data' = Rest(data, r.l) /\ got' = Append(got, r.frame)
        /\ status' = "parsing"
        /\ UNCHANGED lastErr

\* The decode routine for the peeked type on the unread region.
ParseTypedStep ==
  /\ mode = "typed" /\ status = "peeked"
  /\ \E r \in {ParseTyped(peeked, data, level)} : AfterParseTyped(r)
  /\ UNCHANGED <<ackDelayExponent, supportsDatagrams, supportsResetStreamAt, exponentSet,
                 level, sent, cut, typeWidth, mode, peeked>>

\* The caller has handled the packet's frames and waits for the next one.
FinishPacket ==
  /\ status = "done"
  /\ CallerBecomes(IdleCaller)
  /\ UNCHANGED <<parser, exponentSet>>

\* SetAckDelayExponent, between two packets (when the peer's transport
\* parameters have been processed).
SetAckDelayExponent ==
  /\ status = "idle"
  /\ \E e \in Exponents : ackDelayExponent' = e
  /\ exponentSet' = TRUE
  /\ UNCHANGED <<supportsDatagrams, supportsResetStreamAt, ackFrame, caller>>

\* A frame encoding error closes the connection; the next one gets a new
\* parser.
NewConnection ==
  /\ status = "failed"
  /\ \E d, r \in BOOLEAN : ParserBecomes(NewFrameParser(d, r))
  /\ exponentSet' = FALSE
  /\ CallerBecomes(IdleCaller)

Next ==
  \/ ReceivePacket
  \/ ParseNext
  \/ ParseTypeStep
  \/ ParseTypedStep
  \/ FinishPacket
  \/ SetAckDelayExponent
  \/ NewConnection

Spec == Init /\ [][Next]_vars

\* The receive loop calls the parser again as long as the packet is not
\* finished: evaluateFrames and a ParseType caller loop without waiting on
\* anything, so each parsing step, once possible, is taken.
FairSpec ==
  /\ Spec
  /\ WF_vars(ParseNext) /\ WF_vars(ParseTypeStep) /\ WF_vars(ParseTypedStep)

-----------------------------------------------------------------------------
(* Reference decoding: what a sweep over the packet must yield, computed   *)
(* from the frames the packet was built from and the rules of spec.md      *)
(* sections 4.2-4.4 and 7, not from its bytes.                             *)

\* Markers: the last frame cut short, and a frame that must be rejected.
CutFrame == [NoFrame EXCEPT !.type = -1]
Failure  == [NoFrame EXCEPT !.type = -2]

\* The frames fs hold once c bytes are taken off their end: a frame wholly
\* cut is gone, a payload running to the end is shorter, any other frame is
\* cut short.
RECURSIVE CutOff(_, _)
CutOff(fs, c) ==
  IF c = 0 THEN fs
  ELSE LET f == Last(fs) IN
       CASE Len(EncodeFrame(f, typeWidth)) <= c ->
              CutOff(Front(fs), c - Len(EncodeFrame(f, typeWidth)))
         [] ExtendsToEnd(f.type) /\ f.payload >= c ->
              Append(Front(fs), [f EXCEPT !.payload = @ - c])
         [] OTHER -> Append(Front(fs), CutFrame)

Received == CutOff(sent, cut)

\* A kind the parser accepts: mapped, its extension enabled, allowed at the
\* packet's level.
Admissible(t) ==
  /\ t \in KnownFrameTypes
  /\ t \in DatagramTypes => supportsDatagrams
  /\ t = ResetStreamAtFrameType => supportsResetStreamAt
  /\ isAllowedAtEncLevel(t, level)

WellFormed(f) ==
  /\ f.type \in AckTypes => AckRangesValid(f.fields)
  /\ ~MalformedBody(f.type, f.fields)

\* The delay of an ACK is scaled by the 1-RTT exponent e at 1-RTT and by
\* the default one at every other level.
Decoded(f, e) ==
  IF f.type \in AckTypes
  THEN AckValue(f.type, f.fields, IF level = "1RTT" THEN e ELSE DefaultAckDelayExponent)
  ELSE f

Outcome(f, e) ==
  IF f # CutFrame /\ Admissible(f.type) /\ WellFormed(f) THEN Decoded(f, e) ELSE Failure

\* The outcomes of the frames other than PADDING, up to the first failure,
\* with 1-RTT ACK delays scaled by 2^e.
ExpectedWith(e) ==
  LET frames == SelectSeq(Received, LAMBDA f : f.type # 0)
      outs   == [i \in 1..Len(frames) |-> Outcome(frames[i], e)]
      bad    == {i \in DOMAIN outs : outs[i] = Failure}
  IN IF bad = {} THEN outs ELSE SubSeq(outs, 1, Min(bad))

\* What the sweep must yield under the parser's current exponent.
Expected == ExpectedWith(ackDelayExponent)

-----------------------------------------------------------------------------
(* Refinement mapping onto FrameStream: "peeked" is still parsing (the     *)
(* type has been read, the frame not yet obtained); the outcomes not yet   *)
(* reached are those of the reference after the frames obtained.           *)

Frame == [type : Nat, fields : Seq(Nat), payload : Nat]

StreamStatus == IF status = "peeked" THEN "parsing" ELSE status

StreamPending ==
  IF status \in {"parsing", "peeked"}
  THEN SubSeq(Expected, Len(got) + 1, Len(Expected))
  ELSE <<>>

Stream == INSTANCE FrameStream
            WITH status <- StreamStatus, got <- got, pending <- StreamPending,
                 Value <- Frame, Failure <- Failure

-----------------------------------------------------------------------------
(* Properties                                                              *)

TypeOK ==
  /\ ackDelayExponent \in {0} \cup Exponents
  /\ supportsDatagrams \in BOOLEAN /\ supportsResetStreamAt \in BOOLEAN
  /\ ackFrame \in Frame
  /\ level \in EncLevels /\ sent \in Seq(Frame) /\ cut \in 0..MaxCut
  /\ typeWidth \in TypeWidths \cup {0}
  /\ mode \in {"next", "typed"} /\ data \in Seq(0..255) /\ got \in Seq(Frame)
  /\ status \in {"idle", "parsing", "peeked", "done", "failed"}
  /\ peeked \in KnownFrameTypes \cup {0} /\ lastErr.kind \in STRING

\* Whichever API the receive loop uses (ParseNext, or ParseType and the
\* routine for the type), the frames it obtains from a packet are, in wire
\* order, the frames the packet was built from with PADDING skipped and ACK
\* delays scaled for the level; the sweep ends without error exactly when
\* every frame is mapped, enabled, allowed at the level, well formed and
\* complete, and fails at the first frame that is not.
SweepMatchesReference ==
  status # "idle" =>
    /\ IsPrefix(got, Expected)
    /\ status = "done"   => got = Expected
    /\ status = "failed" => Expected = Append(got, Failure)

\* spec.md 2 and 5: whichever API the receive loop uses, the parser and the
\* loop together behave as FrameStream: every call hands over the next
\* frame of the packet, rejects it, ends the packet, or obtains nothing
\* visible (ParseType); and, as the loop keeps calling, every packet is
\* eventually done or failed.
StreamRefinement == Stream!Spec

\* spec.md 5 and 7: the caller advances by the bytes each call reports
\* consumed and repeats until the region is empty.  Every ParseNext call that
\* hands a frame to the caller, and every ParseType call that returns a type,
\* consumes at least one byte, so the loop of evaluateFrames (or of a
\* ParseType caller) never calls again on the same region.
CallsConsume ==
  [][status = "parsing" /\ status' \in {"parsing", "peeked"} => Len(data') < Len(data)]_vars

\* spec.md 4.2 and 8: a type code the frame-type table does not map is
\* always rejected as an unknown frame type; no frame of such a code ever
\* reaches the caller, whichever API it uses.
UnmappedTypesRejected ==
  \A i \in DOMAIN got : got[i].type \in KnownFrameTypes

\* spec.md 6 and 7: an error attributable to an identified frame type
\* (unknown, not allowed at the level, malformed body) is a TransportError
\* whose FrameType is that type's raw code, whichever operation raised it.
TransportErrorsCarryType ==
  lastErr.transport /\ lastErr.typ # 0 => lastErr.frameType = lastErr.typ

\* spec.md 4.3: the ACK delay exponent "defaults to a protocol-fixed value
\* except at the highest-priority phase where the caller-configured exponent
\* applies".  Until SetAckDelayExponent has been called on a parser there is
\* no caller-configured exponent, so a 1-RTT ACK delay is scaled by
\* 2^DefaultAckDelayExponent, as at every other level.
AckDelayDefaultUntilSet ==
  status # "idle" /\ ~exponentSet =>
    IsPrefix(got, ExpectedWith(DefaultAckDelayExponent))

=============================================================================
