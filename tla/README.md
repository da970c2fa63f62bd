# TLA+ models of the QUIC frame parser

This directory holds TLA+ models of `internal/wire/frame_parser.go` and of
the test callers in `frame_parser_test.go` (`src/unnamed/part_000`). These are
the only two source files of the repository. The collaborators the parser calls
(quicvarint, `frame_type.go`, the per-frame decoders and encoders) are not in the
repository. They are modelled from `spec.md` and marked `spec_modelled` in
`PROJECT.json`.

## 1. The system

| Part | Where | State | Operations |
|---|---|---|---|
| Frame parser | frame_parser.go 17-265 | `ackDelayExponent`, `supportsDatagrams`, `supportsResetStreamAt`, and the reused `ackFrame` | `NewFrameParser`, `ParseType`, `ParseLessCommonFrame`, `ParseNext`/`parseNext`, `ParseFrame`, `ParseAckFrame`, `ParseDatagramFrame`, `SetAckDelayExponent` |
| Receive loop (test callers) | part_000 15-347, 349-475 | the packet being swept, the frames obtained so far | a `ParseNext` loop (`evaluateFrames`), or `ParseType` followed by the routine for the type |
| Varint codec | quicvarint (not in the repo) | none | `Parse`, `Append` |
| Frame-type table | frame_type.go (not in the repo) | none | `NewFrameType`, `IsStreamFrameType`, `isAllowedAtEncLevel` |
| Frame decoders and encoders | not in the repo | none | `ParseStreamFrame`, `ParseAckFrame`, `parse*Frame`, `Append` |

How the parts interact:

- A connection creates one parser per connection.
- It calls `SetAckDelayExponent` once the peer's transport parameters are known.
- It then feeds the payload of each packet to the parser, together with the packet's encryption level.
- The caller sweeps the payload frame by frame, advancing by the `l` each call returns.
  - `ParseNext` skips PADDING, reads the type and decodes the frame.
  - Alternatively, `ParseType` skips PADDING and classifies the type. The caller then picks `ParseStreamFrame`, `ParseAckFrame`, `ParseDatagramFrame` or `ParseLessCommonFrame` itself.
- Every ACK decode resets and refills one `*AckFrame` that the parser owns and hands out. That frame is the only state shared between calls, apart from the configuration.

Hard behaviours of the code:

- The ACK scratch frame is aliased across calls. It is overwritten even by a decode that then fails: line 233 checks the level after decoding, and `ParseAckFrame` returns the frame on error.
- Line 170 truncates the 62-bit type code to a byte for the STREAM test.
- The exponent rule has two sides. The exponent is the configured one at 1-RTT and the default elsewhere. It is 0 until `SetAckDelayExponent` is called.
- The two APIs gate differently. `ParseType` ignores the extension switches. Its errors carry no `FrameType`.
- The consumed count differs on errors, depending on which check fails.

## 2. Modules

- **`FrameWire.tla`** contains the wire layer, written from `spec.md` §4. It has:
  - varint parse, append, and append at a given width (`VarIntAppendWithLen`);
  - the frame-type table;
  - the encryption-level table;
  - each frame kind's body layout, as a number of varint fields plus a payload length, together with the malformed checks spec.md names;
  - ACK parsing with range validation and delay scaling;
  - `EncodeFrame`, which writes a frame with its type code at a given least width. `AppendFrame` is the minimal form that `Frame.Append` writes, `framesToBuffer` is the tests' helper, and `WideTypesBuffer` is a sender that writes type codes wider than needed. quicvarint reads those too.

  A frame is abstracted to a record `[type, fields, payload]`. A byte region is a sequence of integers 0..255, and the conversions are real byte encodings.
- **`FrameParser.tla`** models the parser and its caller.
  - The parser's four fields are variables (`parser`).
  - The receive loop's state is the caller (`caller`):
    - `level`, `mode`: the packet's level and the API used;
    - `sent`, `cut`, `typeWidth`: the frames the packet was built from, how many bytes were cut off its end, and the least width code its type codes were written at;
    - `data`: the unread region;
    - `got`: the frames obtained;
    - `status`, `peeked`, `lastErr`.
  - Each parser routine is an operator that returns the Go results together with the `ackFrame` afterwards. These operators are `ParseType`, `parseNext`, `ParseFrame`, `ParseLessCommonFrame`, `ParseAckFrame`, `ParseDatagramFrame` and `DecodeAck`. A whole call is one step, and the loops over PADDING are `RECURSIVE`. `ParseFrame` is split the way the code runs: `Routine` (the switch arm), `Decode` (the arm's decoder), then `CheckLevel`. A result computed once is handed to a helper as an argument, for example `FrameResult` or `AfterParseNext`, rather than bound with LET and read several times. This keeps TLC's coverage accounting linear.
  - The actions are:
    - `ReceivePacket`;
    - `ParseNext`, with three outcomes: error, end, or frame;
    - `ParseTypeStep`, with three outcomes: EOF, error, or type;
    - `ParseTypedStep`;
    - `FinishPacket`;
    - `SetAckDelayExponent`, between packets;
    - `NewConnection`, which starts a new parser after a failure.
  - The reference `Expected` is computed from the frames the packet was built from (`sent`, `cut`), not from its bytes.
  - `exponentSet` is a history variable: it records whether `SetAckDelayExponent` was called on the current parser. `SetAckDelayExponent` sets it and `NewConnection` clears it. Only `AckDelayDefaultUntilSet` reads it.
  - The parse operators are recursive, and TLC passes operator arguments and LET definitions lazily. When TLC evaluates `ENABLED` for the fairness conditions, it does not cache them, so a region re-sliced at each recursion level is recomputed exponentially often. `Apply(v, F)` in `FrameWire` evaluates `v` once and hands the value to `F`. It is a strict LET and changes no result. The parse operators bind each varint read and each sub-result with it.
- **`FrameStream.tla`** is the abstract specification, written from spec.md §2 and §5. It states what the parser and its caller promise together:
  - a packet is a sequence of outcomes, each a decoded frame or, at most once and last, a failure;
  - `Receive` starts a packet;
  - `Deliver` hands over the next frame, and `Reject` fails at the failure;
  - `End` ends the packet once every frame has been obtained;
  - `Close` returns to idle.

  Its fairness is weak fairness of `Deliver`, `Reject` and `End`. `FrameParser` instantiates it as `Stream`, with this refinement mapping:
  - `status` maps to itself, with `peeked` read as `parsing`;
  - `got` maps to itself;
  - `pending` maps to the rest of the reference decoding `Expected` while the packet is being swept, and to `<<>>` otherwise;
  - `Value` is the set of frames, and `Failure` is the failure outcome of the reference.

  A `ParseType` call that returns a type, and the `PADDING` it skips, are stuttering steps of `FrameStream`.
- **`MCFrameParser.tla`** defines the model values. `MCFramesWide` holds the frames with wide fields used by `wide_varints`, and `MCMinimalTypes`/`MCWideTypes` give `TypeWidths` for the runs: minimal type codes, or codes written in at least 1, 2 or 8 bytes. The other sets hold frames taken from the tests, each field small enough for a one-byte varint:
  - valid frames of every dispatch path: PING, ACK, ACK with ECN and a second range, STREAM with and without length, MAX_DATA, CRYPTO, HANDSHAKE_DONE, CONNECTION_CLOSE, both DATAGRAM forms, RESET_STREAM_AT;
  - malformed frames: an ACK whose first range exceeds the largest acknowledged, and a RESET_STREAM_AT whose reliable size exceeds its final size;
  - the unmapped two-byte code 0x42, and 0x108 for the finding run;
  - PADDING.

The map in `PROJECT.json` names the source lines of every definition.

## 3. Runs

- **`sweep`** (`MCFrameParser.cfg`, pass) checks two invariants:
  - `TypeOK`.
  - `SweepMatchesReference`. Whichever API is used, the frames obtained are a prefix of the reference decoding. A sweep that ends obtains all of it. A sweep that fails does so exactly at the first frame that is unmapped, disabled, not allowed at the level, malformed or cut short. ACK delays are scaled by 2^exponent for the level.

  Bounds:
  - packets of up to 2 frames (`MaxFrames`), drawn from the 16 frames above;
  - 0 or 1 bytes cut off the end (`MaxCut`). The `wide_varints` run cuts up to 8;
  - all 4 levels, both APIs, both extension settings;
  - exponent 0, the value before `SetAckDelayExponent`, and 5.

  Two frames are enough for every interaction the code has. One packet can hold an ACK followed by a later frame, or a rejected frame after an accepted one. Across packets, the ACK scratch carries over. Cutting one byte reaches both truncation outcomes: a payload that runs to the end is shortened, and any other frame is cut short. The run reaches about 476,000 distinct states in about 1 minute.
- **`wide_varints`** (`MCFrameParserWide.cfg`, pass) checks `SweepMatchesReference` with varints wider than one byte. The other runs only use one-byte varints.
  - Type codes are written in 1, 2 or 8 bytes at the least (`TypeWidths`). quicvarint reads a code written wider than needed. So a valid frame, for example PING as `0x40 0x01`, reaches lines 139-151 with a multi-byte type code on the success path. With minimal encodings every valid type is one byte, and only rejected codes are wider.
  - The frames are PADDING, PING and the unmapped 0x42, so that skipped, empty and rejected frames carry wide codes too. There is also MAX_DATA of 2^30 (an 8-byte field), a STREAM frame with fields 63 and 16384 (1 and 4 bytes), a STREAM frame of 64 and 16383 whose data runs to the end, and an ACK with 4-byte fields.
  - Packets hold up to 2 frames, with up to 8 bytes cut off the end. A cut can therefore fall inside any varint, including an 8-byte type code, or remove the whole last frame and cut into the one before.

  `Received` follows such a cut frame by frame (`CutOff`), measuring each frame as the sender wrote it. Values stop at 2^30, because TLC's integers are 32-bit. The run reaches about 654,000 distinct states in about 70 seconds.
- **`byte_truncation`** (`MCFrameParser108.cfg`, violation) checks `UnmappedTypesRejected`. This is a code bug at line 170: `ParseNext` returns a STREAM frame for type 0x108.
- **`parse_type_error_code`** (`MCFrameParserErr.cfg`, violation) checks `TransportErrorsCarryType`. `ParseType` rejects 0x42 with a TransportError whose FrameType is 0. This disagrees with spec.md §6–7 and with `parseNext`.

- **`exp_default`** (`MCFrameParserExp.cfg`, violation) checks `AckDelayDefaultUntilSet`. This is a spec gap at line 29:
  - `NewFrameParser` leaves `ackDelayExponent` at 0.
  - Until `SetAckDelayExponent` is called, a 1-RTT ACK delay of 1 is therefore scaled by 2^0.
  - spec.md §4.3 says the exponent defaults to the protocol-fixed 3 wherever no configured exponent applies.

  The run uses one packet holding one ACK, at exponent 0.
- **`stream_refinement`** (`MCFrameParserStream.cfg`, pass) checks `StreamRefinement`, which is `Stream!Spec`. It is checked under `FairSpec`, which is `Spec` plus weak fairness of `ParseNext`, `ParseTypeStep` and `ParseTypedStep`. It shows two things:
  - Every step of the parser and its caller is a step of `FrameStream`, or stutters.
  - Every packet that is being swept is eventually done or failed.

  Bounds:
  - packets of one frame, drawn from seven frames: PADDING, PING, a valid ACK, a malformed ACK, STREAM running to the end, DATAGRAM, and the unmapped 0x42;
  - 0 or 1 bytes cut off the end;
  - all levels, both APIs, and both extension settings.

  Together these reach every way a sweep goes on or stops: a frame obtained, skipped PADDING, a trailing type with no body, and a failure. Packets of two frames take more than 5 minutes, because the `ENABLED` evaluations under fairness are costly. The run reaches 6,124 distinct states in about 1 minute.

The sweep run also checks the action property `CallsConsume`. A `ParseNext` call that hands over a frame, and a `ParseType` call that returns a type, leave a strictly shorter region.

Mutants:

| Property | Mutated definition | Bug it stands for |
|---|---|---|
| `TypeOK` | `ParseType` → `ParseTypeUnmapped` | the `NewFrameType` check is dropped |
| `SweepMatchesReference` | `AckDelayExponentFor` → `AckDelayExponentForHandshake` | the configured exponent is also used at Handshake |
| `SweepMatchesReference` (`wide_varints`) | `FrameResult` → `FrameResultOneByteType` | `parseNext` counts the type code as one byte; the `sweep` run, where every valid type is one byte, cannot see it |
| `CallsConsume` | `FrameResult` → `FrameResultUncounted` | `parseNext` does not count the bytes of the type code |
| `StreamRefinement` | `AfterParseType` → `AfterParseTypeRetries` | the caller goes on calling `ParseType` after `io.EOF` instead of ending the packet |

The last mutant breaks only the liveness half. Its calls change nothing, so weak fairness of `ParseTypeStep` holds, and the packet never ends.

## 4. Fairness and liveness

`FairSpec` assumes weak fairness of the three parse calls, `ParseNext`, `ParseTypeStep` and `ParseTypedStep`. The code justifies this:
- The receive loops of the tests (`evaluateFrames`, and the `ParseType` tests) call the parser again at once after each result, until the region is empty or an error is returned.
- Nothing else runs on that goroutine, and no call blocks.
- Once a call is enabled, it stays enabled until it is taken.

Nothing is assumed of `ReceivePacket`, `FinishPacket`, `SetAckDelayExponent` or `NewConnection`, because a connection may wait for ever for the next packet.

Under this fairness, `StreamRefinement` includes `FrameStream`'s own fairness, so it checks that every packet being swept is eventually done or failed. `CallsConsume` gives the reason: each call that does not end the packet shortens the region.

## 5. What is not modelled

- Frame payloads are abstracted to their lengths. Error texts are left out.
- Values of 2^31 and above are not modelled, because they are beyond TLC's integers. The 2^62 limit of the codec is therefore not modelled either.
- `replaceUnexpectedEOF` (lines 267-272) is not modelled. It has no caller in this repository; the frame decoders outside it use it to turn `io.ErrUnexpectedEOF` into `io.EOF`. Their EOF outcome is modelled directly in `FrameWire`.
- The `AckRanges` the ACK decoder builds are not modelled. That arithmetic is in the decoder outside the repository; the model keeps only its malformed check (every range at packet 0 or above).
- The aliasing of the ACK frame is modelled, but no property is stated about it. `ackFrame` holds the last ACK decoded, including a 0-RTT ACK that line 233 then rejects. A failed decode leaves it at the reset value rather than half filled. spec.md §3 lets every ACK decode call overwrite it, and every caller in the repository compares a frame before the next call.
- The connection and everything above it are not modelled.
- Concurrency is not modelled: the parser is used by one goroutine, the connection's run loop, so there is nothing to interleave within it.

Two places were considered as hazards and dropped, because this code cannot go wrong there:
- **The count returned with an error (line 152).** `parseNext` adds the body length to the count only on a level error. But spec.md §7 makes every decode error fatal to the connection, and every caller in the repository stops at the first error. No caller reads the count after an error.
- **`SetAckDelayExponent` during a packet (line 264).** The exponent is read afresh at every ACK decode, so there is no stale copy. The callers in the repository call it only between packets. Its effect before it is called is checked by `exp_default`.

## 6. Plan for later work

1. Model STREAM and CRYPTO payloads as byte ranges of the input region, to check that a frame's data is the bytes the sender wrote. Payloads are now abstracted to lengths.
2. Model a caller that keeps ACK frames across calls, for example the connection's ACK handling, once such a caller is part of the repository. The ACK frame's aliasing would then be checked against that caller's use.
