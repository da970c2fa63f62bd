---------------------------- MODULE MCFrameParser ----------------------------
(***************************************************************************)
(* Model values for FrameParser: the frames of the tests in                *)
(* frame_parser_test.go, with every field small enough for a one-byte      *)
(* varint, plus malformed and unmapped ones, and frames whose fields sit   *)
(* at the width edges of the varint encoding, with type codes written      *)
(* minimally or wider.                                                     *)
(***************************************************************************)
EXTENDS FrameParser

F(t, fields, n) == [type |-> t, fields |-> fields, payload |-> n]

PADDING       == F(0, <<>>, 0)
PING          == F(1, <<>>, 0)
\* largest 3, delay 1, no further range, first range 1
ACK           == F(2, <<3, 1, 0, 1>>, 0)
\* first range 1 larger than largest acknowledged 0
ACK_BAD       == F(2, <<0, 0, 0, 1>>, 0)
\* largest 5, one more range (gap 1, length 1), ECN counts
ACK_ECN       == F(3, <<5, 2, 1, 0, 1, 1, 2, 0, 1>>, 0)
STREAM_LEN    == F(10, <<1, 1>>, 1)         \* 0x0a: stream ID, length
STREAM_FIN    == F(9, <<1>>, 1)             \* 0x09: data to the end, fin
MAX_DATA      == F(16, <<2>>, 0)
CRYPTO        == F(6, <<0, 1>>, 1)
HANDSHAKE_DONE == F(30, <<>>, 0)
CONN_CLOSE    == F(28, <<0, 0, 1>>, 1)
DATAGRAM      == F(48, <<>>, 1)             \* 0x30: data to the end
DATAGRAM_LEN  == F(49, <<1>>, 1)            \* 0x31: length
RESET_AT      == F(36, <<1, 0, 2, 1>>, 0)   \* reliable 1 <= final 2
RESET_AT_BAD  == F(36, <<1, 0, 1, 2>>, 0)   \* reliable 2 > final 1
UNKNOWN       == F(66, <<>>, 0)             \* 0x42, a two-byte type code
\* 0x108: two-byte type code whose low byte is a STREAM type
UNKNOWN_108   == F(264, <<1>>, 1)

MCFrames ==
  {PADDING, PING, ACK, ACK_BAD, ACK_ECN, STREAM_LEN, STREAM_FIN, MAX_DATA,
   CRYPTO, HANDSHAKE_DONE, CONN_CLOSE, DATAGRAM, DATAGRAM_LEN, RESET_AT,
   RESET_AT_BAD, UNKNOWN}

MCFramesWith108 == MCFrames \cup {UNKNOWN_108}

\* A PING and a frame of unmapped type 0x42.
MCFramesErr == {PING, UNKNOWN}

\* A PING and an ACK with ACK delay field 1.
MCFramesAck == {PING, ACK}

\* One frame of each way a sweep goes on or stops: skipped, zero-length,
\* ACK, running to the end, rejected unless enabled, malformed, unmapped.
MCFramesStream == {PADDING, PING, ACK, ACK_BAD, STREAM_FIN, DATAGRAM, UNKNOWN}

\* Fields at the edges of the varint widths: 63 (1 byte), 16383 and 16384
\* (2 and 4 bytes), 2^30 (8 bytes).
MAX_DATA_8B   == F(16, <<2^30>>, 0)
\* 0x0e: stream ID, offset, length; 0x0d: stream ID, offset, data to the end
STREAM_WIDE   == F(14, <<63, 16384, 1>>, 1)
STREAM_END_WIDE == F(13, <<64, 16383>>, 2)
\* first range equal to the largest acknowledged
ACK_WIDE      == F(2, <<16384, 64, 0, 16384>>, 0)

\* Type codes written at every width, with fields of every width: PADDING,
\* PING and an unmapped code as well, so that skipped, empty and rejected
\* frames also carry wide type codes.
MCFramesWide ==
  {PADDING, PING, MAX_DATA_8B, STREAM_WIDE, STREAM_END_WIDE, ACK_WIDE, UNKNOWN}

\* framesToBuffer writes every type code minimally.
MCMinimalTypes == {0}

\* A sender writing type codes in 1, 2 or 8 bytes at the least.
MCWideTypes == {0, 1, 3}

MCExponents == {5}

=============================================================================
