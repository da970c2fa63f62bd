----------------------------- MODULE FrameStream -----------------------------
(***************************************************************************)
(* What a frame parser promises the code that drives it (spec.md 2 and 5): *)
(* a packet payload is a sequence of outcomes, each a decoded frame or, at *)
(* most once and last, a failure.  The caller obtains the frames one at a  *)
(* time in wire order; the packet then ends, or fails at the failure, and  *)
(* nothing after it is obtained.  How bytes are read, how PADDING is       *)
(* skipped and which API the caller uses are not visible here.             *)
(***************************************************************************)
EXTENDS Naturals, Sequences

CONSTANTS
  Value,     \* the decoded frames
  Failure    \* the outcome of a frame that must be rejected

VARIABLES
  status,    \* "idle", "parsing", "done" or "failed"
  got,       \* the frames obtained from the current packet
  pending    \* the outcomes of the packet not yet reached

avars == <<status, got, pending>>

\* The outcomes of one packet: decoded frames, and a failure only last.
Packet(p) ==
  /\ p \in Seq(Value \cup {Failure})
  /\ \A i \in 1..Len(p) - 1 : p[i] # Failure

Init == status = "idle" /\ got = <<>> /\ pending = <<>>

Receive ==
  /\ status = "idle"
  /\ status' = "parsing" /\ Packet(pending')
  /\ UNCHANGED got

\* The next frame is handed to the caller.
Deliver ==
  /\ status = "parsing" /\ pending # <<>> /\ Head(pending) # Failure
  /\ got' = Append(got, Head(pending)) /\ pending' = Tail(pending)
  /\ UNCHANGED status

\* The next frame is rejected; the packet fails.
Reject ==
  /\ status = "parsing" /\ pending # <<>> /\ Head(pending) = Failure
  /\ status' = "failed" /\ pending' = <<>>
  /\ UNCHANGED got

\* Every frame has been obtained; the packet ends.
End ==
  /\ status = "parsing" /\ pending = <<>>
  /\ status' = "done"
  /\ UNCHANGED <<got, pending>>

\* The caller is done with the packet.
Close ==
  /\ status \in {"done", "failed"}
  /\ status' = "idle" /\ got' = <<>> /\ pending' = <<>>

Next == Receive \/ Deliver \/ Reject \/ End \/ Close

\* The caller keeps calling the parser while the packet has bytes left.
Spec ==
  /\ Init /\ [][Next]_avars
  /\ WF_avars(Deliver) /\ WF_avars(Reject) /\ WF_avars(End)

=============================================================================
