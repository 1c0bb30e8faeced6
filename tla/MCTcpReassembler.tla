--------------------------- MODULE MCTcpReassembler ---------------------------
(* Instances of TcpReassembler for TLC. *)
EXTENDS TcpReassembler

Segment(first, len) == [first |-> first, len |-> len]

\* As by a sender that retransmits what it sent.
Once == {Segment(0, 1), Segment(1, 2), Segment(3, 1), Segment(4, 2)}

\* As by a sender that retransmits from the first unacknowledged byte, in segments
\* of up to three bytes.
Anyhow == {s \in [first : 0..(StreamBytes - 1), len : 1..3] : s.first + s.len <= StreamBytes}

OnceOrAnyhow == {Once, Anyhow}

\* The bytes 1 and 2 in one segment, and a retransmission of byte 0 that takes byte 1 along.
Overlapping == {Segment(0, 2), Segment(1, 2)}
JustOverlapping == {Overlapping}
===============================================================================
