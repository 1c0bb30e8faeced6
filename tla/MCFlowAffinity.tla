--------------------------- MODULE MCFlowAffinity ---------------------------
(***************************************************************************)
(* Three packets of one TCP conversation, submitted under FlowPinned: two  *)
(* of one direction, 64 KiB apart in its stream, and one of the other. A   *)
(* frame is its first 40 bytes, all that is hashed: Ethernet, IPv4 with    *)
(* its header checksum, the ports and the upper half of the TCP sequence   *)
(* number.                                                                 *)
(***************************************************************************)
EXTENDS PacketProcessor, FlowHash

CONSTANTS main, p1, p2, p3

MCClients == {main}
MCPackets == {p1, p2, p3}

Word(n) == <<n \div 256, n % 256>>

\* The words of an IPv4 header without options, its checksum left out: length,
\* identification, "don't fragment", TTL 64 and TCP, source and destination 10.0.0.x.
HeaderWords(src, dst, ident) == <<17664, 1500, ident, 16384, 16390, 2560, src, 2560, dst>>

Checksum(words) == 65535 - FoldLeft(LAMBDA sum, w : IF sum + w > 65535
                                                   THEN sum + w - 65535 ELSE sum + w,
                                    0, words)

Frame(src, dst, ident, srcPort, dstPort, seqHigh) ==
    LET ip == HeaderWords(src, dst, ident)
    IN  <<2, 0, 0, 0, 0, dst>> \o <<2, 0, 0, 0, 0, src>> \o <<8, 0>>
        \o FlattenSeq([i \in 1..5 |-> Word(ip[i])])
        \o Word(Checksum(ip))
        \o FlattenSeq([i \in 1..4 |-> Word(ip[i + 5])])
        \o Word(srcPort) \o Word(dstPort) \o Word(seqHigh)

FrameOf == [p \in Packets |->
    CASE p = p1 -> Frame(1, 2, 7, 40000, 80, 100)
      [] p = p2 -> Frame(1, 2, 53, 40000, 80, 101)
      [] p = p3 -> Frame(2, 1, 9, 80, 40000, 200)]

MCHash == [p \in Packets |-> FrameHash(FrameOf[p])]

MCOps == [c \in Callers |-> IF c = main THEN {"submit", "start", "stop"} ELSE {}]

\* The flow a frame belongs to in one direction: its addresses and ports.
Flow(p) == SubSeq(FrameOf[p], 27, 38)

\* FlowPinned gives a flow a consistent worker (the comment in submit()): two
\* packets with the same addresses and ports are enqueued at the same worker.
FlowAffinity ==
    \A v, w \in Workers : \A i \in DOMAIN pushed[v], j \in DOMAIN pushed[w] :
        Flow(pushed[v][i]) = Flow(pushed[w][j]) => v = w
=============================================================================
