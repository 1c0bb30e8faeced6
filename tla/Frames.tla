------------------------------- MODULE Frames -------------------------------
(***************************************************************************)
(* Captured frames and the way the decoders read them.                     *)
(* A frame is [dlt, hs, cap]: the data link type of the capture, the       *)
(* headers as they were sent, and how many bytes the capture kept. A       *)
(* header is a record with its kind, its offset, its length and the fields *)
(* a decoder looks at. Sizes are in bytes. Application messages are        *)
(* headers too, one after the other. A decoder that reads a header where   *)
(* none of its kind starts reads filler, the byte 0x50.                    *)
(***************************************************************************)
EXTENDS Integers, Sequences, SequencesExt, FiniteSetsExt

CONSTANT None        \* no value

\* It is not the kind of a header with ports.
ASSUME NoneAssumption == None \notin {"tcp", "udp"}

Total(sizes) ==
    LET sum[i \in 0..Len(sizes)] == IF i = 0 THEN 0 ELSE sum[i - 1] + sizes[i]
    IN  sum[Len(sizes)]

Wire(f) == LET h == f.hs[Len(f.hs)] IN h.at + h.len

\* What the fields of any header read as over bytes that are all 0x50.
Filler ==
    [kind |-> "filler", len |-> 0,
     etherType |-> "other", protocolType |-> "other", snap |-> FALSE,
     bottomOfStack |-> FALSE, version |-> 5, ihl |-> 0,
     protocol |-> "other", src |-> "filler", dst |-> "filler",
     fragmentOffset |-> 0, moreFragments |-> FALSE,
     srcPort |-> 20560, dstPort |-> 20560, dataOffset |-> 5,
     flags |-> {}, type |-> "other", tlvs |-> <<>>, looks |-> {}, tag |-> "other",
     spaced |-> FALSE, value |-> "filler",
     sourceRouting |-> FALSE, routingLen |-> 16, radiotapLen |-> 20560,
     bodyLength |-> 20560, length |-> 20560, words |-> 20560,
     \* One of each section stands for the 20560 there would be.
     entries |-> <<"question", "answer", "authority", "additional">>]

\* The header of a kind that starts at an offset.
Read(f, off, kind) ==
    LET here == {i \in DOMAIN f.hs : f.hs[i].kind = kind /\ f.hs[i].at = off}
    IN  IF here = {} THEN Filler ELSE f.hs[CHOOSE i \in here : TRUE]

\* data.size() < offset + n does not hold.
Has(f, off, n) == off + n <= f.cap

-----------------------------------------------------------------------------
(* What a header can be: its numbers are unsigned, and what is one of many *)
(* in a row has at least one byte.                                         *)

WellFormed(h) ==
    /\ h.at \in Nat /\ h.len \in Nat
    /\ h.kind = "ipv4" => h.ihl \in Nat
    /\ h.kind = "tcp" => h.dataOffset \in Nat
    /\ h.kind = "gre" => IsFiniteSet(h.flags)
    /\ h.kind = "eapol" => h.bodyLength \in Nat
    /\ h.kind = "lldp" => h.tlvs \in Seq([type : STRING, length : Nat])
    /\ h.kind = "tokenring" => h.routingLen \in Nat
    /\ h.kind = "radiotap" => h.radiotapLen \in Nat
    /\ h.kind \in {"stun", "dtls", "tls", "bgp", "tpkt", "asn1"} => h.length \in Nat
    /\ h.kind = "asn1" => h.lengthBytes \in Nat
    /\ h.kind = "rtcp" => h.words \in Nat
    /\ h.kind = "quic" /\ h.long => h.dcidLen \in Nat /\ h.scidLen \in Nat
    /\ h.kind = "chunk" => h.type \in 0..3
    /\ h.kind \in {"dns", "nbns"} => h.entries \in Seq(STRING)
    /\ h.kind = "pointer" => h.target \in Nat
    /\ h.kind \in {"label", "language", "line", "option6"} => h.len > 0 /\ h.used = h.len
    /\ h.kind \in {"command", "subnegotiation"} => h.len > 0
    /\ h.kind = "text" => h.len \in 1..2

IsFrame(f) == f.cap \in Nat /\ \A i \in DOMAIN f.hs : WellFormed(f.hs[i])

\* The protocol number of the transports that a tunnel's packet is followed into.
ProtocolOf == [tcp |-> "TCP", udp |-> "UDP", icmp |-> "ICMP", icmpv6 |-> "ICMPv6"]

\* The headers follow one another without a gap, those of IP are as long as they say, a
\* TCP header has its fixed part, and IP names the transport that follows it.
LaidOut(f) ==
    /\ f.hs \in Seq(Range(f.hs))
    /\ \A i, j \in DOMAIN f.hs : i < j => f.hs[i].at < f.hs[j].at
    /\ \A i \in DOMAIN f.hs :
        LET h == f.hs[i]
            next == i + 1
        IN  /\ h.kind = "ipv4" => h.len = 4 * h.ihl
            /\ h.kind = "ipv6" => h.len = 40
            /\ h.kind = "fragment" => h.len = 8
            /\ h.kind = "tcp" => h.dataOffset >= 5
            /\ next \in DOMAIN f.hs =>
                /\ f.hs[next].at = h.at + h.len
                /\ h.kind \in {"ipv4", "ipv6"} /\ f.hs[next].kind \in DOMAIN ProtocolOf =>
                       h.protocol = ProtocolOf[f.hs[next].kind]

-----------------------------------------------------------------------------
(* A decoder returns a header or an error, and leaves the offset somewhere. *)

Success(hdr, off) == [ok |-> TRUE, hdr |-> hdr, off |-> off]

Failure(error, off) == [ok |-> FALSE, error |-> error, off |-> off]

\* The checks <<what must hold, the error otherwise>> are made in their order.
Checked(checks, off, result) ==
    LET failed == {i \in DOMAIN checks : ~checks[i][1]}
    IN  IF failed = {} THEN result ELSE Failure(checks[Min(failed)][2], off)

\* The next part of a decoder, when the one before it succeeded.
Then(r, Next(_)) == IF r.ok THEN Next(r) ELSE r

\* A header of a fixed size.
Fixed(f, off, kind, size) ==
    Checked(<< <<Has(f, off, size), "TruncatedHeader">> >>, off,
            Success(Read(f, off, kind), off + size))
=============================================================================
