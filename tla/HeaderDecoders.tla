--------------------------- MODULE HeaderDecoders ---------------------------
(***************************************************************************)
(* The decoders of the link, network, transport and tunnel headers         *)
(* (src/src/protocol/*.cpp). Each takes a frame and an offset. Those that  *)
(* fail after they moved the offset say so: the tunnels go on from there.  *)
(***************************************************************************)
EXTENDS Frames

decodeEthernet(f, off) == Fixed(f, off, "ethernet", 14)

decodeVlan(f, off) == Fixed(f, off, "vlan", 4)

\* The label stack ends at the first entry with the bottom bit.
decodeMpls(f, off) ==
    LET entries == (f.cap - off) \div 4
        bottom == {k \in 1..entries : Read(f, off + 4 * (k - 1), "mpls").bottomOfStack}
    IN  IF bottom = {} THEN Failure("TruncatedHeader", off + 4 * entries)
                       ELSE Success("mpls", off + 4 * Min(bottom))

\* Mutant of decodeIPv4: nobody looks whether the options were captured.
decodeIPv4Unchecked(f, off) ==
    LET h == Read(f, off, "ipv4")
    IN  Checked(<< <<Has(f, off, 20), "TruncatedHeader">>,
                   <<h.version = 4, "MalformedPacket">>,
                   <<h.ihl >= 5, "InvalidHeaderLength">> >>,
                off, Success(h, off + 4 * h.ihl))

decodeIPv4(f, off) ==
    LET h == Read(f, off, "ipv4")
    IN  Checked(<< <<Has(f, off, 20), "TruncatedHeader">>,
                   <<h.version = 4, "MalformedPacket">>,
                   <<h.ihl >= 5, "InvalidHeaderLength">>,
                   <<Has(f, off, 4 * h.ihl), "TruncatedHeader">> >>,
                off, Success(h, off + 4 * h.ihl))

decodeIPv6(f, off) ==
    LET h == Read(f, off, "ipv6")
    IN  Checked(<< <<Has(f, off, 40), "TruncatedHeader">>,
                   <<h.version = 6, "MalformedPacket">> >>,
                off, Success(h, off + 40))

decodeTcp(f, off) ==
    LET h == Read(f, off, "tcp")
    IN  Checked(<< <<Has(f, off, 20), "TruncatedHeader">>,
                   <<h.dataOffset >= 5, "InvalidHeaderLength">>,
                   <<Has(f, off, 4 * h.dataOffset), "TruncatedHeader">> >>,
                off, Success(h, off + 4 * h.dataOffset))

decodeUdp(f, off) == Fixed(f, off, "udp", 8)

\* Checksum, key and sequence number take four bytes each where present.
decodeGre(f, off) ==
    LET h == Read(f, off, "gre")
        size == 4 + 4 * Cardinality(h.flags)
    IN  Checked(<< <<Has(f, off, 4), "TruncatedHeader">>,
                   <<Has(f, off, size), "TruncatedHeader">> >>,
                off, Success(h, off + size))

\* The flags E, S and PN share four optional bytes. The fixed part stays consumed.
decodeGtp(f, off) ==
    LET h == Read(f, off, "gtp")
        size == IF h.flags = {} THEN 8 ELSE 12
    IN  IF ~Has(f, off, 8) THEN Failure("TruncatedHeader", off)
        ELSE Checked(<< <<Has(f, off, size), "TruncatedHeader">> >>, off + 8,
                     Success(h, off + size))

-----------------------------------------------------------------------------

\* The first eight bytes of the transport header of a quoted packet.
Ports(f, off) ==
    LET here == {k \in {"tcp", "udp"} : Read(f, off, k).kind = k}
        h == IF here = {} THEN Filler ELSE Read(f, off, CHOOSE k \in here : TRUE)
    IN  <<h.srcPort, h.dstPort>>

Quoted(h, protocol, ports) ==
    [src |-> h.src, dst |-> h.dst, protocol |-> protocol,
     srcPort |-> ports[1], dstPort |-> ports[2]]

\* Mutant of decodeIcmp: the quoted header is taken to have no options.
decodeIcmpPlain(f, off) ==
    LET h == Read(f, off, "icmp")
        q == Read(f, off + 8, "ipv4")
        whole == /\ h.type \in {"unreachable", "quench", "redirect", "time", "parameter"}
                 /\ Has(f, off + 8, 28)
                 /\ q.version = 4
        info == IF whole THEN Quoted(q, q.protocol, Ports(f, off + 28)) ELSE None
    IN  Checked(<< <<Has(f, off, 8), "TruncatedHeader">> >>, off,
                Success([kind |-> "icmp", embedded |-> info], off + 8))

\* An error message quotes the packet it is about; the rest of the payload is not consumed.
decodeIcmp(f, off) ==
    LET h == Read(f, off, "icmp")
        q == Read(f, off + 8, "ipv4")
        whole == /\ h.type \in {"unreachable", "quench", "redirect", "time", "parameter"}
                 /\ Has(f, off + 8, 20)
                 /\ q.version = 4 /\ q.ihl >= 5
                 /\ Has(f, off + 8, 4 * q.ihl + 8)
        info == IF whole THEN Quoted(q, q.protocol, Ports(f, off + 8 + 4 * q.ihl)) ELSE None
    IN  Checked(<< <<Has(f, off, 8), "TruncatedHeader">> >>, off,
                Success([kind |-> "icmp", embedded |-> info], off + 8))

decodeIcmpv6(f, off) ==
    LET h == Read(f, off, "icmpv6")
        q == Read(f, off + 8, "ipv6")
        whole == /\ h.type \in {"unreachable", "toobig", "time", "parameter"}
                 /\ Has(f, off + 8, 48)
                 /\ q.version = 6
        info == IF whole THEN Quoted(q, q.protocol, Ports(f, off + 48)) ELSE None
    IN  Checked(<< <<Has(f, off, 8), "TruncatedHeader">> >>, off,
                Success([kind |-> "icmpv6", embedded |-> info], off + 8))

decodeIgmp(f, off) == Fixed(f, off, "igmp", 8)

decodeEsp(f, off) == Fixed(f, off, "esp", 8)

decodeArp(f, off) == Fixed(f, off, "arp", 28)

decodeRarp(f, off) == Fixed(f, off, "rarp", 28)

decodeHomeplug(f, off) == Fixed(f, off, "homeplug", 5)

\* The body is clamped to what was captured.
decodeEapol(f, off) ==
    LET h == Read(f, off, "eapol")
    IN  Checked(<< <<Has(f, off, 4), "TruncatedHeader">> >>, off,
                Success(h, Min({off + 4 + h.bodyLength, f.cap})))

\* TLVs up to the end mark, or to where not even a TLV header is left; a value
\* that is cut is an error.
decodeLldp(f, off) ==
    LET tlvs == Read(f, off, "lldp").tlvs
        at(k) == off + Total([j \in 1..(k - 1) |-> 2 + tlvs[j].length])
        stop == Min({k \in DOMAIN tlvs : \/ tlvs[k].type = "end"
                                         \/ ~Has(f, at(k), 2 + tlvs[k].length)}
                      \cup {Len(tlvs) + 1})
        cut == stop \in DOMAIN tlvs /\ tlvs[stop].type # "end" /\ Has(f, at(stop), 2)
    IN  Checked(<< <<Has(f, off, 2), "TruncatedHeader">>, <<~cut, "TruncatedHeader">> >>, off,
                Success([kind |-> "lldp", tlvs |-> SubSeq(tlvs, 1, stop - 1)],
                        Min({at(stop) + 2, f.cap})))
=============================================================================
