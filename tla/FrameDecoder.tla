---------------------------- MODULE FrameDecoder ----------------------------
(***************************************************************************)
(* PacketDecoder::decode up to the payload (src/src/decoder.cpp): the      *)
(* layers of a frame one after the other, the fragments, the tunnels, and  *)
(* the flow id of what was found. A stage takes the state of the decoding  *)
(* of one frame and returns it; a stage after the end changes nothing.     *)
(***************************************************************************)
EXTENDS DataLink

CONSTANT EnableDefragmentation   \* PacketDecoderConfig::enableDefragmentation

Nothing == [kind |-> None]       \* std::monostate

\* The packet before its first byte is read. An empty payload starts at the end.
Received(f) ==
    [f |-> f, off |-> 0,
     status |-> IF f.cap = 0 THEN "BufferTooSmall" ELSE "decoding",
     etherType |-> "0", l4Protocol |-> "0",
     ethernet |-> FALSE, wifi |-> FALSE, vlan |-> FALSE,
     layer3 |-> Nothing, layer4 |-> Nothing, payload |-> f.cap]

Decoding(s) == s.status = "decoding"

Return(s) == [s EXCEPT !.status = "packet"]

ReturnPayload(s) == [s EXCEPT !.status = "packet", !.payload = s.off]

Fail(s, r) == [s EXCEPT !.status = r.error]

\* The packet after a header that was decoded, or not.
OrFail(s, r, Found(_)) == IF r.ok THEN Found(r) ELSE Fail(s, r)

buildFlowId(s) ==
    LET ip == s.layer3
        l4 == s.layer4
        addressed == ip.kind \in {"ipv4", "ipv6"}
        ported == l4.kind \in {"tcp", "udp"}
    IN  [src |-> IF addressed THEN ip.src ELSE "0",
         dst |-> IF addressed THEN ip.dst ELSE "0",
         protocol |-> IF addressed THEN ip.protocol ELSE "0",
         srcPort |-> IF ported THEN l4.srcPort ELSE 0,
         dstPort |-> IF ported THEN l4.dstPort ELSE 0]

reverseFlowId(id) ==
    [src |-> id.dst, dst |-> id.src, protocol |-> id.protocol,
     srcPort |-> id.dstPort, dstPort |-> id.srcPort]

-----------------------------------------------------------------------------
(* Link layer: tags are taken off while there are any. *)

Vlan(s) ==
    IF ~Decoding(s) \/ s.etherType \notin {"VLAN", "QinQ"} THEN s
    ELSE OrFail(s, decodeVlan(s.f, s.off), LAMBDA r :
             [s EXCEPT !.off = r.off, !.etherType = r.hdr.etherType, !.vlan = TRUE])

\* Ethernet is decoded in place, everything else by its data link type; only these
\* three carry tags.
LinkLayer(s) ==
    LET Linked(r) == [s EXCEPT !.off = r.off, !.etherType = r.hdr.etherType,
                               !.ethernet = r.hdr.hasMacs, !.wifi = r.hdr.wifi]
        tags == IF s.f.dlt \in {"EN10MB", "LINUX_SLL", "LINUX_SLL2"} THEN s.f.cap \div 4 ELSE 0
    IN  IF ~Decoding(s) THEN s
        ELSE OrFail(s, resolveDataLink(s.f), LAMBDA r :
                 FoldLeft(LAMBDA t, i : Vlan(t), Linked(r), [i \in 1..(tags + 1) |-> i]))

\* Under the labels the first nibble tells the protocol. Labels that end the capture
\* leave the EtherType as it is.
Mpls(s) ==
    LET Under(popped, n) ==
            IF popped.off = s.f.cap THEN popped
            ELSE IF n \in {4, 6} THEN [popped EXCEPT !.etherType = IF n = 4 THEN "IPv4" ELSE "IPv6"]
            ELSE ReturnPayload(popped)
    IN  IF ~Decoding(s) \/ s.etherType # "MPLS" THEN s
        ELSE OrFail(s, decodeMpls(s.f, s.off),
                    LAMBDA r : Under([s EXCEPT !.off = r.off], Nibble(s.f, r.off)))

-----------------------------------------------------------------------------
(* Network layer *)

decodeIp(f, off, version) == IF version = 4 THEN decodeIPv4(f, off) ELSE decodeIPv6(f, off)

\* A packet over the network header h.
Over(s, h, off) == [s EXCEPT !.off = off, !.layer3 = h, !.l4Protocol = h.protocol]

\* Only the fragment header is followed; a later fragment has no transport header.
\* The flow id keeps the number of the fragment header.
FragmentHeader(s) ==
    LET h == Read(s.f, s.off, "fragment")
        skipped == [s EXCEPT !.off = s.off + 8, !.l4Protocol = h.protocol]
    IN  IF ~Decoding(s) \/ s.l4Protocol # "Fragment" THEN s
        ELSE IF ~Has(s.f, s.off, 8) THEN Return(s)
        ELSE IF h.fragmentOffset > 0 THEN ReturnPayload(skipped)
        ELSE skipped

\* The protocols that end the packet: they have no transport layer.
Terminal(f, off, etherType) ==
    CASE etherType = "ARP" -> decodeArp(f, off)
      [] etherType = "RARP" -> decodeRarp(f, off)
      [] etherType = "EAPOL" -> decodeEapol(f, off)
      [] etherType = "LLDP" -> decodeLldp(f, off)
      [] etherType = "HomePlug" -> decodeHomeplug(f, off)

Network(s) ==
    IF ~Decoding(s) THEN s
    ELSE IF s.etherType = "IPv4"
    THEN OrFail(s, decodeIPv4(s.f, s.off), LAMBDA ip : Over(s, ip.hdr, ip.off))
    ELSE IF s.etherType = "IPv6"
    THEN OrFail(s, decodeIPv6(s.f, s.off), LAMBDA ip : FragmentHeader(Over(s, ip.hdr, ip.off)))
    ELSE IF s.etherType \in {"ARP", "RARP", "EAPOL", "LLDP", "HomePlug"}
    THEN OrFail(s, Terminal(s.f, s.off, s.etherType),
                LAMBDA end : Return([s EXCEPT !.off = end.off, !.layer3 = end.hdr]))
    ELSE ReturnPayload(s)

\* A fragment of an IPv4 datagram, which the defragmenter is asked about.
Fragmentary(s) ==
    /\ Decoding(s)
    /\ s.layer3.kind = "ipv4"
    /\ s.layer3.fragmentOffset > 0 \/ s.layer3.moreFragments

\* Nothing but the header of a buffered fragment is reported. The fragment that
\* completes a datagram is decoded as it came, not the datagram.
Fragment(s, complete) ==
    IF ~Fragmentary(s) THEN s
    ELSE IF EnableDefragmentation /\ ~complete THEN Return(s)
    ELSE IF s.layer3.fragmentOffset > 0 THEN ReturnPayload(s)
    ELSE s

\* GRE is transparent to IP and opaque to all else. Inner fragments are not looked at.
Gre(s) ==
    LET Inner(gre) ==
            IF gre.hdr.protocolType \notin {"IPv4", "IPv6"}
            THEN ReturnPayload([s EXCEPT !.off = gre.off])
            ELSE OrFail(s, decodeIp(s.f, gre.off, IF gre.hdr.protocolType = "IPv4" THEN 4 ELSE 6),
                        LAMBDA ip : Over(s, ip.hdr, ip.off))
    IN  IF ~Decoding(s) \/ s.l4Protocol # "GRE" THEN s
        ELSE OrFail(s, decodeGre(s.f, s.off), Inner)

-----------------------------------------------------------------------------
(* Transport layer *)

Transports == {"TCP", "UDP", "ICMP", "ICMPv6", "IGMP", "ESP"}

decodeTransport(f, off, protocol) ==
    CASE protocol = "TCP" -> decodeTcp(f, off)
      [] protocol = "UDP" -> decodeUdp(f, off)
      [] protocol = "ICMP" -> decodeIcmp(f, off)
      [] protocol = "ICMPv6" -> decodeIcmpv6(f, off)
      [] protocol = "IGMP" -> decodeIgmp(f, off)
      [] protocol = "ESP" -> decodeEsp(f, off)

\* What ESP carries is encrypted: the packet ends.
Transport(s) ==
    LET Followed(found) == IF s.l4Protocol = "ESP" THEN ReturnPayload(found) ELSE found
    IN  IF ~Decoding(s) \/ s.l4Protocol \notin Transports THEN s
        ELSE OrFail(s, decodeTransport(s.f, s.off, s.l4Protocol),
                    LAMBDA r : Followed([s EXCEPT !.off = r.off, !.layer4 = r.hdr]))

-----------------------------------------------------------------------------
(* Tunnels over UDP. What cannot be decoded in them is no error: the outer *)
(* layers stay, and the offset stays where the attempt left it.            *)

\* Mutant of InnerNetwork: the inner header is passed over and not kept.
InnerNetworkUnkept(s, version) ==
    LET r == decodeIp(s.f, s.off, version)
    IN  IF version \in {4, 6} /\ r.ok THEN [s EXCEPT !.off = r.off, !.l4Protocol = r.hdr.protocol]
                                      ELSE [s EXCEPT !.l4Protocol = "0"]

InnerNetwork(s, version) ==
    LET Inner(r) == IF version \in {4, 6} /\ r.ok THEN Over(s, r.hdr, r.off)
                                                  ELSE [s EXCEPT !.l4Protocol = "0"]
    IN  Inner(decodeIp(s.f, s.off, version))

\* Mutant of InnerTransport: of what a tunnel carries only UDP is followed.
InnerTransportUdp(s) ==
    LET Inner(r) == IF r.ok THEN [s EXCEPT !.off = r.off, !.layer4 = r.hdr] ELSE s
    IN  IF s.l4Protocol = "UDP" THEN Inner(decodeTransport(s.f, s.off, s.l4Protocol)) ELSE s

InnerTransport(s) ==
    LET Inner(r) == IF r.ok THEN [s EXCEPT !.off = r.off, !.layer4 = r.hdr] ELSE s
    IN  IF s.l4Protocol \in {"TCP", "UDP", "ICMP", "ICMPv6"}
        THEN Inner(decodeTransport(s.f, s.off, s.l4Protocol)) ELSE s

To(s, port) == Decoding(s) /\ s.layer4.kind = "udp" /\ s.layer4.dstPort = port

\* One inner tag at most is taken off.
Vxlan(s) ==
    LET Under(r) == InnerTransport(InnerNetwork([s EXCEPT !.off = r.off],
                        IF r.hdr.etherType = "IPv4" THEN 4 ELSE IF r.hdr.etherType = "IPv6" THEN 6 ELSE 0))
        Tagged(eth, vlan) == IF eth.hdr.etherType \in {"VLAN", "QinQ"} /\ vlan.ok THEN vlan ELSE eth
        Inner(eth) == IF eth.ok THEN Under(Tagged(eth, decodeVlan(s.f, eth.off)))
                                ELSE [s EXCEPT !.off = eth.off]
    IN  IF To(s, 4789) /\ s.off + 8 < s.f.cap THEN Inner(decodeEthernet(s.f, s.off + 8)) ELSE s

Gtpu(s) ==
    LET Inner(r, at) == IF ~r.ok \/ r.off = s.f.cap THEN at
                        ELSE InnerTransport(InnerNetwork(at, Nibble(s.f, r.off)))
        Behind(r) == Inner(r, [s EXCEPT !.off = r.off])
    IN  IF To(s, 2152) /\ s.off < s.f.cap THEN Behind(decodeGtp(s.f, s.off)) ELSE s

-----------------------------------------------------------------------------

\* Everything in front of the fragments, which is the same whatever was seen before.
Headers(f) == Network(Mpls(LinkLayer(Received(f))))

\* The stages from the fragments on; complete says that the defragmenter has returned
\* the datagram of a fragment.
Pipeline(front, complete) == Gtpu(Vxlan(Transport(Gre(Fragment(front, complete)))))

\* What is left is payload.
Finished(s) == IF Decoding(s) THEN ReturnPayload(s) ELSE s

decodeFrame(f, complete) == Finished(Pipeline(Headers(f), complete))

\* FlowTable::update is called at the end of the pipeline and for ESP, and nowhere else.
Tracked(s) == Decoding(s) \/ (s.status = "packet" /\ s.layer4.kind = "esp")
=============================================================================
