--------------------------- MODULE MCPacketDecoder ---------------------------
(* The captures of PacketDecoder for TLC: every frame below cut after every     *)
(* byte, two fragmented datagrams, and three captures of several packets.       *)
EXTENDS PacketDecoder

Header(kind, len, fields) == fields @@ [kind |-> kind, len |-> len, used |-> len, looks |-> {}]

Showing(look, h) == [h EXCEPT !.looks = {look}]

\* A frame of headers that follow one another, captured whole.
Frame(dlt, hs, flow, says) ==
    LET ends == [i \in DOMAIN hs |-> Total([j \in 1..i |-> hs[j].len])]
    IN  [dlt |-> dlt, hs |-> [i \in DOMAIN hs |-> [at |-> ends[i] - hs[i].len] @@ hs[i]],
         cap |-> ends[Len(hs)], flow |-> flow, says |-> says]

Cuts(f) == {[f EXCEPT !.cap = n] : n \in 0..Wire(f)}

-----------------------------------------------------------------------------
(* Headers *)

Eth(et) == Header("ethernet", 14, [etherType |-> et])
Tag(et) == Header("vlan", 4, [etherType |-> et])
Label(bottom) == Header("mpls", 4, [bottomOfStack |-> bottom])

IpOf(src, dst, protocol, ihl) ==
    Header("ipv4", 4 * ihl, [version |-> 4, ihl |-> ihl, src |-> src, dst |-> dst,
                             protocol |-> protocol, fragmentOffset |-> 0, moreFragments |-> FALSE])
Ip(src, dst, protocol) == IpOf(src, dst, protocol, 5)
Ip6(src, dst, protocol) ==
    Header("ipv6", 40, [version |-> 6, src |-> src, dst |-> dst, protocol |-> protocol])

Tcp(from, to, words) ==
    Header("tcp", 4 * words, [dataOffset |-> words, srcPort |-> from, dstPort |-> to])
Udp(from, to) == Header("udp", 8, [srcPort |-> from, dstPort |-> to])
FragmentHdr(offset, protocol) ==
    Header("fragment", 8, [protocol |-> protocol, fragmentOffset |-> offset])
Gre_(flags, type) ==
    Header("gre", 4 + 4 * Cardinality(flags), [flags |-> flags, protocolType |-> type])
Vxlan_ == Header("vxlan", 8, <<>>)
Gtp(flags) == Header("gtp", IF flags = {} THEN 8 ELSE 12, [flags |-> flags])
Bytes(n) == Header("data", n, <<>>)

Flow(src, dst, protocol, from, to) ==
    [src |-> src, dst |-> dst, protocol |-> protocol, srcPort |-> from, dstPort |-> to]

\* What the frames below carry, and the flow that makes.
AB == <<Ip("a", "b", "TCP"), Tcp(1000, 2000, 5)>>
ABFlow == Flow("a", "b", "TCP", 1000, 2000)
CD6 == <<Ip6("c", "d", "UDP"), Udp(1000, 2000)>>
CD6Flow == Flow("c", "d", "UDP", 1000, 2000)

OverEthernet(hs, flow) == Frame("EN10MB", <<Eth("IPv4")>> \o hs, flow, None)
OverEthernet6(hs, flow) == Frame("EN10MB", <<Eth("IPv6")>> \o hs, flow, None)

-----------------------------------------------------------------------------
(* Frames *)

Ethernets == {
    OverEthernet(<<IpOf("a", "b", "TCP", 6), Tcp(1000, 2000, 6), Bytes(2)>>, ABFlow),
    OverEthernet(<<IpOf("a", "b", "other", 6), Bytes(2)>>, Flow("a", "b", "other", 0, 0)),
    Frame("EN10MB", <<Eth("QinQ"), Tag("VLAN"), Tag("IPv6")>> \o CD6, CD6Flow, None),
    Frame("EN10MB", <<Eth("VLAN"), Tag("MPLS"), Label(FALSE), Label(TRUE)>> \o AB, ABFlow, None),
    Frame("EN10MB", <<Eth("MPLS"), Label(TRUE)>> \o CD6, CD6Flow, None),
    Frame("EN10MB", <<Eth("MPLS"), Label(TRUE), Bytes(3)>>, None, None),
    Frame("EN10MB", <<Eth("other"), Bytes(3)>>, None, None),
    Frame("EN10MB", <<Eth("ARP"), Header("arp", 28, <<>>)>>, None, None),
    Frame("EN10MB", <<Eth("RARP"), Header("rarp", 28, <<>>)>>, None, None),
    Frame("EN10MB", <<Eth("HomePlug"), Header("homeplug", 5, <<>>)>>, None, None),
    Frame("EN10MB", <<Eth("EAPOL"), Header("eapol", 4, [bodyLength |-> 3]), Bytes(3)>>, None, None),
    Frame("EN10MB", <<Eth("LLDP"), Header("lldp", 12,
        [tlvs |-> <<[type |-> "chassis", length |-> 3], [type |-> "port", length |-> 3],
                    [type |-> "end", length |-> 0]>>])>>, None, None),
    Frame("EN10MB", <<Eth("LLDP"), Header("lldp", 5, [tlvs |-> <<[type |-> "chassis", length |-> 3]>>])>>,
          None, None)}

Llc == Header("llc", 8, [snap |-> TRUE, etherType |-> "IPv4"])

Wifi(size, type, subtype, wds, encrypted) ==
    Header("wifi", size, [type |-> type, subtype |-> subtype, toDS |-> wds, fromDS |-> wds,
                          protectedFrame |-> encrypted])

OtherLinks == {
    Frame("NULL", <<Header("null", 4, [af |-> <<2, 0, 0, 0>>])>> \o AB, ABFlow, None),
    Frame("NULL", <<Header("null", 4, [af |-> <<0, 0, 0, 30>>])>> \o CD6, CD6Flow, None),
    Frame("RAW", AB, ABFlow, None),
    Frame("RAW", CD6, CD6Flow, None),
    Frame("PPP", <<Header("ppp", 4, [addressControl |-> TRUE, short |-> FALSE,
                                     protocol |-> "IPv4"])>> \o AB, ABFlow, None),
    Frame("PPP", <<Header("ppp", 1, [addressControl |-> FALSE, short |-> TRUE,
                                     protocol |-> "IPv6"])>> \o CD6, CD6Flow, None),
    Frame("LINUX_SLL", <<Header("sll", 16, [etherType |-> "IPv4", addrLen |-> 6])>> \o AB, ABFlow, None),
    Frame("LINUX_SLL2", <<Header("sll2", 20, [etherType |-> "VLAN", addrLen |-> 0]), Tag("IPv4")>>
                        \o AB, ABFlow, None),
    Frame("IEEE802_5", <<Header("tokenring", 18, [sourceRouting |-> TRUE, routingLen |-> 4]), Llc>>
                       \o AB, ABFlow, None),
    Frame("FDDI", <<Header("fddi", 13, <<>>), Llc>> \o AB, ABFlow, None),
    Frame("IEEE802_11", <<Wifi(32, "data", {"qos"}, TRUE, FALSE), Llc>> \o AB, ABFlow, None),
    Frame("IEEE802_11", <<Wifi(24, "data", {}, FALSE, TRUE), Bytes(3)>>, None, None),
    Frame("IEEE802_11", <<Wifi(16, "control", {"addr2"}, FALSE, FALSE)>>, None, None),
    Frame("IEEE802_11_RADIOTAP", <<Header("radiotap", 10, [radiotapLen |-> 10]),
                                   Wifi(24, "management", {}, FALSE, FALSE), Bytes(3)>>, None, None),
    Frame("IEEE802_11_RADIOTAP", <<Header("radiotap", 8, [radiotapLen |-> 8]),
                                   Wifi(24, "data", {}, FALSE, FALSE), Llc>> \o AB, ABFlow, None)}

Outer(to) == <<Ip("x", "y", "UDP"), Udp(9000, to)>>

Tunnels == {
    OverEthernet(<<Ip("x", "y", "GRE"), Gre_({"key", "sequence"}, "IPv4")>> \o AB, ABFlow),
    OverEthernet(<<Ip("x", "y", "GRE"), Gre_({}, "IPv6")>> \o CD6, CD6Flow),
    OverEthernet(<<Ip("x", "y", "GRE"), Gre_({}, "other"), Bytes(3)>>, None),
    OverEthernet(Outer(4789) \o <<Vxlan_, Eth("VLAN"), Tag("IPv4")>> \o AB, ABFlow),
    OverEthernet(Outer(4789) \o <<Vxlan_, Eth("IPv6")>> \o CD6, CD6Flow),
    OverEthernet(Outer(4789) \o <<Vxlan_, Eth("IPv4"), Ip("a", "b", "ESP"), Header("esp", 8, <<>>)>>,
                 None),
    OverEthernet(Outer(4789) \o <<Vxlan_, Eth("IPv4")>> \o Outer(2152) \o <<Gtp({})>> \o AB, ABFlow),
    OverEthernet(Outer(2152) \o <<Gtp({"S"})>> \o CD6, CD6Flow)}

Icmp(type, about) == Header("icmp", 8, [type |-> type, about |-> about])
Icmp6(type, about) == Header("icmpv6", 8, [type |-> type, about |-> about])

\* Of the transport header of the packet it is about an error quotes eight bytes.
Eight(h) == [h EXCEPT !.len = 8]

LaterFragment == [Ip("a", "b", "UDP") EXCEPT !.fragmentOffset = 2]

ICMP == {
    OverEthernet(<<Ip("r", "a", "ICMP"),
                   Icmp("time", OverEthernet(<<IpOf("a", "b", "TCP", 6), AB[2]>>, ABFlow)),
                   IpOf("a", "b", "TCP", 6), Eight(AB[2])>>, Flow("r", "a", "ICMP", 0, 0)),
    OverEthernet(<<Ip("r", "a", "ICMP"), Icmp("time", OverEthernet(<<LaterFragment, Bytes(8)>>, None)),
                   LaterFragment, Bytes(8)>>, None),
    OverEthernet(<<Ip("r", "a", "ICMP"), Icmp("echo", None), Bytes(4)>>, Flow("r", "a", "ICMP", 0, 0)),
    OverEthernet6(<<Ip6("r", "c", "ICMPv6"), Icmp6("toobig", OverEthernet6(CD6, CD6Flow)),
                    CD6[1], CD6[2]>>, Flow("r", "c", "ICMPv6", 0, 0)),
    OverEthernet6(<<Ip6("c", "d", "Fragment"), FragmentHdr(0, "UDP"), CD6[2], Bytes(4)>>,
                  [CD6Flow EXCEPT !.protocol = "Fragment"]),
    OverEthernet6(<<Ip6("c", "d", "Fragment"), FragmentHdr(1, "UDP"), Bytes(4)>>, None),
    OverEthernet(<<Ip("a", "b", "IGMP"), Header("igmp", 8, <<>>)>>, Flow("a", "b", "IGMP", 0, 0)),
    OverEthernet(<<Ip("a", "b", "ESP"), Header("esp", 8, <<>>), Bytes(4)>>, Flow("a", "b", "ESP", 0, 0))}

-----------------------------------------------------------------------------
(* Messages, each with what its sender put in it. *)

Datagram(from, to, cells, says) ==
    Frame("EN10MB", <<Eth("IPv4"), Ip("a", "b", "UDP"), Udp(from, to)>> \o cells,
          Flow("a", "b", "UDP", from, to), says)

Segment(from, to, cells, says) ==
    Frame("EN10MB", <<Eth("IPv4"), Ip("a", "b", "TCP"), Tcp(from, to, 5)>> \o cells,
          Flow("a", "b", "TCP", from, to), says)

Part(kind, len, value) == Header(kind, len, [value |-> value])

Text(value) == Part("label", 5, value)
Root == Header("root", 1, <<>>)
Pointer(target) == Header("pointer", 2, [target |-> target])

\* www.site asked, answered by pointer, with a name server below the same domain.
DnsCells ==
    <<Header("dns", 12, [entries |-> <<"question", "answer", "authority">>]),
      Text("www"), Text("site"), Root, Part("question", 4, "A"),
      Pointer(12), Part("record", 14, "address"),
      Text("ns"), Pointer(17), Part("record", 12, "server")>>

DnsSays == <<<<"question", <<"www", "site">>, "A">>, <<"answer", <<"www", "site">>, "address">>,
             <<"authority", <<"ns", "site">>, "server">>>>

NbName(name) == Part("netbios", 33, name)

NbnsCells ==
    <<Header("nbns", 12, [entries |-> <<"question", "additional">>]),
      NbName("host"), Text("site"), Root, Part("question", 4, "NB"), Pointer(12), Part("record", 16, "address")>>

Attribute(type, length, ipv6, value) ==
    Header("attribute", 4 + 4 * ((length + 3) \div 4),
           [type |-> type, length |-> length, ipv6 |-> ipv6, value |-> value, used |-> 4 + length])

StunCells ==
    <<Showing("stun", Header("stun", 20, [length |-> 32])),
      [Attribute("software", 5, FALSE, "x") EXCEPT !.used = 9],
      Attribute("mapped", 8, FALSE, "here"), Attribute("xor mapped", 8, FALSE, "here")>>

Messages == {
    Datagram(4000, 53, DnsCells, DnsSays),
    Datagram(5353, 5353, DnsCells, DnsSays),
    Segment(53, 4000, <<Header("dns length", 2, [length |-> 62])>> \o DnsCells, DnsSays),
    Datagram(137, 137, NbnsCells, <<<<"question", <<"host", "site">>, "NB">>,
                                   <<"additional", <<"host", "site">>, "address">>>>),
    Datagram(138, 138, <<Header("nbdgm", 14, [type |-> "direct"]), NbName("from"), Root, NbName("to"), Root>>,
             <<<<"from">>, <<"to">>>>),
    Datagram(138, 138, <<Header("nbdgm", 10, [type |-> "error"])>>, <<>>),
    Datagram(7000, 7001, StunCells, <<"here">>),
    Datagram(68, 67, <<Showing("dhcp cookie", Header("dhcp", 240, <<>>)), Part("option", 3, "discover"),
                       Header("pad", 1, <<>>), Part("option", 6, "host"), Header("end", 1, <<>>)>>,
             <<"discover", "host">>),
    Datagram(546, 547, <<Showing("dhcpv6 type", Header("dhcpv6", 4, <<>>)), Part("option6", 6, "id"),
                         Part("option6", 9, "fqdn")>>, <<"id", "fqdn">>),
    Datagram(3000, 69, <<Showing("tftp opcode", Header("tftp", 2, [opcode |-> "RRQ"])), Part("string", 5, "file"),
                         Part("string", 6, "octet"), Part("string", 6, "tsize"), Part("string", 2, "0")>>,
             <<"file", "octet", "tsize", "0">>),
    Datagram(3000, 69, <<Showing("tftp opcode", Header("tftp", 2, [opcode |-> "ERROR"])), Part("number", 2, 1),
                         Part("string", 4, "why")>>, <<1, "why">>),
    Datagram(1900, 1900, <<Showing("ssdp", Part("start line", 10, "NOTIFY")), Part("line", 7, "host"),
                           Part("line", 5, "usn"), Header("blank", 2, <<>>)>>, <<"NOTIFY", "host", "usn">>),
    Datagram(427, 427, <<Showing("srvloc version", Header("srvloc", 12, <<>>))>>, <<>>),
    Datagram(427, 427, <<Showing("srvloc version", Header("srvloc", 14, <<>>)), Part("language", 2, "en")>>,
             <<"en">>),
    Datagram(17500, 17500, <<Showing("json", Header("json", 1, <<>>)),
        Header("member", 14, [value |-> "2", number |-> TRUE, keyLen |-> 10, used |-> 13]),
        Header("member", 20, [value |-> "name", number |-> FALSE, keyLen |-> 10, used |-> 16])>>,
             <<"2", "name">>),
    Datagram(123, 123, <<Showing("ntp", Part("ntp", 48, "times"))>>, <<"times">>),
    Datagram(7000, 7001, <<Showing("rtcp", Header("rtcp", 12, [value |-> "ssrc", words |-> 2]))>>, <<"ssrc">>),
    Datagram(7000, 7001, <<Showing("dtls", Header("dtls", 16, [value |-> "record", length |-> 3,
                                                               handshake |-> TRUE]))>>,
             <<"record", "handshake">>),
    Datagram(7000, 443, <<Showing("long header", Header("quic", 15, [value |-> "ids", long |-> TRUE,
                                                       dcidLen |-> 4, scidLen |-> 4]))>>, <<"ids">>)}

\* A value of a tag; the content of a constructed one is the headers that follow.
Asn1(tag, len, length, value) ==
    Header("asn1", len, [tag |-> tag, lengthBytes |-> 0, length |-> length, value |-> value])
Long(h) == [h EXCEPT !.len = @ + 1, !.used = @ + 1, !.lengthBytes = 1]

Snmp(cells, length) == <<Showing("sequence", Asn1("sequence", 2, length, "message"))>> \o cells

Asn1Messages == {
    Datagram(4000, 161, Snmp(<<Asn1("integer", 3, 1, "v2c"), Long(Asn1("octets", 8, 6, "public")),
                               Asn1("get", 2, 3, "pdu"), Asn1("integer", 3, 1, 7)>>, 17),
             <<"v2c", "public", "get", 7>>),
    Datagram(4000, 162, Snmp(<<Asn1("integer", 3, 1, "v3"), Bytes(6)>>, 9), <<"v3">>),
    Segment(4000, 389, Snmp(<<Asn1("integer", 3, 1, 1), Asn1("bind", 2, 8, "op"), Asn1("integer", 3, 1, 3),
                              Asn1("octets", 5, 3, "dn")>>, 13), <<1, "bind", 3, "dn">>),
    Segment(389, 4000, Snmp(<<Asn1("integer", 3, 1, 1), Asn1("bind response", 6, 4, "op")>>, 9),
            <<1, "bind response">>)}

\* What one TCP segment may hold whole.
Phrase(value, look) == Showing(look, Header("line", 7, [value |-> value, spaced |-> TRUE]))

Hello_ == <<Showing("tls record", Header("tls", 5, [value |-> "hello", length |-> 22])), Header("hello", 6, <<>>),
            Part("suites", 4, "suites"), Header("compression", 2, <<>>), Bytes(2), Part("extension", 8, "sni"),
            Header("tls", 5, [value |-> "done", length |-> 3]), Bytes(3)>>

Negotiate == Showing("smb", Part("smb", 32, "negotiate"))

TcpMessages == {
    Segment(25, 4000, <<Phrase("220", "smtp greeting")>>, <<"220">>),
    Segment(110, 4000, <<Phrase("+OK", "pop3 greeting")>>, <<"+OK">>),
    Segment(143, 4000, <<Phrase("* OK", "imap greeting")>>, <<"* OK">>),
    Segment(4000, 21, <<Phrase("USER", "ftp")>>, <<"USER">>),
    Segment(4000, 443, Hello_, <<"hello", "suites", "sni", "done">>),
    Segment(4000, 443, <<Showing("tls record", Header("tls", 5, [value |-> "hello", length |-> 11])),
                         Header("hello", 6, <<>>), Part("suites", 5, "suites")>>, None),
    Segment(4000, 8081, <<Showing("http method", Part("start line", 8, "POST")), Part("line", 6, "host"),
                          Part("line", 7, "type ocsp"), Header("blank", 2, <<>>),
                          Asn1("sequence", 2, 6, "status"), Asn1("enumerated", 3, 1, 0), Bytes(3)>>,
            <<"POST", "host", "type ocsp", "ocsp response">>),
    Segment(4000, 179, <<Showing("marker", Header("bgp", 19, [value |-> "OPEN", length |-> 29])), Bytes(10)>>,
            <<"OPEN">>),
    Segment(4000, 3389, <<Showing("tpkt", Header("tpkt", 11, [value |-> "request", length |-> 19])), Bytes(8)>>,
            <<"request">>),
    Segment(4000, 3389, <<Showing("tpkt", Header("tpkt", 11, [value |-> "request", length |-> 7]))>>, None),
    Segment(22, 4000, <<Showing("ssh", Part("banner", 9, "SSH")), Bytes(4)>>, <<"SSH">>),
    Segment(4000, 445, <<Negotiate, Bytes(2)>>, <<"negotiate">>),
    Segment(4000, 139, <<Showing("session smb", Header("session", 4, <<>>)), Negotiate>>, <<"negotiate">>),
    Segment(4000, 1935, <<Header("handshake", 1, <<>>), Bytes(5)>>, <<"handshake">>),
    Segment(4000, 1935, <<Header("chunk", 14, [value |-> "video", type |-> 0, stream |-> 1]), Bytes(3)>>,
            <<"video">>),
    Segment(23, 4000, <<Part("command", 3, "will"), Part("subnegotiation", 8, "size"), Part("text", 1, "l"),
                        Part("text", 2, "escaped")>>, <<"will", "size", "l", "escaped">>)}

-----------------------------------------------------------------------------
(* Captures of several packets *)

Payload(from, to, look) == Datagram(from, to, <<Showing(look, Bytes(20))>>, None)

\* A transfer that moves to ports of its own, and other packets on one of them.
TftpCapture == {
    Datagram(3000, 69, <<Showing("tftp opcode", Header("tftp", 2, [opcode |-> "RRQ"])),
                         Part("string", 5, "file")>>, <<"file">>),
    Datagram(2000, 3000, <<Showing("tftp opcode", Header("tftp", 2, [opcode |-> "DATA"])),
                           Part("number", 2, 1), Bytes(4)>>, None),
    Datagram(2000, 9999, <<Showing("tftp opcode", Header("tftp", 2, [opcode |-> "ACK"])),
                           Part("number", 2, 1)>>, None),
    Payload(2000, 9998, "nothing")}

\* The protocols of WebRTC in one flow, media included.
WebRtcCapture == {
    Datagram(7000, 7001, StunCells, None),
    Datagram(7000, 7001, <<Showing("dtls", Header("dtls", 16, [value |-> "record", length |-> 3,
                                                               handshake |-> FALSE]))>>, None),
    Payload(7000, 7001, "media")}

\* A flow that shows its protocol early or late.
LateCapture == {
    Payload(8000, 8001, "nothing"),
    Payload(8000, 8001, "quic version"),
    Segment(8000, 8001, <<Showing("tls version", Bytes(20))>>, None)}

\* A flow on the TFTP port that begins with another protocol, and a packet on its other port.
DecidedCapture == {
    Datagram(3000, 69, StunCells, None),
    Datagram(3000, 69, <<Showing("tftp opcode", Header("tftp", 2, [opcode |-> "RRQ"])),
                         Part("string", 5, "file")>>, None),
    Datagram(2000, 3000, <<Showing("tftp opcode", Header("tftp", 2, [opcode |-> "DATA"])),
                           Part("number", 2, 1), Bytes(4)>>, None)}

MCDatagrams == {"d1", "d2"}
MCUnits == [d \in MCDatagrams |-> IF d = "d1" THEN 4 ELSE 3]

\* Each datagram has an identification of its own.
MCKeyOf == [d \in MCDatagrams |-> d]

Piece(first, len) == [first |-> first, len |-> len]

\* d1 is cut in two ways, d2 in one.
MCFragments == [d \in MCDatagrams |->
    IF d = "d1" THEN {Piece(0, 1), Piece(1, 2), Piece(3, 1), Piece(0, 2), Piece(2, 2)}
                ELSE {Piece(0, 1), Piece(1, 1), Piece(2, 1)}]

FragmentFrame(d, p) ==
    LET ip == [datagram |-> d, fragment |-> p, moreFragments |-> p.first + p.len < MCUnits[d],
               fragmentOffset |-> p.first] @@ Ip("a", "b", "UDP")
        data == IF p.first = 0 THEN <<Udp(8000, 8001), Bytes(8 * (p.len - 1))>> ELSE <<Bytes(8 * p.len)>>
    IN  OverEthernet(<<ip>> \o data, None)

FragmentCapture == UNION {{FragmentFrame(d, p) : p \in MCFragments[d]} : d \in MCDatagrams}

Short(f, missing) == [f EXCEPT !.cap = @ - missing]

\* A fragment whose totalLength is less than its header.
Contradiction(d) ==
    LET ip == [datagram |-> d, fragment |-> None, moreFragments |-> TRUE, fragmentOffset |-> 0]
              @@ Ip("a", "b", "UDP")
    IN  OverEthernet(<<ip, Udp(8000, 8001)>>, None)

\* Fragments that the capture has cut, in their data or behind their header.
CutFragmentCapture == {
    FragmentFrame("d2", Piece(0, 1)), Contradiction("d2"),
    FragmentFrame("d2", Piece(1, 1)), Short(FragmentFrame("d2", Piece(1, 1)), 1),
    Short(FragmentFrame("d2", Piece(2, 1)), 8)}

JustCutFragments == {CutFragmentCapture \ {Contradiction("d2")}}

MCCaptures ==
    {{f} : f \in UNION {Cuts(g) : g \in Ethernets \cup OtherLinks \cup Tunnels \cup ICMP
                                         \cup Messages \cup Asn1Messages \cup TcpMessages}}
    \cup {TftpCapture, WebRtcCapture, DecidedCapture, LateCapture, FragmentCapture, CutFragmentCapture}

\* Each datagram has a key of its own and is sent whole, and the fragments in the frames
\* are those of the datagrams.
ASSUME FragmentsAssumption == KeysDiffer /\ SentWhole /\ FragmentsAreKnown

\* The headers of the frames are such as packets can hold, one behind the other.
ASSUME CapturesAssumption == CapturesAreFrames /\ CapturesAreLaidOut
=============================================================================
