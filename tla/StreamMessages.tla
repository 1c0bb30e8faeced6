--------------------------- MODULE StreamMessages ---------------------------
(***************************************************************************)
(* The decoders of messages that come over TCP (src/src/protocol/*.cpp),   *)
(* and PacketDecoder's choice among all decoders (decodeL7 in              *)
(* src/src/decoder.cpp). What they read is the same kind of frame: the     *)
(* bytes from an offset to the end of the capture, or of what has come of  *)
(* a stream. The offset they leave says how many of them are consumed.     *)
(***************************************************************************)
EXTENDS MessageDecoders

Lines == {"start line", "line", "blank"}

\* What is taken for a part of a message and lies behind it. Behind the end of the bytes it
\* may be anything, or the program ends there.
Stray == "stray"

-----------------------------------------------------------------------------
(* Protocols of lines that end with CRLF *)

\* Mutant of LineEnds: a line may end with what has come.
LineEndsEager(f, off) ==
    {e \in {f.hs[i].at + f.hs[i].len : i \in {j \in DOMAIN f.hs : f.hs[j].kind \in Lines}} :
        off + 2 <= e /\ e <= f.cap} \cup {f.cap}

\* The ends of the lines in front of which a decoder at an offset finds CRLF.
LineEnds(f, off) ==
    {e \in {f.hs[i].at + f.hs[i].len : i \in {j \in DOMAIN f.hs : f.hs[j].kind \in Lines}} :
        off + 2 <= e /\ e <= f.cap}

\* The text of the first line: what is left of it, when it has begun before.
LineText(f, off) == ReadOne(f, off, Lines)

\* The first line; one that is not there yet and an empty one are refused alike.
textLine(f, off, Accepts(_)) ==
    LET ends == LineEnds(f, off)
    IN  Checked(<< <<Has(f, off, 1), "TruncatedHeader">>,
                   <<ends # {}, "MalformedPacket">>,
                   <<ends # {} => Min(ends) # off + 2 /\ Accepts(LineText(f, off)), "MalformedPacket">> >>,
                off, Success(<<LineText(f, off).value>>, Min(ends \cup {f.cap})))

AnyLine(h) == TRUE

decodeSmtp(f, off) == textLine(f, off, AnyLine)

decodePop3(f, off) == textLine(f, off, AnyLine)

decodeFtp(f, off) == textLine(f, off, AnyLine)

\* A tag and something after it.
decodeImap(f, off) == textLine(f, off, LAMBDA h : h.spaced)

\* The content behind a header is looked at, and not passed over.
decodeOcsp(f, off) ==
    LET seq == Read(f, off, "asn1")
        inner == off + 2 + seq.lengthBytes
        type == IF Read(f, inner, "asn1").tag = "enumerated" /\ Has(f, inner, 1)
                THEN "ocsp response" ELSE "ocsp request"
    IN  Checked(<< <<Has(f, off, 3), "TruncatedHeader">>,
                   <<seq.tag = "sequence", "MalformedPacket">>,
                   <<seq.tag = "sequence" => Has(f, off + 2, seq.lengthBytes), "TruncatedHeader">> >>,
                off, Success(<<type>>, Min({inner + seq.length, f.cap})))

\* A request or status line, and the header lines that are there by now. The body stays.
decodeHttp(f, off) ==
    LET Past(end) ==
            IF Read(f, end, "blank").kind = "blank" /\ Has(f, end, 2) THEN end + 2 ELSE end
        Asked(lines) == \E i \in DOMAIN lines : lines[i].value = "type ocsp"
        Body(lines, past, ocsp) ==
            IF Asked(lines) /\ Has(f, past, 1) /\ ocsp.ok THEN ocsp.hdr ELSE <<>>
        Whole(start, lines, past) ==
            Success(start.hdr \o Values(lines) \o Body(lines, past, decodeOcsp(f, past)), past)
        Headed(start, lines) == Whole(start, lines, Past(After(start.off, lines)))
    IN  Then(textLine(f, off, LAMBDA h : h.kind = "start line"),
             LAMBDA start : Headed(start, Items(f, start.off, f.cap, {"line"})))

-----------------------------------------------------------------------------
(* Messages that say how long they are *)

\* Cipher suites have two bytes each: of an odd number of bytes the last is taken together
\* with the one behind it.
Suites(h) == IF h.len % 2 = 0 THEN <<h.value>> ELSE <<h.value, Stray>>

\* A hello: suites, compression, and the extensions as far as the record goes.
Hello(f, off, end) ==
    LET hello == Read(f, off, "hello")
        suites == Read(f, off + hello.len, "suites")
        extensions == off + hello.len + suites.len + Read(f, off + hello.len + suites.len, "compression").len
    IN  IF hello.kind # "hello" THEN <<>>
        ELSE Suites(suites) \o (IF extensions + 2 > end THEN <<>>
                                 ELSE Values(Items(f, extensions + 2, end, {"extension"})))

decodeTls(f, off) ==
    LET h == Read(f, off, "tls")
        end == off + 5 + h.length
    IN  Checked(<< <<Has(f, off, 5), "TruncatedHeader">>,
                   <<h.kind = "tls", "MalformedPacket">>,
                   <<h.kind = "tls" => Has(f, off, 5 + h.length), "TruncatedHeader">> >>, off,
                Success(<<h.value>> \o Hello(f, off + 5, end), end))

\* Mutant of tlsRecords: the first record only.
tlsRecordsFirst(f, off) == decodeTls(f, off)

\* All records that are whole; of those after the first the type is kept.
tlsRecords(f, off) ==
    LET Behind(items, later) == Success(items \o later.hdr, later.off)
        rest[p \in Nat] ==
            LET Record(r) == IF p < f.cap /\ r.ok THEN Behind(<<r.hdr[1]>>, rest[r.off])
                                                  ELSE Success(<<>>, p)
            IN  Record(decodeTls(f, p))
    IN  Then(decodeTls(f, off), LAMBDA first : Behind(first.hdr, rest[first.off]))

\* Mutant of decodeBgp: the length is not held against what has come.
decodeBgpUnmeasured(f, off) ==
    Marked(f, off, "bgp", 19, LAMBDA h : Success(<<h.value>>, off + h.length))

decodeBgp(f, off) ==
    Marked(f, off, "bgp", 19, LAMBDA h :
        Checked(<< <<Has(f, off, h.length), "TruncatedHeader">>,
                   <<h.value = "OPEN" => h.length >= 29, "TruncatedHeader">> >>, off,
                Success(<<h.value>>, off + h.length)))

\* A connection request or confirm is searched behind its 11 bytes. Where it says it has
\* less, the length of the rest wraps below zero and the search goes on behind the message.
RdpItem(h) == IF h.length < 11 /\ h.value \in {"request", "confirm"} THEN Stray ELSE h.value

decodeRdp(f, off) ==
    Marked(f, off, "tpkt", 11, LAMBDA h :
        Checked(<< <<Has(f, off, h.length), "TruncatedHeader">> >>, off,
                Success(<<RdpItem(h)>>, off + h.length)))

\* DNS over TCP has its length in front.
dnsOverTcp(f, off) ==
    LET h == Read(f, off, "dns length")
    IN  IF Has(f, off, 2) /\ h.kind = "dns length" /\ Has(f, off + 2, h.length)
        THEN decodeDns(f, off + 2) ELSE Failure("TruncatedHeader", off)

-----------------------------------------------------------------------------
(* Headers of which the body stays where it is *)

\* Version 1 or 2.
decodeSmb(f, off) ==
    Marked(f, off, "smb", 4, LAMBDA h :
        Checked(<< <<Has(f, off, h.len), "TruncatedHeader">> >>, off,
                Success(<<h.value>>, off + h.len)))

\* Over a NetBIOS session there are four bytes in front of it.
smbOver(packet, f, off) ==
    decodeSmb(f, IF packet.transport = "tcp" /\ 139 \in {packet.srcPort, packet.dstPort} /\ Has(f, off, 4)
                 THEN off + 4 ELSE off)

\* A first byte 3 is a handshake, also where it begins a chunk of type 0 on stream 3.
\* A chunk's stream, six bits, says whether one or two bytes of it follow.
decodeRtmp(f, off) ==
    LET h == Read(f, off, "chunk")
        sizes == <<11, 7, 3, 0>>
        basic == IF h.stream = 0 THEN 2 ELSE IF h.stream = 1 THEN 3 ELSE 1
        end == off + basic + sizes[h.type + 1]
    IN  IF ~Has(f, off, 1) THEN Failure("TruncatedHeader", off)
        ELSE IF Read(f, off, "handshake").kind = "handshake" \/ (h.kind = "chunk" /\ h.type = 0 /\ h.stream = 3)
        THEN Success(<<"handshake">>, off + 1)
        ELSE IF h.kind # "chunk"
        THEN Checked(<< <<Has(f, off, 8), "TruncatedHeader">> >>, off, Success(<<"filler">>, off + 8))
        ELSE Checked(<< <<Has(f, off, basic), "TruncatedHeader">>,
                        <<end <= f.cap, "TruncatedHeader">> >>, off, Success(<<h.value>>, end))

\* The banner, a line that may end with LF alone. Binary packets follow.
decodeSsh(f, off) ==
    LET h == Read(f, off, "banner")
    IN  Checked(<< <<Has(f, off, 8), "TruncatedHeader">>,
                   <<h.kind = "banner" /\ Has(f, off, h.len), "TruncatedHeader">> >>, off,
                Success(<<h.value>>, off + h.len))

\* Characters (an escaped one has two bytes) and commands in any order. What is
\* incomplete stays, but of a subnegotiation without its end all that has come is
\* passed over.
decodeTelnet(f, off) ==
    LET from[p \in Nat] ==
            LET h == ReadOne(f, p, {"text", "command", "subnegotiation"})
                later == from[IF h.kind = "filler" THEN p + 1 ELSE p + h.len]
            IN  IF ~Has(f, p, 1) \/ (h.kind = "command" /\ ~Has(f, p, h.len))
                   \/ (h.kind \in {"text", "subnegotiation"} /\ ~Has(f, p, Min({h.len, 2})))
                THEN Success(<<>>, p)
                ELSE IF h.kind = "subnegotiation" /\ ~Has(f, p, h.len) 
                THEN Success(IF Has(f, p, 3) THEN <<h.value>> ELSE <<>>, f.cap)
                ELSE Success(<<h.value>> \o later.hdr, later.off)
    IN  Checked(<< <<Has(f, off, 1), "TruncatedHeader">> >>, off, from[off])

-----------------------------------------------------------------------------

\* The decoder of a protocol. SMTP and POP3 also depend on the conversation.
decodeL7(proto, packet, f, off) ==
    CASE proto = "DNS" -> IF packet.transport = "tcp" THEN dnsOverTcp(f, off) ELSE decodeDns(f, off)
      [] proto = "HTTP" -> decodeHttp(f, off)
      [] proto = "TLS" -> tlsRecords(f, off)
      [] proto = "QUIC" -> decodeQuic(f, off)
      [] proto = "FTP" -> decodeFtp(f, off)
      [] proto = "SSH" -> decodeSsh(f, off)
      [] proto = "DHCP" -> decodeDhcp(f, off)
      [] proto = "DHCPv6" -> decodeDhcpv6(f, off)
      [] proto = "SMTP" -> decodeSmtp(f, off)
      [] proto = "POP3" -> decodePop3(f, off)
      [] proto = "IMAP" -> decodeImap(f, off)
      [] proto = "SNMP" -> decodeSnmp(f, off)
      [] proto = "RDP" -> decodeRdp(f, off)
      [] proto = "BGP" -> decodeBgp(f, off)
      [] proto = "NTP" -> decodeNtp(f, off)
      [] proto = "LDAP" -> decodeLdap(f, off)
      [] proto \in {"MDNS", "LLMNR"} -> decodeDns(f, off)
      [] proto = "SSDP" -> decodeSsdp(f, off)
      [] proto = "SrvLoc" -> decodeSrvloc(f, off)
      [] proto = "NBNS" -> decodeNbns(f, off)
      [] proto = "NBDGM" -> decodeNbdgm(f, off)
      [] proto = "SMB" -> smbOver(packet, f, off)
      [] proto = "RTMP" -> decodeRtmp(f, off)
      [] proto = "STUN" -> decodeStun(f, off)
      [] proto = "Telnet" -> decodeTelnet(f, off)
      [] proto = "TFTP" -> decodeTftp(f, off)
      [] proto = "DTLS" -> decodeDtls(f, off)
      [] proto = "RTCP" -> decodeRtcp(f, off)
      [] proto = "DbLanSyncDisc" -> decodeDbLanSyncDisc(f, off)
      [] OTHER -> Failure("Unknown", off)
=============================================================================
