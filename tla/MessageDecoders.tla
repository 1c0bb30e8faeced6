--------------------------- MODULE MessageDecoders ---------------------------
(***************************************************************************)
(* The decoders of the application messages that a datagram carries whole  *)
(* (src/src/protocol/*.cpp). A message is a row of headers of a frame: a   *)
(* fixed part, and then the labels, options, attributes or strings that it *)
(* is made of. A decoder finds them by their lengths. What it reports is   *)
(* the list of them.                                                       *)
(***************************************************************************)
EXTENDS HeaderDecoders

\* The header of one of some kinds at an offset.
ReadOne(f, off, kinds) ==
    LET here == {k \in kinds : Read(f, off, k).kind = k}
    IN  IF here = {} THEN Filler ELSE Read(f, off, CHOOSE k \in here : TRUE)

\* Mutant of Items: of an item whose end is missing the rest is taken.
ItemsClamped(f, off, end, kinds) ==
    LET from[p \in Nat] ==
            LET h == ReadOne(f, p, kinds)
            IN  IF h.kind \notin kinds \/ p >= end THEN <<>>
                ELSE <<IF p + h.used <= end THEN h ELSE [value |-> "cut"] @@ h>> \o from[p + h.len]
    IN  from[off]

\* The items of some kinds in a row, as long as they are whole in front of an end.
Items(f, off, end, kinds) ==
    LET from[p \in Nat] ==
            LET h == ReadOne(f, p, kinds)
            IN  IF h.kind \in kinds /\ p + h.used <= end THEN <<h>> \o from[p + h.len] ELSE <<>>
    IN  from[off]

After(off, items) == off + Total([i \in DOMAIN items |-> items[i].len])

Values(items) == [i \in DOMAIN items |-> items[i].value]

\* The result of a decoder with a fixed part in front of its items.
Message(f, off, kind, size, Rest(_)) ==
    Checked(<< <<Has(f, off, size), "TruncatedHeader">> >>, off, Rest(Read(f, off, kind)))

\* The same for one that looks whether the fixed part is what it should be.
Marked(f, off, kind, size, Rest(_)) ==
    Message(f, off, kind, size,
            LAMBDA h : IF h.kind = kind THEN Rest(h) ELSE Failure("MalformedPacket", off))

-----------------------------------------------------------------------------
(* DNS, mDNS and LLMNR. A name is labels up to the root, and may go on     *)
(* somewhere else in the message. Everything counted must be there.        *)

\* Mutant of dnsName: what follows the name is looked for behind the pointer's target.
dnsNameFollowed(f, start, off) ==
    LET name[p \in Nat] ==
            LET h == ReadOne(f, p, {"label", "pointer", "root"})
                rest == name[IF h.kind = "pointer" THEN start + h.target ELSE p + h.len]
            IN  IF ~Has(f, p, 1) THEN Success(<<>>, p)
                ELSE IF h.kind = "filler" THEN Failure("MalformedPacket", p)
                ELSE IF ~Has(f, p, h.len) THEN Failure("TruncatedHeader", p)
                ELSE IF h.kind = "root" THEN Success(<<>>, p + 1)
                ELSE IF h.kind = "pointer" /\ ~Has(f, start + h.target, 1)
                THEN Failure("MalformedPacket", p)
                ELSE IF ~rest.ok THEN rest
                ELSE Success((IF h.kind = "label" THEN <<h.value>> ELSE <<>>) \o rest.hdr, rest.off)
    IN  name[off]

dnsName(f, start, off) ==
    LET name[p \in Nat] ==
            LET h == ReadOne(f, p, {"label", "pointer", "root"})
                rest == name[IF h.kind = "pointer" THEN start + h.target ELSE p + h.len]
                next == IF h.kind = "pointer" THEN p + h.len ELSE rest.off
            IN  IF ~Has(f, p, 1) THEN Success(<<>>, p)
                ELSE IF h.kind = "filler" THEN Failure("MalformedPacket", p)
                ELSE IF ~Has(f, p, h.len) THEN Failure("TruncatedHeader", p)
                ELSE IF h.kind = "root" THEN Success(<<>>, p + 1)
                ELSE IF h.kind = "pointer" /\ ~Has(f, start + h.target, 1)
                THEN Failure("MalformedPacket", p)
                ELSE IF ~rest.ok THEN rest
                ELSE Success((IF h.kind = "label" THEN <<h.value>> ELSE <<>>) \o rest.hdr, next)
    IN  name[off]

\* decodeQuestion and decodeRecord: a name, the fixed part, and a record's data.
dnsEntry(f, start, off, section) ==
    LET kind == IF section = "question" THEN "question" ELSE "record"
        size == IF section = "question" THEN 4 ELSE 10
        Fields(name) ==
            LET h == Read(f, name.off, kind)
            IN  Checked(<< <<Has(f, name.off, size), "TruncatedHeader">>,
                           <<Has(f, name.off, h.len), "TruncatedHeader">> >>, name.off,
                        Success(<<section, name.hdr, h.value>>, name.off + h.len))
    IN  Then(dnsName(f, start, off), Fields)

decodeDns(f, off) ==
    LET Entry(r, section) ==
            Then(r, LAMBDA q : Then(dnsEntry(f, off, q.off, section),
                                    LAMBDA e : Success(Append(q.hdr, e.hdr), e.off)))
    IN  Message(f, off, "dns", 12,
                LAMBDA h : FoldLeft(Entry, Success(<<>>, off + 12), h.entries))

-----------------------------------------------------------------------------
(* NetBIOS names and datagrams. Nothing that is missing is an error here.  *)

\* A first label and the scope after it; when the first label is not whole only its length
\* byte is passed over. Behind the labels of the scope one byte is passed over, the end
\* mark or the length byte of a label that is cut.
decodeNetbiosName(f, off) ==
    LET h == Read(f, off, "netbios")
        scope == Items(f, off + h.len, f.cap, {"label"})
        end == After(off + h.len, scope)
    IN  IF ~Has(f, off, 1) THEN <<None, off>>
        ELSE IF h.kind # "netbios" \/ ~Has(f, off, h.len) THEN <<None, off + 1>>
        ELSE <<<<h.value>> \o Values(scope), IF Has(f, end, 1) THEN end + 1 ELSE end>>

nbnsName(f, start, off) ==
    LET h == Read(f, off, "pointer")
    IN  IF h.kind # "pointer" THEN decodeNetbiosName(f, off)
        ELSE IF ~Has(f, off, 2) THEN <<None, off>>
        ELSE <<decodeNetbiosName(f, start + h.target)[1], off + 2>>

\* An entry whose fixed part is cut ends its section. A record whose data is cut is
\* reported without data.
nbnsEntry(f, start, s, section) ==
    LET size == IF section = "question" THEN 4 ELSE 10
        Whole(h, off) == h.kind # "filler" /\ Has(f, off, h.len)
        Fields(name, off, h) ==
            IF ~Has(f, off, size) THEN [s EXCEPT !.off = off, !.ended = section]
            ELSE [s EXCEPT !.off = off + (IF Whole(h, off) THEN h.len ELSE size),
                           !.items = Append(@, <<section, name,
                               IF Whole(h, off) \/ h.kind = "filler" THEN h.value ELSE None>>)]
        Named(name) ==
            Fields(name[1], name[2],
                   Read(f, name[2], IF section = "question" THEN "question" ELSE "record"))
    IN  IF ~Has(f, s.off, 1) \/ section = s.ended THEN s ELSE Named(nbnsName(f, start, s.off))

decodeNbns(f, off) ==
    LET Entry(s, section) == nbnsEntry(f, off, s, section)
        Ended(s) == Success(s.items, s.off)
    IN  Message(f, off, "nbns", 12, LAMBDA h :
            Ended(FoldLeft(Entry, [off |-> off + 12, items |-> <<>>, ended |-> None], h.entries)))

\* Direct and broadcast datagrams name both sides.
decodeNbdgm(f, off) ==
    LET Both(from, to) == Success(<<from[1], to[1]>>, to[2])
        Second(from) == Both(from, decodeNetbiosName(f, from[2]))
        Names(h) == IF h.type # "direct" THEN Success(<<>>, off + 10)
                    ELSE IF ~Has(f, off, 14) THEN Failure("TruncatedHeader", off + 10)
                    ELSE Second(decodeNetbiosName(f, off + 14))
    IN  Message(f, off, "nbdgm", 10, Names)

-----------------------------------------------------------------------------
(* Options and attributes: what does not fit any more ends the list. *)

\* Both ways to give the mapped address; the XOR-ed one wins, and an IPv6 address is
\* taken from that one only.
Mapped(attributes) ==
    FoldLeft(LAMBDA m, a : IF a.type = "xor mapped" \/ (a.type = "mapped" /\ m = None /\ ~a.ipv6)
                           THEN a.value ELSE m, None, attributes)

\* The attributes end where the message or the capture does.
decodeStun(f, off) ==
    LET end(h) == Min({off + 20 + h.length, f.cap})
    IN  Message(f, off, "stun", 20, LAMBDA h :
            LET mapped == Mapped(Items(f, off + 20, end(h), {"attribute"}))
            IN  Success(IF mapped = None THEN <<>> ELSE <<mapped>>, end(h)))

decodeDhcp(f, off) ==
    LET options == Items(f, off + 240, f.cap, {"option", "pad"})
        IsOption(h) == h.kind = "option"
    IN  Marked(f, off, "dhcp", 240,
               LAMBDA h : Success(Values(SelectSeq(options, IsOption)), f.cap))

decodeDhcpv6(f, off) ==
    LET options == Items(f, off + 4, f.cap, {"option6"})
    IN  Marked(f, off, "dhcpv6", 4,
               LAMBDA h : Success(Values(options), After(off + 4, options)))

\* The first line must be whole, of the header lines those that are whole are taken.
decodeSsdp(f, off) ==
    LET first == Read(f, off, "start line")
        lines == Items(f, off + first.len, f.cap, {"line"})
    IN  Checked(<< <<Has(f, off, 1), "TruncatedHeader">>,
                   <<first.kind = "start line" /\ Has(f, off, first.len), "MalformedPacket">> >>,
                off, Success(<<first.value>> \o Values(lines), f.cap))

decodeSrvloc(f, off) ==
    LET language(h) == Items(f, off + h.len, f.cap, {"language"})
    IN  Marked(f, off, "srvloc", 5, LAMBDA h :
            IF Has(f, off, h.len)
            THEN Success(Values(language(h)), After(off + h.len, language(h)))
            ELSE Failure("TruncatedHeader", off))

\* A value is looked up by its key. A number may end with the capture, a string not.
decodeDbLanSyncDisc(f, off) ==
    LET members == Items(f, off + 1, f.cap, {"member"})
        next == Read(f, After(off + 1, members), "member")
        cut == next.kind = "member" /\ next.number
               /\ Has(f, After(off + 1, members), next.keyLen + 1)
    IN  Marked(f, off, "json", 2, LAMBDA h :
            Success(Values(members) \o (IF cut THEN <<None>> ELSE <<>>), f.cap))

-----------------------------------------------------------------------------
(* TFTP. A string goes on to its end or to that of the capture. *)

readNullTerminated(f, off) ==
    LET h == Read(f, off, "string")
    IN  IF ~Has(f, off, 1) THEN <<>>
        ELSE IF Has(f, off, h.len - 1) THEN <<h.value>> ELSE <<None>>

\* The strings of a request: file name, mode, and options in pairs, of which the first
\* without a name is the last.
Strings(f, off) ==
    LET UpToUnnamed(read) ==
            LET unnamed == {i \in DOMAIN read : i > 2 /\ i % 2 = 1 /\ read[i] = ""}
            IN  SubSeq(read, 1, Min(unnamed \cup {Len(read) + 1}) - 1)
        AndLast(whole) == Values(whole) \o readNullTerminated(f, After(off, whole))
    IN  UpToUnnamed(AndLast(Items(f, off, f.cap, {"string"})))

\* DATA and ACK have a block number, ERROR a code.
decodeTftp(f, off) ==
    LET number == Read(f, off + 2, "number").value
        message == readNullTerminated(f, off + 4)
    IN  Marked(f, off, "tftp", 2, LAMBDA h :
            IF h.opcode \in {"RRQ", "WRQ"} THEN Success(Strings(f, off + 2), f.cap)
            ELSE IF ~Has(f, off + 2, 2) THEN Failure("TruncatedHeader", off)
            ELSE IF h.opcode = "ERROR" THEN Success(<<number>> \o message, f.cap)
            ELSE Success(<<number>>, IF h.opcode = "DATA" THEN f.cap ELSE off + 4))

-----------------------------------------------------------------------------
(* Headers whose body is passed over. *)

decodeNtp(f, off) == Message(f, off, "ntp", 48, LAMBDA h : Success(<<h.value>>, off + 48))

decodeRtcp(f, off) ==
    Message(f, off, "rtcp", 8,
            LAMBDA h : Success(<<h.value>>, Min({off + 4 * (h.words + 1), f.cap})))

\* The type of a handshake message is its first byte.
decodeDtls(f, off) ==
    Message(f, off, "dtls", 13, LAMBDA h :
        Success(<<h.value>> \o (IF h.handshake /\ Has(f, off, 14) THEN <<"handshake">> ELSE <<>>),
                Min({off + 13 + h.length, f.cap})))

\* Of a short header only the first byte is known; a long one has both connection ids.
decodeQuic(f, off) ==
    LET h == Read(f, off, "quic")
        dcid == off + 5
        scid == dcid + 1 + h.dcidLen
    IN  IF h.kind # "quic" \/ ~h.long
        THEN Checked(<< <<Has(f, off, 1), "TruncatedHeader">> >>, off, Success(<<>>, off + 1))
        ELSE Checked(<< <<Has(f, off, 7), "TruncatedHeader">>,
                        <<Has(f, dcid, 1 + h.dcidLen), "TruncatedHeader">>,
                        <<Has(f, scid, 1 + h.scidLen), "TruncatedHeader">> >>, off,
                     Success(<<h.value>>, scid + 1 + h.scidLen))

-----------------------------------------------------------------------------
(* ASN.1: a tag, a length in one of two forms, and the content, which is   *)
(* headers of its own where it is constructed.                             *)

readAsn1Tag(f, off) ==
    Checked(<< <<Has(f, off, 1), "TruncatedHeader">> >>, off,
            Success(Read(f, off, "asn1"), off + 1))

\* More than four length bytes are refused, and so is the indefinite form, which counts as
\* more here. The content starts behind them.
readAsn1Length(f, h, off) ==
    Checked(<< <<Has(f, off + 1, 1), "TruncatedHeader">>,
               <<h.kind = "asn1" /\ h.lengthBytes \in 0..4, "MalformedPacket">>,
               <<Has(f, off + 2, h.lengthBytes), "TruncatedHeader">> >>, off,
            Success(h, off + 2 + h.lengthBytes))

\* A value of one of some tags, and that its content is there.
asn1Content(f, off, tags) ==
    Then(readAsn1Tag(f, off), LAMBDA t :
        IF t.hdr.tag \notin tags THEN Failure("MalformedPacket", off)
        ELSE Then(readAsn1Length(f, t.hdr, off), LAMBDA c :
                IF Has(f, c.off, c.hdr.length) THEN c ELSE Failure("TruncatedHeader", off)))

\* A primitive value is passed over, the content of a constructed one is not.
asn1Value(f, off, tag) ==
    Then(asn1Content(f, off, {tag}), LAMBDA c : Success(c.hdr.value, c.off + c.hdr.length))

\* An integer has at least one byte.
readAsn1Integer(f, off) ==
    Then(asn1Value(f, off, "integer"), LAMBDA v :
        IF Read(f, off, "asn1").length > 0 THEN v ELSE Failure("TruncatedHeader", off))

readAsn1OctetString(f, off) == asn1Value(f, off, "octets")

\* The sequence around a message, then its parts; the message ends where it does.
InSequence(f, off, Parts(_)) ==
    Then(asn1Content(f, off, {"sequence"}), LAMBDA seq :
         Then(Parts(seq.off), LAMBDA r : Success(r.hdr, seq.off + seq.hdr.length)))

Pdus == {"get", "get next", "response", "set", "trap"}

\* Version, community, and the request id at the start of the PDU; of version 3 nothing else.
decodeSnmp(f, off) ==
    LET Pdu(version, community) ==
            Then(asn1Content(f, community.off, Pdus), LAMBDA pdu :
                Then(readAsn1Integer(f, pdu.off), LAMBDA id :
                    Success(<<version.hdr, community.hdr, pdu.hdr.tag, id.hdr>>, id.off)))
        Community(version) ==
            Then(readAsn1OctetString(f, version.off), LAMBDA c : Pdu(version, c))
        Version(v) == IF v.hdr = "v3" THEN Success(<<"v3">>, v.off) ELSE Community(v)
    IN  InSequence(f, off, LAMBDA p : Then(readAsn1Integer(f, p), Version))

Operations == {"bind", "bind response", "search"}

\* Message id and operation; of a bind also the version and the name.
decodeLdap(f, off) ==
    LET Name(id, version) ==
            Then(readAsn1OctetString(f, version.off), LAMBDA dn :
                Success(<<id.hdr, "bind", version.hdr, dn.hdr>>, dn.off))
        Operation(id) ==
            Then(asn1Content(f, id.off, Operations), LAMBDA op :
                IF op.hdr.tag # "bind" THEN Success(<<id.hdr, op.hdr.tag>>, op.off)
                ELSE Then(readAsn1Integer(f, op.off), LAMBDA v : Name(id, v)))
    IN  InSequence(f, off, LAMBDA p : Then(readAsn1Integer(f, p), Operation))
=============================================================================
