------------------------------ MODULE DataLink ------------------------------
(***************************************************************************)
(* The link layers other than Ethernet (src/src/datalink.cpp): each finds  *)
(* the EtherType of what it carries. A result's header is                  *)
(* [etherType, hasMacs, wifi].                                             *)
(***************************************************************************)
EXTENDS HeaderDecoders

Link(etherType, hasMacs, wifi) == [etherType |-> etherType, hasMacs |-> hasMacs, wifi |-> wifi]

decodeLlcSnap(f, off) ==
    LET h == Read(f, off, "llc")
    IN  Checked(<< <<Has(f, off, 8), "TruncatedHeader">>, <<h.snap, "UnsupportedProtocol">> >>,
                off, Success(h, off + 8))

\* The EtherType behind an LLC header, or the error of that.
ThroughLlc(f, off, hasMacs, wifi) ==
    LET llc == decodeLlcSnap(f, off)
    IN  IF llc.ok THEN Success(Link(llc.hdr.etherType, hasMacs, wifi), llc.off) ELSE llc

\* The four bytes of a word, the most significant first.
byteSwap32(word) == Reverse(word)

AddressFamilies(et) ==
    {<<0, 0, 0, af>> : af \in IF et = "IPv4" THEN {2} ELSE {10, 24, 28, 30}}

\* The family is in the byte order of the machine that captured.
decodeBsdNull(f, off) ==
    LET word == Read(f, off, "null").af
        af == IF SubSeq(word, 1, 3) = <<0, 0, 0>> THEN word ELSE byteSwap32(word)
        types == {et \in {"IPv4", "IPv6"} : af \in AddressFamilies(et)}
    IN  IF ~Has(f, off, 4) THEN Failure("TruncatedHeader", off)
        ELSE IF types = {} THEN Failure("UnsupportedProtocol", off + 4)
        ELSE Success(Link(CHOOSE et \in types : TRUE, FALSE, FALSE), off + 4)

decodeEthernetDlt(f, off) ==
    LET eth == decodeEthernet(f, off)
    IN  IF eth.ok THEN Success(Link(eth.hdr.etherType, TRUE, FALSE), eth.off) ELSE eth

\* The version nibble of the byte at an offset.
Nibble(f, off) ==
    LET v == {k \in {"ipv4", "ipv6"} : Read(f, off, k).kind = k}
    IN  IF v = {"ipv4"} THEN 4 ELSE IF v = {"ipv6"} THEN 6 ELSE Filler.version

decodeRawIp(f, off) ==
    LET n == Nibble(f, off)
    IN  Checked(<< <<Has(f, off, 1), "TruncatedHeader">>, <<n \in {4, 6}, "UnsupportedProtocol">> >>,
                off, Success(Link(IF n = 4 THEN "IPv4" ELSE "IPv6", FALSE, FALSE), off))

\* Address and control bytes are optional, and the protocol has one byte or two.
decodePpp(f, off) ==
    LET h == Read(f, off, "ppp")
        start == IF h.addressControl /\ Has(f, off, 2) THEN 2 ELSE 0
        \* Of address and control only 0xFF was captured: it reads as a short protocol number.
        alone == h.addressControl /\ start = 0
        size == start + (IF h.short \/ alone THEN 1 ELSE 2)
        known == h.protocol \in {"IPv4", "IPv6"} /\ ~alone
    IN  IF ~Has(f, off, size) THEN Failure("TruncatedHeader", off)
        ELSE IF ~known THEN Failure("UnsupportedProtocol", off + size)
        ELSE Success(Link(h.protocol, FALSE, FALSE), off + size)

decodeLinuxSll(f, off) ==
    LET h == Read(f, off, "sll")
    IN  Checked(<< <<Has(f, off, 16), "TruncatedHeader">> >>, off,
                Success(Link(h.etherType, h.addrLen >= 6, FALSE), off + 16))

decodeLinuxSll2(f, off) ==
    LET h == Read(f, off, "sll2")
    IN  Checked(<< <<Has(f, off, 20), "TruncatedHeader">> >>, off,
                Success(Link(h.etherType, h.addrLen >= 6, FALSE), off + 20))

\* A routing field follows the addresses when the source address says so.
decodeTokenRing(f, off) ==
    LET h == Read(f, off, "tokenring")
        routing == IF h.sourceRouting THEN h.routingLen ELSE 0
        routed == Has(f, off + 14, 2) /\ routing >= 2 /\ Has(f, off + 14, routing)
    IN  IF ~Has(f, off, 14) THEN Failure("TruncatedHeader", off)
        ELSE IF h.sourceRouting /\ ~routed THEN Failure("TruncatedHeader", off + 14)
        ELSE ThroughLlc(f, off + 14 + routing, TRUE, FALSE)

decodeFddi(f, off) ==
    IF Has(f, off, 13) THEN ThroughLlc(f, off + 13, TRUE, FALSE)
                       ELSE Failure("TruncatedHeader", off)

-----------------------------------------------------------------------------
(* 802.11. A subtype is a set of what it says: "addr2" for a control frame *)
(* with two addresses, "qos" and "null" for data.                          *)

WifiHeaderSize(h) ==
    CASE h.type = "control" -> IF "addr2" \in h.subtype THEN 16 ELSE 10
      [] h.type = "management" -> 24
      [] OTHER -> (IF h.toDS /\ h.fromDS THEN 30 ELSE 24)
                  + (IF "qos" \in h.subtype THEN 2 ELSE 0)

\* Only data frames that are neither null nor encrypted carry a protocol.
decodeWifi(f, off) ==
    LET h == Read(f, off, "wifi")
        size == WifiHeaderSize(h)
    IN  IF ~(Has(f, off, 10) /\ Has(f, off, size)) THEN Failure("TruncatedHeader", off)
        ELSE IF h.type \in {"control", "management"} \/ "null" \in h.subtype \/ h.protectedFrame
        THEN Success(Link("0", FALSE, TRUE), off + size)
        ELSE ThroughLlc(f, off + size, FALSE, TRUE)

decodeRadiotap(f, off) ==
    LET h == Read(f, off, "radiotap")
    IN  IF Has(f, off, 8) /\ h.radiotapLen >= 8 /\ Has(f, off, h.radiotapLen)
        THEN decodeWifi(f, off + h.radiotapLen)
        ELSE Failure("TruncatedHeader", off)

resolveDataLink(f) ==
    CASE f.dlt = "NULL" -> decodeBsdNull(f, 0)
      [] f.dlt = "EN10MB" -> decodeEthernetDlt(f, 0)
      [] f.dlt = "RAW" -> decodeRawIp(f, 0)
      [] f.dlt = "PPP" -> decodePpp(f, 0)
      [] f.dlt = "LINUX_SLL" -> decodeLinuxSll(f, 0)
      [] f.dlt = "LINUX_SLL2" -> decodeLinuxSll2(f, 0)
      [] f.dlt = "IEEE802_5" -> decodeTokenRing(f, 0)
      [] f.dlt = "FDDI" -> decodeFddi(f, 0)
      [] f.dlt = "IEEE802_11" -> decodeWifi(f, 0)
      [] f.dlt = "IEEE802_11_RADIOTAP" -> decodeRadiotap(f, 0)
      [] OTHER -> Failure("UnsupportedDataLink", 0)
=============================================================================
