---------------------------- MODULE PacketDecoder ----------------------------
(***************************************************************************)
(* PacketDecoder::decode with what it keeps from packet to packet, with    *)
(* enableTcpReassembly off (src/src/decoder.cpp): the layers of the frame, *)
(* the defragmenter, the flow table's updates, the detection engine and    *)
(* the decoders of application messages. Frames of one capture come in any *)
(* order and any number of times. A frame also says what its sender meant: *)
(* the flow it belongs to and the items of its message.                    *)
(***************************************************************************)
EXTENDS FrameDecoder, StreamMessages, Detection, IpDefragmenter

CONSTANTS
    Captures,      \* sets of frames that are seen by one decoder
    MaxHeard       \* bound: payloads that one decoder is asked to classify

VARIABLES
    capture,       \* the frames of this run
    engine,        \* Impl::detector
    tracked,       \* the flow ids that Impl::flowTable was updated with
    last,          \* the latest packet: its frame, layers, protocol and message
    heard          \* history: what was classified, in order

decoderVars == <<capture, engine, tracked, last, heard, groups, returned, cut>>

NoMessage == Failure("no message", 0)

DecoderInit ==
    /\ Init
    /\ capture \in Captures
    /\ engine = EmptyEngine
    /\ tracked = {}
    /\ last = None
    /\ heard = <<>>

-----------------------------------------------------------------------------

\* What the detection engine looks at: the transport with its ports, and the payload.
Ported(s) ==
    IF s.layer4.kind \in {"tcp", "udp"}
    THEN [transport |-> s.layer4.kind, srcPort |-> s.layer4.srcPort, dstPort |-> s.layer4.dstPort]
    ELSE [transport |-> "other", srcPort |-> 0, dstPort |-> 0]

PayloadOf(s) ==
    LET at == {i \in DOMAIN s.f.hs : s.f.hs[i].at = s.payload}
    IN  [size |-> s.f.cap - s.payload,
         looks |-> IF at = {} THEN {} ELSE s.f.hs[Min(at)].looks]

\* How many whole units of a fragment's data are behind its header in the capture.
CapturedUnits(front) == Min({front.layer3.fragment.len, (front.f.cap - front.off) \div 8})

\* Whether a fragment completes its datagram.
Completes(front) ==
    LET h == front.layer3
    IN  Complete(Stored(Buffer(KeyOf[h.datagram]), h.datagram, h.fragment, CapturedUnits(front)))

\* The payload is classified and, where its protocol is known, decoded.
Classify(f, s, id, packet, payload) ==
    LET Reported(r) ==
            /\ engine' = r.engine
            /\ heard' = Append(heard, [id |-> id, packet |-> packet, payload |-> payload,
                                       reported |-> r.detected])
            /\ last' = [f |-> f, s |-> s, id |-> id, detected |-> r.detected,
                        layer7 |-> decodeL7(r.detected, packet, f, s.payload)]
    IN  Len(heard) < MaxHeard /\ Reported(detectFlow(engine, id, packet, payload))

\* The flow table and the payload of a packet that went through the pipeline to an end.
Deliver(f, end, s, id) ==
    /\ tracked' = IF Tracked(end) THEN tracked \cup {id} ELSE tracked
    /\ IF Decoding(end) /\ s.payload < f.cap
       THEN Classify(f, s, id, Ported(s), PayloadOf(s))
       ELSE /\ last' = [f |-> f, s |-> s, id |-> id, detected |-> Unknown, layer7 |-> NoMessage]
            /\ UNCHANGED <<engine, heard>>

\* The defragmenter is asked about a packet.
Asked(front) == EnableDefragmentation /\ Fragmentary(front)

\* It throws when totalLength is less than the header: then there is no fragment.
Throws(front) == Asked(front) /\ front.layer3.fragment = None

\* A frame from its fragments on; front is what its headers before them say.
Continue(f, front) ==
    LET h == front.layer3
        Piped(end) == Deliver(f, end, Finished(end), buildFlowId(end))
    IN  /\ ~Throws(front)
        /\ IF Asked(front) THEN process(h.datagram, h.fragment, CapturedUnits(front))
                           ELSE UNCHANGED <<groups, returned, cut>>
        /\ Piped(Pipeline(front, Asked(front) /\ Completes(front)))

\* decode() lets the exception through: there is no packet and no error.
Escape(f, front) ==
    /\ Throws(front)
    /\ processThrows(KeyOf[front.layer3.datagram])
    /\ last' = [f |-> f, s |-> [front EXCEPT !.status = "length_error"], id |-> buildFlowId(front),
                detected |-> Unknown, layer7 |-> NoMessage]
    /\ UNCHANGED <<engine, tracked, heard>>

decode(f) == (Continue(f, Headers(f)) \/ Escape(f, Headers(f))) /\ UNCHANGED capture

DecoderNext == \E f \in capture : decode(f)

DecoderSpec == DecoderInit /\ [][DecoderNext]_decoderVars

-----------------------------------------------------------------------------

\* What the header of a fragment says of it is true, or its totalLength is less than itself:
\* there is such a datagram, with such a fragment if any.
FragmentsAreKnown ==
    \A c \in Captures : \A f \in c :
        LET h == Headers(f).layer3
        IN  Fragmentary(Headers(f)) =>
                h.datagram \in Datagrams /\ h.fragment \in Fragments[h.datagram] \cup {None}

\* The frames of the captures have headers such as packets can hold.
CapturesAreFrames == \A c \in Captures : \A f \in c : IsFrame(f)

\* In each of them the headers are one behind the other.
CapturesAreLaidOut == \A c \in Captures : \A f \in c : LaidOut(f)

Whole(f) == f.cap = Wire(f)

\* The transport header j of a frame lies directly over its network header i.
Over4(f, i, j) == i < j /\ \A k \in (i + 1)..(j - 1) : f.hs[k].kind = "fragment"

\* What of a transport header the decoder must have.
Needed(h) == IF h.kind = "tcp" THEN 4 * h.dataOffset ELSE 8

\* The transport of what a tunnel carries is one the decoder does not follow there, or is cut.
NotFollowed(f, i) ==
    LET j == i + 1
    IN  \/ j > Len(f.hs)
        \/ f.hs[j].kind \notin DOMAIN ProtocolOf
        \/ ~Has(f, f.hs[j].at, Needed(f.hs[j]))

\* No header announces less than itself.
Consistent(f) ==
    \A i \in DOMAIN f.hs : "fragment" \in DOMAIN f.hs[i] => f.hs[i].fragment # None

\* However a frame is encapsulated: captured whole it is not refused, and it belongs to the
\* flow its innermost packet belongs to.
FlowAsSent ==
    last # None /\ Whole(last.f) /\ Consistent(last.f) =>
        last.s.status = "packet" /\ (last.f.flow # None => last.id = last.f.flow)

\* However a frame is encapsulated and wherever its capture ends: addresses and ports
\* never come from different levels, unless a tunnel's inner transport is not followed or
\* is cut.
FlowIdFromOneLevel ==
    last # None =>
        LET f == last.f
            s == last.s
        IN  s.status = "packet" /\ s.layer3.kind \in {"ipv4", "ipv6"} /\ s.layer4.kind \in {"tcp", "udp"} =>
                \E i, j \in DOMAIN f.hs :
                   /\ f.hs[i] = s.layer3 /\ f.hs[j] = s.layer4
                   /\ Over4(f, i, j) \/ (j < i /\ NotFollowed(f, i))

\* Wherever the capture ends, no decoder moves past its end: not those of the layers, though
\* a tunnel goes on from where one has failed and the next would begin there, nor those of
\* the messages, whose headers say how long they are.
StaysInCapture ==
    last # None =>
        /\ last.s.status = "packet" =>
              last.s.off \in 0..last.f.cap /\ last.s.payload \in 0..last.f.cap
        /\ last.layer7.ok => last.layer7.off \in last.s.payload..last.f.cap

\* A plain packet: no tunnel, and not a fragment.
Plain(f) == Cardinality({i \in DOMAIN f.hs : f.hs[i].kind \in {"ipv4", "ipv6"}}) = 1
            /\ \A i \in DOMAIN f.hs : f.hs[i].kind # "fragment"
            /\ ~Fragmentary(Headers(f))

\* An ICMP error can be related to the flow it is about: what it quotes is that flow's id,
\* as the decoder reports it for the packet itself.
QuotedFlow ==
    last # None /\ last.s.layer4.kind \in {"icmp", "icmpv6"} =>
        LET icmp == ReadOne(last.f, last.f.hs[Len(last.f.hs) - 2].at, {"icmp", "icmpv6"})
        IN  last.s.layer4.embedded # None /\ Plain(icmp.about) =>
               last.s.layer4.embedded = buildFlowId(decodeFrame(icmp.about, FALSE))

-----------------------------------------------------------------------------

\* Of what was heard, hs, up to its n-th packet: the packets of that packet's flow.
FlowUpTo(hs, n) == {k \in 1..n : hs[k].id = hs[n].id}

\* A packet that begins a TFTP transfer is the first of its flow to show a protocol. The
\* ports of a flow that is decided are not looked at, though it be one of WebRTC's in
\* which a TFTP packet was found.
Begins(hs, k) ==
    /\ hs[k].reported = "TFTP"
    /\ \A j \in FlowUpTo(hs, k) \ {k} : hs[j].reported = Unknown

\* The ports of the transfers that were begun in front of the n-th packet.
TransferPorts(hs, n) ==
    (UNION {{hs[k].packet.srcPort, hs[k].packet.dstPort} :
            k \in {j \in 1..(n - 1) : Begins(hs, j)}}) \ {69}

\* The protocol the n-th packet shows by itself, or as part of a TFTP transfer that an
\* earlier packet began.
Shows(hs, n) ==
    LET h == hs[n]
    IN  IF detectSingle(h.packet, h.payload) # Unknown THEN detectSingle(h.packet, h.payload)
        ELSE IF h.packet.transport = "udp" /\ h.payload.size >= 4
                /\ "tftp opcode" \in h.payload.looks
                /\ {h.packet.srcPort, h.packet.dstPort} \cap TransferPorts(hs, n) # {}
        THEN "TFTP" ELSE Unknown

\* Those of the first MaxPackets packets of the flow that show a protocol.
Telling(hs, n) ==
    {k \in FlowUpTo(hs, n) : Cardinality(FlowUpTo(hs, k)) <= MaxPackets /\ Shows(hs, k) # Unknown}

\* What the flow of the n-th packet is taken for.
TakenFor(hs, n) ==
    IF Telling(hs, n) = {} THEN Unknown ELSE Shows(hs, Min(Telling(hs, n)))

\* The first protocol that one of the first MaxPackets packets of a flow shows is that of
\* all its later packets; a WebRTC flow is told apart packet by packet, and a flow that
\* shows none in time stays unknown.
DetectsAsHeard ==
    \A n \in DOMAIN heard :
        heard[n].reported =
            IF TakenFor(heard, n) \in Multiplexed
            THEN detectSingle(heard[n].packet, heard[n].payload)
            ELSE TakenFor(heard, n)

\* A message that was captured whole is decoded to what its sender put in it: names
\* through their compression, options past their padding, records of every section.
MessagesRestored ==
    last # None /\ Whole(last.f) /\ last.f.says # None =>
        last.layer7.ok /\ last.layer7.hdr = last.f.says

\* Of a message that the capture cut nothing is reported that its sender did not put
\* there, apart from a last string or number that is cut short or empty. NBNS is left
\* out: behind a name that is cut it takes bytes of the name for the question's fields.
CutInventsNothing ==
    last # None /\ last.layer7.ok /\ last.f.says # None /\ last.detected # "NBNS" =>
        IsPrefix(SelectSeq(last.layer7.hdr, LAMBDA item : item # None), last.f.says)
=============================================================================
