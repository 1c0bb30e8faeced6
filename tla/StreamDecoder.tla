---------------------------- MODULE StreamDecoder ----------------------------
(***************************************************************************)
(* What PacketDecoder does with the two byte streams of a TCP conversation *)
(* (src/src/decoder.cpp, the stream path of decode): a buffer per          *)
(* direction that grows by what the reassembler returns and shrinks by     *)
(* what a decoder consumes, the detection engine, and the modes of SMTP    *)
(* and POP3, which one direction sets for the other.                       *)
(* A stream is the row of headers that its side sends, and what it means   *)
(* is the list of items that a decoder should report. It consists of parts *)
(* [start, end, items, lead, clean]: where the part is, how many items     *)
(* there are up to its end, whether a message begins with it, and whether  *)
(* nothing comes behind it that no decoder consumes.                       *)
(***************************************************************************)
EXTENDS StreamMessages, Detection

CONSTANTS
    Conversations,       \* the conversations one of which is decoded, by name
    MaxL7StreamBytes     \* PacketDecoderConfig::maxL7StreamBytes

ASSUME StreamAssumption == MaxL7StreamBytes \in Nat

Sides == {"client", "server"}

Other(side) == IF side = "client" THEN "server" ELSE "client"

VARIABLES
    conv,        \* the conversation
    arrived,     \* how much of each stream the reassembler has returned
    from,        \* where L7StreamState::buffer begins; it ends at arrived
    proto,       \* L7StreamState::detected, Unknown while detectionDone is false
    engine,      \* Impl::detector
    dataMode,    \* the sides with inDataMode in smtpStates or pop3States
    pending,     \* the sides with pendingMultiline in pop3States
    decoded,     \* history: the items reported of each side
    lost,        \* history: the sides of which bytes were dropped
    latest       \* history: the side of the latest segment, and what became of it

vars == <<conv, arrived, from, proto, engine, dataMode, pending, decoded, lost, latest>>

-----------------------------------------------------------------------------
(* The conversation: its port, whether its sides take turns, and by side   *)
(* the stream, what it says, its parts, what they wait for, where segments *)
(* may end, and the first content.                                         *)

\* The stream of a side as far as it has come.
Stream(side, end) == [hs |-> conv.stream[side], cap |-> end]

Packet(side) ==
    [transport |-> "tcp",
     srcPort |-> IF side = "client" THEN 50000 ELSE conv.port,
     dstPort |-> IF side = "client" THEN conv.port ELSE 50000]

\* What a side may have sent by now: after <<n, there>> it sends the bytes behind n only
\* when the other side's first there bytes have come.
Sendable(side) ==
    {n \in conv.cuts[side] :
        /\ n > arrived[side]
        /\ \A k \in DOMAIN conv.after[side] :
              LET wait == conv.after[side][k] IN n > wait[1] => arrived[Other(side)] >= wait[2]}

Init ==
    /\ \E name \in DOMAIN Conversations : conv = Conversations[name]
    /\ arrived = [s \in Sides |-> 0]
    /\ from = [s \in Sides |-> 0]
    /\ proto = [s \in Sides |-> Unknown]
    /\ engine = EmptyEngine
    /\ dataMode = {}
    /\ pending = {}
    /\ decoded = [s \in Sides |-> <<>>]
    /\ lost = {}
    /\ latest = None

-----------------------------------------------------------------------------
(* One segment *)

\* Mutant of Overflows: only what is there already is held against the limit.
OverflowsAlready(side, end) == arrived[side] - from[side] > MaxL7StreamBytes

Overflows(side, end) == end - from[side] > MaxL7StreamBytes

\* The engine is asked, with the whole buffer, until it knows the protocol.
Detected(side, end) ==
    LET at == {i \in DOMAIN conv.stream[side] : conv.stream[side][i].at = from[side]}
        payload == [size |-> end - from[side],
                    looks |-> IF at = {} THEN {} ELSE conv.stream[side][Min(at)].looks]
    IN  IF proto[side] # Unknown THEN [detected |-> proto[side], engine |-> engine]
        ELSE detectFlow(engine, side, Packet(side), payload)

Suppressed(side, known) == known \in {"SMTP", "POP3"} /\ side \in dataMode

\* Mutant of Terminated: the latest segment is searched instead of the buffer.
TerminatedInSegment(side, end) ==
    \E i \in DOMAIN conv.stream[side] :
        LET h == conv.stream[side][i]
        IN  /\ h.value = "." /\ h.at + h.len <= end
            /\ h.at = arrived[side] \/ h.at - 2 >= arrived[side]

\* The buffer starts with a line of one dot, or has one behind a line.
Terminated(side, end) ==
    \E i \in DOMAIN conv.stream[side] :
        LET h == conv.stream[side][i]
        IN  /\ h.value = "." /\ h.at + h.len <= end
            /\ h.at = from[side] \/ h.at - 2 >= from[side]

\* RETR and TOP, and LIST and UIDL without an argument.
Multiline == {"RETR", "TOP", "LIST", "UIDL"}

\* Mutant of NextModes: an error answers a multi-line command, too.
NextModesAnyAnswer(side, known, says) ==
    /\ dataMode' = IF known = "SMTP" /\ says = "354" THEN dataMode \cup {Other(side)}
                   ELSE IF known = "POP3" /\ says \in {"+OK", "-ERR"} /\ side \in pending
                   THEN dataMode \cup {side}
                   ELSE dataMode
    /\ pending' = IF known = "POP3" /\ says \in Multiline THEN pending \cup {Other(side)}
                  ELSE IF known = "POP3" /\ says \in {"+OK", "-ERR"} THEN pending \ {side}
                  ELSE pending

\* What a message of one side means for what comes from the sides: 354 opens the other
\* side's mail, a positive answer to a multi-line command this side's lines.
NextModes(side, known, says) ==
    /\ dataMode' = IF known = "SMTP" /\ says = "354" THEN dataMode \cup {Other(side)}
                   ELSE IF known = "POP3" /\ says = "+OK" /\ side \in pending THEN dataMode \cup {side}
                   ELSE dataMode
    /\ pending' = IF known = "POP3" /\ says \in Multiline THEN pending \cup {Other(side)}
                  ELSE IF known = "POP3" /\ says \in {"+OK", "-ERR"} THEN pending \ {side}
                  ELSE pending

\* FIN or RST with payload forgets the stream, not the modes.
Kept(side, known, off, end, fin) ==
    /\ from' = [from EXCEPT ![side] = IF fin THEN end ELSE off]
    /\ proto' = [proto EXCEPT ![side] = IF fin THEN Unknown ELSE known]

\* The buffer would grow beyond the limit: it is dropped, and so is the segment.
Drop(side, end) ==
    /\ Overflows(side, end)
    /\ Kept(side, Unknown, end, end, FALSE)
    /\ lost' = lost \cup {side}
    /\ latest' = [side |-> side, outcome |-> "dropped"]
    /\ UNCHANGED <<engine, dataMode, pending, decoded>>

\* In data mode nothing is decoded, and nothing consumed.
Suppress(side, end, fin, known) ==
    /\ Suppressed(side, known)
    /\ dataMode' = IF Terminated(side, end) THEN dataMode \ {side} ELSE dataMode
    /\ Kept(side, known, from[side], end, fin)
    /\ latest' = [side |-> side, outcome |-> "suppressed"]
    /\ UNCHANGED <<pending, decoded>>

\* One message of the buffer is decoded and consumed, or nothing happens to it; r is
\* what the protocol's decoder says.
Decode(side, end, fin, known, r) ==
    /\ ~Suppressed(side, known)
    /\ IF r.ok
       THEN /\ decoded' = [decoded EXCEPT ![side] = @ \o r.hdr]
            /\ NextModes(side, known, IF r.hdr = <<>> THEN None ELSE r.hdr[1])
            /\ Kept(side, known, r.off, end, fin)
       ELSE /\ Kept(side, known, from[side], end, fin)
            /\ UNCHANGED <<decoded, dataMode, pending>>
    /\ latest' = [side |-> side, outcome |-> IF r.ok THEN "decoded" ELSE "waiting"]

\* The buffer takes the segment; d is what the detection engine says.
Take(side, end, fin, d) ==
    /\ ~Overflows(side, end)
    /\ engine' = d.engine
    /\ \/ Suppress(side, end, fin, d.detected)
       \/ Decode(side, end, fin, d.detected,
                 decodeL7(d.detected, Packet(side), Stream(side, end), from[side]))
    /\ UNCHANGED lost

\* The reassembler returns the next bytes of a side. The last may come with a FIN.
Arrive(side) ==
    \E end \in Sendable(side), fin \in BOOLEAN :
        /\ fin => \A n \in conv.cuts[side] : n <= end
        /\ Drop(side, end) \/ Take(side, end, fin, Detected(side, end))
        /\ arrived' = [arrived EXCEPT ![side] = end]
        /\ UNCHANGED conv

Next == \E side \in Sides : Arrive(side)

Spec == Init /\ [][Next]_vars

-----------------------------------------------------------------------------

\* The streams of the conversations have headers such as messages can hold.
ConversationsAreFrames ==
    \A name \in DOMAIN Conversations : \A side \in Sides :
        /\ Conversations[name].cuts[side] \subseteq Nat
        /\ \A i \in DOMAIN Conversations[name].stream[side] :
              WellFormed(Conversations[name].stream[side][i])

\* The items of a side up to the first message behind which something is left.
FollowedOf(c, side) == Min({p.items : p \in {q \in c.parts[side] : ~q.clean}} \cup {Len(c.says[side])})

-----------------------------------------------------------------------------
(* The conversations of protocols of which a message is one header: a      *)
(* line, a header that says how long the message is, or a header of which  *)
(* the body stays.                                                         *)

\* The ports a protocol is looked for on, its headers, and how long they are at least.
MessageOf ==
    [FTP |-> [ports |-> {21}, kind |-> "line", least |-> 3],
     SMTP |-> [ports |-> {25, 587}, kind |-> "line", least |-> 3],
     POP3 |-> [ports |-> {110}, kind |-> "line", least |-> 3],
     IMAP |-> [ports |-> {143}, kind |-> "line", least |-> 3],
     SSH |-> [ports |-> {22}, kind |-> "banner", least |-> 8],
     SMB |-> [ports |-> {139, 445}, kind |-> "smb", least |-> 4],
     RTMP |-> [ports |-> {1935}, kind |-> "handshake", least |-> 1],
     BGP |-> [ports |-> {179}, kind |-> "bgp", least |-> 19],
     RDP |-> [ports |-> {3389}, kind |-> "tpkt", least |-> 11]]

\* The part is the message of this header, as long as the header says; item is what it says.
IsMessageOf(h, name, port, p, item) ==
    LET size == IF name \in {"BGP", "RDP"} THEN h.length ELSE IF name = "RTMP" THEN 1 ELSE h.len
    IN  /\ h.kind = MessageOf[name].kind
        /\ h.at = IF port = 139 THEN p.start + 4 ELSE p.start
        /\ p.end = h.at + size
        /\ size >= IF name = "BGP" /\ h.value = "OPEN" THEN 29 ELSE MessageOf[name].least
        /\ name = "IMAP" => h.spaced
        /\ item = IF name = "RTMP" THEN "handshake" ELSE h.value

IsMessage(c, side, name, p) ==
    \E i \in DOMAIN c.stream[side] :
        IsMessageOf(c.stream[side][i], name, c.port, p, c.says[side][p.items])

\* Where the first k messages of a side end.
MessageEnds(c, side, k) ==
    IF k = 0 THEN {0} ELSE {p.end : p \in {q \in c.parts[side] : q.lead /\ q.items = k}}

\* What the sides send is such messages, and up to the first behind which something is left
\* nothing else; nothing in it looks like another protocol that is known on any port.
OfProtocol(c, name) ==
    /\ c.port \in MessageOf[name].ports
    /\ \A side \in Sides :
        LET hs == c.stream[side]
        IN  /\ hs \in Seq(Range(hs)) /\ c.says[side] \in Seq(Range(c.says[side]))
            /\ \A i, j \in DOMAIN hs : i < j => hs[i].len > 0 /\ hs[i].at + hs[i].len <= hs[j].at
            /\ \A i \in DOMAIN hs, rule \in Range(PortlessRules) :
                  rule.look \in hs[i].looks => rule.proto = name
            /\ \A p \in c.parts[side] :
                  /\ p.start \in Nat /\ p.end \in Nat /\ p.items \in 0..Len(c.says[side])
                  /\ p.lead => IsMessage(c, side, name, p)
            /\ \A k \in 1..FollowedOf(c, side) : \A n \in MessageEnds(c, side, k - 1) :
                  \E p \in c.parts[side] : p.lead /\ p.items = k /\ p.start = n

OfMessages(c) == \E name \in DOMAIN MessageOf : OfProtocol(c, name)

-----------------------------------------------------------------------------

Followed(side) == FollowedOf(conv, side)

\* Of these how many have come, and how many were reported.
Come(side) == Min({Followed(side), Max({0} \cup {p.items : p \in {q \in conv.parts[side] : q.end <= arrived[side]}})})

Reported(side) == Min({Followed(side), Len(decoded[side])})

\* However a stream is cut into segments, its messages are reported in order, once, as
\* they were sent and not before they have come, up to the first one with content or a
\* body, which the decoder leaves in the buffer, and as long as nothing was dropped.
DecodedAsSent ==
    \A side \in Sides : side \notin lost =>
        /\ Reported(side) <= Come(side)
        /\ SubSeq(decoded[side], 1, Reported(side)) = SubSeq(conv.says[side], 1, Reported(side))

\* A segment does not leave a whole message at the front of the buffer, unless it already
\* reported one; of TLS it leaves none in any case.
CompleteHeadDecoded ==
    latest # None =>
        LET side == latest.side
        IN  \/ proto[side] = Unknown \/ latest.outcome \in {"dropped", "suppressed"}
            \/ latest.outcome = "decoded" /\ proto[side] # "TLS"
            \/ \A p \in conv.parts[side] : ~(p.lead /\ p.start = from[side] /\ p.end <= arrived[side])

\* Where the sides take turns with one message each, and with TLS always, all that has
\* come has been reported: one decoding per segment is enough.
CaughtUp ==
    \A side \in Sides :
        (conv.inTurns \/ proto[side] = "TLS") /\ proto[side] # Unknown /\ side \notin lost =>
            Reported(side) = Come(side)

Opened(content) == Len(decoded[content.by]) >= content.item

\* Where the sides take turns, content is suppressed from the answer that announces it to
\* the line that ends it, and nothing before the answer or without it.
ModeFollowsDialogue ==
    conv.inTurns /\ lost = {} =>
        \A side \in Sides :
            LET content == conv.content[side]
                announced == content # None /\ Opened(content)
            IN  /\ side \in dataMode => announced
                /\ announced /\ arrived[side] < content.end => side \in dataMode

\* A buffer holds no more than the limit, and no decoder consumes more than it holds.
BufferWithinLimit == \A side \in Sides : arrived[side] - from[side] \in 0..MaxL7StreamBytes

\* A conversation in turns gets out of suppression, wherever the line that ends the content
\* is cut, unless it is dropped: when both sides have said all, nobody is in it.
SuppressionEnds ==
    conv.inTurns /\ lost = {} /\ (\A side \in Sides : Sendable(side) = {}) => dataMode = {}

\* Where the sides take turns, the lines of a list or a mail that a POP3 server sends are
\* never reported as messages of their own.
ContentSuppressed ==
    conv.inTurns => \A k \in DOMAIN decoded["server"] : decoded["server"][k] # "content"
=============================================================================
