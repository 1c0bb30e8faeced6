----------------------------- MODULE Detection ------------------------------
(***************************************************************************)
(* The protocol detection engine (src/src/detection.cpp). A payload is     *)
(* [size, looks]: how long it is and which of the patterns the engine      *)
(* compares its first bytes with it shows. A packet is the transport and   *)
(* the ports that were decoded.                                            *)
(***************************************************************************)
EXTENDS Integers, Sequences, SequencesExt, FiniteSetsExt

CONSTANT MaxPackets      \* detectFlow's maxPackets, 10 by default

\* The first packet of a flow is looked at.
ASSUME DetectionAssumption == MaxPackets \in Nat \ {0}

Unknown == "Unknown"

Anything == {"tcp", "udp", "other"}

AnyPort == 0..65535

Anywhere(proto, over, size, look) ==
    [proto |-> proto, over |-> over, ports |-> AnyPort, size |-> size, look |-> look]

On(ports, rule) == [rule EXCEPT !.ports = ports]

\* The patterns a rule can ask for beyond the size: "any" asks for nothing.
Rule(proto, over, ports, size, look) == On(ports, Anywhere(proto, over, size, look))

-----------------------------------------------------------------------------
(* The rules in the order in which they are tried. *)

NameAndWebRules == <<
    Rule("MDNS", {"udp"}, {5353}, 12, "any"),
    Rule("LLMNR", {"udp"}, {5355}, 12, "any"),
    Rule("DNS", Anything, {53}, 12, "any"),
    Rule("HTTP", Anything, {80, 8080}, 4, "http")>>

\* The protocols of a WebRTC flow, told apart by their first byte.
MultiplexedRules == <<
    Anywhere("STUN", {"udp"}, 20, "stun"),
    Anywhere("DTLS", {"udp"}, 13, "dtls"),
    Anywhere("RTCP", {"udp"}, 8, "rtcp")>>

SecureRules == <<
    Rule("QUIC", {"udp"}, {443}, 1, "long header"),
    Rule("TLS", {"tcp"}, {443}, 5, "tls record")>>

\* FTP answers and commands; of the others the usual first lines.
TextRules == <<
    Rule("FTP", {"tcp"}, {21}, 4, "ftp"),
    Rule("SSH", {"tcp"}, {22}, 4, "ssh"),
    Rule("Telnet", {"tcp"}, {23}, 1, "any"),
    Rule("SMTP", {"tcp"}, {25, 587}, 4, "smtp greeting"),
    Rule("POP3", {"tcp"}, {110}, 3, "pop3 greeting"),
    Rule("IMAP", {"tcp"}, {143}, 4, "imap greeting")>>

BinaryRules == <<
    Rule("BGP", {"tcp"}, {179}, 19, "marker"),
    Rule("RDP", {"tcp"}, {3389}, 7, "tpkt"),
    Rule("LDAP", {"tcp"}, {389}, 2, "sequence")>>

LocalRules == <<
    Rule("SSDP", {"udp"}, {1900}, 4, "ssdp"),
    Rule("SrvLoc", Anything, {427}, 5, "srvloc version"),
    Rule("NBNS", {"udp"}, {137}, 12, "any"),
    Rule("NBDGM", {"udp"}, {138}, 10, "any"),
    Rule("SMB", {"tcp"}, {445}, 4, "smb"),
    Rule("SMB", {"tcp"}, {139}, 8, "session smb"),
    Rule("RTMP", {"tcp"}, {1935}, 1, "any"),
    Rule("DbLanSyncDisc", {"udp"}, {17500}, 2, "json")>>

InfrastructureRules == <<
    Rule("NTP", {"udp"}, {123}, 48, "ntp"),
    Rule("DHCP", {"udp"}, {67, 68}, 240, "dhcp cookie"),
    Rule("DHCPv6", {"udp"}, {546, 547}, 4, "dhcpv6 type"),
    Rule("TFTP", {"udp"}, {69}, 4, "tftp opcode"),
    Rule("SNMP", {"udp"}, {161, 162}, 2, "sequence")>>

PortlessRules == <<
    Anywhere("TLS", Anything, 5, "tls version"),
    Anywhere("HTTP", Anything, 4, "http method"),
    Anywhere("QUIC", {"udp"}, 5, "quic version"),
    Anywhere("SSH", Anything, 4, "ssh"),
    Anywhere("BGP", Anything, 19, "bgp type")>>

Rules == NameAndWebRules \o MultiplexedRules \o SecureRules \o TextRules \o BinaryRules
         \o LocalRules \o InfrastructureRules \o PortlessRules

Fits(rule, packet, payload) ==
    /\ packet.transport \in rule.over
    /\ packet.srcPort \in rule.ports \/ packet.dstPort \in rule.ports
    /\ payload.size >= rule.size
    /\ rule.look \in payload.looks \cup {"any"}

\* The first rule that fits.
detectSingle(packet, payload) ==
    LET i == SelectInSeq(Rules, LAMBDA rule : Fits(rule, packet, payload))
    IN  IF i = 0 THEN Unknown ELSE Rules[i].proto

-----------------------------------------------------------------------------
(* The engine: [flowStates, tftpPorts]. Neither is ever cleaned up. *)

EmptyEngine == [flowStates |-> <<>>, tftpPorts |-> {}]

NewFlowState == [packetsSeen |-> 0, result |-> Unknown, decided |-> FALSE]

FlowStateOf(engine, id) ==
    IF id \in DOMAIN engine.flowStates THEN engine.flowStates[id] ELSE NewFlowState

SetFlowState(engine, id, st) ==
    [engine EXCEPT !.flowStates = [k \in DOMAIN @ \cup {id} |-> IF k = id THEN st ELSE @[k]]]

Multiplexed == {"STUN", "DTLS", "RTCP"}

\* A packet on a port that a TFTP transfer was seen to use.
FollowsTftp(engine, packet, payload) ==
    /\ packet.transport = "udp"
    /\ packet.srcPort \in engine.tftpPorts \/ packet.dstPort \in engine.tftpPorts
    /\ payload.size >= 4
    /\ "tftp opcode" \in payload.looks

\* What the rules and the TFTP transfers say of a packet of an undecided flow.
Examined(engine, packet, payload) ==
    LET OrTftp(single) ==
            IF single = Unknown /\ FollowsTftp(engine, packet, payload) THEN "TFTP" ELSE single
    IN  OrTftp(detectSingle(packet, payload))

\* Mutant of Learned: the flow is given up one packet too late.
LearnedLate(engine, id, packet, found) ==
    LET seen == FlowStateOf(engine, id).packetsSeen + 1
        ports == IF found = "TFTP" THEN {packet.srcPort, packet.dstPort} \ {69} ELSE {}
    IN  [SetFlowState(engine, id, [packetsSeen |-> seen, result |-> found,
                                   decided |-> found # Unknown \/ seen > MaxPackets])
         EXCEPT !.tftpPorts = @ \cup ports]

\* The engine after a packet of an undecided flow: the first protocol found decides,
\* and so does a number of packets in which none was.
Learned(engine, id, packet, found) ==
    LET seen == FlowStateOf(engine, id).packetsSeen + 1
        ports == IF found = "TFTP" THEN {packet.srcPort, packet.dstPort} \ {69} ELSE {}
    IN  [SetFlowState(engine, id, [packetsSeen |-> seen, result |-> found,
                                   decided |-> found # Unknown \/ seen >= MaxPackets])
         EXCEPT !.tftpPorts = @ \cup ports]

\* detectFlow as [detected, engine]. A decided flow keeps its protocol, but WebRTC's
\* protocols are told apart packet by packet.
detectFlow(engine, id, packet, payload) ==
    LET st == FlowStateOf(engine, id)
        Undecided(found) == [detected |-> found, engine |-> Learned(engine, id, packet, found)]
    IN  IF ~st.decided THEN Undecided(Examined(engine, packet, payload))
        ELSE [detected |-> IF st.result \in Multiplexed THEN detectSingle(packet, payload)
                                                       ELSE st.result,
              engine |-> engine]
=============================================================================
