-------------------------- MODULE MCStreamDecoder ---------------------------
(* The conversations of StreamDecoder for TLC. Segments end after the first    *)
(* byte of a header, before its last byte, or with it.                         *)
EXTENDS StreamDecoder

Header(kind, len, fields) ==
    fields @@ [kind |-> kind, len |-> len, used |-> len, looks |-> {}, spaced |-> FALSE, value |-> "other"]

\* What a turn consists of: a message, or content that is none.
Unit(hs, says, clean) == [hs |-> hs, says |-> says, lead |-> says # <<>>, clean |-> clean]

Turn(side, units) == [side |-> side, units |-> units]

Says(side, h) == Turn(side, <<Unit(<<h>>, <<h.value>>, TRUE)>>)

\* The units of a side in the first n turns, and the headers and the size of units.
UnitsOf(turns, side, n) ==
    FlattenSeq([i \in 1..n |-> IF turns[i].side = side THEN turns[i].units ELSE <<>>])

HeadersOf(units) == FlattenSeq([i \in DOMAIN units |-> units[i].hs])

SizeOf(units) == LET hs == HeadersOf(units) IN Total([i \in DOMAIN hs |-> hs[i].len])

\* A conversation of turns. The sides in ahead do not wait for the other side.
Conversation(port, inTurns, ahead, content, turns) ==
    LET all == [s \in Sides |-> UnitsOf(turns, s, Len(turns))]
        hs == [s \in Sides |-> HeadersOf(all[s])]
        laid == [s \in Sides |-> [i \in DOMAIN hs[s] |->
                    [at |-> Total([j \in 1..(i - 1) |-> hs[s][j].len])] @@ hs[s][i]]]
        says(s, n) == FlattenSeq([i \in 1..n |-> all[s][i].says])
        parts == [s \in Sides |->
                    {[start |-> SizeOf(SubSeq(all[s], 1, i - 1)), end |-> SizeOf(SubSeq(all[s], 1, i)),
                      items |-> Len(says(s, i)), lead |-> all[s][i].lead, clean |-> all[s][i].clean] :
                     i \in DOMAIN all[s]}]
        waits(s) == [i \in DOMAIN turns |->
                       IF turns[i].side = s /\ s \notin ahead
                       THEN <<SizeOf(UnitsOf(turns, s, i - 1)), SizeOf(UnitsOf(turns, Other(s), i - 1))>>
                       ELSE <<0, 0>>]
        ends(h) == {h.at + 1, h.at + h.len - 1, h.at + h.len} \ {0}
    IN  [port |-> port, inTurns |-> inTurns, stream |-> laid, parts |-> parts,
         says |-> [s \in Sides |-> says(s, Len(all[s]))],
         after |-> [s \in Sides |-> waits(s)],
         cuts |-> [s \in Sides |-> UNION {ends(laid[s][i]) : i \in DOMAIN laid[s]}],
         content |-> [s \in Sides |->
            IF content # None /\ content.side = s
            THEN [by |-> content.by, item |-> content.item, end |-> SizeOf(UnitsOf(turns, s, content.turn))]
            ELSE None]]

NoContent == None

-----------------------------------------------------------------------------
(* Mail *)

\* A line of two characters, or more, and CRLF.
Line(value, look) == Header("line", 5, [value |-> value, looks |-> {look}])
Dot == Header("line", 3, [value |-> "."])
Content == Header("line", 4, [value |-> "content"])

Mail == Turn("client", <<Unit(<<Content, Content, Dot>>, <<>>, TRUE)>>)

\* A command or an answer behind which content follows.
Announces(side, h) == Turn(side, <<Unit(<<h>>, <<h.value>>, FALSE)>>)

\* A message, and behind it what is none.
With(side, hs, says, rest) == Turn(side, <<Unit(hs, <<says>>, FALSE), Unit(rest, <<>>, TRUE)>>)

Smtp(ahead) == Conversation(25, ahead = {}, ahead, [side |-> "client", by |-> "server", item |-> 3, turn |-> 6], <<
    Says("server", Line("220", "smtp greeting")), Says("client", Line("EHLO", "smtp greeting")),
    Says("server", Line("250", "smtp greeting")), Announces("client", Line("DATA", "other")),
    Says("server", Line("354", "other")), Mail,
    Says("server", Line("250", "smtp greeting")), Says("client", Line("QUIT", "other"))>>)

Pop3(ahead) == Conversation(110, ahead = {}, ahead, [side |-> "server", by |-> "server", item |-> 3, turn |-> 5], <<
    Says("server", Line("+OK", "pop3 greeting")), Says("client", Line("USER", "pop3 greeting")),
    Says("server", Line("+OK", "pop3 greeting")), Says("client", Line("LIST", "other")),
    With("server", <<Line("+OK", "pop3 greeting")>>, "+OK", <<Content, Content, Dot>>),
    Says("client", Line("NOOP", "other")), Says("server", Line("+OK", "pop3 greeting")),
    Says("client", Line("QUIT", "other")), Says("server", Line("+OK", "pop3 greeting"))>>)

\* The multi-line command fails, a later one does not.
Pop3Error == Conversation(110, TRUE, {}, [side |-> "server", by |-> "server", item |-> 4, turn |-> 7], <<
    Says("server", Line("+OK", "pop3 greeting")), Says("client", Line("USER", "pop3 greeting")),
    Says("server", Line("-ERR", "pop3 greeting")), Says("client", Line("RETR", "other")),
    Says("server", Line("-ERR", "pop3 greeting")), Says("client", Line("TOP", "other")),
    With("server", <<Line("+OK", "pop3 greeting")>>, "+OK", <<Dot>>),
    Says("client", Line("LIST 1", "other")), Says("server", Line("+OK", "pop3 greeting")),
    Says("client", Line("QUIT", "other")), Says("server", Line("+OK", "pop3 greeting"))>>)

\* The client's first line is none that the engine knows.
Imap == Conversation(143, TRUE, {}, NoContent, <<
    Says("server", Header("line", 6, [value |-> "* OK", looks |-> {"imap greeting"}, spaced |-> TRUE])),
    Says("client", Header("line", 7, [value |-> "LOGIN", spaced |-> TRUE])),
    Says("server", Header("line", 7, [value |-> "OK", spaced |-> TRUE])),
    Says("client", Header("line", 7, [value |-> "LOGOUT", spaced |-> TRUE])),
    Says("server", Header("line", 7, [value |-> "BYE", spaced |-> TRUE]))>>)

Ftp == Conversation(21, TRUE, {}, NoContent, <<
    Says("server", Line("220", "ftp")), Says("client", Line("USER", "ftp")),
    Says("server", Line("331", "ftp")), Says("client", Line("PASS", "ftp")),
    Says("server", Line("230", "ftp")), Says("client", Line("QUIT", "ftp"))>>)

\* An answer of several lines, and commands sent ahead.
FtpAhead == Conversation(21, FALSE, {"client"}, NoContent, <<
    Turn("server", <<Unit(<<Line("220-", "ftp")>>, <<"220-">>, TRUE), Unit(<<Line("220", "ftp")>>, <<"220">>, TRUE)>>),
    Turn("client", <<Unit(<<Line("USER", "ftp")>>, <<"USER">>, TRUE), Unit(<<Line("PASS", "ftp")>>, <<"PASS">>, TRUE)>>),
    Says("server", Line("331", "ftp")), Says("server", Line("230", "ftp"))>>)

-----------------------------------------------------------------------------
(* Others *)

Body(n) == Header("data", n, <<>>)

Record(type, length, look) == Header("tls", 5, [value |-> type, length |-> length, looks |-> {look}])

HelloHeaders == <<Record("hello", 22, "tls record"), Header("hello", 6, <<>>),
                  Header("suites", 4, [value |-> "suites"]), Header("compression", 2, <<>>),
                  Header("data", 2, <<>>), Header("extension", 8, [value |-> "sni"])>>

Sealed(type, n) == Unit(<<Record(type, n, "tls record"), Body(n)>>, <<type>>, TRUE)

Tls == Conversation(443, FALSE, {}, NoContent, <<
    Turn("client", <<Unit(HelloHeaders, <<"hello", "suites", "sni">>, TRUE)>>),
    Turn("server", <<Unit(HelloHeaders, <<"hello", "suites", "sni">>, TRUE), Sealed("certificate", 3),
                     Sealed("done", 0)>>),
    Turn("client", <<Sealed("key", 2), Sealed("change", 1), Sealed("data", 4)>>)>>)

HttpLine(value) == Header("start line", 6, [value |-> value, looks |-> {"http", "http method"}])
Field(value) == Header("line", 6, [value |-> value])

Blank == Header("blank", 2, <<>>)

Http == Conversation(8081, TRUE, {}, NoContent, <<
    With("client", <<HttpLine("GET")>>, "GET", <<Field("host"), Blank>>),
    With("server", <<HttpLine("200")>>, "200", <<Field("length"), Blank, Body(4)>>),
    With("client", <<HttpLine("PUT")>>, "PUT", <<Blank, Body(4)>>)>>)

Bgp_(type, n, size) == Turn(size, <<Unit(<<Header("bgp", 19, [value |-> type, length |-> 19 + n, looks |-> {"marker"}]),
                                         Body(n)>>, <<type>>, TRUE)>>)

Bgp == Conversation(179, TRUE, {}, NoContent, <<
    Bgp_("OPEN", 10, "client"), Bgp_("OPEN", 10, "server"), Bgp_("KEEPALIVE", 1, "client"),
    Bgp_("UPDATE", 4, "server"), Bgp_("KEEPALIVE", 1, "client")>>)

Rdp == Conversation(3389, TRUE, {}, NoContent, <<
    Turn("client", <<Unit(<<Header("tpkt", 11, [value |-> "request", length |-> 19, looks |-> {"tpkt"}]), Body(8)>>,
                          <<"request">>, TRUE)>>),
    Turn("server", <<Unit(<<Header("tpkt", 11, [value |-> "confirm", length |-> 15, looks |-> {"tpkt"}]), Body(4)>>,
                          <<"confirm">>, TRUE)>>)>>)

DnsMessage(says) == Unit(<<Header("dns length", 2, [length |-> 22]),
    Header("dns", 12, [entries |-> <<"question">>]), Header("label", 5, [value |-> "www"]),
    Header("root", 1, <<>>), Header("question", 4, [value |-> says])>>, <<<<"question", <<"www">>, says>>>>, TRUE)

Dns == Conversation(53, TRUE, {}, NoContent, <<
    Turn("client", <<DnsMessage("A")>>), Turn("server", <<DnsMessage("A")>>), Turn("client", <<DnsMessage("MX")>>)>>)

Banner(side) == <<Header("banner", 9, [value |-> side, looks |-> {"ssh"}])>>

\* The banner, and then what no decoder knows.
Ssh == Conversation(22, TRUE, {}, NoContent, <<
    With("server", Banner("server"), "server", <<Body(12)>>), With("client", Banner("client"), "client", <<Body(6)>>)>>)

SmbHeader(value, session) == session \o <<Header("smb", 32, [value |-> value, looks |-> {"smb"}])>>

Smb(port, session) == Conversation(port, TRUE, {}, NoContent, <<
    With("client", SmbHeader("negotiate", session), "negotiate", <<Body(3)>>),
    With("server", SmbHeader("negotiated", session), "negotiated", <<Body(3)>>)>>)

C0 == <<Header("handshake", 1, <<>>)>>

Rtmp == Conversation(1935, TRUE, {}, NoContent, <<
    With("client", C0, "handshake", <<Body(10)>>), With("server", C0, "handshake", <<Body(10)>>)>>)

Char(c) == Unit(<<Header("text", 1, [value |-> c])>>, <<c>>, TRUE)
Command(n) == Unit(<<Header("command", n, [value |-> "will"])>>, <<"will">>, TRUE)

Telnet == Conversation(23, FALSE, {}, NoContent, <<
    Turn("server", <<Command(3), Char("l"), Char("o"), Command(2)>>),
    Turn("client", <<Char("m"), Command(3), Char("e")>>)>>)

\* A first line that is longer than the buffer, and another one.
Long == Conversation(21, TRUE, {}, NoContent, <<
    Says("client", [Line("USER", "ftp") EXCEPT !.len = 60, !.used = 60]), Says("client", Line("PASS", "ftp"))>>)

MCConversations ==
    [smtp |-> Smtp({}), smtpAhead |-> Smtp({"client"}), pop3 |-> Pop3({}), pop3Ahead |-> Pop3({"client"}),
     pop3Error |-> Pop3Error, imap |-> Imap, ftp |-> Ftp, ftpAhead |-> FtpAhead, tls |-> Tls, http |-> Http,
     bgp |-> Bgp, rdp |-> Rdp, dns |-> Dns, ssh |-> Ssh, smb |-> Smb(445, <<>>),
     session |-> Smb(139, <<Header("session", 4, [looks |-> {"session smb"}])>>),
     rtmp |-> Rtmp, telnet |-> Telnet, long |-> Long]

ASSUME ConversationsAssumption == ConversationsAreFrames

\* All but those of which a message has several headers.
ASSUME MessagesAssumption ==
    \A name \in DOMAIN MCConversations \ {"tls", "http", "dns", "telnet"} : OfMessages(MCConversations[name])
=============================================================================
