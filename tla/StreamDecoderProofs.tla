------------------------- MODULE StreamDecoderProofs --------------------------
(***************************************************************************)
(* What holds of the buffers of a TCP conversation for any conversation,   *)
(* any way of cutting its streams into segments and any limit, whatever    *)
(* protocol is detected and however little of a message is there. And of   *)
(* a conversation whose messages are one header each: what is reported is  *)
(* what was said, in order and once.                                       *)
(***************************************************************************)
EXTENDS StreamDecoder, DecoderBounds

-----------------------------------------------------------------------------

\* The conversation is one of the conversations.
KnownConversation == \E name \in DOMAIN Conversations : conv = Conversations[name]

\* A buffer begins in what has come of its stream, and is within the limit.
BuffersType == arrived \in [Sides -> Nat] /\ from \in [Sides -> Nat]

Buffered == KnownConversation /\ BuffersType /\ BufferWithinLimit

\* What a decoder is given is a frame.
LEMMA StreamIsFrame ==
    ASSUME ConversationsAreFrames, KnownConversation, NEW side \in Sides, NEW end \in Nat
    PROVE  IsFrame(Stream(side, end)) /\ Stream(side, end).cap = end
BY DEF ConversationsAreFrames, KnownConversation, Stream, IsFrame

\* Where a buffer may begin after a segment: where it began, behind what a decoder has
\* consumed of it, or at the end of the segment.
LEMMA BufferMoves ==
    ASSUME ConversationsAreFrames, Buffered, NEW side \in Sides, NEW end \in Nat,
           end > arrived[side], NEW fin \in BOOLEAN,
           Drop(side, end) \/ Take(side, end, fin, Detected(side, end))
    PROVE  \E off \in from[side]..end :
              /\ from' = [from EXCEPT ![side] = off]
              /\ end - off <= MaxL7StreamBytes
<1> DEFINE d == Detected(side, end)
           r == decodeL7(d.detected, Packet(side), Stream(side, end), from[side])
<1>1. /\ arrived[side] \in Nat /\ from[side] \in Nat /\ from[side] <= arrived[side]
      /\ MaxL7StreamBytes \in Nat
  BY StreamAssumption DEF Buffered, BuffersType, BufferWithinLimit
<1>2. from[side] \in 0..end /\ end \in from[side]..end /\ from[side] \in from[side]..end
  BY <1>1
<1>3. r.ok => r.off \in from[side]..end
  <2>1. IsFrame(Stream(side, end)) /\ Stream(side, end).cap = end
    BY StreamIsFrame DEF Buffered
  <2>2. \A proto1, packet : Bounded(decodeL7(proto1, packet, Stream(side, end), from[side]),
                                    Stream(side, end), from[side])
    BY <1>2, <2>1, L7Bounded
  <2>3. Bounded(r, Stream(side, end), from[side])
    BY <2>2
  <2> HIDE DEF r
  <2> QED
    BY <2>1, <2>3 DEF Bounded
<1>4. CASE Drop(side, end)
  <2>1. from' = [from EXCEPT ![side] = end]
    BY <1>4 DEF Drop, Kept
  <2>2. end - end <= MaxL7StreamBytes
    BY <1>1
  <2> QED
    BY <1>2, <2>1, <2>2
<1>5. CASE Take(side, end, fin, d)
  <2>1. end - from[side] <= MaxL7StreamBytes
    BY <1>1, <1>5 DEF Take, Overflows
  <2>2. \A off \in from[side]..end : end - off <= MaxL7StreamBytes
    BY <1>1, <2>1
  <2>3. CASE Suppress(side, end, fin, d.detected)
    BY <1>2, <2>2, <2>3 DEF Suppress, Kept
  <2>4. CASE Decode(side, end, fin, d.detected, r)
    <3> HIDE DEF r, d
    <3> QED
      BY <1>2, <1>3, <2>2, <2>4 DEF Decode, Kept
  <2> QED
    BY <1>5, <2>3, <2>4 DEF Take
<1> QED
  BY <1>4, <1>5

LEMMA ArriveKeepsBuffers ==
    ASSUME ConversationsAreFrames, Buffered, NEW side \in Sides, Arrive(side)
    PROVE  Buffered'
<1>1. PICK end \in Sendable(side), fin \in BOOLEAN :
          /\ Drop(side, end) \/ Take(side, end, fin, Detected(side, end))
          /\ arrived' = [arrived EXCEPT ![side] = end]
          /\ UNCHANGED conv
  BY DEF Arrive
<1>2. end \in Nat /\ end > arrived[side]
  BY DEF Sendable, Buffered, KnownConversation, ConversationsAreFrames
<1>3. PICK off \in from[side]..end :
          from' = [from EXCEPT ![side] = off] /\ end - off <= MaxL7StreamBytes
  BY <1>1, <1>2, BufferMoves
<1>4. arrived \in [Sides -> Nat] /\ from \in [Sides -> Nat] /\ off \in Nat /\ off <= end
      /\ MaxL7StreamBytes \in Nat
  BY <1>2, <1>3, StreamAssumption DEF Buffered, BuffersType
<1>5. BuffersType'
  BY <1>1, <1>2, <1>3, <1>4 DEF BuffersType
<1>6. BufferWithinLimit'
  <2> SUFFICES ASSUME NEW other \in Sides
               PROVE  arrived'[other] - from'[other] \in 0..MaxL7StreamBytes
    BY DEF BufferWithinLimit
  <2>1. CASE other = side
    BY <1>1, <1>2, <1>3, <1>4, <2>1
  <2>2. CASE other # side
    BY <1>1, <1>3, <1>4, <2>2 DEF Buffered, BufferWithinLimit
  <2> QED
    BY <2>1, <2>2
<1>7. KnownConversation'
  BY <1>1 DEF Buffered, KnownConversation
<1> QED
  BY <1>5, <1>6, <1>7 DEF Buffered

\* However a conversation is cut into segments and whatever it is taken for: a buffer holds
\* no more than the limit, and of what it holds no decoder consumes more than there is.
THEOREM BufferLimitCorrect ==
    ASSUME ConversationsAreFrames
    PROVE  Spec => []BufferWithinLimit
<1>1. Init => Buffered
  <2> SUFFICES ASSUME Init
               PROVE  Buffered
    OBVIOUS
  <2>1. \A side \in Sides : arrived[side] - from[side] = 0
    BY DEF Init
  <2> QED
    BY <2>1, StreamAssumption DEF Init, Buffered, KnownConversation, BuffersType, BufferWithinLimit
<1>2. Buffered /\ [Next]_vars => Buffered'
  <2>1. Buffered /\ UNCHANGED vars => Buffered'
    BY DEF Buffered, KnownConversation, BuffersType, BufferWithinLimit, vars
  <2>2. Buffered /\ Next => Buffered'
    BY ArriveKeepsBuffers DEF Next
  <2> QED
    BY <2>1, <2>2
<1>3. Buffered => BufferWithinLimit
  BY DEF Buffered
<1> QED
  BY <1>1, <1>2, <1>3, PTL DEF Spec

-----------------------------------------------------------------------------
(* Messages that are one header each                                       *)

\* The headers follow one another, and each has its own place.
InARow(hs) ==
    /\ hs \in Seq(Range(hs))
    /\ \A i, j \in DOMAIN hs : i < j => hs[i].len > 0 /\ hs[i].at + hs[i].len <= hs[j].at

\* Before a place in a row headers end there or earlier, and behind it they end later.
LEMMA RowOrdered ==
    ASSUME NEW f, IsFrame(f), InARow(f.hs), NEW i \in DOMAIN f.hs, NEW j \in DOMAIN f.hs, i # j
    PROVE  /\ f.hs[i].at \in Nat /\ f.hs[i].len \in Nat /\ f.hs[j].at \in Nat /\ f.hs[j].len \in Nat
           /\ f.hs[j].at # f.hs[i].at
           /\ \/ f.hs[j].at + f.hs[j].len <= f.hs[i].at
              \/ f.hs[j].at + f.hs[j].len >= f.hs[i].at + f.hs[i].len
<1>1. /\ f.hs[i].at \in Nat /\ f.hs[i].len \in Nat /\ f.hs[j].at \in Nat /\ f.hs[j].len \in Nat
  BY DEF IsFrame, WellFormed
<1>2. i \in Int /\ j \in Int
  BY DEF InARow
<1>3. CASE i < j
  <2>1. f.hs[i].len > 0 /\ f.hs[i].at + f.hs[i].len <= f.hs[j].at
    BY <1>3 DEF InARow
  <2> QED
    BY <1>1, <2>1
<1>4. CASE j < i
  <2>1. f.hs[j].len > 0 /\ f.hs[j].at + f.hs[j].len <= f.hs[i].at
    BY <1>4 DEF InARow
  <2> QED
    BY <1>1, <2>1
<1> QED
  BY <1>2, <1>3, <1>4

\* Where a header begins, it is what is read, and nothing else is.
LEMMA ReadHere ==
    ASSUME NEW f, IsFrame(f), InARow(f.hs), NEW i \in DOMAIN f.hs
    PROVE  \A kind : Read(f, f.hs[i].at, kind) = IF kind = f.hs[i].kind THEN f.hs[i] ELSE Filler
<1> TAKE kind
<1> DEFINE here == {j \in DOMAIN f.hs : f.hs[j].kind = kind /\ f.hs[j].at = f.hs[i].at}
<1>1. here \subseteq {i}
  BY RowOrdered
<1>2. Read(f, f.hs[i].at, kind) = IF here = {} THEN Filler ELSE f.hs[CHOOSE j \in here : TRUE]
  BY DEF Read
<1>3. CASE kind = f.hs[i].kind
  <2>1. here = {i}
    BY <1>1, <1>3
  <2> HIDE DEF here
  <2> QED
    BY <1>2, <1>3, <2>1
<1>4. CASE kind # f.hs[i].kind
  <2>1. here = {}
    BY <1>1, <1>4
  <2> HIDE DEF here
  <2> QED
    BY <1>2, <1>4, <2>1
<1> QED
  BY <1>3, <1>4

\* At the beginning of a line of more than CRLF it is there when its end is there.
LEMMA LineThere ==
    ASSUME NEW f, IsFrame(f), InARow(f.hs), NEW i \in DOMAIN f.hs,
           f.hs[i].kind = "line", f.hs[i].len >= 3
    PROVE  LET off == f.hs[i].at
               last == f.hs[i].at + f.hs[i].len
               ends == LineEnds(f, off)
           IN  /\ ends # {} => last <= f.cap
               /\ last <= f.cap => ends # {} /\ Min(ends) = last /\ Min(ends \cup {f.cap}) = last
               /\ LineText(f, off) = f.hs[i]
<1> DEFINE off == f.hs[i].at
           last == f.hs[i].at + f.hs[i].len
           ends == LineEnds(f, off)
<1>1. /\ off \in Nat /\ f.hs[i].len \in Nat /\ last \in Nat /\ f.cap \in Nat
  BY DEF IsFrame, WellFormed
<1>2. \A e \in ends : e \in Nat /\ last <= e /\ e <= f.cap
  <2> TAKE e \in ends
  <2>1. PICK j \in DOMAIN f.hs : e = f.hs[j].at + f.hs[j].len
    BY DEF LineEnds
  <2>2. off + 2 <= e /\ e <= f.cap
    BY DEF LineEnds
  <2>3. CASE j = i
    BY <1>1, <2>1, <2>2, <2>3
  <2>4. CASE j # i
    BY <1>1, <2>1, <2>2, <2>4, RowOrdered
  <2> QED
    BY <2>3, <2>4
<1>3. last <= f.cap => last \in ends
  <2> SUFFICES ASSUME last <= f.cap
               PROVE  last \in ends
    OBVIOUS
  <2>1. off + 2 <= last
    BY <1>1
  <2>2. i \in {j \in DOMAIN f.hs : f.hs[j].kind \in Lines}
    BY DEF Lines
  <2> QED
    BY <2>1, <2>2 DEF LineEnds
<1>4. \A S : S # {} /\ S \subseteq Nat /\ last \in S /\ (\A e \in S : last <= e) => Min(S) = last
  <2> TAKE S
  <2> SUFFICES ASSUME S # {}, S \subseteq Nat, last \in S, \A e \in S : last <= e
               PROVE  Min(S) = last
    OBVIOUS
  <2> HIDE DEF last
  <2>1. Min(S) \in S /\ \A e \in S : Min(S) <= e
    BY MinIsLeast
  <2>2. Min(S) <= last /\ last <= Min(S) /\ Min(S) \in Nat /\ last \in Nat
    BY <1>1, <2>1
  <2> QED
    BY <2>2
<1>5. LineText(f, off) = f.hs[i]
  <2> DEFINE here == {k \in Lines : Read(f, off, k).kind = k}
  <2>1. Filler.kind = "filler"
    BY DEF Filler
  <2>2. here = {"line"}
    BY <2>1, ReadHere DEF Lines
  <2>3. LineText(f, off) = IF here = {} THEN Filler ELSE Read(f, off, CHOOSE k \in here : TRUE)
    BY DEF LineText, ReadOne
  <2> HIDE DEF here
  <2>4. LineText(f, off) = Read(f, off, "line")
    BY <2>2, <2>3
  <2> QED
    BY <2>4, ReadHere
<1>6. last <= f.cap => Min(ends) = last /\ Min(ends \cup {f.cap}) = last
  <2> HIDE DEF ends
  <2> SUFFICES ASSUME last <= f.cap
               PROVE  Min(ends) = last /\ Min(ends \cup {f.cap}) = last
    OBVIOUS
  <2>1. last \in ends /\ ends \subseteq Nat /\ \A e \in ends : last <= e
    BY <1>2, <1>3
  <2>2. last \in ends \cup {f.cap} /\ ends \cup {f.cap} \subseteq Nat
        /\ \A e \in ends \cup {f.cap} : last <= e
    BY <1>1, <2>1
  <2> HIDE DEF last
  <2> QED
    BY <1>4, <2>1, <2>2
<1>7. ends # {} => last <= f.cap
  <2> HIDE DEF ends
  <2> QED
    BY <1>1, <1>2
<1> HIDE DEF ends, last, off
<1> QED
  BY <1>3, <1>5, <1>6, <1>7 DEF ends, last, off

\* The result is the message with a value that ends at last, as soon as its end is there.
Gives(r, f, value, last) ==
    /\ r.ok => last <= f.cap /\ r.hdr = <<value>> /\ r.off = last
    /\ last <= f.cap => r.ok

\* A decoder that makes its checks and then reports a message gives it, when the checks are
\* passed exactly if its end is there.
LEMMA ChecksGive ==
    ASSUME NEW f, NEW value, NEW last, NEW off, NEW r,
           LET result == Success(<<value>>, last)
           IN  \/ r = result /\ last <= f.cap
               \/ ~r.ok /\ ~(last <= f.cap)
    PROVE  Gives(r, f, value, last)
BY DEF Gives, Success

\* The decoders of lines give the line at the beginning of which they are.
LEMMA TextGives ==
    ASSUME NEW f, IsFrame(f), InARow(f.hs), NEW i \in DOMAIN f.hs,
           f.hs[i].kind = "line", f.hs[i].len >= 3, f.hs[i].at <= f.cap
    PROVE  LET off == f.hs[i].at
               last == f.hs[i].at + f.hs[i].len
           IN  /\ Gives(decodeSmtp(f, off), f, f.hs[i].value, last)
               /\ Gives(decodePop3(f, off), f, f.hs[i].value, last)
               /\ Gives(decodeFtp(f, off), f, f.hs[i].value, last)
               /\ f.hs[i].spaced => Gives(decodeImap(f, off), f, f.hs[i].value, last)
<1> DEFINE h == f.hs[i]
           off == h.at
           last == h.at + h.len
           ends == LineEnds(f, off)
           text == LineText(f, off)
           begun == Has(f, off, 1)
           ended == ends # {}
           any == ends # {} => Min(ends) # off + 2 /\ TRUE
           spaced == ends # {} => Min(ends) # off + 2 /\ text.spaced
           least == Min(ends \cup {f.cap})
           r == Success(<<text.value>>, least)
           Line(accepted) == Checked(<< <<begun, "TruncatedHeader">>, <<ended, "MalformedPacket">>,
                                        <<accepted, "MalformedPacket">> >>, off, r)
<1>1. /\ off \in Nat /\ h.len \in Nat /\ h.len >= 3 /\ last \in Nat /\ f.cap \in Nat
  BY DEF IsFrame, WellFormed
<1>2. /\ ends # {} => last <= f.cap
      /\ last <= f.cap => ends # {} /\ Min(ends) = last /\ least = last
      /\ text = h
  BY LineThere
<1>3. decodeImap(f, off) = Line(spaced)
  BY DEF decodeImap, textLine
<1>4. \A r1 \in {decodeSmtp(f, off), decodePop3(f, off), decodeFtp(f, off)} : r1 = Line(any)
  BY DEF decodeSmtp, decodePop3, decodeFtp, textLine, AnyLine
<1>5. last <= f.cap => begun /\ ended /\ any /\ (h.spaced => spaced)
  <2> HIDE DEF ends, text, least
  <2> SUFFICES ASSUME last <= f.cap
               PROVE  begun /\ ended /\ any /\ (h.spaced => spaced)
    OBVIOUS
  <2>1. Min(ends) # off + 2
    BY <1>1, <1>2
  <2>2. begun
    BY <1>1 DEF Has
  <2> QED
    BY <1>2, <2>1, <2>2
<1>6. last <= f.cap => r = Success(<<h.value>>, last)
  BY <1>2
<1>7. ended => last <= f.cap
  BY <1>2
<1> HIDE DEF begun, ended, any, spaced, least, text, ends, r, last
<1>8. ASSUME NEW accepted, last <= f.cap => accepted
      PROVE  Gives(Line(accepted), f, h.value, last)
  <2>1. (Line(accepted) = r /\ ended) \/ (~Line(accepted).ok /\ ~(begun /\ ended /\ accepted))
    BY Exactly3
  <2> HIDE DEF Line
  <2> QED
    BY <1>5, <1>6, <1>7, <1>8, <2>1, ChecksGive
<1>9. h.spaced => Gives(Line(spaced), f, h.value, last)
  BY <1>5, <1>8
<1>10. Gives(Line(any), f, h.value, last)
  BY <1>5, <1>8
<1> HIDE DEF Line
<1> QED
  BY <1>3, <1>4, <1>9, <1>10 DEF last

\* So do the decoders of messages that say how long they are.
LEMMA SizedGives ==
    ASSUME NEW f, IsFrame(f), InARow(f.hs), NEW i \in DOMAIN f.hs
    PROVE  LET h == f.hs[i]
               last == h.at + h.length
           IN  /\ h.kind = "bgp" /\ h.length >= (IF h.value = "OPEN" THEN 29 ELSE 19) =>
                      Gives(decodeBgp(f, h.at), f, h.value, last)
               /\ h.kind = "tpkt" /\ h.length >= 11 => Gives(decodeRdp(f, h.at), f, h.value, last)
<1> DEFINE h == f.hs[i]
           last == h.at + h.length
           result == Success(<<h.value>>, last)
           there == Has(f, h.at, h.length)
           open == h.value = "OPEN" => h.length >= 29
           first == Has(f, h.at, 19)
           start == Has(f, h.at, 11)
<1>1. h.at \in Nat /\ f.cap \in Nat
  BY DEF IsFrame, WellFormed
<1>2. h.kind \in {"bgp", "tpkt"} => h.length \in Nat
  BY DEF IsFrame, WellFormed
<1>3. ASSUME h.kind = "bgp", h.length >= (IF h.value = "OPEN" THEN 29 ELSE 19)
      PROVE  Gives(decodeBgp(f, h.at), f, h.value, last)
  <2> DEFINE message == Checked(<< <<there, "TruncatedHeader">>, <<open, "TruncatedHeader">> >>, h.at, result)
             whole == Checked(<< <<first, "TruncatedHeader">> >>, h.at, message)
  <2>1. Read(f, h.at, "bgp") = h
    BY <1>3, ReadHere
  <2>2. decodeBgp(f, h.at) = whole
    BY <1>3, <2>1 DEF decodeBgp, Marked, Message
  <2>3. open /\ (there => first) /\ (there <=> last <= f.cap)
    BY <1>1, <1>2, <1>3 DEF Has
  <2> HIDE DEF there, open, first, result
  <2>4. (message = result /\ there /\ open) \/ (~message.ok /\ ~(there /\ open))
    BY Exactly2
  <2> HIDE DEF message
  <2>5. (whole = message /\ first) \/ (~whole.ok /\ ~first)
    BY Exactly1
  <2>6. (whole = result /\ last <= f.cap) \/ (~whole.ok /\ ~(last <= f.cap))
    BY <2>3, <2>4, <2>5
  <2> HIDE DEF whole, last
  <2> QED
    BY <2>2, <2>6, ChecksGive DEF result
<1>4. ASSUME h.kind = "tpkt", h.length >= 11
      PROVE  Gives(decodeRdp(f, h.at), f, h.value, last)
  <2> DEFINE message == Checked(<< <<there, "TruncatedHeader">> >>, h.at, result)
             whole == Checked(<< <<start, "TruncatedHeader">> >>, h.at, message)
  <2>1. Read(f, h.at, "tpkt") = h /\ RdpItem(h) = h.value
    BY <1>2, <1>4, ReadHere DEF RdpItem
  <2>2. decodeRdp(f, h.at) = whole
    BY <1>4, <2>1 DEF decodeRdp, Marked, Message
  <2>3. (there => start) /\ (there <=> last <= f.cap)
    BY <1>1, <1>2, <1>4 DEF Has
  <2> HIDE DEF there, start, result
  <2>4. (message = result /\ there) \/ (~message.ok /\ ~there)
    BY Exactly1
  <2> HIDE DEF message
  <2>5. (whole = message /\ start) \/ (~whole.ok /\ ~start)
    BY Exactly1
  <2>6. (whole = result /\ last <= f.cap) \/ (~whole.ok /\ ~(last <= f.cap))
    BY <2>3, <2>4, <2>5
  <2> HIDE DEF whole, last
  <2> QED
    BY <2>2, <2>6, ChecksGive DEF result
<1> QED
  BY <1>3, <1>4

\* And the decoders that leave the body where it is.
LEMMA HeaderGives ==
    ASSUME NEW f, IsFrame(f), InARow(f.hs), NEW i \in DOMAIN f.hs
    PROVE  LET h == f.hs[i]
               last == h.at + h.len
           IN  /\ h.kind = "banner" /\ h.len >= 8 => Gives(decodeSsh(f, h.at), f, h.value, last)
               /\ h.kind = "smb" /\ h.len >= 4 => Gives(decodeSmb(f, h.at), f, h.value, last)
               /\ h.kind = "handshake" => Gives(decodeRtmp(f, h.at), f, "handshake", h.at + 1)
<1> DEFINE h == f.hs[i]
           last == h.at + h.len
           result == Success(<<h.value>>, last)
           there == Has(f, h.at, h.len)
           first == Has(f, h.at, 8)
           start == Has(f, h.at, 4)
<1>1. h.at \in Nat /\ h.len \in Nat /\ f.cap \in Nat
  BY DEF IsFrame, WellFormed
<1>2. ASSUME h.kind = "banner", h.len >= 8
      PROVE  Gives(decodeSsh(f, h.at), f, h.value, last)
  <2> DEFINE banner == h.kind = "banner" /\ there
             whole == Checked(<< <<first, "TruncatedHeader">>, <<banner, "TruncatedHeader">> >>, h.at, result)
  <2>1. Read(f, h.at, "banner") = h
    BY <1>2, ReadHere
  <2>2. decodeSsh(f, h.at) = whole
    BY <2>1 DEF decodeSsh
  <2>3. (banner => first) /\ (banner <=> last <= f.cap)
    BY <1>1, <1>2 DEF Has
  <2> HIDE DEF banner, first, result
  <2>4. (whole = result /\ first /\ banner) \/ (~whole.ok /\ ~(first /\ banner))
    BY Exactly2
  <2>5. (whole = result /\ last <= f.cap) \/ (~whole.ok /\ ~(last <= f.cap))
    BY <2>3, <2>4
  <2> HIDE DEF whole, last
  <2> QED
    BY <2>2, <2>5, ChecksGive DEF result
<1>3. ASSUME h.kind = "smb", h.len >= 4
      PROVE  Gives(decodeSmb(f, h.at), f, h.value, last)
  <2> DEFINE message == Checked(<< <<there, "TruncatedHeader">> >>, h.at, result)
             whole == Checked(<< <<start, "TruncatedHeader">> >>, h.at, message)
  <2>1. Read(f, h.at, "smb") = h
    BY <1>3, ReadHere
  <2>2. decodeSmb(f, h.at) = whole
    BY <1>3, <2>1 DEF decodeSmb, Marked, Message
  <2>3. (there => start) /\ (there <=> last <= f.cap)
    BY <1>1, <1>3 DEF Has
  <2> HIDE DEF there, start, result
  <2>4. (message = result /\ there) \/ (~message.ok /\ ~there)
    BY Exactly1
  <2> HIDE DEF message
  <2>5. (whole = message /\ start) \/ (~whole.ok /\ ~start)
    BY Exactly1
  <2>6. (whole = result /\ last <= f.cap) \/ (~whole.ok /\ ~(last <= f.cap))
    BY <2>3, <2>4, <2>5
  <2> HIDE DEF whole, last
  <2> QED
    BY <2>2, <2>6, ChecksGive DEF result
<1>4. ASSUME h.kind = "handshake"
      PROVE  Gives(decodeRtmp(f, h.at), f, "handshake", h.at + 1)
  <2>1. Read(f, h.at, "handshake").kind = "handshake"
    BY <1>4, ReadHere
  <2>2. decodeRtmp(f, h.at) = IF ~Has(f, h.at, 1) THEN Failure("TruncatedHeader", h.at)
                              ELSE Success(<<"handshake">>, h.at + 1)
    BY <2>1 DEF decodeRtmp
  <2>3. Has(f, h.at, 1) <=> h.at + 1 <= f.cap
    BY DEF Has
  <2> QED
    BY <2>2, <2>3 DEF Gives, Success, Failure
<1> QED
  BY <1>2, <1>3, <1>4

\* SMB over a NetBIOS session has four bytes in front of it.
LEMMA SessionGives ==
    ASSUME NEW f, IsFrame(f), InARow(f.hs), NEW i \in DOMAIN f.hs, NEW off \in Nat, NEW packet,
           packet.transport = "tcp", f.hs[i].kind = "smb", f.hs[i].len >= 4,
           f.hs[i].at = IF 139 \in {packet.srcPort, packet.dstPort} THEN off + 4 ELSE off
    PROVE  Gives(smbOver(packet, f, off), f, f.hs[i].value, f.hs[i].at + f.hs[i].len)
<1> DEFINE h == f.hs[i]
           r == smbOver(packet, f, off)
<1>1. Gives(decodeSmb(f, h.at), f, h.value, h.at + h.len)
  BY HeaderGives
<1>2. CASE 139 \in {packet.srcPort, packet.dstPort} /\ ~Has(f, off, 4)
  <2> DEFINE message == Checked(<< <<Has(f, off, Read(f, off, "smb").len), "TruncatedHeader">> >>, off,
                                Success(<<Read(f, off, "smb").value>>, off + Read(f, off, "smb").len))
             rest == IF Read(f, off, "smb").kind = "smb" THEN message ELSE Failure("MalformedPacket", off)
             start == Has(f, off, 4)
  <2>1. r = decodeSmb(f, off)
    BY <1>2 DEF smbOver
  <2>2. r = Checked(<< <<start, "TruncatedHeader">> >>, off, rest)
    BY <2>1 DEF decodeSmb, Marked, Message
  <2> HIDE DEF rest, start
  <2>3. (r = rest /\ start) \/ ~r.ok
    BY <2>2, Checked1
  <2>4. ~r.ok
    BY <1>2, <2>3 DEF start
  <2>5. ~(h.at + h.len <= f.cap)
    BY <1>2 DEF Has, IsFrame, WellFormed
  <2> QED
    BY <2>4, <2>5 DEF Gives
<1>3. CASE 139 \in {packet.srcPort, packet.dstPort} /\ Has(f, off, 4)
  BY <1>1, <1>3 DEF smbOver
<1>4. CASE 139 \notin {packet.srcPort, packet.dstPort}
  BY <1>1, <1>4 DEF smbOver
<1> QED
  BY <1>2, <1>3, <1>4

\* What a decoder finds at the beginning of a part is the message that the part is.
LEMMA MessageGives ==
    ASSUME NEW c, NEW name \in DOMAIN MessageOf, OfProtocol(c, name), NEW side \in Sides,
           NEW f, IsFrame(f), f.hs = c.stream[side],
           NEW p \in c.parts[side], p.lead, p.start <= f.cap,
           NEW packet, packet.transport = "tcp", {packet.srcPort, packet.dstPort} = {50000, c.port}
    PROVE  Gives(decodeL7(name, packet, f, p.start), f, c.says[side][p.items], p.end)
<1>1. /\ c.port \in MessageOf[name].ports /\ InARow(f.hs)
      /\ p.start \in Nat /\ IsMessage(c, side, name, p)
  BY DEF OfProtocol, InARow
<1> DEFINE says == c.says[side][p.items]
<1>2. PICK i \in DOMAIN f.hs : IsMessageOf(f.hs[i], name, c.port, p, says)
  BY <1>1 DEF IsMessage
<1> DEFINE h == f.hs[i]
           size == IF name \in {"BGP", "RDP"} THEN h.length ELSE IF name = "RTMP" THEN 1 ELSE h.len
<1>3. /\ h.kind = MessageOf[name].kind
      /\ h.at = IF c.port = 139 THEN p.start + 4 ELSE p.start
      /\ p.end = h.at + size
      /\ size >= IF name = "BGP" /\ h.value = "OPEN" THEN 29 ELSE MessageOf[name].least
      /\ name = "IMAP" => h.spaced
      /\ c.says[side][p.items] = IF name = "RTMP" THEN "handshake" ELSE h.value
  BY <1>2 DEF IsMessageOf
<1>4. CASE name \in {"FTP", "SMTP", "POP3", "IMAP"}
  <2>1. h.kind = "line" /\ h.len >= 3 /\ c.port # 139
    BY <1>1, <1>3, <1>4 DEF MessageOf
  <2>2. h.at = p.start /\ p.end = h.at + h.len /\ c.says[side][p.items] = h.value
    BY <1>3, <1>4, <2>1
  <2>3. h.at <= f.cap
    BY <2>2
  <2>4. LET last == h.at + h.len
        IN  /\ Gives(decodeSmtp(f, h.at), f, h.value, last)
            /\ Gives(decodePop3(f, h.at), f, h.value, last)
            /\ Gives(decodeFtp(f, h.at), f, h.value, last)
            /\ h.spaced => Gives(decodeImap(f, h.at), f, h.value, last)
    BY <1>1, <2>1, <2>3, TextGives
  <2>5. name = "IMAP" => h.spaced
    BY <1>3
  <2>6. CASE name = "FTP"
    <3>1. decodeL7(name, packet, f, h.at) = decodeFtp(f, h.at)
      BY <2>6 DEF decodeL7
    <3> QED
      BY <2>2, <2>4, <3>1
  <2>7. CASE name = "SMTP"
    <3>1. decodeL7(name, packet, f, h.at) = decodeSmtp(f, h.at)
      BY <2>7 DEF decodeL7
    <3> QED
      BY <2>2, <2>4, <3>1
  <2>8. CASE name = "POP3"
    <3>1. decodeL7(name, packet, f, h.at) = decodePop3(f, h.at)
      BY <2>8 DEF decodeL7
    <3> QED
      BY <2>2, <2>4, <3>1
  <2>9. CASE name = "IMAP"
    <3>1. decodeL7(name, packet, f, h.at) = decodeImap(f, h.at)
      BY <2>9 DEF decodeL7
    <3> QED
      BY <2>2, <2>4, <2>5, <2>9, <3>1
  <2> QED
    BY <1>4, <2>6, <2>7, <2>8, <2>9
<1>5. CASE name = "BGP"
  <2>1. h.kind = "bgp" /\ c.port # 139 /\ h.length >= (IF h.value = "OPEN" THEN 29 ELSE 19)
    BY <1>1, <1>3, <1>5 DEF MessageOf
  <2>2. h.at = p.start /\ p.end = h.at + h.length /\ c.says[side][p.items] = h.value
    BY <1>3, <1>5, <2>1
  <2>3. Gives(decodeBgp(f, h.at), f, h.value, p.end)
    BY <1>1, <2>1, <2>2, SizedGives
  <2> QED
    BY <1>5, <2>2, <2>3 DEF decodeL7
<1>6. CASE name = "RDP"
  <2>1. h.kind = "tpkt" /\ c.port # 139 /\ h.length >= 11
    BY <1>1, <1>3, <1>6 DEF MessageOf
  <2>2. h.at = p.start /\ p.end = h.at + h.length /\ c.says[side][p.items] = h.value
    BY <1>3, <1>6, <2>1
  <2>3. Gives(decodeRdp(f, h.at), f, h.value, p.end)
    BY <1>1, <2>1, <2>2, SizedGives
  <2> QED
    BY <1>6, <2>2, <2>3 DEF decodeL7
<1>7. CASE name = "SSH"
  <2>1. h.kind = "banner" /\ c.port # 139 /\ h.len >= 8
    BY <1>1, <1>3, <1>7 DEF MessageOf
  <2>2. h.at = p.start /\ p.end = h.at + h.len /\ c.says[side][p.items] = h.value
    BY <1>3, <1>7, <2>1
  <2>3. Gives(decodeSsh(f, h.at), f, h.value, p.end)
    BY <1>1, <2>1, <2>2, HeaderGives
  <2> QED
    BY <1>7, <2>2, <2>3 DEF decodeL7
<1>8. CASE name = "RTMP"
  <2>1. h.kind = "handshake" /\ c.port # 139
    BY <1>1, <1>3, <1>8 DEF MessageOf
  <2>2. h.at = p.start /\ p.end = h.at + 1 /\ c.says[side][p.items] = "handshake"
    BY <1>3, <1>8, <2>1
  <2>3. Gives(decodeRtmp(f, h.at), f, "handshake", p.end)
    BY <1>1, <2>1, <2>2, HeaderGives
  <2> QED
    BY <1>8, <2>2, <2>3 DEF decodeL7
<1>9. CASE name = "SMB"
  <2>1. h.kind = "smb" /\ h.len >= 4 /\ c.port \in {139, 445}
    BY <1>1, <1>3, <1>9 DEF MessageOf
  <2>2. p.end = h.at + h.len /\ c.says[side][p.items] = h.value
    BY <1>3, <1>9
  <2>3. h.at = IF 139 \in {packet.srcPort, packet.dstPort} THEN p.start + 4 ELSE p.start
    <3>1. 139 \in {packet.srcPort, packet.dstPort} <=> c.port = 139
      BY <2>1
    <3> QED
      BY <1>3, <3>1
  <2>4. Gives(smbOver(packet, f, p.start), f, h.value, p.end)
    BY <1>1, <2>1, <2>2, <2>3, SessionGives
  <2> QED
    BY <1>9, <2>2, <2>4 DEF decodeL7
<1>10. name \in {"FTP", "SMTP", "POP3", "IMAP", "BGP", "RDP", "SSH", "RTMP", "SMB"}
  BY DEF MessageOf
<1> QED
  BY <1>4, <1>5, <1>6, <1>7, <1>8, <1>9, <1>10

\* Wherever a decoder of these protocols begins, it reports one item or fails.
LEMMA OneItem ==
    ASSUME NEW name \in DOMAIN MessageOf, NEW packet, NEW f, NEW off
    PROVE  LET r == decodeL7(name, packet, f, off)
           IN  r.ok => \E value : r.hdr = <<value>>
<1> DEFINE Single(r) == r.ok => \E value : r.hdr = <<value>>
<1>1. \A value, last : Single(Success(<<value>>, last))
  BY DEF Success
<1>2. \A error, last : Single(Failure(error, last))
  BY DEF Failure
<1> HIDE DEF Single
<1>3. ASSUME NEW checks, NEW at, NEW result, Single(result)
      PROVE  Single(Checked(checks, at, result))
  BY <1>2, <1>3 DEF Checked
<1>4. \A at : Single(decodeSmb(f, at)) /\ Single(decodeBgp(f, at)) /\ Single(decodeRdp(f, at))
  BY <1>1, <1>2, <1>3 DEF decodeSmb, decodeBgp, decodeRdp, Marked, Message
<1>5. Single(decodeSsh(f, off))
  BY <1>1, <1>3 DEF decodeSsh
<1>6. Single(decodeRtmp(f, off))
  BY <1>1, <1>2, <1>3 DEF decodeRtmp
<1>7. Single(decodeSmtp(f, off)) /\ Single(decodePop3(f, off)) /\ Single(decodeFtp(f, off))
  BY <1>1, <1>3 DEF decodeSmtp, decodePop3, decodeFtp, textLine
<1>8. Single(decodeImap(f, off))
  BY <1>1, <1>3 DEF decodeImap, textLine
<1>9. Single(smbOver(packet, f, off))
  BY <1>4 DEF smbOver
<1>10. name \in {"FTP", "SMTP", "POP3", "IMAP", "BGP", "RDP", "SSH", "RTMP", "SMB"}
  BY DEF MessageOf
<1>11. Single(decodeL7(name, packet, f, off))
  BY <1>4, <1>5, <1>6, <1>7, <1>8, <1>9, <1>10 DEF decodeL7
<1> QED
  BY <1>11 DEF Single

-----------------------------------------------------------------------------
(* What the engine takes such a conversation for                           *)

\* A packet of a protocol fits none of the rules but those of that protocol.
Alone(rule, name, packet, payload) == Fits(rule, packet, payload) => rule.proto = name

\* What the packet fits of the rules are rules of the protocol.
Own(rules, name, packet, payload) ==
    /\ \E S : rules \in Seq(S)
    /\ \A i \in DOMAIN rules : Alone(rules[i], name, packet, payload)

\* If this holds of two lists of rules it holds of both in a row.
LEMMA OwnTogether ==
    ASSUME NEW s, NEW t, NEW name, NEW packet, NEW payload,
           Own(s, name, packet, payload), Own(t, name, packet, payload)
    PROVE  Own(s \o t, name, packet, payload)
<1>1. PICK S1 : s \in Seq(S1)
  BY DEF Own
<1>2. PICK S2 : t \in Seq(S2)
  BY DEF Own
<1> DEFINE S == S1 \cup S2
<1>3. s \in Seq(S) /\ t \in Seq(S)
  BY <1>1, <1>2, SeqMonotonic
<1> HIDE DEF S
<1>4. s \o t \in Seq(S) /\ Len(s \o t) = Len(s) + Len(t) /\ Len(s) \in Nat /\ Len(t) \in Nat
  BY <1>3, ConcatProperties, LenProperties
<1>5. ASSUME NEW i \in DOMAIN (s \o t)
      PROVE  \/ i \in DOMAIN s /\ (s \o t)[i] = s[i]
             \/ i - Len(s) \in DOMAIN t /\ (s \o t)[i] = t[i - Len(s)]
  <2>1. i \in 1..(Len(s) + Len(t)) /\ DOMAIN s = 1..Len(s) /\ DOMAIN t = 1..Len(t)
    BY <1>3, <1>4, LenProperties
  <2>2. (s \o t)[i] = IF i <= Len(s) THEN s[i] ELSE t[i - Len(s)]
    BY <1>3, <2>1, ConcatProperties
  <2> QED
    BY <1>4, <2>1, <2>2
<1> QED
  BY <1>4, <1>5 DEF Own

\* The rules for any port each ask for a pattern.
LEMMA PortlessForm ==
    /\ \E S : PortlessRules \in Seq(S)
    /\ \A i \in DOMAIN PortlessRules : PortlessRules[i].look # "any"
<1> DEFINE a == Anywhere("TLS", Anything, 5, "tls version")
           b == Anywhere("HTTP", Anything, 4, "http method")
           c == Anywhere("QUIC", {"udp"}, 5, "quic version")
           d == Anywhere("SSH", Anything, 4, "ssh")
           e == Anywhere("BGP", Anything, 19, "bgp type")
<1>1. a.look # "any" /\ b.look # "any" /\ c.look # "any" /\ d.look # "any" /\ e.look # "any"
  BY DEF Anywhere
<1>2. PortlessRules = <<a, b, c, d, e>>
  BY DEF PortlessRules
<1> HIDE DEF a, b, c, d, e
<1>3. <<a, b, c, d, e>> \in Seq({a, b, c, d, e})
  OBVIOUS
<1>4. \E S : <<a, b, c, d, e>> \in Seq(S)
  BY <1>3
<1>5. \A i \in DOMAIN <<a, b, c, d, e>> : <<a, b, c, d, e>>[i].look # "any"
  BY <1>1
<1> QED
  BY <1>2, <1>4, <1>5

\* On a port of its own, a payload that shows no pattern of another protocol known on any
\* port fits only rules of its own.
LEMMA OwnRules ==
    ASSUME NEW name \in DOMAIN MessageOf, NEW port \in MessageOf[name].ports,
           NEW packet, packet.transport = "tcp", {packet.srcPort, packet.dstPort} = {50000, port},
           NEW payload, \A rule \in Range(PortlessRules) : rule.look \in payload.looks => rule.proto = name
    PROVE  Own(Rules, name, packet, payload)
<1> DEFINE OwnOnly(rules) == Own(rules, name, packet, payload)
<1>1. /\ port \in {21, 22, 25, 110, 139, 143, 179, 445, 587, 1935, 3389}
      /\ port = 21 => name = "FTP"
      /\ port = 22 => name = "SSH"
      /\ port \in {25, 587} => name = "SMTP"
      /\ port = 110 => name = "POP3"
      /\ port = 143 => name = "IMAP"
      /\ port = 179 => name = "BGP"
      /\ port = 3389 => name = "RDP"
      /\ port \in {139, 445} => name = "SMB"
      /\ port = 1935 => name = "RTMP"
  BY DEF MessageOf
<1>2. \A ports : packet.srcPort \in ports \/ packet.dstPort \in ports <=> 50000 \in ports \/ port \in ports
  OBVIOUS
<1>3. ASSUME NEW rule, "tcp" \notin rule.over
      PROVE  Alone(rule, name, packet, payload)
  BY <1>3 DEF Alone, Fits
<1>4. ASSUME NEW rule, 50000 \notin rule.ports, port \in rule.ports => rule.proto = name
      PROVE  Alone(rule, name, packet, payload)
  BY <1>2, <1>4 DEF Alone, Fits
<1>5. OwnOnly(NameAndWebRules)
  <2> DEFINE a == Rule("MDNS", {"udp"}, {5353}, 12, "any")
             b == Rule("LLMNR", {"udp"}, {5355}, 12, "any")
             c == Rule("DNS", Anything, {53}, 12, "any")
             d == Rule("HTTP", Anything, {80, 8080}, 4, "http")
             row == <<a, b, c, d>>
  <2>1. /\ a.over = {"udp"}
        /\ b.over = {"udp"}
        /\ c.proto = "DNS" /\ c.ports = {53}
        /\ d.proto = "HTTP" /\ d.ports = {80, 8080}
    BY DEF Rule, On, Anywhere
  <2>2. NameAndWebRules = row
    BY DEF NameAndWebRules
  <2> HIDE DEF a, b, c, d
  <2>3. Alone(a, name, packet, payload)
    BY <1>3, <2>1
  <2>4. Alone(b, name, packet, payload)
    BY <1>3, <2>1
  <2>5. Alone(c, name, packet, payload)
    BY <1>1, <1>4, <2>1
  <2>6. Alone(d, name, packet, payload)
    BY <1>1, <1>4, <2>1
  <2>7. row \in Seq({a, b, c, d})
    OBVIOUS
  <2>8. \A i \in DOMAIN row : Alone(row[i], name, packet, payload)
    BY <2>3, <2>4, <2>5, <2>6
  <2> HIDE DEF row
  <2>9. \E S : row \in Seq(S)
    BY <2>7
  <2>10. OwnOnly(row)
    BY <2>8, <2>9 DEF Own
  <2> QED
    BY <2>2, <2>10
<1>6. OwnOnly(MultiplexedRules)
  <2> DEFINE stun == Anywhere("STUN", {"udp"}, 20, "stun")
             dtls == Anywhere("DTLS", {"udp"}, 13, "dtls")
             rtcp == Anywhere("RTCP", {"udp"}, 8, "rtcp")
             row == <<stun, dtls, rtcp>>
  <2>1. stun.over = {"udp"} /\ dtls.over = {"udp"} /\ rtcp.over = {"udp"}
    BY DEF Anywhere
  <2>2. MultiplexedRules = row
    BY DEF MultiplexedRules
  <2> HIDE DEF stun, dtls, rtcp
  <2>3. /\ Alone(stun, name, packet, payload) /\ Alone(dtls, name, packet, payload)
        /\ Alone(rtcp, name, packet, payload)
    BY <1>3, <2>1
  <2>4. row \in Seq({stun, dtls, rtcp})
    OBVIOUS
  <2>5. \A i \in DOMAIN row : Alone(row[i], name, packet, payload)
    BY <2>3
  <2> HIDE DEF row
  <2>6. \E S : row \in Seq(S)
    BY <2>4
  <2>7. OwnOnly(row)
    BY <2>5, <2>6 DEF Own
  <2> QED
    BY <2>2, <2>7
<1>7. OwnOnly(SecureRules)
  <2> DEFINE a == Rule("QUIC", {"udp"}, {443}, 1, "long header")
             b == Rule("TLS", {"tcp"}, {443}, 5, "tls record")
             row == <<a, b>>
  <2>1. /\ a.over = {"udp"}
        /\ b.proto = "TLS" /\ b.ports = {443}
    BY DEF Rule, On, Anywhere
  <2>2. SecureRules = row
    BY DEF SecureRules
  <2> HIDE DEF a, b
  <2>3. Alone(a, name, packet, payload)
    BY <1>3, <2>1
  <2>4. Alone(b, name, packet, payload)
    BY <1>1, <1>4, <2>1
  <2>5. row \in Seq({a, b})
    OBVIOUS
  <2>6. \A i \in DOMAIN row : Alone(row[i], name, packet, payload)
    BY <2>3, <2>4
  <2> HIDE DEF row
  <2>7. \E S : row \in Seq(S)
    BY <2>5
  <2>8. OwnOnly(row)
    BY <2>6, <2>7 DEF Own
  <2> QED
    BY <2>2, <2>8
<1>8. OwnOnly(TextRules)
  <2> DEFINE a == Rule("FTP", {"tcp"}, {21}, 4, "ftp")
             b == Rule("SSH", {"tcp"}, {22}, 4, "ssh")
             c == Rule("Telnet", {"tcp"}, {23}, 1, "any")
             d == Rule("SMTP", {"tcp"}, {25, 587}, 4, "smtp greeting")
             e == Rule("POP3", {"tcp"}, {110}, 3, "pop3 greeting")
             f == Rule("IMAP", {"tcp"}, {143}, 4, "imap greeting")
             row == <<a, b, c, d, e, f>>
  <2>1. /\ a.proto = "FTP" /\ a.ports = {21}
        /\ b.proto = "SSH" /\ b.ports = {22}
        /\ c.proto = "Telnet" /\ c.ports = {23}
        /\ d.proto = "SMTP" /\ d.ports = {25, 587}
        /\ e.proto = "POP3" /\ e.ports = {110}
        /\ f.proto = "IMAP" /\ f.ports = {143}
    BY DEF Rule, On, Anywhere
  <2>2. TextRules = row
    BY DEF TextRules
  <2> HIDE DEF a, b, c, d, e, f
  <2>3. Alone(a, name, packet, payload)
    BY <1>1, <1>4, <2>1
  <2>4. Alone(b, name, packet, payload)
    BY <1>1, <1>4, <2>1
  <2>5. Alone(c, name, packet, payload)
    BY <1>1, <1>4, <2>1
  <2>6. Alone(d, name, packet, payload)
    BY <1>1, <1>4, <2>1
  <2>7. Alone(e, name, packet, payload)
    BY <1>1, <1>4, <2>1
  <2>8. Alone(f, name, packet, payload)
    BY <1>1, <1>4, <2>1
  <2>9. row \in Seq({a, b, c, d, e, f})
    OBVIOUS
  <2>10. \A i \in DOMAIN row : Alone(row[i], name, packet, payload)
    BY <2>3, <2>4, <2>5, <2>6, <2>7, <2>8
  <2> HIDE DEF row
  <2>11. \E S : row \in Seq(S)
    BY <2>9
  <2>12. OwnOnly(row)
    BY <2>10, <2>11 DEF Own
  <2> QED
    BY <2>2, <2>12
<1>9. OwnOnly(BinaryRules)
  <2> DEFINE a == Rule("BGP", {"tcp"}, {179}, 19, "marker")
             b == Rule("RDP", {"tcp"}, {3389}, 7, "tpkt")
             c == Rule("LDAP", {"tcp"}, {389}, 2, "sequence")
             row == <<a, b, c>>
  <2>1. /\ a.proto = "BGP" /\ a.ports = {179}
        /\ b.proto = "RDP" /\ b.ports = {3389}
        /\ c.proto = "LDAP" /\ c.ports = {389}
    BY DEF Rule, On, Anywhere
  <2>2. BinaryRules = row
    BY DEF BinaryRules
  <2> HIDE DEF a, b, c
  <2>3. Alone(a, name, packet, payload)
    BY <1>1, <1>4, <2>1
  <2>4. Alone(b, name, packet, payload)
    BY <1>1, <1>4, <2>1
  <2>5. Alone(c, name, packet, payload)
    BY <1>1, <1>4, <2>1
  <2>6. row \in Seq({a, b, c})
    OBVIOUS
  <2>7. \A i \in DOMAIN row : Alone(row[i], name, packet, payload)
    BY <2>3, <2>4, <2>5
  <2> HIDE DEF row
  <2>8. \E S : row \in Seq(S)
    BY <2>6
  <2>9. OwnOnly(row)
    BY <2>7, <2>8 DEF Own
  <2> QED
    BY <2>2, <2>9
<1>10. OwnOnly(LocalRules)
  <2> DEFINE a == Rule("SSDP", {"udp"}, {1900}, 4, "ssdp")
             b == Rule("SrvLoc", Anything, {427}, 5, "srvloc version")
             c == Rule("NBNS", {"udp"}, {137}, 12, "any")
             d == Rule("NBDGM", {"udp"}, {138}, 10, "any")
             e == Rule("SMB", {"tcp"}, {445}, 4, "smb")
             f == Rule("SMB", {"tcp"}, {139}, 8, "session smb")
             g == Rule("RTMP", {"tcp"}, {1935}, 1, "any")
             h == Rule("DbLanSyncDisc", {"udp"}, {17500}, 2, "json")
             row == <<a, b, c, d, e, f, g, h>>
  <2>1. /\ a.over = {"udp"}
        /\ b.proto = "SrvLoc" /\ b.ports = {427}
        /\ c.over = {"udp"}
        /\ d.over = {"udp"}
        /\ e.proto = "SMB" /\ e.ports = {445}
        /\ f.proto = "SMB" /\ f.ports = {139}
        /\ g.proto = "RTMP" /\ g.ports = {1935}
        /\ h.over = {"udp"}
    BY DEF Rule, On, Anywhere
  <2>2. LocalRules = row
    BY DEF LocalRules
  <2> HIDE DEF a, b, c, d, e, f, g, h
  <2>3. Alone(a, name, packet, payload)
    BY <1>3, <2>1
  <2>4. Alone(b, name, packet, payload)
    BY <1>1, <1>4, <2>1
  <2>5. Alone(c, name, packet, payload)
    BY <1>3, <2>1
  <2>6. Alone(d, name, packet, payload)
    BY <1>3, <2>1
  <2>7. Alone(e, name, packet, payload)
    BY <1>1, <1>4, <2>1
  <2>8. Alone(f, name, packet, payload)
    BY <1>1, <1>4, <2>1
  <2>9. Alone(g, name, packet, payload)
    BY <1>1, <1>4, <2>1
  <2>10. Alone(h, name, packet, payload)
    BY <1>3, <2>1
  <2>11. row \in Seq({a, b, c, d, e, f, g, h})
    OBVIOUS
  <2>12. \A i \in DOMAIN row : Alone(row[i], name, packet, payload)
    BY <2>3, <2>4, <2>5, <2>6, <2>7, <2>8, <2>9, <2>10
  <2> HIDE DEF row
  <2>13. \E S : row \in Seq(S)
    BY <2>11
  <2>14. OwnOnly(row)
    BY <2>12, <2>13 DEF Own
  <2> QED
    BY <2>2, <2>14
<1>11. OwnOnly(InfrastructureRules)
  <2> DEFINE a == Rule("NTP", {"udp"}, {123}, 48, "ntp")
             b == Rule("DHCP", {"udp"}, {67, 68}, 240, "dhcp cookie")
             c == Rule("DHCPv6", {"udp"}, {546, 547}, 4, "dhcpv6 type")
             d == Rule("TFTP", {"udp"}, {69}, 4, "tftp opcode")
             e == Rule("SNMP", {"udp"}, {161, 162}, 2, "sequence")
             row == <<a, b, c, d, e>>
  <2>1. /\ a.over = {"udp"}
        /\ b.over = {"udp"}
        /\ c.over = {"udp"}
        /\ d.over = {"udp"}
        /\ e.over = {"udp"}
    BY DEF Rule, On, Anywhere
  <2>2. InfrastructureRules = row
    BY DEF InfrastructureRules
  <2> HIDE DEF a, b, c, d, e
  <2>3. Alone(a, name, packet, payload)
    BY <1>3, <2>1
  <2>4. Alone(b, name, packet, payload)
    BY <1>3, <2>1
  <2>5. Alone(c, name, packet, payload)
    BY <1>3, <2>1
  <2>6. Alone(d, name, packet, payload)
    BY <1>3, <2>1
  <2>7. Alone(e, name, packet, payload)
    BY <1>3, <2>1
  <2>8. row \in Seq({a, b, c, d, e})
    OBVIOUS
  <2>9. \A i \in DOMAIN row : Alone(row[i], name, packet, payload)
    BY <2>3, <2>4, <2>5, <2>6, <2>7
  <2> HIDE DEF row
  <2>10. \E S : row \in Seq(S)
    BY <2>8
  <2>11. OwnOnly(row)
    BY <2>9, <2>10 DEF Own
  <2> QED
    BY <2>2, <2>11
<1>12. OwnOnly(PortlessRules)
  <2>1. \A i \in DOMAIN PortlessRules : PortlessRules[i] \in Range(PortlessRules)
    BY DEF Range
  <2>2. \A i \in DOMAIN PortlessRules : Alone(PortlessRules[i], name, packet, payload)
    BY <2>1, PortlessForm DEF Alone, Fits
  <2> QED
    BY <2>2, PortlessForm DEF Own
<1> HIDE DEF OwnOnly
<1>13. ASSUME NEW s, NEW t, OwnOnly(s), OwnOnly(t)
       PROVE  OwnOnly(s \o t)
  BY <1>13, OwnTogether DEF OwnOnly
<1>14. OwnOnly(Rules)
  BY <1>5, <1>6, <1>7, <1>8, <1>9, <1>10, <1>11, <1>12, <1>13 DEF Rules
<1> QED
  BY <1>14 DEF OwnOnly

\* The first packet, and every other, is taken for that protocol or for none.
LEMMA SingleIsOwn ==
    ASSUME NEW name, NEW packet, NEW payload, Own(Rules, name, packet, payload)
    PROVE  detectSingle(packet, payload) \in {name, Unknown}
<1> DEFINE places == {i \in 1..Len(Rules) : Fits(Rules[i], packet, payload)}
           i0 == SelectInSeq(Rules, LAMBDA rule : Fits(rule, packet, payload))
<1>1. i0 = IF places # {} THEN Min(places) ELSE 0
  BY DEF SelectInSeq
<1>2. detectSingle(packet, payload) = IF i0 = 0 THEN Unknown ELSE Rules[i0].proto
  BY DEF detectSingle
<1>3. DOMAIN Rules = 1..Len(Rules)
  BY LenProperties DEF Own
<1>4. CASE places # {}
  <2>1. places \subseteq Nat
    OBVIOUS
  <2>2. Min(places) \in places
    <3> HIDE DEF places
    <3> QED
      BY <1>4, <2>1, MinIsLeast
  <2>3. i0 \in DOMAIN Rules /\ Fits(Rules[i0], packet, payload)
    BY <1>1, <1>3, <1>4, <2>2
  <2> HIDE DEF i0
  <2> QED
    BY <1>2, <2>3 DEF Own, Alone
<1>5. CASE places = {}
  BY <1>1, <1>2, <1>5
<1> QED
  BY <1>4, <1>5

-----------------------------------------------------------------------------
(* The conversation as it is understood                                    *)

\* The engine has found the protocol, or none, in every flow that it knows.
EngineKnows(e, name) ==
    \E flows, ports :
        /\ e = [flowStates |-> flows, tftpPorts |-> ports]
        /\ \A id \in DOMAIN flows : flows[id].result \in {name, Unknown}

\* A segment of such a conversation is taken for that protocol or for none.
LEMMA DetectedIsOwn ==
    ASSUME NEW name \in DOMAIN MessageOf, OfProtocol(conv, name), EngineKnows(engine, name),
           NEW side \in Sides, proto[side] \in {name, Unknown}, NEW end
    PROVE  LET d == Detected(side, end)
           IN  d.detected \in {name, Unknown} /\ EngineKnows(d.engine, name)
<1> DEFINE packet == Packet(side)
           hs == conv.stream[side]
           at == {i \in DOMAIN hs : hs[i].at = from[side]}
           payload == [size |-> end - from[side], looks |-> IF at = {} THEN {} ELSE hs[Min(at)].looks]
           found == Examined(engine, packet, payload)
           st == FlowStateOf(engine, side)
           d == detectFlow(engine, side, packet, payload)
<1>1. packet.transport = "tcp" /\ {packet.srcPort, packet.dstPort} = {50000, conv.port}
  BY DEF Packet, Sides
<1>2. \A rule \in Range(PortlessRules) : rule.look \in payload.looks => rule.proto = name
  <2>1. at # {} => Min(at) \in DOMAIN hs
    <3>1. at \subseteq Nat /\ at \subseteq DOMAIN hs
      BY DEF OfProtocol
    <3> HIDE DEF at
    <3> QED
      BY <3>1, MinIsLeast
  <2>2. \A i \in DOMAIN hs, rule \in Range(PortlessRules) : rule.look \in hs[i].looks => rule.proto = name
    BY DEF OfProtocol
  <2>3. payload.looks = IF at = {} THEN {} ELSE hs[Min(at)].looks
    OBVIOUS
  <2> HIDE DEF payload, at, hs
  <2> QED
    BY <2>1, <2>2, <2>3
<1>3. name \notin Multiplexed /\ Unknown \notin Multiplexed /\ name # "TFTP" /\ Unknown # "TFTP"
  BY DEF MessageOf, Multiplexed, Unknown
<1>4. conv.port \in MessageOf[name].ports
  BY DEF OfProtocol
<1> HIDE DEF payload
<1>5. Own(Rules, name, packet, payload)
  <2> HIDE DEF packet
  <2> QED
    BY <1>1, <1>2, <1>4, OwnRules
<1>6. found \in {name, Unknown}
  <2>1. detectSingle(packet, payload) \in {name, Unknown}
    BY <1>5, SingleIsOwn
  <2>2. ~FollowsTftp(engine, packet, payload)
    BY <1>1 DEF FollowsTftp
  <2> HIDE DEF packet
  <2> QED
    BY <2>1, <2>2 DEF Examined
<1> HIDE DEF packet
<1>7. PICK flows, ports : /\ engine = [flowStates |-> flows, tftpPorts |-> ports]
                          /\ \A id \in DOMAIN flows : flows[id].result \in {name, Unknown}
  BY DEF EngineKnows
<1>8. st.result \in {name, Unknown}
  BY <1>7 DEF FlowStateOf, NewFlowState
<1>9. EngineKnows(Learned(engine, side, packet, found), name)
  <2> DEFINE seen == FlowStateOf(engine, side).packetsSeen + 1
             new == IF found = "TFTP" THEN {packet.srcPort, packet.dstPort} \ {69} ELSE {}
             state == [packetsSeen |-> seen, result |-> found, decided |-> found # Unknown \/ seen >= MaxPackets]
             flows1 == [k \in DOMAIN flows \cup {side} |-> IF k = side THEN state ELSE flows[k]]
  <2>1. state.result \in {name, Unknown}
    BY <1>6
  <2> HIDE DEF state
  <2>2. \A id \in DOMAIN flows1 : flows1[id].result \in {name, Unknown}
    BY <1>7, <2>1
  <2> HIDE DEF found
  <2>3. SetFlowState(engine, side, state) = [flowStates |-> flows1, tftpPorts |-> ports]
    BY <1>7 DEF SetFlowState
  <2>4. Learned(engine, side, packet, found) = [SetFlowState(engine, side, state) EXCEPT !.tftpPorts = @ \cup new]
    BY DEF Learned, state
  <2> HIDE DEF flows1, new
  <2>5. Learned(engine, side, packet, found) = [flowStates |-> flows1, tftpPorts |-> ports \cup new]
    BY <2>3, <2>4
  <2> QED
    BY <2>2, <2>5 DEF EngineKnows
<1>10. d.detected \in {name, Unknown} /\ EngineKnows(d.engine, name)
  <2> HIDE DEF found
  <2>1. CASE ~st.decided
    BY <1>6, <1>9, <2>1 DEF detectFlow, found
  <2>2. CASE st.decided
    BY <1>3, <1>8, <2>2 DEF detectFlow
  <2> QED
    BY <2>1, <2>2
<1> HIDE DEF d
<1>11. Detected(side, end) = IF proto[side] # Unknown THEN [detected |-> proto[side], engine |-> engine] ELSE d
  BY DEF Detected, d, payload, packet
<1> QED
  BY <1>10, <1>11

-----------------------------------------------------------------------------
(* What is reported of a side of which nothing was dropped                 *)

\* What was reported up to the first message behind which something is left is what was
\* said, and has come.
AsSaid(side) ==
    /\ \E S : decoded[side] \in Seq(S)
    /\ \A k \in 1..Followed(side) : k <= Len(decoded[side]) =>
          /\ decoded[side][k] = conv.says[side][k]
          /\ \E p \in conv.parts[side] : p.items = k /\ p.end <= arrived[side]

\* Until then the buffer begins with the next message, or nothing more is sent.
AtMessage(side) ==
    \/ Len(decoded[side]) >= Followed(side)
    \/ from[side] \in MessageEnds(conv, side, Len(decoded[side]))
    \/ \A n \in conv.cuts[side] : n <= arrived[side]

\* The conversation is one of the protocol and taken for nothing else, and each side of which
\* nothing was dropped is reported as it was said, up to the message that comes next.
Understood(name) ==
    /\ Buffered /\ OfProtocol(conv, name) /\ EngineKnows(engine, name)
    /\ DOMAIN proto = Sides /\ \A side \in Sides : proto[side] \in {name, Unknown}
    /\ DOMAIN decoded = Sides
    /\ \A side \in Sides : side \notin lost => AsSaid(side) /\ AtMessage(side)
    /\ CompleteHeadDecoded

\* How many items are followed is at most how many there are.
LEMMA FollowedType ==
    ASSUME NEW name, OfProtocol(conv, name), NEW side \in Sides
    PROVE  Followed(side) \in 0..Len(conv.says[side]) /\ Len(conv.says[side]) \in Nat
<1> DEFINE left == {p.items : p \in {q \in conv.parts[side] : ~q.clean}}
           all == Len(conv.says[side])
<1>1. left \subseteq Nat /\ all \in Nat
  BY DEF OfProtocol
<1>2. Followed(side) = Min(left \cup {all})
  BY DEF Followed, FollowedOf
<1> HIDE DEF left, all
<1>3. left \cup {all} \subseteq Nat /\ left \cup {all} # {}
  BY <1>1
<1>4. Min(left \cup {all}) \in left \cup {all} /\ Min(left \cup {all}) <= all
  BY <1>3, MinIsLeast
<1> QED
  BY <1>1, <1>2, <1>3, <1>4 DEF all

\* What a decoder says at the front of a buffer: where the next message begins, that
\* message as soon as it is there, and nothing of it before.
LEMMA FrontGives ==
    ASSUME ConversationsAreFrames, NEW name \in DOMAIN MessageOf, Understood(name), NEW side \in Sides,
           NEW end \in Nat, end > arrived[side],
           NEW p \in conv.parts[side], p.lead, p.start = from[side]
    PROVE  Gives(decodeL7(name, Packet(side), Stream(side, end), from[side]), Stream(side, end),
                 conv.says[side][p.items], p.end)
<1>1. Packet(side).transport = "tcp"
      /\ {Packet(side).srcPort, Packet(side).dstPort} = {50000, conv.port}
  BY DEF Packet, Sides
<1>2. IsFrame(Stream(side, end)) /\ Stream(side, end).cap = end
  BY StreamIsFrame DEF Understood, Buffered
<1>3. Stream(side, end).hs = conv.stream[side]
  BY DEF Stream
<1>4. p.start <= Stream(side, end).cap
  BY <1>2 DEF Understood, Buffered, BuffersType, BufferWithinLimit
<1>5. OfProtocol(conv, name)
  BY DEF Understood
<1> QED
  BY <1>1, <1>2, <1>3, <1>4, <1>5, MessageGives

\* The result is the next item that was said, and its message ends where the result says.
ReportsNext(side, end, r) ==
    LET k == Len(decoded[side]) + 1
    IN  /\ r.hdr = <<conv.says[side][k]>>
        /\ r.off \in MessageEnds(conv, side, k)
        /\ \E p \in conv.parts[side] : p.items = k /\ p.end <= end

\* A decoder that reports something reports the next item, and consumes its message.
LEMMA NextReported ==
    ASSUME ConversationsAreFrames, NEW name \in DOMAIN MessageOf, Understood(name), NEW side \in Sides,
           side \notin lost, NEW end \in Sendable(side), end \in Nat, end > arrived[side],
           NEW r, r = decodeL7(name, Packet(side), Stream(side, end), from[side]), r.ok,
           Len(decoded[side]) < Followed(side)
    PROVE  ReportsNext(side, end, r)
<1> DEFINE k == Len(decoded[side]) + 1
<1>1. Followed(side) \in Nat /\ Len(decoded[side]) \in Nat
  BY FollowedType, LenProperties DEF Understood, AsSaid
<1>2. k \in 1..Followed(side) /\ k - 1 = Len(decoded[side]) /\ k # 0
  BY <1>1
<1>3. from[side] \in MessageEnds(conv, side, Len(decoded[side]))
  <2>1. ~(\A n \in conv.cuts[side] : n <= arrived[side])
    <3>1. end \in conv.cuts[side]
      BY DEF Sendable
    <3>2. ~(end <= arrived[side])
      BY DEF Understood, Buffered, BuffersType
    <3> QED
      BY <3>1, <3>2
  <2> QED
    BY <1>1, <2>1 DEF Understood, AtMessage
<1>4. PICK p \in conv.parts[side] : p.lead /\ p.items = k /\ p.start = from[side]
  <2>1. \A j \in 1..Followed(side) : \A n \in MessageEnds(conv, side, j - 1) :
              \E p \in conv.parts[side] : p.lead /\ p.items = j /\ p.start = n
    BY DEF Understood, OfProtocol, Followed
  <2> HIDE DEF k
  <2>2. from[side] \in MessageEnds(conv, side, k - 1)
    BY <1>2, <1>3
  <2> QED
    BY <1>2, <2>1, <2>2
<1>5. Gives(r, Stream(side, end), conv.says[side][k], p.end)
  BY <1>4, FrontGives
<1>6. p.end <= end /\ r.hdr = <<conv.says[side][k]>> /\ r.off = p.end
  BY <1>5 DEF Gives, Stream
<1> HIDE DEF k
<1>7. p.end \in MessageEnds(conv, side, k)
  BY <1>2, <1>4 DEF MessageEnds
<1> QED
  BY <1>4, <1>6, <1>7 DEF ReportsNext, k

\* A segment of which nothing is reported changes nothing in what was.
LEMMA SaidStays ==
    ASSUME NEW name, OfProtocol(conv, name), NEW side \in Sides, AsSaid(side), AtMessage(side),
           conv' = conv, decoded'[side] = decoded[side],
           arrived[side] \in Nat, arrived'[side] \in Nat, arrived[side] <= arrived'[side],
           conv.cuts[side] \subseteq Nat,
           from'[side] = from[side] \/ \A n \in conv.cuts[side] : n <= arrived'[side]
    PROVE  AsSaid(side)' /\ AtMessage(side)'
<1>1. Followed(side)' = Followed(side)
  BY DEF Followed
<1>2. \A p \in conv.parts[side] : p.end <= arrived[side] => p.end <= arrived'[side]
  BY DEF OfProtocol
<1>3. AsSaid(side)'
  BY <1>1, <1>2 DEF AsSaid
<1>4. (\A n \in conv.cuts[side] : n <= arrived[side]) => \A n \in conv.cuts[side] : n <= arrived'[side]
  OBVIOUS
<1>5. AtMessage(side)'
  BY <1>1, <1>4 DEF AtMessage
<1> QED
  BY <1>3, <1>5

\* A segment of which an item is reported: it is the next of what was said, if not
\* something that cannot be told apart was left before, and the buffer is behind it.
LEMMA SaidGrows ==
    ASSUME ConversationsAreFrames, NEW name \in DOMAIN MessageOf, Understood(name), NEW side \in Sides,
           side \notin lost, NEW end \in Sendable(side), end \in Nat, end > arrived[side],
           NEW r, r = decodeL7(name, Packet(side), Stream(side, end), from[side]), r.ok,
           conv' = conv, decoded'[side] = decoded[side] \o r.hdr, arrived'[side] = end,
           from'[side] = r.off \/ \A n \in conv.cuts[side] : n <= end
    PROVE  AsSaid(side)' /\ AtMessage(side)'
<1> DEFINE said == decoded[side]
           k == Len(said) + 1
<1>1. Followed(side) \in Nat /\ Followed(side)' = Followed(side)
  BY FollowedType DEF Understood, Followed
<1>2. arrived[side] \in Nat
  BY DEF Understood, Buffered, BuffersType
<1>3. PICK S : said \in Seq(S)
  BY DEF Understood, AsSaid
<1>4. PICK value : r.hdr = <<value>>
  BY OneItem
<1> DEFINE T == S \cup {value}
<1>5. /\ said \o <<value>> \in Seq(T) /\ Len(said \o <<value>>) = k /\ Len(said) \in Nat
      /\ \A j \in 1..Len(said) : (said \o <<value>>)[j] = said[j]
      /\ (said \o <<value>>)[k] = value
  <2>1. said \in Seq(T) /\ <<value>> \in Seq(T) /\ Len(<<value>>) = 1 /\ <<value>>[1] = value
    BY <1>3, SeqMonotonic
  <2> HIDE DEF T
  <2> QED
    BY <2>1, ConcatProperties, LenProperties
<1> HIDE DEF T
<1>6. \A p \in conv.parts[side] : p.end <= arrived[side] => p.end <= end
  BY <1>2 DEF Understood, OfProtocol
<1>7. \A j \in 1..Followed(side) : j <= Len(said) =>
          /\ said[j] = conv.says[side][j]
          /\ \E p \in conv.parts[side] : p.items = j /\ p.end <= end
  BY <1>6 DEF Understood, AsSaid
<1>8. Len(said) < Followed(side) =>
          /\ value = conv.says[side][k]
          /\ r.off \in MessageEnds(conv, side, k)
          /\ \E p \in conv.parts[side] : p.items = k /\ p.end <= end
  <2> SUFFICES ASSUME Len(said) < Followed(side)
               PROVE  /\ value = conv.says[side][k]
                      /\ r.off \in MessageEnds(conv, side, k)
                      /\ \E p \in conv.parts[side] : p.items = k /\ p.end <= end
    OBVIOUS
  <2>1. ReportsNext(side, end, r)
    BY NextReported
  <2> QED
    BY <1>4, <2>1 DEF ReportsNext
<1>9. decoded'[side] = said \o <<value>>
  BY <1>4
<1> HIDE DEF said
<1>10. AsSaid(side)'
  <2>1. \A j \in 1..Followed(side) : j <= k =>
            /\ (said \o <<value>>)[j] = conv.says[side][j]
            /\ \E p \in conv.parts[side] : p.items = j /\ p.end <= end
    <3> SUFFICES ASSUME NEW j \in 1..Followed(side), j <= k
                 PROVE  /\ (said \o <<value>>)[j] = conv.says[side][j]
                        /\ \E p \in conv.parts[side] : p.items = j /\ p.end <= end
      OBVIOUS
    <3>1. CASE j <= Len(said)
      BY <1>1, <1>5, <1>7, <3>1
    <3>2. CASE j > Len(said)
      <4>1. j = k /\ Len(said) < Followed(side)
        BY <1>1, <1>5, <3>2
      <4> HIDE DEF k
      <4> QED
        BY <1>5, <1>8, <4>1
    <3> QED
      BY <1>5, <3>1, <3>2
  <2> QED
    BY <1>1, <1>5, <1>9, <2>1 DEF AsSaid
<1>11. AtMessage(side)'
  <2>1. CASE \A n \in conv.cuts[side] : n <= end
    BY <2>1 DEF AtMessage
  <2>2. CASE from'[side] = r.off /\ Len(said) < Followed(side)
    BY <1>5, <1>8, <1>9, <2>2 DEF AtMessage
  <2>3. CASE ~(Len(said) < Followed(side))
    <3>1. k >= Followed(side)
      BY <1>1, <1>5, <2>3
    <3> QED
      BY <1>1, <1>5, <1>9, <3>1 DEF AtMessage
  <2> QED
    BY <2>1, <2>2, <2>3
<1> QED
  BY <1>10, <1>11

\* Of a protocol that is not known nothing is reported.
LEMMA UnknownFails ==
    ASSUME NEW packet, NEW f, NEW off
    PROVE  ~decodeL7(Unknown, packet, f, off).ok
BY DEF decodeL7, Unknown, Failure

\* A segment that is decoded leaves no whole message in front, or has reported one.
LEMMA HeadTaken ==
    ASSUME ConversationsAreFrames, NEW name \in DOMAIN MessageOf, Understood(name), NEW side \in Sides,
           NEW end \in Sendable(side), end \in Nat, end > arrived[side], NEW fin \in BOOLEAN,
           NEW known \in {name, Unknown},
           NEW r, r = decodeL7(known, Packet(side), Stream(side, end), from[side]),
           Decode(side, end, fin, known, r), conv' = conv, arrived'[side] = end
    PROVE  CompleteHeadDecoded'
<1>1. latest' = [side |-> side, outcome |-> IF r.ok THEN "decoded" ELSE "waiting"]
  BY DEF Decode
<1>2. \A off : Kept(side, known, off, end, fin) => proto'[side] = IF fin THEN Unknown ELSE known
  BY DEF Kept, Understood
<1>3. proto'[side] = IF fin THEN Unknown ELSE known
  BY <1>2 DEF Decode
<1>4. "TLS" \notin {name, Unknown}
  BY DEF MessageOf, Unknown
<1>5. CASE r.ok
  BY <1>1, <1>3, <1>4, <1>5 DEF CompleteHeadDecoded
<1>6. CASE ~r.ok /\ (fin \/ known = Unknown)
  BY <1>1, <1>3, <1>6 DEF CompleteHeadDecoded
<1>7. CASE ~r.ok /\ ~fin /\ known = name
  <2>1. from'[side] = from[side]
    BY <1>7 DEF Decode, Kept, Understood, Buffered, BuffersType
  <2>2. ASSUME NEW p \in conv.parts[side], p.lead, p.start = from[side], p.end <= end
        PROVE  FALSE
    <3>1. Gives(r, Stream(side, end), conv.says[side][p.items], p.end)
      BY <1>7, <2>2, FrontGives
    <3> QED
      BY <1>7, <2>2, <3>1 DEF Gives, Stream
  <2>3. \A p \in conv'.parts[side] : ~(p.lead /\ p.start = from'[side] /\ p.end <= arrived'[side])
    BY <2>1, <2>2
  <2> QED
    BY <1>1, <2>3 DEF CompleteHeadDecoded
<1> QED
  BY <1>5, <1>6, <1>7

\* What becomes of the side that a segment comes from.
LEMMA SideUnderstood ==
    ASSUME ConversationsAreFrames, NEW name \in DOMAIN MessageOf, Understood(name), NEW side \in Sides,
           NEW end \in Sendable(side), end \in Nat, end > arrived[side], NEW fin \in BOOLEAN,
           fin => \A n \in conv.cuts[side] : n <= end,
           Drop(side, end) \/ Take(side, end, fin, Detected(side, end)),
           conv' = conv, arrived' = [arrived EXCEPT ![side] = end]
    PROVE  /\ EngineKnows(engine', name)
           /\ \E known \in {name, Unknown} : proto' = [proto EXCEPT ![side] = known]
           /\ side \notin lost' => AsSaid(side)' /\ AtMessage(side)'
           /\ DOMAIN decoded' = Sides
           /\ \A other \in Sides : other # side => decoded'[other] = decoded[other]
           /\ \E off : from' = [from EXCEPT ![side] = off]
           /\ lost \subseteq lost'
           /\ CompleteHeadDecoded'
<1> DEFINE d == Detected(side, end)
           known == d.detected
           r == decodeL7(known, Packet(side), Stream(side, end), from[side])
<1>1. /\ arrived \in [Sides -> Nat] /\ from \in [Sides -> Nat] /\ DOMAIN decoded = Sides
      /\ DOMAIN proto = Sides /\ arrived'[side] = end /\ conv.cuts[side] \subseteq Nat
  BY DEF Understood, Buffered, BuffersType, KnownConversation, ConversationsAreFrames
<1>2. known \in {name, Unknown} /\ EngineKnows(d.engine, name)
  BY DetectedIsOwn DEF Understood
<1>3. decoded' = decoded => /\ DOMAIN decoded' = Sides
                            /\ \A other \in Sides : other # side => decoded'[other] = decoded[other]
  BY <1>1
<1> HIDE DEF d, known
<1>4. CASE Drop(side, end)
  <2>1. proto' = [proto EXCEPT ![side] = Unknown] /\ from' = [from EXCEPT ![side] = end]
    BY <1>4 DEF Drop, Kept
  <2>2. engine' = engine /\ decoded' = decoded /\ lost' = lost \cup {side}
    BY <1>4 DEF Drop
  <2>3. latest' = [side |-> side, outcome |-> "dropped"]
    BY <1>4 DEF Drop
  <2>4. CompleteHeadDecoded'
    BY <2>3 DEF CompleteHeadDecoded
  <2> QED
    BY <1>3, <2>1, <2>2, <2>4 DEF Understood
<1>5. CASE Take(side, end, fin, d) /\ Suppress(side, end, fin, known)
  <2>1. /\ proto' = [proto EXCEPT ![side] = IF fin THEN Unknown ELSE known]
        /\ from' = [from EXCEPT ![side] = IF fin THEN end ELSE from[side]]
    BY <1>5 DEF Suppress, Kept
  <2>2. engine' = d.engine /\ decoded' = decoded /\ lost' = lost
    BY <1>5 DEF Suppress, Take
  <2>3. latest' = [side |-> side, outcome |-> "suppressed"]
    BY <1>5 DEF Suppress
  <2>4. CompleteHeadDecoded'
    BY <2>3 DEF CompleteHeadDecoded
  <2>5. side \notin lost => AsSaid(side)' /\ AtMessage(side)'
    <3>1. from'[side] = from[side] \/ \A n \in conv.cuts[side] : n <= arrived'[side]
      BY <1>1, <2>1
    <3>2. OfProtocol(conv, name) /\ (side \notin lost => AsSaid(side) /\ AtMessage(side))
      BY DEF Understood
    <3>3. arrived[side] \in Nat /\ arrived'[side] \in Nat /\ arrived[side] <= arrived'[side]
      BY <1>1
    <3> QED
      BY <1>1, <2>2, <3>1, <3>2, <3>3, SaidStays
  <2> QED
    BY <1>2, <1>3, <2>1, <2>2, <2>4, <2>5
<1>6. CASE Take(side, end, fin, d) /\ Decode(side, end, fin, known, r)
  <2>1. CompleteHeadDecoded'
    BY <1>1, <1>2, <1>6, HeadTaken
  <2>2. engine' = d.engine /\ lost' = lost
    BY <1>6 DEF Take
  <2>3. CASE r.ok
    <3>1. decoded' = [decoded EXCEPT ![side] = decoded[side] \o r.hdr]
      BY <1>6, <2>3 DEF Decode
    <3>2. /\ proto' = [proto EXCEPT ![side] = IF fin THEN Unknown ELSE known]
          /\ from' = [from EXCEPT ![side] = IF fin THEN end ELSE r.off]
      BY <1>6, <2>3 DEF Decode, Kept
    <3>3. known = name
      BY <1>2, <2>3, UnknownFails
    <3>4. from'[side] = r.off \/ \A n \in conv.cuts[side] : n <= end
      BY <1>1, <3>2
    <3>5. decoded'[side] = decoded[side] \o r.hdr
      BY <1>1, <3>1
    <3>6. r = decodeL7(name, Packet(side), Stream(side, end), from[side])
      BY <3>3
    <3> HIDE DEF r
    <3>7. side \notin lost => AsSaid(side)' /\ AtMessage(side)'
      BY <1>1, <2>3, <3>4, <3>5, <3>6, SaidGrows
    <3>8. /\ DOMAIN decoded' = Sides
          /\ \A other \in Sides : other # side => decoded'[other] = decoded[other]
      BY <1>1, <3>1
    <3> QED
      BY <1>2, <2>1, <2>2, <3>2, <3>7, <3>8
  <2>4. CASE ~r.ok
    <3>1. decoded' = decoded
      BY <1>6, <2>4 DEF Decode
    <3>2. /\ proto' = [proto EXCEPT ![side] = IF fin THEN Unknown ELSE known]
          /\ from' = [from EXCEPT ![side] = IF fin THEN end ELSE from[side]]
      BY <1>6, <2>4 DEF Decode, Kept
    <3>3. from'[side] = from[side] \/ \A n \in conv.cuts[side] : n <= arrived'[side]
      BY <1>1, <3>2
    <3>4. OfProtocol(conv, name) /\ (side \notin lost => AsSaid(side) /\ AtMessage(side))
      BY DEF Understood
    <3>5. arrived[side] \in Nat /\ arrived'[side] \in Nat /\ arrived[side] <= arrived'[side]
      BY <1>1
    <3>6. side \notin lost => AsSaid(side)' /\ AtMessage(side)'
      BY <1>1, <3>1, <3>3, <3>4, <3>5, SaidStays
    <3> HIDE DEF r
    <3> QED
      BY <1>2, <1>3, <2>1, <2>2, <3>1, <3>2, <3>6
  <2> QED
    BY <2>3, <2>4
<1>7. \/ Drop(side, end)
      \/ Take(side, end, fin, d) /\ Suppress(side, end, fin, known)
      \/ Take(side, end, fin, d) /\ Decode(side, end, fin, known, r)
  BY DEF Take, d, known
<1> QED
  BY <1>4, <1>5, <1>6, <1>7

\* A segment leaves the conversation understood: its side as SideUnderstood says, and what
\* was reported of the other side stays.
LEMMA ArriveUnderstood ==
    ASSUME ConversationsAreFrames, NEW name \in DOMAIN MessageOf, Understood(name), NEW side \in Sides,
           Arrive(side)
    PROVE  Understood(name)'
<1>1. PICK end \in Sendable(side), fin \in BOOLEAN :
          /\ fin => \A n \in conv.cuts[side] : n <= end
          /\ Drop(side, end) \/ Take(side, end, fin, Detected(side, end))
          /\ arrived' = [arrived EXCEPT ![side] = end]
          /\ UNCHANGED conv
  BY DEF Arrive
<1>2. Buffered' /\ Buffered /\ OfProtocol(conv, name)' /\ OfProtocol(conv, name)
  BY <1>1, ArriveKeepsBuffers DEF Understood
<1>3. end \in Nat /\ end > arrived[side]
  BY <1>2 DEF Sendable, Buffered, KnownConversation, ConversationsAreFrames
<1>4. /\ EngineKnows(engine', name)
      /\ \E known \in {name, Unknown} : proto' = [proto EXCEPT ![side] = known]
      /\ side \notin lost' => AsSaid(side)' /\ AtMessage(side)'
      /\ DOMAIN decoded' = Sides
      /\ \A other \in Sides : other # side => decoded'[other] = decoded[other]
      /\ \E off : from' = [from EXCEPT ![side] = off]
      /\ lost \subseteq lost'
      /\ CompleteHeadDecoded'
  BY <1>1, <1>3, SideUnderstood
<1>5. DOMAIN proto' = Sides /\ \A other \in Sides : proto'[other] \in {name, Unknown}
  BY <1>4 DEF Understood
<1>6. ASSUME NEW other \in Sides, other \notin lost'
      PROVE  AsSaid(other)' /\ AtMessage(other)'
  <2>1. CASE other = side
    BY <1>4, <1>6, <2>1
  <2>2. CASE other # side
    <3>1. /\ decoded'[other] = decoded[other] /\ from'[other] = from[other] /\ arrived'[other] = arrived[other]
          /\ arrived[other] \in Nat
      BY <1>1, <1>2, <1>4, <2>2 DEF Buffered, BuffersType
    <3>2. AsSaid(other) /\ AtMessage(other)
      BY <1>4, <1>6 DEF Understood
    <3>3. conv.cuts[other] \subseteq Nat
      BY <1>2 DEF Buffered, KnownConversation, ConversationsAreFrames
    <3> QED
      BY <1>1, <1>2, <3>1, <3>2, <3>3, SaidStays
  <2> QED
    BY <2>1, <2>2
<1> QED
  BY <1>2, <1>4, <1>5, <1>6 DEF Understood

\* Before the first segment nothing is known and the first message is in front.
LEMMA InitUnderstood ==
    ASSUME ConversationsAreFrames, NEW name \in DOMAIN MessageOf, OfProtocol(conv, name), Init
    PROVE  Understood(name)
<1>1. Buffered
  <2>1. \A side \in Sides : arrived[side] - from[side] = 0
    BY DEF Init
  <2> QED
    BY <2>1, StreamAssumption DEF Init, Buffered, KnownConversation, BuffersType, BufferWithinLimit
<1>2. EngineKnows(engine, name)
  <2>1. engine = [flowStates |-> <<>>, tftpPorts |-> {}] /\ DOMAIN <<>> = {}
    BY DEF Init, EmptyEngine
  <2> QED
    BY <2>1 DEF EngineKnows
<1>3. \A side \in Sides : AsSaid(side) /\ AtMessage(side)
  <2> TAKE side \in Sides
  <2>1. decoded[side] = <<>> /\ from[side] = 0
    BY DEF Init
  <2>2. <<>> \in Seq({}) /\ Len(<<>>) = 0
    OBVIOUS
  <2>3. AsSaid(side)
    BY <2>1, <2>2, FollowedType DEF AsSaid
  <2>4. AtMessage(side)
    BY <2>1, <2>2 DEF AtMessage, MessageEnds
  <2> QED
    BY <2>3, <2>4
<1>4. CompleteHeadDecoded
  BY DEF Init, CompleteHeadDecoded
<1>5. DOMAIN proto = Sides /\ (\A side \in Sides : proto[side] = Unknown) /\ DOMAIN decoded = Sides
  BY DEF Init
<1> QED
  BY <1>1, <1>2, <1>3, <1>4, <1>5 DEF Understood

\* What is reported as it was said and has come is what is promised.
LEMMA SaidAsPromised ==
    ASSUME NEW name, Understood(name)
    PROVE  DecodedAsSent
<1> SUFFICES ASSUME NEW side \in Sides, side \notin lost
             PROVE  /\ Reported(side) <= Come(side)
                    /\ SubSeq(decoded[side], 1, Reported(side)) = SubSeq(conv.says[side], 1, Reported(side))
  BY DEF DecodedAsSent
<1> DEFINE k == Reported(side)
           all == Len(conv.says[side])
           there == {0} \cup {p.items : p \in {q \in conv.parts[side] : q.end <= arrived[side]}}
<1>1. OfProtocol(conv, name) /\ AsSaid(side)
  BY DEF Understood
<1>2. Followed(side) \in 0..all /\ all \in Nat
  BY <1>1, FollowedType
<1>3. PICK S : decoded[side] \in Seq(S)
  BY <1>1 DEF AsSaid
<1>4. Len(decoded[side]) \in Nat
  BY <1>3, LenProperties
<1>5. k \in Nat /\ k <= Followed(side) /\ k <= Len(decoded[side])
  <2>1. k = IF Followed(side) <= Len(decoded[side]) THEN Followed(side) ELSE Len(decoded[side])
    BY <1>2, <1>4, MinOfTwo DEF Reported
  <2> QED
    BY <1>2, <1>4, <2>1
<1>6. there \subseteq 0..all
  BY <1>1, <1>2 DEF OfProtocol
<1>7. k \in there
  <2>1. CASE k = 0
    BY <2>1
  <2>2. CASE k # 0
    <3> HIDE DEF k
    <3>1. k \in 1..Followed(side)
      BY <1>2, <1>5, <2>2
    <3>2. PICK p \in conv.parts[side] : p.items = k /\ p.end <= arrived[side]
      BY <1>1, <1>5, <3>1 DEF AsSaid
    <3> QED
      BY <3>2
  <2> QED
    BY <2>1, <2>2
<1>8. k <= Come(side)
  <2> HIDE DEF there, k
  <2>1. Max(there) \in there /\ k <= Max(there)
    BY <1>2, <1>6, <1>7, MaxIsGreatest
  <2>2. Max(there) \in Nat
    <3>1. \A n \in 0..all : n \in Nat
      BY <1>2
    <3>2. Max(there) \in 0..all
      BY <1>6, <2>1
    <3> QED
      BY <3>1, <3>2
  <2>3. Come(side) = Min({Followed(side), Max(there)})
    BY DEF Come, there
  <2>4. Come(side) = IF Followed(side) <= Max(there) THEN Followed(side) ELSE Max(there)
    BY <1>2, <2>2, <2>3, MinOfTwo
  <2> QED
    BY <1>5, <2>1, <2>4
<1> HIDE DEF k
<1>9. \A j \in 1..k : decoded[side][j] = conv.says[side][j]
  BY <1>1, <1>2, <1>4, <1>5 DEF AsSaid
<1>10. SubSeq(decoded[side], 1, k) = SubSeq(conv.says[side], 1, k)
  <2>1. /\ SubSeq(decoded[side], 1, k) = [j \in 1..k |-> decoded[side][j]]
        /\ SubSeq(conv.says[side], 1, k) = [j \in 1..k |-> conv.says[side][j]]
    BY <1>5 DEF SubSeq
  <2> QED
    BY <1>9, <2>1
<1> QED
  BY <1>8, <1>10 DEF k

\* A conversation of messages is understood as one of a protocol from its beginning on.
Following == OfMessages(conv) => \E name \in DOMAIN MessageOf : Understood(name)

\* It is when the conversation begins,
LEMMA InitFollowing ==
    ASSUME ConversationsAreFrames, Init
    PROVE  Following
BY InitUnderstood DEF Following, OfMessages

\* and it stays so, since the conversation does.
LEMMA NextFollowing ==
    ASSUME ConversationsAreFrames, Following, [Next]_vars
    PROVE  Following'
<1>1. CASE UNCHANGED vars
  <2>1. \A name : Understood(name)' <=> Understood(name)
    BY <1>1 DEF Understood, Buffered, KnownConversation, BuffersType, BufferWithinLimit, AsSaid, AtMessage,
                Followed, CompleteHeadDecoded, vars
  <2>2. conv' = conv
    BY <1>1 DEF vars
  <2> QED
    BY <2>1, <2>2 DEF Following
<1>2. ASSUME NEW side \in Sides, Arrive(side)
      PROVE  Following'
  <2>1. conv' = conv
    BY <1>2 DEF Arrive
  <2> QED
    BY <1>2, <2>1, ArriveUnderstood DEF Following
<1> QED
  BY <1>1, <1>2 DEF Next

\* Whatever conversation of such a protocol there is, however its streams are cut into
\* segments and whatever else comes between: its messages are reported in order, once, as
\* they were sent and not before they have come.
THEOREM MessagesCorrect ==
    ASSUME ConversationsAreFrames
    PROVE  Spec => [](OfMessages(conv) => DecodedAsSent)
<1>1. Init => Following
  BY InitFollowing
<1>2. Following /\ [Next]_vars => Following'
  BY NextFollowing
<1>3. Following => (OfMessages(conv) => DecodedAsSent)
  BY SaidAsPromised DEF Following
<1> QED
  BY <1>1, <1>2, <1>3, PTL DEF Spec

\* Nor does a segment leave a whole message of such a conversation at the front of the
\* buffer, unless it already reported one.
THEOREM HeadsCorrect ==
    ASSUME ConversationsAreFrames
    PROVE  Spec => [](OfMessages(conv) => CompleteHeadDecoded)
<1>1. Init => Following
  BY InitFollowing
<1>2. Following /\ [Next]_vars => Following'
  BY NextFollowing
<1>3. Following => (OfMessages(conv) => CompleteHeadDecoded)
  BY DEF Following, Understood
<1> QED
  BY <1>1, <1>2, <1>3, PTL DEF Spec
=============================================================================
