---------------------------- MODULE TcpReassembler ----------------------------
(***************************************************************************)
(* The reassembly of one direction of one TCP connection                   *)
(* (src/src/reassembly.cpp). The streams of different flow ids share no    *)
(* state. The network loses, repeats and reorders the sender's segments;   *)
(* the sender retransmits.                                                 *)
(*                                                                         *)
(* A byte is named by its offset in what the sender writes; the SYN takes  *)
(* the sequence number before the first of them and is named -1. Sequence  *)
(* numbers wrap.                                                           *)
(***************************************************************************)
EXTENDS Integers, Sequences, FiniteSets

CONSTANTS
    SeqSpace,         \* the number of sequence numbers, 2^32 in the code
    ISN,             \* the sequence number of the SYN
    StreamBytes,     \* how many bytes the sender writes
    Cuts,            \* the ways it may cut them up: sets of [first |-> offset, len |-> bytes]
    MaxStreamBytes,  \* config.maxStreamBytes
    SynFirst,        \* TRUE if the SYN is seen, and before any data
    LateSyn          \* TRUE if a SYN may be seen after data

\* A stream is shorter than half the sequence numbers, so that no two of its
\* bytes are mistaken for each other.
ASSUME ReassemblerAssumption ==
    /\ SeqSpace \in Nat
    /\ ISN \in 0..(SeqSpace - 1)
    /\ StreamBytes \in Nat
    /\ 2 * (StreamBytes + 1) < SeqSpace
    /\ \A cut \in Cuts : \A s \in cut :
         s.first \in 0..(StreamBytes - 1) /\ s.len \in 1..(StreamBytes - s.first)
    /\ MaxStreamBytes \in Nat
    /\ SynFirst \in BOOLEAN
    /\ LateSyn \in BOOLEAN

Segments == UNION Cuts

SeqNums == 0..(SeqSpace - 1)

VARIABLES
    \* the StreamBuffer
    segments,         \* what is buffered, a function from sequence numbers to payloads
    nextExpectedSeq,
    synSeen,
    totalBytes,
    \* the sender: how it cuts what it sends and retransmits
    segmentation,
    \* history
    delivered,        \* every byte returned to the caller, in order
    kept,             \* every byte that was accepted, the SYN included
    misreported       \* the bytes of segments reported as retransmissions that
                      \* had not been accepted before

vars == <<segments, nextExpectedSeq, synSeen, totalBytes, segmentation,
          delivered, kept, misreported>>

Init ==
    /\ segments = <<>>
    /\ nextExpectedSeq = 0
    /\ synSeen = FALSE
    /\ totalBytes = 0
    /\ segmentation \in Cuts
    /\ delivered = <<>>
    /\ kept = {}
    /\ misreported = {}

-----------------------------------------------------------------------------

SynSegment == [first |-> -1, len |-> 1]

Payload(s) == [i \in 1..s.len |-> s.first + i - 1]
Bytes(s) == s.first..(s.first + s.len - 1)

\* header.seqNum
SeqNum(s) == (ISN + 1 + s.first) % SeqSpace

\* Mutant of seqBeforeOrEqual: the numbers are compared as unsigned ones.
seqBeforeOrEqualUnsigned(a, b) == a <= b

\* static_cast<int32_t>(a - b) <= 0
seqBeforeOrEqual(a, b) == LET d == (a - b) % SeqSpace IN d = 0 \/ 2 * d >= SeqSpace

\* Mutant of Expected: every segment starts the stream.
ExpectedAtSegment(s) == SeqNum(s)

\* nextExpectedSeq when the segment is looked at: the first data of a stream
\* whose SYN was missed starts it.
Expected(s) == IF synSeen THEN nextExpectedSeq ELSE SeqNum(s)

\* Mutant of OverLimit: the segment itself is not counted in.
OverLimitAlready(s) == totalBytes > MaxStreamBytes

OverLimit(s) == totalBytes + s.len > MaxStreamBytes

\* Delivered already, or a duplicate of a buffered segment.
Retransmitted(s) ==
    \/ seqBeforeOrEqual((SeqNum(s) + s.len) % SeqSpace, Expected(s))
    \/ /\ SeqNum(s) \in DOMAIN segments
       /\ Len(segments[SeqNum(s)]) = s.len

\* Mutant of Stored: the payload is put behind the one with the same sequence number.
StoredBehind(s) ==
    [q \in DOMAIN segments \cup {SeqNum(s)} |->
        IF q # SeqNum(s) THEN segments[q]
        ELSE IF q \in DOMAIN segments THEN segments[q] \o Payload(s) ELSE Payload(s)]

\* The buffer with a segment stored, over one with the same sequence number.
Stored(s) ==
    [q \in DOMAIN segments \cup {SeqNum(s)} |-> IF q = SeqNum(s) THEN Payload(s) ELSE segments[q]]

\* One round of the loop: the segment that comes next, if it is buffered, is
\* appended to the result and erased.
Round(st) ==
    IF st.next \notin DOMAIN st.buffer
    THEN st
    ELSE [data   |-> st.data \o st.buffer[st.next],
          next   |-> (st.next + Len(st.buffer[st.next])) % SeqSpace,
          buffer |-> [q \in DOMAIN st.buffer \ {st.next} |-> st.buffer[q]]]

\* What the loop may have done after k rounds: a set, of the one state it is in.
Rounds(buffer, next) ==
    LET loop[k \in Nat] == IF k = 0
                           THEN {[data |-> <<>>, next |-> next, buffer |-> buffer]}
                           ELSE {Round(st) : st \in loop[k - 1]}
    IN  loop

\* Mutant of Assemble: a single segment is taken out of the buffer.
AssembleOne(buffer, next) == Rounds(buffer, next)[1]

\* What the loop takes out of a buffer: the segments that follow each other from
\* `next` on. It ends when the next one is missing, after each was taken once at most.
Assemble(buffer, next) == Rounds(buffer, next)[Cardinality(DOMAIN buffer)]

\* process() of a SYN, the first one or another.
Syn ==
    /\ delivered # <<>> \/ segments # <<>> => LateSyn
    /\ synSeen' = TRUE
    /\ nextExpectedSeq' = (SeqNum(SynSegment) + 1) % SeqSpace
    /\ kept' = kept \cup {-1}
    /\ misreported' = IF synSeen THEN misreported \cup (Bytes(SynSegment) \ kept) ELSE misreported
    /\ UNCHANGED <<segments, totalBytes, segmentation, delivered>>

\* Mutant of Accept: the bytes put into the buffer are not added to the account.
AcceptUnadded(s) ==
    \E result \in Assemble(Stored(s), Expected(s)) :
        /\ segments' = result.buffer
        /\ nextExpectedSeq' = result.next
        /\ totalBytes' = totalBytes - Len(result.data)
        /\ delivered' = delivered \o result.data
        /\ kept' = kept \cup Bytes(s)
        /\ UNCHANGED misreported

\* A segment is stored, and all that now follows in order is returned.
Accept(s) ==
    \E result \in Assemble(Stored(s), Expected(s)) :
        /\ segments' = result.buffer
        /\ nextExpectedSeq' = result.next
        /\ totalBytes' = totalBytes + s.len - Len(result.data)
        /\ delivered' = delivered \o result.data
        /\ kept' = kept \cup Bytes(s)
        /\ UNCHANGED misreported

\* process() of a segment without SYN. One without payload changes nothing.
process(s) ==
    /\ s \in segmentation
    /\ SynFirst => -1 \in kept
    /\ synSeen' = TRUE
    /\ UNCHANGED segmentation
    /\ \/ /\ OverLimit(s)
          /\ nextExpectedSeq' = Expected(s)
          /\ UNCHANGED <<segments, totalBytes, delivered, kept, misreported>>
       \/ /\ ~OverLimit(s) /\ Retransmitted(s)
          /\ nextExpectedSeq' = Expected(s)
          /\ misreported' = misreported \cup (Bytes(s) \ kept)
          /\ UNCHANGED <<segments, totalBytes, delivered, kept>>
       \/ /\ ~OverLimit(s) /\ ~Retransmitted(s)
          /\ Accept(s)

Next == Syn \/ \E s \in Segments : process(s)

Spec == Init /\ [][Next]_vars

\* The sender retransmits, the SYN and every segment, until it gets through.
FairSpec == Spec /\ WF_vars(Syn) /\ \A s \in Segments : WF_vars(process(s))

-----------------------------------------------------------------------------

\* Every variable has its type: what is buffered are segments that the sender sends, each
\* under the sequence number of its first byte, and nothing else is returned.
TypeOK ==
    /\ \A q \in DOMAIN segments :
         \E s \in segmentation : q = SeqNum(s) /\ segments[q] = Payload(s)
    /\ nextExpectedSeq \in SeqNums
    /\ synSeen \in BOOLEAN
    /\ totalBytes \in Nat
    /\ segmentation \in Cuts
    /\ delivered \in Seq(0..(StreamBytes - 1))
    /\ kept \subseteq -1..(StreamBytes - 1)
    /\ misreported \subseteq -1..(StreamBytes - 1)

\* The bytes are returned in the sender's order, none left out and none twice,
\* from the first one if the SYN was seen in front of the data.
DeliversInOrder ==
    /\ \A i \in 1..(Len(delivered) - 1) : delivered[i + 1] = delivered[i] + 1
    /\ SynFirst /\ delivered # <<>> => delivered[1] = 0

\* Every retransmission repeats a segment as it was.
CutOnce ==
    \A s, t \in segmentation : s = t \/ s.first + s.len <= t.first \/ t.first + t.len <= s.first

\* From a sender that cuts its stream once, the next byte to be returned is not one
\* that was accepted before: a byte is held back only as long as one in front of it
\* is missing.
NothingWithheld == CutOnce /\ -1 \in kept => Len(delivered) \notin kept

\* A segment that fills a gap returns what is buffered behind it as well.
GapFillReleases == [][delivered' # delivered => Len(delivered)' \notin kept']_vars

\* Where the bytes of a buffer are.
Places(buffer) == UNION {{q} \X DOMAIN buffer[q] : q \in DOMAIN buffer}

\* How many bytes are buffered.
Buffered == Cardinality(Places(segments))

\* What is buffered never exceeds maxStreamBytes, nor the bytes accounted for: the
\* unsigned counter does not wrap below zero.
WithinLimit == Buffered <= totalBytes /\ totalBytes <= MaxStreamBytes

\* From a sender that cuts its stream once, exactly what is buffered is on the
\* account: no part of the limit is lost for good.
AccountBalanced == CutOnce => totalBytes = Buffered

\* What is reported as a retransmission is one: every byte of it has been seen before.
RetransmissionsWereSeen == misreported = {}

\* A sender that cuts its stream once gets its whole stream through, if the limit leaves room for it.
StreamCompletes ==
    CutOnce /\ StreamBytes <= MaxStreamBytes => <>(Len(delivered) = StreamBytes)
===============================================================================
