---------------------------- MODULE IpDefragmenter ----------------------------
(***************************************************************************)
(* The reassembly of fragmented IPv4 datagrams (src/src/defragment.cpp).   *)
(* The network loses, repeats and reorders fragments. Data is counted in   *)
(* the units of the fragment offset, eight bytes each, and a unit is named *)
(* by its datagram and its place in it. The sender puts into a fragment    *)
(* what its header announces; the capture may have kept less.              *)
(***************************************************************************)
EXTENDS Integers, Sequences, FiniteSetsExt

CONSTANTS
    Datagrams,     \* the fragmented datagrams, each by a name
    Units,         \* how many units of data each has
    KeyOf,         \* the FragmentGroup of each: identification and both addresses
    Fragments,     \* the fragments of each, [first |-> unit, len |-> units]
    Beyond         \* what is read behind the captured bytes: it may be anything

\* A fragment is a proper part of its datagram.
ASSUME DefragmenterAssumption ==
    /\ Units \in [Datagrams -> Nat \ {0}]
    /\ DOMAIN KeyOf = Datagrams
    /\ DOMAIN Fragments = Datagrams
    /\ \A d \in Datagrams : \A f \in Fragments[d] :
         /\ f.first \in 0..(Units[d] - 1)
         /\ f.len \in 1..(Units[d] - f.first)
         /\ f.len # Units[d]

Keys == {KeyOf[d] : d \in Datagrams}

VARIABLES
    groups,     \* Impl::groups, a function from the keys of incomplete datagrams
    \* history
    returned,   \* every reassembled payload
    cut         \* the units that were missing in a captured fragment

vars == <<groups, returned, cut>>

Init == groups = <<>> /\ returned = {} /\ cut = {}

-----------------------------------------------------------------------------

\* How many whole units of a fragment's data the span has that process() is given: -1 if
\* it ends in the header.
Spans(f) == -1..f.len

\* What is stored of a fragment: as much as its header announces, whatever the span has.
Data(d, f, have) == [i \in 1..f.len |-> IF i <= have THEN <<d, f.first + i - 1>> ELSE Beyond]

\* The units that the capture has cut off.
CutOff(d, f, have) == {<<d, f.first + i - 1>> : i \in {j \in 1..f.len : j > have}}

\* MF = 0. A fragment without MF has an offset, so it is never mistaken for a whole datagram.
IsLast(d, f) == f.first + f.len = Units[d]

\* The FragmentBuffer of a group that is not there yet.
EmptyBuffer == [fragments |-> <<>>, lastFragmentReceived |-> FALSE, totalExpectedSize |-> 0]

Buffer(key) == IF key \in DOMAIN groups THEN groups[key] ELSE EmptyBuffer

With(fragments, d, f, have) ==
    [off \in DOMAIN fragments \cup {f.first} |->
        IF off = f.first THEN Data(d, f, have) ELSE fragments[off]]

\* The buffer with a fragment stored, over one with the same offset. Of one that is cut in
\* its header only the end of the datagram is kept.
Stored(buf, d, f, have) ==
    [fragments |-> IF have >= 0 THEN With(buf.fragments, d, f, have) ELSE buf.fragments,
     lastFragmentReceived |-> buf.lastFragmentReceived \/ IsLast(d, f),
     totalExpectedSize |-> IF IsLast(d, f) THEN f.first + f.len ELSE buf.totalExpectedSize]

\* Mutant of Follow: nobody looks where the next fragment lies.
FollowAnywhere(fragments, st) ==
    IF st.rest = {} THEN st
    ELSE [data |-> st.data \o fragments[Min(st.rest)], rest |-> st.rest \ {Min(st.rest)}]

\* One round of the loop over the fragments in the order of their offsets: the next one
\* is appended if it begins where the data in front of it ends.
Follow(fragments, st) ==
    IF st.rest # {} /\ Min(st.rest) = Len(st.data)
    THEN [data |-> st.data \o fragments[Len(st.data)], rest |-> st.rest \ {Len(st.data)}]
    ELSE st

\* What the loop ends with: the data, and the fragments from the first gap on.
Followed(fragments) ==
    LET loop[k \in Nat] == IF k = 0 THEN [data |-> <<>>, rest |-> DOMAIN fragments]
                                    ELSE Follow(fragments, loop[k - 1])
    IN  loop[Cardinality(DOMAIN fragments)]

\* The last fragment is there and the fragments follow each other up to its end.
Complete(buf) ==
    /\ buf.lastFragmentReceived
    /\ LET end == Followed(buf.fragments)
       IN  end.rest = {} /\ Len(end.data) = buf.totalExpectedSize

\* The data of a complete datagram.
Assembled(buf) == Followed(buf.fragments).data

Keep(key, buf) == groups' = [k \in DOMAIN groups \cup {key} |-> IF k = key THEN buf ELSE groups[k]]

Erase(key) == groups' = [k \in DOMAIN groups \ {key} |-> groups[k]]

\* Mutant of process: whether the datagram is complete is asked before the fragment is stored.
processLate(d, f, have) ==
    LET key == KeyOf[d]
        buf == Stored(Buffer(key), d, f, have)
    IN  /\ cut' = cut \cup CutOff(d, f, have)
        /\ IF Complete(Buffer(key)) THEN Erase(key) /\ returned' = returned \cup {Assembled(buf)}
                                    ELSE Keep(key, buf) /\ UNCHANGED returned

\* process() of a fragment; what is not one is returned as it came.
process(d, f, have) ==
    LET key == KeyOf[d]
        buf == Stored(Buffer(key), d, f, have)
    IN  /\ cut' = cut \cup CutOff(d, f, have)
        /\ IF Complete(buf) THEN Erase(key) /\ returned' = returned \cup {Assembled(buf)}
                            ELSE Keep(key, buf) /\ UNCHANGED returned

\* process() of a fragment whose totalLength is less than its header: the length of its data
\* wraps below zero, and the vector that is to hold them throws std::length_error. By then
\* the group is there.
processThrows(key) == Keep(key, Buffer(key)) /\ UNCHANGED <<returned, cut>>

Next ==
    \/ \E d \in Datagrams : \E f \in Fragments[d] : \E have \in Spans(f) : process(d, f, have)
    \/ \E key \in Keys : processThrows(key)

Spec == Init /\ [][Next]_vars

-----------------------------------------------------------------------------

\* Whatever arrives in whatever order, and however it was fragmented on the way, what is
\* returned is one whole datagram: no unit is missing, repeated, or of another one. Only
\* where the capture has cut a fragment something else stands in the place of a unit.
ReturnsWholeDatagrams ==
    \A data \in returned : \E d \in Datagrams :
        /\ DOMAIN data = 1..Units[d]
        /\ \A i \in 1..Units[d] :
             data[i] = <<d, i - 1>> \/ (data[i] = Beyond /\ <<d, i - 1>> \in cut)

\* What is returned are bytes of the fragments (the comment over their storing calls it
\* "fragment data").
ReturnsFragmentData == \A data \in returned : \A i \in DOMAIN data : data[i] # Beyond

\* Every router on the way cuts a datagram at the same places.
CutOneWay(d) ==
    \A f, g \in Fragments[d] : f = g \/ f.first + f.len <= g.first \/ g.first + g.len <= f.first

\* While its fragments are on the way, no other datagram has a datagram's identification
\* and addresses.
KeysDiffer == \A d, e \in Datagrams : KeyOf[d] = KeyOf[e] => d = e

\* Every unit of a datagram is sent in some fragment.
SentWhole ==
    \A d \in Datagrams : \A u \in 0..(Units[d] - 1) :
        \E f \in Fragments[d] : u \in f.first..(f.first + f.len - 1)

\* A datagram all of whose fragments are buffered does not stay in the buffer.
HoldsOnlyIncomplete ==
    \A d \in Datagrams : CutOneWay(d) /\ KeyOf[d] \in DOMAIN groups =>
        \E f \in Fragments[d] : f.first \notin DOMAIN groups[KeyOf[d]].fragments
===============================================================================
