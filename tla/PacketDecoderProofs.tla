------------------------- MODULE PacketDecoderProofs --------------------------
(***************************************************************************)
(* What holds of the defragmenter for any datagrams, however they are cut, *)
(* and any order of their fragments; and what holds of a decoder for any   *)
(* captures: what it keeps from packet to packet is what the packets       *)
(* before say, and it stays in the capture, whatever its layers make of    *)
(* the frames.                                                             *)
(***************************************************************************)
EXTENDS PacketDecoder, DecoderBounds

-----------------------------------------------------------------------------
(* The loop over the fragments: what holds of its first state and is kept  *)
(* by each round holds of what it ends with.                               *)

\* A unit of data: its datagram and its place in it, or what was read behind the capture.
Cells == (Datagrams \X Int) \cup {Beyond}

\* The fragments a loop can run over, by their offsets.
FragmentMaps == UNION {[D -> Seq(Cells)] : D \in {E \in SUBSET Nat : IsFiniteSet(E)}}

WalkStates(fragments) == [data : Seq(Cells), rest : SUBSET DOMAIN fragments]

\* The next fragment follows the data in front of it.
Goes(st) == st.rest # {} /\ Min(st.rest) = Len(st.data)

\* What a map of fragments is, part by part.
LEMMA FragmentMapFacts ==
    ASSUME NEW fragments \in FragmentMaps
    PROVE  /\ DOMAIN fragments \subseteq Nat
           /\ IsFiniteSet(DOMAIN fragments)
           /\ \A off \in DOMAIN fragments : fragments[off] \in Seq(Cells)
BY DEF FragmentMaps

\* A round leads from a state of the loop to another.
LEMMA FollowType ==
    ASSUME NEW fragments \in FragmentMaps, NEW st \in WalkStates(fragments)
    PROVE  Follow(fragments, st) \in WalkStates(fragments)
<1>1. st.data \in Seq(Cells) /\ st.rest \subseteq DOMAIN fragments
  BY DEF WalkStates
<1>2. CASE Goes(st)
  <2>1. Len(st.data) \in DOMAIN fragments
    BY <1>1, <1>2, MinIsLeast, FragmentMapFacts DEF Goes
  <2>2. fragments[Len(st.data)] \in Seq(Cells)
    BY <2>1, FragmentMapFacts
  <2>3. st.data \o fragments[Len(st.data)] \in Seq(Cells)
    BY <1>1, <2>2
  <2> QED
    BY <1>1, <1>2, <2>3 DEF Goes, Follow, WalkStates
<1>3. CASE ~Goes(st)
  BY <1>3 DEF Goes, Follow
<1> QED
  BY <1>2, <1>3

\* The loop as a recursive function, and what a set that its rounds do not leave says of
\* its k-th state: in it, with one fragment less than before, or at the end.
LoopPlaces(c) == Nat
LoopMore(c, k) == k # 0
LoopNext(c, k) == k - 1
LoopLast(c, k) == [data |-> <<>>, rest |-> DOMAIN c.fragments]
LoopJoin(c, k, st) == Follow(c.fragments, st)
LoopIn(c, k, st) ==
    st \in c.states /\ (~Goes(st) \/ Cardinality(st.rest) + k = Cardinality(DOMAIN c.fragments))

Loop == INSTANCE RecursionLemmas WITH
            Dom <- LoopPlaces, More <- LoopMore, Next <- LoopNext,
            Last <- LoopLast, Join <- LoopJoin, Inv <- LoopIn

\* What holds of the state the loop begins in, and of the state after a round if it
\* holds of the one before, holds of what the loop ends with; and then the fragments
\* are at an end or there is a gap.
LEMMA FollowedRule ==
    ASSUME NEW fragments \in FragmentMaps,
           NEW P, P \subseteq WalkStates(fragments),
           [data |-> <<>>, rest |-> DOMAIN fragments] \in P,
           \A st \in P : Goes(st) => Follow(fragments, st) \in P
    PROVE  Followed(fragments) \in P /\ ~Goes(Followed(fragments))
<1> DEFINE c == [fragments |-> fragments, states |-> P]
           rank == [k \in Nat |-> k]
           size == Cardinality(DOMAIN fragments)
           loop == CHOOSE g : Loop!IsRecursion(c, g)
<1>1. c.fragments = fragments /\ c.states = P
  OBVIOUS
<1> HIDE DEF c
<1>2. Followed(fragments) = loop[size]
  <2> DEFINE IsLoop(g) == g = [k \in Nat |-> IF k = 0 THEN [data |-> <<>>, rest |-> DOMAIN fragments]
                                             ELSE Follow(fragments, g[k - 1])]
             chosen == CHOOSE g : IsLoop(g)
  <2>1. Followed(fragments) = chosen[size]
    BY DEF Followed
  <2>2. \A g : Loop!IsRecursion(c, g) <=> IsLoop(g)
    <3> TAKE g
    <3> DEFINE left == [k \in Nat |-> IF LoopMore(c, k) THEN LoopJoin(c, k, g[LoopNext(c, k)])
                                      ELSE LoopLast(c, k)]
               right == [k \in Nat |-> IF k = 0 THEN [data |-> <<>>, rest |-> DOMAIN fragments]
                                       ELSE Follow(fragments, g[k - 1])]
    <3>1. \A k \in Nat : left[k] = right[k]
      BY <1>1 DEF LoopMore, LoopNext, LoopLast, LoopJoin
    <3>2. left = right
      BY <3>1
    <3>3. Loop!IsRecursion(c, g) <=> g = left
      BY DEF Loop!IsRecursion, LoopPlaces
    <3>4. IsLoop(g) <=> g = right
      OBVIOUS
    <3> HIDE DEF left, right, IsLoop
    <3> QED
      BY <3>2, <3>3, <3>4
  <2> HIDE DEF IsLoop
  <2>3. chosen = loop
    BY <2>2, Zenon
  <2> HIDE DEF chosen, loop
  <2> QED
    BY <2>1, <2>3
<1>3. Loop!Descends(c, rank)
  BY DEF Loop!Descends, LoopPlaces, LoopMore, LoopNext
<1>4. size \in Nat /\ \A st \in P : IsFiniteSet(st.rest) /\ Cardinality(st.rest) \in Nat
                                    /\ st.rest \subseteq Nat
  <2>1. size \in Nat
    BY FragmentMapFacts, FS_CardinalityType
  <2>2. ASSUME NEW st \in P
        PROVE  IsFiniteSet(st.rest) /\ Cardinality(st.rest) \in Nat /\ st.rest \subseteq Nat
    <3>1. st.rest \subseteq DOMAIN fragments /\ IsFiniteSet(DOMAIN fragments)
          /\ DOMAIN fragments \subseteq Nat
      BY <2>2, FragmentMapFacts DEF WalkStates
    <3>2. IsFiniteSet(st.rest)
      BY <3>1, FS_Subset
    <3> QED
      BY <3>1, <3>2, FS_CardinalityType
  <2> QED
    BY <2>1, <2>2
<1> DEFINE Sound(k, st) == st \in P /\ (~Goes(st) \/ Cardinality(st.rest) + k = size)
<1>5. \A k, st : LoopIn(c, k, st) <=> Sound(k, st)
  BY <1>1 DEF LoopIn
<1>6. \A k \in Nat : ~LoopMore(c, k) => LoopIn(c, k, LoopLast(c, k))
  BY <1>1, <1>4, <1>5 DEF LoopMore, LoopLast
<1>7. ASSUME NEW k \in Nat, NEW st, k # 0, Sound(k - 1, st)
      PROVE  Sound(k, Follow(fragments, st))
  <2>1. CASE ~Goes(st)
    <3>1. Follow(fragments, st) = st
      BY <2>1 DEF Follow, Goes
    <3> QED
      BY <1>7, <2>1, <3>1
  <2>2. CASE Goes(st)
    <3>1. Follow(fragments, st) \in P
      BY <1>7, <2>2
    <3>2. Follow(fragments, st).rest = st.rest \ {Min(st.rest)}
      BY <2>2 DEF Follow, Goes
    <3>3. IsFiniteSet(st.rest) /\ Min(st.rest) \in st.rest
      BY <1>4, <1>7, <2>2, MinIsLeast DEF Goes
    <3>4. Cardinality(st.rest \ {Min(st.rest)}) = Cardinality(st.rest) - 1
      BY <3>3, FS_RemoveElement
    <3>5. Cardinality(st.rest) \in Nat /\ Cardinality(st.rest) + (k - 1) = size
      BY <1>4, <1>7, <2>2
    <3>6. Cardinality(Follow(fragments, st).rest) + k = size
      <4> HIDE DEF size
      <4> QED
        BY <3>2, <3>4, <3>5
    <3> QED
      BY <3>1, <3>6
  <2> QED
    BY <2>1, <2>2
<1>8. \A k \in Nat : \A st : LoopMore(c, k) /\ LoopIn(c, LoopNext(c, k), st)
                                 => LoopIn(c, k, LoopJoin(c, k, st))
  <2> HIDE DEF Sound
  <2> QED
    BY <1>1, <1>5, <1>7 DEF LoopMore, LoopNext, LoopJoin
<1>9. \A k \in Nat : LoopIn(c, k, loop[k])
  <2> HIDE DEF rank
  <2> QED
    BY <1>3, <1>6, <1>8, Loop!RankedChoice DEF LoopPlaces
<1> HIDE DEF loop
<1>10. Sound(size, loop[size])
  <2> HIDE DEF Sound
  <2> QED
    BY <1>4, <1>5, <1>9
<1>11. ~Goes(loop[size])
  <2> DEFINE end == loop[size]
  <2>1. CASE Cardinality(end.rest) + size = size
    <3>1. Cardinality(end.rest) \in Nat /\ IsFiniteSet(end.rest)
      BY <1>4, <1>10
    <3>2. Cardinality(end.rest) = 0
      <4> HIDE DEF size, end
      <4> QED
        BY <1>4, <2>1, <3>1
    <3>3. end.rest = {}
      BY <3>1, <3>2, FS_EmptySet
    <3> QED
      BY <3>3 DEF Goes
  <2> QED
    BY <1>10, <2>1
<1> QED
  BY <1>2, <1>10, <1>11

-----------------------------------------------------------------------------
(* The buffer of a datagram holds fragments of that datagram only, and     *)
(* what the loop puts together from them is a beginning of it, apart from  *)
(* the units that a capture has lost.                                      *)

\* Fragments of a datagram, each at its offset and as it was captured.
Pieces(d, fragments, lost) ==
    /\ fragments = [off \in DOMAIN fragments |-> fragments[off]]
    /\ \A off \in DOMAIN fragments :
          \E f \in Fragments[d] : \E have \in Spans(f) :
              off = f.first /\ fragments[off] = Data(d, f, have) /\ CutOff(d, f, have) \subseteq lost

\* What the buffer of a datagram holds.
PartOf(d, buf, lost) ==
    /\ Pieces(d, buf.fragments, lost)
    /\ buf.lastFragmentReceived => buf.totalExpectedSize = Units[d]
    /\ CutOneWay(d) =>
          \A f \in Fragments[d] : IsLast(d, f) /\ f.first \in DOMAIN buf.fragments =>
              buf.lastFragmentReceived

\* The numbers of a fragment of a datagram.
LEMMA FragmentFacts ==
    ASSUME NEW d \in Datagrams, NEW f \in Fragments[d]
    PROVE  /\ Units[d] \in Nat /\ f.first \in Nat /\ f.len \in Nat
           /\ f.len >= 1 /\ f.first < Units[d] /\ f.first + f.len <= Units[d]
<1>1. Units[d] \in Nat
  BY DefragmenterAssumption
<1>2. f.first \in 0..(Units[d] - 1)
  BY DefragmenterAssumption
<1>3. f.len \in 1..(Units[d] - f.first)
  BY DefragmenterAssumption
<1>4. \A u \in Nat : \A a \in 0..(u - 1) : \A l \in 1..(u - a) :
        a \in Nat /\ l \in Nat /\ l >= 1 /\ a < u /\ a + l <= u
  OBVIOUS
<1> QED
  BY <1>1, <1>2, <1>3, <1>4

\* What stands in the place of a unit of a datagram: the unit, or something else if it is lost.
InPlace(d, place, unit, lost) ==
    unit = <<d, place>> \/ (unit = Beyond /\ <<d, place>> \in lost)

\* The data of a fragment is as long as the fragment, and has its units in order.
LEMMA DataFacts ==
    ASSUME NEW d \in Datagrams, NEW f \in Fragments[d], NEW have \in Spans(f),
           NEW lost, CutOff(d, f, have) \subseteq lost
    PROVE  /\ Data(d, f, have) \in Seq(Cells)
           /\ Len(Data(d, f, have)) = f.len
           /\ \A i \in 1..f.len : InPlace(d, f.first + i - 1, Data(d, f, have)[i], lost)
<1>1. f.len \in Nat /\ f.first \in Nat /\ have \in Int
  BY FragmentFacts DEF Spans
<1> DEFINE data == Data(d, f, have)
<1>2. data = [i \in 1..f.len |-> IF i <= have THEN <<d, f.first + i - 1>> ELSE Beyond]
  BY DEF Data
<1> HIDE DEF data
<1>3. ASSUME NEW i \in 1..f.len
      PROVE  data[i] \in Cells /\ InPlace(d, f.first + i - 1, data[i], lost)
  <2>1. CASE i <= have
    BY <1>1, <1>2, <2>1 DEF Cells, InPlace
  <2>2. CASE ~(i <= have)
    <3>1. i > have
      BY <1>1, <2>2
    <3>2. <<d, f.first + i - 1>> \in lost
      BY <3>1 DEF CutOff
    <3> QED
      BY <1>2, <2>2, <3>2 DEF Cells, InPlace
  <2> QED
    BY <2>1, <2>2
<1>4. data \in [1..f.len -> Cells]
  BY <1>2, <1>3
<1>5. data \in Seq(Cells) /\ Len(data) = f.len
  BY <1>1, <1>4, LenProperties, SeqDef
<1> QED
  BY <1>3, <1>5 DEF data

\* The fragments of a datagram are such as the loop can run over.
LEMMA PiecesAreFragments ==
    ASSUME NEW d \in Datagrams, NEW fragments, NEW lost, Pieces(d, fragments, lost)
    PROVE  fragments \in FragmentMaps
<1>1. ASSUME NEW off \in DOMAIN fragments
      PROVE  off \in 0..(Units[d] - 1) /\ fragments[off] \in Seq(Cells)
  <2>1. PICK f \in Fragments[d] : \E have \in Spans(f) :
            off = f.first /\ fragments[off] = Data(d, f, have) /\ CutOff(d, f, have) \subseteq lost
    BY DEF Pieces
  <2>2. fragments[off] \in Seq(Cells)
    BY <2>1, DataFacts
  <2> QED
    BY <2>1, <2>2, FragmentFacts
<1>2. Units[d] \in Nat
  BY DefragmenterAssumption
<1>3. IsFiniteSet(0..(Units[d] - 1))
  BY <1>2, FS_Interval
<1>4. DOMAIN fragments \subseteq Nat /\ IsFiniteSet(DOMAIN fragments)
  <2>1. DOMAIN fragments \subseteq 0..(Units[d] - 1)
    BY <1>1
  <2>2. 0..(Units[d] - 1) \subseteq Nat
    BY <1>2
  <2> QED
    BY <1>3, <2>1, <2>2, FS_Subset
<1>5. fragments \in [DOMAIN fragments -> Seq(Cells)]
  BY <1>1 DEF Pieces
<1> QED
  BY <1>4, <1>5 DEF FragmentMaps

\* A round appends the piece that was captured of a fragment.
Appends(d, fragments, lost, st, f, piece) ==
    /\ f.first = Len(st.data) /\ f.first \in st.rest
    /\ piece \in Seq(Cells) /\ Len(piece) = f.len
    /\ \A i \in 1..f.len : InPlace(d, f.first + i - 1, piece[i], lost)
    /\ Follow(fragments, st) = [data |-> st.data \o piece, rest |-> st.rest \ {f.first}]
    /\ Len(Follow(fragments, st).data) = f.first + f.len

\* The loop's next fragment, where there is one, and what the round makes of it.
LEMMA RoundAppends ==
    ASSUME NEW d \in Datagrams, NEW fragments, NEW lost, Pieces(d, fragments, lost),
           NEW st \in WalkStates(fragments), Goes(st)
    PROVE  \E f \in Fragments[d] : \E piece : Appends(d, fragments, lost, st, f, piece)
<1>1. st.data \in Seq(Cells) /\ st.rest \subseteq DOMAIN fragments /\ DOMAIN fragments \subseteq Nat
  BY PiecesAreFragments, FragmentMapFacts DEF WalkStates
<1>2. Len(st.data) \in st.rest
  BY <1>1, MinIsLeast DEF Goes
<1> DEFINE piece == fragments[Len(st.data)]
<1>3. PICK f \in Fragments[d] : \E have \in Spans(f) :
          Len(st.data) = f.first /\ piece = Data(d, f, have) /\ CutOff(d, f, have) \subseteq lost
  BY <1>1, <1>2 DEF Pieces
<1>4. /\ piece \in Seq(Cells) /\ Len(piece) = f.len
      /\ \A i \in 1..f.len : InPlace(d, f.first + i - 1, piece[i], lost)
  BY <1>3, DataFacts
<1>5. Follow(fragments, st) = [data |-> st.data \o piece, rest |-> st.rest \ {f.first}]
  BY <1>3 DEF Follow, Goes
<1>6. f.first = Len(st.data) /\ f.first \in st.rest
  BY <1>2, <1>3
<1> HIDE DEF piece
<1>7. Len(st.data \o piece) = f.first + f.len
  <2> DEFINE front == st.data
  <2>1. front \in Seq(Cells) /\ Len(front) = f.first
    BY <1>1, <1>6
  <2> HIDE DEF front
  <2>2. Len(front \o piece) = Len(front) + Len(piece)
    BY <1>4, <2>1, ConcatProperties
  <2> QED
    BY <1>4, <2>1, <2>2 DEF front
<1>8. Len(Follow(fragments, st).data) = f.first + f.len
  BY <1>5, <1>7
<1> QED
  BY <1>4, <1>5, <1>6, <1>8 DEF Appends

\* Data that is a beginning of a datagram.
IsFrontOf(d, data, lost) == \A i \in 1..Len(data) : InPlace(d, i - 1, data[i], lost)

\* Wherever the loop stops, what it put together is a beginning of the datagram.
LEMMA FollowedBegins ==
    ASSUME NEW d \in Datagrams, NEW fragments, NEW lost, Pieces(d, fragments, lost)
    PROVE  /\ Followed(fragments).data \in Seq(Cells)
           /\ IsFrontOf(d, Followed(fragments).data, lost)
<1> DEFINE P == {st \in WalkStates(fragments) : IsFrontOf(d, st.data, lost)}
           a == [data |-> <<>>, rest |-> DOMAIN fragments]
<1>1. fragments \in FragmentMaps
  BY PiecesAreFragments
<1>2. a \in P
  <2>1. a \in WalkStates(fragments)
    BY EmptySeq DEF WalkStates
  <2> QED
    BY <2>1 DEF IsFrontOf
<1>3. ASSUME NEW st \in P, Goes(st)
      PROVE  Follow(fragments, st) \in P
  <2>1. Follow(fragments, st) \in WalkStates(fragments)
    BY <1>1, FollowType
  <2>2. PICK f \in Fragments[d] : \E piece : Appends(d, fragments, lost, st, f, piece)
    BY <1>3, RoundAppends
  <2> PICK back : Appends(d, fragments, lost, st, f, back)
    BY <2>2
  <2>3. st.data \in Seq(Cells) /\ IsFrontOf(d, st.data, lost)
    BY DEF WalkStates
  <2> DEFINE front == st.data
  <2>4. /\ front \in Seq(Cells) /\ back \in Seq(Cells)
        /\ Len(front) = f.first /\ Len(back) = f.len
        /\ f.first \in Nat /\ f.len \in Nat
        /\ \A i \in 1..f.first : InPlace(d, i - 1, front[i], lost)
        /\ \A i \in 1..f.len : InPlace(d, f.first + i - 1, back[i], lost)
    BY <2>3, FragmentFacts DEF IsFrontOf, Appends
  <2>5. ASSUME NEW i \in 1..(f.first + f.len)
        PROVE  InPlace(d, i - 1, (front \o back)[i], lost)
    <3> DEFINE m == f.first
               n == f.len
    <3>1. m \in Nat /\ n \in Nat /\ i \in 1..(m + n)
      BY <2>4
    <3> HIDE DEF front
    <3>2. i \in 1..(Len(front) + Len(back))
      BY <2>4
    <3>3. (front \o back)[i] = IF i <= m THEN front[i] ELSE back[i - m]
      BY <2>4, <3>2, ConcatProperties
    <3>4. CASE i <= m
      <4>1. i \in 1..m
        BY <3>1, <3>4
      <4> QED
        BY <2>4, <3>3, <3>4, <4>1
    <3>5. CASE ~(i <= m)
      <4>1. i - m \in 1..n /\ m + (i - m) - 1 = i - 1
        <5> HIDE DEF m, n
        <5> QED
          BY <3>1, <3>5
      <4>2. InPlace(d, m + (i - m) - 1, back[i - m], lost)
        BY <2>4, <4>1
      <4> QED
        BY <3>3, <3>5, <4>1, <4>2
    <3> QED
      BY <3>4, <3>5
  <2>6. IsFrontOf(d, Follow(fragments, st).data, lost)
    <3>1. Follow(fragments, st).data = front \o back
      BY DEF Appends
    <3>2. Len(front \o back) = f.first + f.len
      BY <3>1 DEF Appends
    <3> HIDE DEF front
    <3> QED
      BY <2>5, <3>1, <3>2 DEF IsFrontOf
  <2> QED
    BY <2>1, <2>6
<1>4. Followed(fragments) \in P
  <2> HIDE DEF P
  <2>1. P \subseteq WalkStates(fragments)
    BY DEF P
  <2> QED
    BY <1>1, <1>2, <1>3, <2>1, FollowedRule
<1> QED
  BY <1>4 DEF WalkStates

\* The data of a datagram, but for the units that are lost.
IsDatagram(d, data, lost) ==
    DOMAIN data = 1..Units[d] /\ \A i \in 1..Units[d] : InPlace(d, i - 1, data[i], lost)

\* What is put together from the buffer of a complete datagram is that datagram.
LEMMA AssembledIsWhole ==
    ASSUME NEW d \in Datagrams, NEW buf, NEW lost, PartOf(d, buf, lost), Complete(buf)
    PROVE  IsDatagram(d, Assembled(buf), lost)
<1> DEFINE data == Followed(buf.fragments).data
<1>1. data \in Seq(Cells) /\ IsFrontOf(d, data, lost)
  BY FollowedBegins DEF PartOf
<1>2. Len(data) = Units[d]
  BY DEF PartOf, Complete
<1>3. DOMAIN data = 1..Len(data)
  BY <1>1
<1> QED
  BY <1>1, <1>2, <1>3 DEF IsFrontOf, IsDatagram, Assembled

\* No fragment of a datagram lies across a place in it.
CutAt(d, place) == \A f \in Fragments[d] : f.first >= place \/ f.first + f.len <= place

\* Where a datagram is cut in one way the loop stops at a cut, with the fragments behind
\* it still to come.
LEMMA FollowedStopsAtACut ==
    ASSUME NEW d \in Datagrams, NEW fragments, NEW lost, Pieces(d, fragments, lost),
           CutOneWay(d)
    PROVE  LET end == Followed(fragments)
           IN  /\ ~Goes(end)
               /\ Len(end.data) \in 0..Units[d]
               /\ CutAt(d, Len(end.data))
               /\ end.rest = {off \in DOMAIN fragments : off >= Len(end.data)}
<1> DEFINE Sound(st) == /\ Len(st.data) \in 0..Units[d]
                        /\ CutAt(d, Len(st.data))
                        /\ st.rest = {off \in DOMAIN fragments : off >= Len(st.data)}
           P == {st \in WalkStates(fragments) : Sound(st)}
           a == [data |-> <<>>, rest |-> DOMAIN fragments]
<1>1. fragments \in FragmentMaps /\ DOMAIN fragments \subseteq Nat /\ Units[d] \in Nat
  BY PiecesAreFragments, FragmentMapFacts, DefragmenterAssumption
<1>2. a \in P
  <2>1. a \in WalkStates(fragments)
    BY EmptySeq DEF WalkStates
  <2>2. a.data = <<>> /\ a.rest = DOMAIN fragments /\ Len(a.data) = 0
    OBVIOUS
  <2>3. \A f \in Fragments[d] : f.first >= 0
    BY FragmentFacts
  <2>4. Sound(a)
    BY <1>1, <2>2, <2>3 DEF CutAt
  <2> QED
    BY <2>1, <2>4
<1>3. ASSUME NEW st \in P, Goes(st)
      PROVE  Follow(fragments, st) \in P
  <2> DEFINE next == Follow(fragments, st)
  <2>1. next \in WalkStates(fragments)
    BY <1>1, FollowType
  <2>2. PICK f \in Fragments[d] :
              /\ f.first = Len(st.data) /\ f.first \in st.rest
              /\ next.rest = st.rest \ {f.first}
              /\ Len(next.data) = f.first + f.len
    <3>1. PICK f \in Fragments[d] : \E piece : Appends(d, fragments, lost, st, f, piece)
      BY <1>3, RoundAppends
    <3>2. PICK piece : Appends(d, fragments, lost, st, f, piece)
      BY <3>1
    <3>3. /\ f.first = Len(st.data) /\ f.first \in st.rest
          /\ next.rest = st.rest \ {f.first}
          /\ Len(next.data) = f.first + f.len
      BY <3>2 DEF Appends
    <3> QED
      BY <3>3
  <2>3. Sound(st)
    OBVIOUS
  <2> DEFINE place == f.first
             to == f.first + f.len
  <2>4. /\ place \in Nat /\ to \in Nat /\ place < to /\ to <= Units[d]
    BY FragmentFacts
  <2>5. \A g \in Fragments[d] : g.first \in Nat /\ g.len \in Nat /\ g.len >= 1
    BY FragmentFacts
  <2>6. \A g \in Fragments[d] : g = f \/ g.first >= to \/ g.first + g.len <= place
    <3> TAKE g \in Fragments[d]
    <3>1. f = g \/ to <= g.first \/ g.first + g.len <= place
      BY DEF CutOneWay
    <3> HIDE DEF to, place
    <3> QED
      BY <2>4, <2>5, <3>1
  <2>7. CutAt(d, to)
    <3> SUFFICES ASSUME NEW g \in Fragments[d]
                 PROVE  g.first >= to \/ g.first + g.len <= to
      BY DEF CutAt
    <3>1. CASE g = f
      BY <2>4, <3>1
    <3>2. CASE g # f
      <4>1. g.first >= to \/ g.first + g.len <= place
        BY <2>6, <3>2
      <4>2. g.first + g.len \in Nat
        BY <2>5
      <4> HIDE DEF to, place
      <4> QED
        BY <2>4, <4>1, <4>2
    <3> QED
      BY <3>1, <3>2
  <2>8. \A off \in DOMAIN fragments : off > place => off >= to
    <3> SUFFICES ASSUME NEW off \in DOMAIN fragments, off > place
                 PROVE  off >= to
      OBVIOUS
    <3>1. PICK g \in Fragments[d] : off = g.first
      BY DEF Pieces
    <3>2. g # f
      BY <2>4, <3>1
    <3>3. g.first >= to \/ g.first + g.len <= place
      BY <2>6, <3>2
    <3> DEFINE x == g.first
               y == g.len
    <3>4. x \in Nat /\ y \in Nat /\ off = x /\ (x >= to \/ x + y <= place)
      BY <2>5, <3>1, <3>3
    <3> HIDE DEF x, y, place, to
    <3> QED
      BY <2>4, <3>4
  <2>9. next.rest = {off \in DOMAIN fragments : off >= to}
    <3>1. next.rest = st.rest \ {place}
      BY <2>2
    <3>2. st.rest = {off \in DOMAIN fragments : off >= place}
      BY <2>2, <2>3
    <3>3. \A off \in DOMAIN fragments : (off >= place /\ off # place) <=> off >= to
      <4> TAKE off \in DOMAIN fragments
      <4>1. off \in Nat /\ (off > place => off >= to)
        BY <1>1, <2>8
      <4> HIDE DEF place, to
      <4> QED
        BY <2>4, <4>1
    <3> HIDE DEF next, place, to
    <3> QED
      BY <3>1, <3>2, <3>3
  <2>10. Len(next.data) = to /\ to \in 0..Units[d]
    <3>1. Len(next.data) = to
      BY <2>2
    <3>2. to \in 0..Units[d]
      <4> HIDE DEF to, place
      <4> QED
        BY <1>1, <2>4
    <3> QED
      BY <3>1, <3>2
  <2>11. Sound(next)
    <3> HIDE DEF next, to
    <3> QED
      BY <2>7, <2>9, <2>10
  <2> QED
    BY <2>1, <2>11
<1>4. Followed(fragments) \in P /\ ~Goes(Followed(fragments))
  <2>1. P \subseteq WalkStates(fragments)
    OBVIOUS
  <2> HIDE DEF P
  <2> QED
    BY <1>1, <1>2, <1>3, <2>1, FollowedRule
<1> QED
  BY <1>4

\* A datagram that was sent whole, and cut in one way, is complete when every fragment of
\* it is there.
LEMMA AllPresentIsComplete ==
    ASSUME SentWhole, NEW d \in Datagrams, CutOneWay(d),
           NEW buf, NEW lost, PartOf(d, buf, lost),
           \A f \in Fragments[d] : f.first \in DOMAIN buf.fragments
    PROVE  Complete(buf)
<1> DEFINE end == Followed(buf.fragments)
           place == Len(end.data)
           units == Units[d]
<1>1. /\ ~Goes(end) /\ place \in 0..units /\ CutAt(d, place)
      /\ end.rest = {off \in DOMAIN buf.fragments : off >= place}
  BY FollowedStopsAtACut DEF PartOf
<1>2. units \in Nat /\ DOMAIN buf.fragments \subseteq Nat
  BY PiecesAreFragments, FragmentMapFacts, DefragmenterAssumption DEF PartOf
<1>3. \A off \in DOMAIN buf.fragments : off < units
  BY FragmentFacts DEF PartOf, Pieces
<1>4. place = units
  <2> SUFFICES ASSUME place < units
               PROVE  FALSE
    BY <1>1, <1>2
  <2>1. place \in 0..(units - 1)
    <3> HIDE DEF place, units
    <3> QED
      BY <1>1, <1>2
  <2>2. PICK f \in Fragments[d] : place \in f.first..(f.first + f.len - 1)
    BY <2>1 DEF SentWhole
  <2>3. f.first \in Nat /\ f.len \in Nat /\ (f.first >= place \/ f.first + f.len <= place)
    BY <1>1, FragmentFacts DEF CutAt
  <2>4. f.first = place
    <3> DEFINE m == f.first
               n == f.len
    <3>1. m \in Nat /\ n \in Nat /\ place \in m..(m + n - 1) /\ (m >= place \/ m + n <= place)
      BY <2>2, <2>3
    <3>2. place \in Nat
      <4> HIDE DEF place
      <4> QED
        BY <1>1, <1>2
    <3> HIDE DEF m, n, place
    <3>3. m = place
      BY <3>1, <3>2
    <3> QED
      BY <3>3 DEF m
  <2>5. place \in end.rest /\ place \in Nat /\ end.rest \subseteq Nat
    <3>1. place \in DOMAIN buf.fragments
      BY <2>4
    <3> HIDE DEF place, end
    <3> QED
      BY <1>1, <1>2, <3>1
  <2>6. Min(end.rest) \in end.rest /\ \A off \in end.rest : Min(end.rest) <= off
    BY <2>5, MinIsLeast
  <2>7. Min(end.rest) = place
    <3>1. Min(end.rest) >= place /\ Min(end.rest) <= place
      BY <1>1, <2>5, <2>6
    <3> HIDE DEF end, place
    <3> QED
      BY <2>5, <2>6, <3>1
  <2> QED
    BY <1>1, <2>5, <2>7 DEF Goes
<1>5. end.rest = {}
  <2> HIDE DEF end, place, units
  <2> QED
    BY <1>1, <1>2, <1>3, <1>4
<1>6. buf.lastFragmentReceived
  <2>1. units \in Nat \ {0}
    BY DefragmenterAssumption
  <2>2. units - 1 \in 0..(units - 1)
    <3> HIDE DEF units
    <3> QED
      BY <2>1
  <2>3. PICK f \in Fragments[d] : units - 1 \in f.first..(f.first + f.len - 1)
    BY <2>2 DEF SentWhole
  <2>4. f.first \in Nat /\ f.len \in Nat /\ f.first + f.len <= units
    BY FragmentFacts
  <2>5. f.first + f.len = units
    <3> DEFINE m == f.first
               n == f.len
    <3>1. m \in Nat /\ n \in Nat /\ m + n <= units /\ units - 1 \in m..(m + n - 1)
      BY <2>3, <2>4
    <3> HIDE DEF m, n, units
    <3>2. m + n = units
      BY <1>2, <3>1
    <3> QED
      BY <3>2 DEF m, n
  <2> QED
    BY <2>5 DEF PartOf, IsLast
<1>7. buf.totalExpectedSize = units
  BY <1>6 DEF PartOf
<1> QED
  BY <1>4, <1>5, <1>6, <1>7 DEF Complete

\* Nothing is a buffer of every datagram, and what is one stays one whatever else is lost.
LEMMA EmptyIsPart ==
    ASSUME NEW d \in Datagrams, NEW lost
    PROVE  PartOf(d, EmptyBuffer, lost) /\ ~Complete(EmptyBuffer)
<1>1. DOMAIN EmptyBuffer.fragments = {} /\ EmptyBuffer.fragments = <<>>
  BY DEF EmptyBuffer
<1>2. Pieces(d, EmptyBuffer.fragments, lost)
  BY <1>1 DEF Pieces
<1> QED
  BY <1>1, <1>2 DEF EmptyBuffer, PartOf, Complete

LEMMA PartStaysPart ==
    ASSUME NEW d \in Datagrams, NEW buf, NEW lost, NEW more, lost \subseteq more,
           PartOf(d, buf, lost)
    PROVE  PartOf(d, buf, more)
<1>1. Pieces(d, buf.fragments, more)
  BY DEF PartOf, Pieces
<1> QED
  BY <1>1 DEF PartOf

\* A fragment stored in the buffer of its datagram makes it a buffer of that datagram.
LEMMA StoredIsPart ==
    ASSUME NEW d \in Datagrams, NEW f \in Fragments[d], NEW have \in Spans(f),
           NEW buf, NEW lost, PartOf(d, buf, lost), CutOff(d, f, have) \subseteq lost
    PROVE  PartOf(d, Stored(buf, d, f, have), lost)
<1> DEFINE new == Stored(buf, d, f, have)
           Known == \A off \in DOMAIN buf.fragments :
                       \E g \in Fragments[d] : \E some \in Spans(g) :
                           off = g.first /\ buf.fragments[off] = Data(d, g, some)
                           /\ CutOff(d, g, some) \subseteq lost
           Told == buf.lastFragmentReceived => buf.totalExpectedSize = Units[d]
           Heard == CutOneWay(d) =>
                       \A g \in Fragments[d] : IsLast(d, g) /\ g.first \in DOMAIN buf.fragments =>
                           buf.lastFragmentReceived
<1>1. Known /\ Told /\ Heard
  BY DEF PartOf, Pieces
<1>2. /\ new.fragments = IF have >= 0
                         THEN [off \in DOMAIN buf.fragments \cup {f.first} |->
                                 IF off = f.first THEN Data(d, f, have) ELSE buf.fragments[off]]
                         ELSE buf.fragments
      /\ new.lastFragmentReceived <=> (buf.lastFragmentReceived \/ IsLast(d, f))
      /\ new.totalExpectedSize = IF IsLast(d, f) THEN f.first + f.len ELSE buf.totalExpectedSize
  BY DEF Stored, With
<1> HIDE DEF new
<1>3. Pieces(d, new.fragments, lost) /\ DOMAIN new.fragments \subseteq DOMAIN buf.fragments \cup {f.first}
  <2>1. CASE have >= 0
    BY <1>1, <1>2, <2>1 DEF Pieces
  <2>2. CASE ~(have >= 0)
    BY <1>2, <2>2 DEF PartOf
  <2> QED
    BY <2>1, <2>2
<1>4. new.lastFragmentReceived => new.totalExpectedSize = Units[d]
  BY <1>1, <1>2 DEF IsLast
<1>5. ASSUME CutOneWay(d), NEW g \in Fragments[d], IsLast(d, g), g.first \in DOMAIN new.fragments
      PROVE  new.lastFragmentReceived
  <2>1. CASE g.first \in DOMAIN buf.fragments
    BY <1>1, <1>2, <1>5, <2>1
  <2>2. CASE g.first = f.first
    <3>1. f = g \/ f.first + f.len <= g.first \/ g.first + g.len <= f.first
      BY <1>5 DEF CutOneWay
    <3> DEFINE m == f.first
               x == f.len
               y == g.len
    <3>2. m \in Nat /\ x \in Nat /\ y \in Nat /\ x >= 1 /\ y >= 1
      BY FragmentFacts
    <3>3. f = g \/ m + x <= m \/ m + y <= m
      BY <2>2, <3>1
    <3>4. f = g
      <4> HIDE DEF m, x, y
      <4> QED
        BY <3>2, <3>3
    <3> QED
      BY <1>2, <1>5, <3>4
  <2> QED
    BY <1>3, <1>5, <2>1, <2>2
<1> QED
  BY <1>3, <1>4, <1>5 DEF new, PartOf

-----------------------------------------------------------------------------
(* The invariant. While two datagrams under one key are not on the way at  *)
(* once, every buffer holds fragments of one datagram and is not complete. *)

Grouped ==
    \A d \in Datagrams : KeyOf[d] \in DOMAIN groups =>
        PartOf(d, groups[KeyOf[d]], cut) /\ ~Complete(groups[KeyOf[d]])

GroupedInvariant == Grouped /\ ReturnsWholeDatagrams

\* A buffer that is kept under the key of its datagram, where all others stay.
LEMMA KeptGroups ==
    ASSUME KeysDiffer, Grouped, NEW d \in Datagrams, NEW buf, Keep(KeyOf[d], buf),
           cut \subseteq cut', PartOf(d, buf, cut'), ~Complete(buf)
    PROVE  Grouped'
<1>1. groups' = [k \in DOMAIN groups \cup {KeyOf[d]} |-> IF k = KeyOf[d] THEN buf ELSE groups[k]]
  BY DEF Keep
<1>2. SUFFICES ASSUME NEW e \in Datagrams, KeyOf[e] \in DOMAIN groups'
               PROVE  PartOf(e, groups'[KeyOf[e]], cut') /\ ~Complete(groups'[KeyOf[e]])
  BY DEF Grouped
<1>3. CASE e = d
  BY <1>1, <1>3
<1>4. CASE e # d
  <2>1. KeyOf[e] # KeyOf[d]
    BY <1>4 DEF KeysDiffer
  <2>2. KeyOf[e] \in DOMAIN groups /\ groups'[KeyOf[e]] = groups[KeyOf[e]]
    BY <1>1, <1>2, <2>1
  <2> QED
    BY <2>2, PartStaysPart DEF Grouped
<1> QED
  BY <1>3, <1>4

\* What was returned is a whole datagram, whatever else is lost.
LEMMA ReturnedStaysWhole ==
    ASSUME ReturnsWholeDatagrams, cut \subseteq cut',
           NEW d \in Datagrams, NEW data, IsDatagram(d, data, cut'),
           returned' \subseteq returned \cup {data}
    PROVE  ReturnsWholeDatagrams'
<1>1. SUFFICES ASSUME NEW x \in returned'
               PROVE  \E e \in Datagrams :
                         /\ DOMAIN x = 1..Units[e]
                         /\ \A i \in 1..Units[e] :
                              x[i] = <<e, i - 1>> \/ (x[i] = Beyond /\ <<e, i - 1>> \in cut')
  BY DEF ReturnsWholeDatagrams
<1>2. CASE x \in returned
  BY <1>2 DEF ReturnsWholeDatagrams
<1>3. CASE x = data
  BY <1>3 DEF IsDatagram, InPlace
<1> QED
  BY <1>2, <1>3

\* Every fragment that is processed keeps the invariant, whatever came before.
LEMMA ProcessKeepsGroups ==
    ASSUME KeysDiffer, GroupedInvariant, NEW d \in Datagrams, NEW f \in Fragments[d],
           NEW have \in Spans(f), process(d, f, have)
    PROVE  GroupedInvariant'
<1> DEFINE key == KeyOf[d]
           buf == Stored(Buffer(key), d, f, have)
<1>1. cut' = cut \cup CutOff(d, f, have)
  BY DEF process
<1>2. PartOf(d, buf, cut')
  <2>1. PartOf(d, Buffer(key), cut)
    BY EmptyIsPart DEF Buffer, GroupedInvariant, Grouped
  <2>2. PartOf(d, Buffer(key), cut')
    BY <1>1, <2>1, PartStaysPart
  <2> QED
    BY <1>1, <2>2, StoredIsPart
<1> HIDE DEF buf
<1>3. CASE Complete(buf)
  <2>1. Erase(key) /\ returned' = returned \cup {Assembled(buf)}
    BY <1>3 DEF process, buf
  <2>2. Grouped'
    <3>1. groups' = [k \in DOMAIN groups \ {key} |-> groups[k]]
      BY <2>1 DEF Erase
    <3>2. SUFFICES ASSUME NEW e \in Datagrams, KeyOf[e] \in DOMAIN groups'
                   PROVE  PartOf(e, groups'[KeyOf[e]], cut') /\ ~Complete(groups'[KeyOf[e]])
      BY DEF Grouped
    <3>3. KeyOf[e] \in DOMAIN groups /\ groups'[KeyOf[e]] = groups[KeyOf[e]]
      BY <3>1, <3>2
    <3> QED
      BY <1>1, <3>3, PartStaysPart DEF GroupedInvariant, Grouped
  <2>3. ReturnsWholeDatagrams'
    BY <1>1, <1>2, <1>3, <2>1, AssembledIsWhole, ReturnedStaysWhole DEF GroupedInvariant
  <2> QED
    BY <2>2, <2>3 DEF GroupedInvariant
<1>4. CASE ~Complete(buf)
  <2>1. Keep(key, buf) /\ returned' = returned
    BY <1>4 DEF process, buf
  <2>2. Grouped'
    BY <1>1, <1>2, <1>4, <2>1, KeptGroups DEF GroupedInvariant
  <2>3. ReturnsWholeDatagrams'
    BY <1>1, <2>1 DEF GroupedInvariant, ReturnsWholeDatagrams
  <2> QED
    BY <2>2, <2>3 DEF GroupedInvariant
<1> QED
  BY <1>3, <1>4

\* So does a header that makes process() throw: it leaves an empty buffer, or the one there.
LEMMA ProcessThrowsKeepsGroups ==
    ASSUME KeysDiffer, GroupedInvariant, NEW d \in Datagrams, processThrows(KeyOf[d])
    PROVE  GroupedInvariant'
<1> DEFINE buf == Buffer(KeyOf[d])
<1>1. Keep(KeyOf[d], buf) /\ returned' = returned /\ cut' = cut
  BY DEF processThrows
<1>2. PartOf(d, buf, cut) /\ ~Complete(buf)
  BY EmptyIsPart DEF Buffer, GroupedInvariant, Grouped
<1>3. Grouped'
  <2> HIDE DEF buf
  <2> QED
    BY <1>1, <1>2, KeptGroups DEF GroupedInvariant
<1>4. ReturnsWholeDatagrams'
  BY <1>1 DEF GroupedInvariant, ReturnsWholeDatagrams
<1> QED
  BY <1>3, <1>4 DEF GroupedInvariant

\* The invariant holds of every state.
LEMMA GroupedAlways ==
    ASSUME KeysDiffer
    PROVE  Spec => []GroupedInvariant
<1>1. Init => GroupedInvariant
  BY DEF Init, GroupedInvariant, Grouped, ReturnsWholeDatagrams
<1>2. GroupedInvariant /\ [Next]_vars => GroupedInvariant'
  <2> SUFFICES ASSUME GroupedInvariant, [Next]_vars
               PROVE  GroupedInvariant'
    OBVIOUS
  <2>1. CASE \E d \in Datagrams : \E f \in Fragments[d] : \E have \in Spans(f) : process(d, f, have)
    BY <2>1, ProcessKeepsGroups
  <2>2. CASE \E key \in Keys : processThrows(key)
    BY <2>2, ProcessThrowsKeepsGroups DEF Keys
  <2>3. CASE UNCHANGED vars
    BY <2>3 DEF vars, GroupedInvariant, Grouped, ReturnsWholeDatagrams
  <2> QED
    BY <2>1, <2>2, <2>3 DEF Next
<1> QED
  BY <1>1, <1>2, PTL DEF Spec

\* However the datagrams were cut and in whatever order, how often and with whatever losses
\* their fragments arrive: what process() returns is a whole datagram, but for the units
\* that were missing in a captured fragment.
THEOREM WholenessCorrect ==
    ASSUME KeysDiffer
    PROVE  Spec => []ReturnsWholeDatagrams
<1>1. GroupedInvariant => ReturnsWholeDatagrams
  BY DEF GroupedInvariant
<1> QED
  BY <1>1, GroupedAlways, PTL

\* A datagram that was sent whole and cut in one way leaves the buffer with its last
\* missing fragment.
THEOREM BufferCorrect ==
    ASSUME KeysDiffer, SentWhole
    PROVE  Spec => []HoldsOnlyIncomplete
<1>1. GroupedInvariant => HoldsOnlyIncomplete
  BY AllPresentIsComplete DEF GroupedInvariant, Grouped, HoldsOnlyIncomplete
<1> QED
  BY <1>1, GroupedAlways, PTL

-----------------------------------------------------------------------------
(* A decoder's defragmenter is the one of IpDefragmenter.                  *)

\* The capture is one of the captures.
KnownCapture == capture \in Captures

\* The decoder hands it no less than nothing of a fragment, and no more than the fragment.
LEMMA CapturedSpan ==
    ASSUME NEW f, IsFrame(f), NEW d \in Datagrams, Headers(f).layer3.fragment \in Fragments[d]
    PROVE  CapturedUnits(Headers(f)) \in Spans(Headers(f).layer3.fragment)
<1> DEFINE front == Headers(f)
           len == front.layer3.fragment.len
           rest == (front.f.cap - front.off) \div 8
<1>1. front.f = f /\ front.off \in 0..f.cap /\ f.cap \in Nat
  BY HeadersInside DEF Inside, IsFrame
<1>2. len \in Nat
  BY FragmentFacts
<1> HIDE DEF front
<1>3. rest \in Nat
  BY <1>1
<1> HIDE DEF len, rest
<1>4. Min({len, rest}) \in 0..len
  BY <1>2, <1>3, MinOfTwo
<1> QED
  BY <1>4 DEF CapturedUnits, Spans, len, rest, front

\* To the defragmenter a packet is a fragment, a header that makes it throw, or nothing.
LEMMA DecodeDefragments ==
    ASSUME FragmentsAreKnown, CapturesAreFrames, KnownCapture, [DecoderNext]_decoderVars
    PROVE  [Next]_vars
<1>1. CASE UNCHANGED decoderVars
  BY <1>1 DEF decoderVars, vars
<1>2. ASSUME NEW f \in capture, decode(f)
      PROVE  [Next]_vars
  <2> DEFINE front == Headers(f)
             d == front.layer3.datagram
             g == front.layer3.fragment
             have == CapturedUnits(front)
  <2>1. IsFrame(f) /\ (Asked(front) => d \in Datagrams /\ g \in Fragments[d] \cup {None})
    BY DEF FragmentsAreKnown, CapturesAreFrames, KnownCapture, Asked
  <2>2. CASE Throws(front)
    <3>1. processThrows(KeyOf[d]) /\ d \in Datagrams
      BY <1>2, <2>1, <2>2 DEF decode, Continue, Escape, Throws
    <3> QED
      BY <3>1 DEF Next, Keys
  <2>3. CASE Asked(front) /\ ~Throws(front)
    <3>1. d \in Datagrams /\ g \in Fragments[d]
      BY <2>1, <2>3 DEF Throws
    <3>2. have \in Spans(g)
      BY <2>1, <3>1, CapturedSpan
    <3>3. process(d, g, have)
      BY <1>2, <2>3 DEF decode, Continue, Escape
    <3> HIDE DEF d, g, have
    <3> QED
      BY <3>1, <3>2, <3>3 DEF Next
  <2>4. CASE ~Asked(front)
    BY <1>2, <2>4 DEF decode, Continue, Escape, Throws, vars
  <2> QED
    BY <2>2, <2>3, <2>4
<1> QED
  BY <1>1, <1>2 DEF DecoderNext

\* A decoder keeps what the defragmenter promises.
LEMMA DecoderDefragments ==
    ASSUME FragmentsAreKnown, CapturesAreFrames
    PROVE  DecoderSpec => Spec
<1>1. DecoderInit => Init /\ KnownCapture
  BY DEF DecoderInit, KnownCapture
<1>2. KnownCapture /\ [DecoderNext]_decoderVars => KnownCapture'
  BY DEF DecoderNext, decode, decoderVars, KnownCapture
<1>3. KnownCapture /\ [DecoderNext]_decoderVars => [Next]_vars
  BY DecodeDefragments
<1> QED
  BY <1>1, <1>2, <1>3, PTL DEF DecoderSpec, Spec

\* Whatever else is in a capture, wherever it ends in a frame, and however the fragments of
\* its datagrams come: what the decoder's defragmenter returns is a whole datagram, and
\* what is not its data stands where the capture has cut a fragment.
THEOREM DecoderWholenessCorrect ==
    ASSUME FragmentsAreKnown, CapturesAreFrames, KeysDiffer
    PROVE  DecoderSpec => []ReturnsWholeDatagrams
BY DecoderDefragments, WholenessCorrect, PTL

\* The same for the datagrams that are complete: a decoder does not keep them.
THEOREM DecoderBufferCorrect ==
    ASSUME FragmentsAreKnown, CapturesAreFrames, KeysDiffer, SentWhole
    PROVE  DecoderSpec => []HoldsOnlyIncomplete
BY DecoderDefragments, BufferCorrect, PTL

-----------------------------------------------------------------------------
(* The detection engine: its states are a function of what was heard.      *)

\* The packets heard of a flow, those among the first of them that show a protocol, and
\* what the flow is taken for.
Of(hs, id) == {k \in DOMAIN hs : hs[k].id = id}

Shown(hs, id) ==
    {k \in Of(hs, id) : Cardinality(FlowUpTo(hs, k)) <= MaxPackets /\ Shows(hs, k) # Unknown}

Told(hs, id) == IF Shown(hs, id) = {} THEN Unknown ELSE Shows(hs, Min(Shown(hs, id)))

\* The least number of a set is found by Min.
LEMMA MinIs ==
    ASSUME NEW S, S \subseteq Nat, NEW m \in S, \A x \in S : m <= x
    PROVE  Min(S) = m
<1> DEFINE least == Min(S)
<1>1. least \in Nat /\ m \in Nat /\ least <= m /\ m <= least
  BY MinIsLeast
<1> HIDE DEF least
<1>2. least = m
  BY <1>1
<1> QED
  BY <1>2 DEF least

\* The history with one more packet.
LEMMA AppendFacts ==
    ASSUME NEW S, NEW hs \in Seq(S), NEW h
    PROVE  /\ Append(hs, h) \in Seq(S \cup {h})
           /\ Len(hs) \in Nat
           /\ DOMAIN hs = 1..Len(hs)
           /\ DOMAIN Append(hs, h) = 1..(Len(hs) + 1)
           /\ Len(Append(hs, h)) = Len(hs) + 1
           /\ Append(hs, h)[Len(hs) + 1] = h
           /\ \A k \in 1..Len(hs) : Append(hs, h)[k] = hs[k]
<1>1. hs \in Seq(S \cup {h}) /\ h \in S \cup {h}
  OBVIOUS
<1> QED
  BY <1>1, AppendProperties, LenProperties

\* A port is one of a transfer's if an earlier packet began it.
LEMMA TransferPortsDef ==
    ASSUME NEW hs, NEW n, NEW port
    PROVE  port \in TransferPorts(hs, n) <=>
              /\ port # 69
              /\ \E k \in 1..(n - 1) :
                    Begins(hs, k) /\ port \in {hs[k].packet.srcPort, hs[k].packet.dstPort}
<1> DEFINE begun == {j \in 1..(n - 1) : Begins(hs, j)}
           sets == {{hs[k].packet.srcPort, hs[k].packet.dstPort} : k \in begun}
<1>1. TransferPorts(hs, n) = (UNION sets) \ {69}
  BY DEF TransferPorts
<1>2. port \in UNION sets <=> \E k \in begun : port \in {hs[k].packet.srcPort, hs[k].packet.dstPort}
  <2>1. port \in UNION sets <=> \E set \in sets : port \in set
    OBVIOUS
  <2>2. (\E set \in sets : port \in set)
           <=> \E k \in begun : port \in {hs[k].packet.srcPort, hs[k].packet.dstPort}
    <3> HIDE DEF begun
    <3> QED
      OBVIOUS
  <2> QED
    BY <2>1, <2>2
<1>3. (\E k \in begun : port \in {hs[k].packet.srcPort, hs[k].packet.dstPort})
        <=> \E k \in 1..(n - 1) :
               Begins(hs, k) /\ port \in {hs[k].packet.srcPort, hs[k].packet.dstPort}
  OBVIOUS
<1>4. port \in TransferPorts(hs, n) <=> port # 69 /\ port \in UNION sets
  <2> HIDE DEF sets
  <2>1. port \in TransferPorts(hs, n) <=> port \in (UNION sets) \ {69}
    BY <1>1
  <2>2. port \in (UNION sets) \ {69} <=> port # 69 /\ port \in UNION sets
    OBVIOUS
  <2> QED
    BY <2>1, <2>2
<1> HIDE DEF sets, begun
<1> QED
  BY <1>2, <1>3, <1>4, Zenon

\* What is said of a packet depends on the packets up to it only.
LEMMA HistoryDecides ==
    ASSUME NEW hs, NEW more, NEW n \in Nat, \A k \in 1..n : more[k] = hs[k]
    PROVE  /\ \A k \in 1..n : /\ FlowUpTo(more, k) = FlowUpTo(hs, k)
                              /\ Begins(more, k) <=> Begins(hs, k)
                              /\ Shows(more, k) = Shows(hs, k)
                              /\ Telling(more, k) = Telling(hs, k)
                              /\ TakenFor(more, k) = TakenFor(hs, k)
           /\ \A k \in 1..(n + 1) : TransferPorts(more, k) = TransferPorts(hs, k)
<1>1. \A k \in 1..n : \A j \in 1..k : j \in 1..n
  OBVIOUS
<1>2. \A k \in 1..n : FlowUpTo(more, k) = FlowUpTo(hs, k)
  BY <1>1 DEF FlowUpTo
<1>3. \A k \in 1..n : \A j \in FlowUpTo(hs, k) : j \in 1..n
  BY <1>1 DEF FlowUpTo
<1>4. \A k \in 1..n : Begins(more, k) <=> Begins(hs, k)
  BY <1>2, <1>3 DEF Begins
<1>5. \A k \in 1..(n + 1) : TransferPorts(more, k) = TransferPorts(hs, k)
  <2> TAKE k \in 1..(n + 1)
  <2>1. \A j \in 1..(k - 1) : j \in 1..n
    OBVIOUS
  <2>2. \A port : port \in TransferPorts(more, k) <=> port \in TransferPorts(hs, k)
    BY <1>4, <2>1, TransferPortsDef
  <2> QED
    BY <2>2
<1>6. \A k \in 1..n : Shows(more, k) = Shows(hs, k)
  <2> TAKE k \in 1..n
  <2>1. k \in 1..(n + 1)
    OBVIOUS
  <2>2. more[k] = hs[k] /\ TransferPorts(more, k) = TransferPorts(hs, k)
    BY <1>5, <2>1
  <2> QED
    BY <2>2, Zenon DEF Shows
<1>7. \A k \in 1..n : Telling(more, k) = Telling(hs, k)
  BY <1>2, <1>3, <1>6 DEF Telling
<1>8. \A k \in 1..n : TakenFor(more, k) = TakenFor(hs, k)
  <2> TAKE k \in 1..n
  <2>1. CASE Telling(hs, k) = {}
    BY <1>7, <2>1 DEF TakenFor
  <2>2. CASE Telling(hs, k) # {}
    <3>1. Telling(hs, k) \subseteq 1..n /\ 1..n \subseteq Nat
      BY <1>3 DEF Telling
    <3>2. Min(Telling(hs, k)) \in 1..n
      BY <2>2, <3>1, MinIsLeast
    <3> QED
      BY <1>6, <1>7, <2>2, <3>2 DEF TakenFor
  <2> QED
    BY <2>1, <2>2
<1> QED
  BY <1>2, <1>4, <1>5, <1>6, <1>7, <1>8

\* What a packet adds to its flow, and to what that is taken for.
LEMMA ToldGrows ==
    ASSUME NEW size \in Nat, NEW hs, NEW more, NEW id,
           DOMAIN hs = 1..size, DOMAIN more = 1..(size + 1),
           \A k \in 1..size : more[k] = hs[k]
    PROVE  LET n == size + 1
               count == Cardinality(Of(hs, id))
           IN  /\ count \in Nat
               /\ Cardinality(Of(more, id)) = IF more[n].id = id THEN count + 1 ELSE count
               /\ more[n].id = id => Telling(more, n) = Shown(more, id)
               /\ Told(more, id) =
                     IF more[n].id = id /\ Told(hs, id) = Unknown /\ count + 1 <= MaxPackets
                     THEN Shows(more, n) ELSE Told(hs, id)
<1> DEFINE n == size + 1
           h == more[n]
           count == Cardinality(Of(hs, id))
<1>1. n \in Nat
  OBVIOUS
<1>2. \A k \in 1..size : FlowUpTo(more, k) = FlowUpTo(hs, k) /\ Shows(more, k) = Shows(hs, k)
  BY HistoryDecides
<1>3. 1..n = 1..size \cup {n} /\ n \notin 1..size
  BY <1>1
<1>4. IsFiniteSet(Of(hs, id)) /\ count \in Nat /\ n \notin Of(hs, id) /\ Of(hs, id) \subseteq 1..size
  <2>1. Of(hs, id) \subseteq 1..size
    BY <1>1 DEF Of
  <2>2. IsFiniteSet(1..size)
    BY <1>1, FS_Interval
  <2>3. IsFiniteSet(Of(hs, id))
    BY <2>1, <2>2, FS_Subset
  <2>4. count \in Nat
    BY <2>3, FS_CardinalityType
  <2>5. n \notin Of(hs, id)
    BY <1>3, <2>1
  <2> QED
    BY <2>1, <2>3, <2>4, <2>5
<1> HIDE DEF n
<1>5. Of(more, id) = IF h.id = id THEN Of(hs, id) \cup {n} ELSE Of(hs, id)
  <2>1. DOMAIN more = 1..size \cup {n} /\ DOMAIN hs = 1..size
    BY <1>3 DEF n
  <2>2. \A k \in 1..size : more[k].id = id <=> hs[k].id = id
    OBVIOUS
  <2>3. \A k : k \in Of(more, id) <=> (k \in Of(hs, id) \/ (k = n /\ h.id = id))
    BY <1>3, <2>1, <2>2, Zenon DEF Of
  <2>4. CASE h.id = id
    BY <2>3, <2>4
  <2>5. CASE h.id # id
    BY <2>3, <2>5
  <2> QED
    BY <2>4, <2>5
<1>6. Cardinality(Of(more, id)) = IF h.id = id THEN count + 1 ELSE count
  BY <1>4, <1>5, FS_AddElement
<1>7. ASSUME h.id = id
      PROVE  FlowUpTo(more, n) = Of(more, id)
  <2>1. DOMAIN more = 1..n
    BY DEF n
  <2> QED
    BY <1>7, <2>1 DEF FlowUpTo, Of
<1>8. h.id = id => Telling(more, n) = Shown(more, id)
  BY <1>7 DEF Telling, Shown
<1> DEFINE Adds == h.id = id /\ count + 1 <= MaxPackets /\ Shows(more, n) # Unknown
<1>9. Shown(more, id) = IF Adds THEN Shown(hs, id) \cup {n} ELSE Shown(hs, id)
  <2>1. \A k \in Of(hs, id) : k \in Shown(more, id) <=> k \in Shown(hs, id)
    BY <1>2, <1>4, <1>5 DEF Shown
  <2>2. h.id = id => (n \in Shown(more, id) <=> Adds)
    BY <1>5, <1>6, <1>7 DEF Shown
  <2>3. Shown(more, id) \subseteq Of(more, id) /\ Shown(hs, id) \subseteq Of(hs, id)
    BY DEF Shown
  <2>4. Adds => h.id = id
    OBVIOUS
  <2> HIDE DEF Adds
  <2>5. CASE Adds
    BY <1>5, <2>1, <2>2, <2>3, <2>4, <2>5
  <2>6. CASE ~Adds /\ h.id = id
    <3>1. n \notin Shown(more, id)
      BY <2>2, <2>6
    <3>2. Shown(more, id) \subseteq Of(hs, id)
      BY <1>5, <2>3, <2>6, <3>1
    <3> QED
      BY <2>1, <2>3, <2>6, <3>2
  <2>7. CASE ~Adds /\ h.id # id
    <3>1. Shown(more, id) \subseteq Of(hs, id)
      BY <1>5, <2>3, <2>7
    <3> QED
      BY <2>1, <2>3, <2>7, <3>1
  <2> QED
    BY <2>5, <2>6, <2>7
<1>10. Shown(hs, id) \subseteq 1..size /\ 1..size \subseteq Nat
  BY <1>4 DEF Shown
<1>11. Told(hs, id) = Unknown <=> Shown(hs, id) = {}
  <2>1. ASSUME Shown(hs, id) # {}
        PROVE  Told(hs, id) # Unknown
    <3>1. Min(Shown(hs, id)) \in Shown(hs, id)
      BY <1>10, <2>1, MinIsLeast
    <3> QED
      BY <2>1, <3>1 DEF Told, Shown
  <2> QED
    BY <2>1 DEF Told
<1>12. Told(more, id) =
          IF h.id = id /\ Told(hs, id) = Unknown /\ count + 1 <= MaxPackets
          THEN Shows(more, n) ELSE Told(hs, id)
  <2>1. CASE Shown(hs, id) # {}
    <3> DEFINE m == Min(Shown(hs, id))
    <3>1. m \in Shown(hs, id) /\ \A x \in Shown(hs, id) : m <= x
      BY <1>10, <2>1, MinIsLeast
    <3>2. m <= n
      BY <1>1, <1>10, <3>1 DEF n
    <3>3. m \in Shown(more, id) /\ (\A x \in Shown(more, id) : m <= x) /\ Shown(more, id) \subseteq Nat
      <4> HIDE DEF m, Adds
      <4> QED
        BY <1>1, <1>9, <1>10, <3>1, <3>2
    <3>4. Min(Shown(more, id)) = m
      <4> HIDE DEF m
      <4> QED
        BY <3>3, MinIs
    <3>5. Shows(more, m) = Shows(hs, m)
      BY <1>2, <1>10, <3>1
    <3>6. Told(more, id) = Told(hs, id)
      BY <2>1, <3>3, <3>4, <3>5 DEF Told
    <3> QED
      BY <1>11, <2>1, <3>6
  <2>2. CASE Shown(hs, id) = {} /\ Adds
    <3>1. Shown(more, id) = {n}
      BY <1>9, <2>2
    <3>2. Min({n}) = n
      BY <1>1, MinIs
    <3>3. Told(more, id) = Shows(more, n)
      BY <3>1, <3>2 DEF Told
    <3> QED
      BY <1>11, <2>2, <3>3
  <2>3. CASE Shown(hs, id) = {} /\ ~Adds
    <3>1. Told(more, id) = Unknown /\ Told(hs, id) = Unknown
      BY <1>9, <2>3 DEF Told
    <3> QED
      BY <2>3, <3>1
  <2> QED
    BY <2>1, <2>2, <2>3
<1> QED
  BY <1>4, <1>6, <1>8, <1>12 DEF n

\* The state of a flow says how many of its packets were looked at and what they showed.
FlowMatches(hs, id, st) ==
    /\ st.result = Told(hs, id)
    /\ st.decided <=> (Told(hs, id) # Unknown \/ Cardinality(Of(hs, id)) >= MaxPackets)
    /\ ~st.decided => st.packetsSeen = Cardinality(Of(hs, id))

EngineMatches ==
    /\ \E S : heard \in Seq(S)
    /\ engine = [flowStates |-> engine.flowStates, tftpPorts |-> engine.tftpPorts]
    /\ engine.tftpPorts = TransferPorts(heard, Len(heard) + 1)
    /\ \A id : FlowMatches(heard, id, FlowStateOf(engine, id))
    /\ DetectsAsHeard

\* The engine with what it learned of a packet knows the flow of that packet anew and the
\* others as before.
LEMMA LearnedState ==
    ASSUME NEW e, e = [flowStates |-> e.flowStates, tftpPorts |-> e.tftpPorts],
           NEW id, NEW packet, NEW found
    PROVE  LET new == Learned(e, id, packet, found)
               seen == FlowStateOf(e, id).packetsSeen + 1
           IN  /\ new = [flowStates |-> new.flowStates, tftpPorts |-> new.tftpPorts]
               /\ new.tftpPorts = e.tftpPorts \cup
                     (IF found = "TFTP" THEN {packet.srcPort, packet.dstPort} \ {69} ELSE {})
               /\ FlowStateOf(new, id) = [packetsSeen |-> seen, result |-> found,
                                          decided |-> found # Unknown \/ seen >= MaxPackets]
               /\ \A other : other # id => FlowStateOf(new, other) = FlowStateOf(e, other)
<1> DEFINE seen == FlowStateOf(e, id).packetsSeen + 1
           st == [packetsSeen |-> seen, result |-> found,
                  decided |-> found # Unknown \/ seen >= MaxPackets]
           ports == IF found = "TFTP" THEN {packet.srcPort, packet.dstPort} \ {69} ELSE {}
           states == [k \in DOMAIN e.flowStates \cup {id} |-> IF k = id THEN st ELSE e.flowStates[k]]
           new == Learned(e, id, packet, found)
<1>1. new = [flowStates |-> states, tftpPorts |-> e.tftpPorts \cup ports]
  <2> DEFINE set == SetFlowState(e, id, st)
  <2>1. set = [flowStates |-> states, tftpPorts |-> e.tftpPorts]
    <3> HIDE DEF st
    <3> QED
      BY DEF SetFlowState
  <2>2. new = [set EXCEPT !.tftpPorts = @ \cup ports]
    BY DEF Learned
  <2> HIDE DEF new, set, states, ports
  <2> QED
    BY <2>1, <2>2
<1>2. new.flowStates = states /\ new.tftpPorts = e.tftpPorts \cup ports
  <2> HIDE DEF new, states, ports
  <2> QED
    BY <1>1
<1>3. FlowStateOf(new, id) = st
  <2> HIDE DEF new, st
  <2> QED
    BY <1>2 DEF FlowStateOf
<1>4. \A other : other # id => FlowStateOf(new, other) = FlowStateOf(e, other)
  <2> HIDE DEF new, st
  <2> QED
    BY <1>2 DEF FlowStateOf
<1> HIDE DEF new, states
<1>5. new = [flowStates |-> new.flowStates, tftpPorts |-> new.tftpPorts]
  BY <1>1, <1>2
<1> QED
  BY <1>2, <1>3, <1>4, <1>5 DEF new

\* With one packet more, and one more began a transfer or not.
LEMMA TransferPortsGrow ==
    ASSUME NEW hs, NEW n \in Nat \ {0}
    PROVE  TransferPorts(hs, n + 1) = TransferPorts(hs, n) \cup
              (IF Begins(hs, n) THEN {hs[n].packet.srcPort, hs[n].packet.dstPort} \ {69} ELSE {})
<1> DEFINE Has_(k, port) == Begins(hs, k) /\ port \in {hs[k].packet.srcPort, hs[k].packet.dstPort}
<1>1. 1..(n + 1 - 1) = 1..(n - 1) \cup {n}
  OBVIOUS
<1>2. \A port : port \in TransferPorts(hs, n) <=> port # 69 /\ \E k \in 1..(n - 1) : Has_(k, port)
  BY TransferPortsDef
<1>3. \A port : port \in TransferPorts(hs, n + 1)
                   <=> port # 69 /\ \E k \in 1..(n + 1 - 1) : Has_(k, port)
  BY TransferPortsDef
<1>4. ASSUME NEW port
      PROVE  port \in TransferPorts(hs, n + 1)
                <=> port \in TransferPorts(hs, n) \/ (port # 69 /\ Has_(n, port))
  <2> HIDE DEF Has_
  <2> QED
    BY <1>1, <1>2, <1>3
<1>5. \A port : Has_(n, port) <=>
                Begins(hs, n) /\ port \in {hs[n].packet.srcPort, hs[n].packet.dstPort}
  OBVIOUS
<1> HIDE DEF Has_
<1>6. CASE Begins(hs, n)
  BY <1>4, <1>5, <1>6
<1>7. CASE ~Begins(hs, n)
  BY <1>4, <1>5, <1>7
<1> QED
  BY <1>6, <1>7

\* A packet of an undecided flow shows what the engine examines it for.
LEMMA ShowsIsExamined ==
    ASSUME NEW hs, NEW n, engine.tftpPorts = TransferPorts(hs, n)
    PROVE  Shows(hs, n) = Examined(engine, hs[n].packet, hs[n].payload)
<1> DEFINE h == hs[n]
<1>1. ({h.packet.srcPort, h.packet.dstPort} \cap TransferPorts(hs, n) # {}) <=>
         (h.packet.srcPort \in engine.tftpPorts \/ h.packet.dstPort \in engine.tftpPorts)
  OBVIOUS
<1>2. CASE detectSingle(h.packet, h.payload) # Unknown
  BY <1>2, Zenon DEF Shows, Examined
<1>3. CASE detectSingle(h.packet, h.payload) = Unknown
  <2>1. FollowsTftp(engine, h.packet, h.payload) <=>
           /\ h.packet.transport = "udp" /\ h.payload.size >= 4
           /\ "tftp opcode" \in h.payload.looks
           /\ {h.packet.srcPort, h.packet.dstPort} \cap TransferPorts(hs, n) # {}
    <3> HIDE DEF h
    <3> QED
      BY <1>1 DEF FollowsTftp
  <2> QED
    BY <1>3, <2>1 DEF Shows, Examined
<1> QED
  BY <1>2, <1>3

\* A packet that showed no protocol but TFTP's own, or one of WebRTC's, did so by itself.
LEMMA MultiplexedBySelf ==
    ASSUME NEW hs, NEW n, Shows(hs, n) \in Multiplexed
    PROVE  Shows(hs, n) = detectSingle(hs[n].packet, hs[n].payload) /\ Shows(hs, n) # Unknown
<1>1. Shows(hs, n) \in {detectSingle(hs[n].packet, hs[n].payload), "TFTP", Unknown}
  BY DEF Shows
<1> QED
  BY <1>1 DEF Multiplexed, Unknown

\* The packet of a flow that told its protocol first was reported, at least, with one.
LEMMA FirstWasReported ==
    ASSUME DetectsAsHeard, DOMAIN heard = 1..Len(heard), Len(heard) \in Nat, NEW id
    PROVE  /\ Told(heard, id) # Unknown => \E m \in Of(heard, id) : heard[m].reported # Unknown
           /\ Told(heard, id) = Unknown => \A m \in Of(heard, id) : heard[m].reported = Unknown
<1>1. Shown(heard, id) \subseteq Of(heard, id) /\ Of(heard, id) \subseteq Nat
  BY DEF Shown, Of
<1>2. \A m \in Of(heard, id) : FlowUpTo(heard, m) = {k \in Of(heard, id) : k <= m}
  <2> TAKE m \in Of(heard, id)
  <2>1. m \in 1..Len(heard) /\ heard[m].id = id
    BY DEF Of
  <2>2. \A k : k \in 1..m <=> k \in 1..Len(heard) /\ k <= m
    BY <2>1
  <2>3. FlowUpTo(heard, m) = {k \in 1..m : heard[k].id = id}
    BY <2>1 DEF FlowUpTo
  <2> QED
    BY <2>2, <2>3 DEF Of
<1>3. \A m \in Of(heard, id) : Telling(heard, m) = {k \in Shown(heard, id) : k <= m}
  BY <1>2 DEF Telling, Shown
<1>4. ASSUME Told(heard, id) # Unknown
      PROVE  \E m \in Of(heard, id) : heard[m].reported # Unknown
  <2> DEFINE m == Min(Shown(heard, id))
  <2>1. m \in Shown(heard, id) /\ \A k \in Shown(heard, id) : m <= k
    BY <1>1, <1>4, MinIsLeast DEF Told
  <2>2. m \in Of(heard, id) /\ m \in Nat /\ Shows(heard, m) # Unknown
    BY <1>1, <2>1 DEF Shown
  <2> HIDE DEF m
  <2>3. m \in Telling(heard, m) /\ (\A k \in Telling(heard, m) : m <= k)
        /\ Telling(heard, m) \subseteq Nat
    BY <1>1, <1>3, <2>1, <2>2
  <2>4. TakenFor(heard, m) = Shows(heard, m)
    BY <2>3, MinIs DEF TakenFor
  <2>5. heard[m].reported =
           IF Shows(heard, m) \in Multiplexed
           THEN detectSingle(heard[m].packet, heard[m].payload) ELSE Shows(heard, m)
    BY <2>2, <2>4 DEF DetectsAsHeard, Of
  <2> QED
    BY <2>2, <2>5, MultiplexedBySelf
<1>5. ASSUME Told(heard, id) = Unknown, NEW m \in Of(heard, id)
      PROVE  heard[m].reported = Unknown
  <2>1. Shown(heard, id) = {}
    <3> SUFFICES ASSUME Shown(heard, id) # {}
                 PROVE  FALSE
      OBVIOUS
    <3>1. Min(Shown(heard, id)) \in Shown(heard, id)
      BY <1>1, MinIsLeast
    <3> QED
      BY <1>5, <3>1 DEF Told, Shown
  <2>2. TakenFor(heard, m) = Unknown
    BY <1>3, <2>1 DEF TakenFor
  <2>3. m \in DOMAIN heard /\ Unknown \notin Multiplexed
    BY DEF Of, Unknown, Multiplexed
  <2> QED
    BY <2>2, <2>3 DEF DetectsAsHeard
<1> QED
  BY <1>4, <1>5

\* A packet is heard: the engine's answer joins the history.
Hears(id, packet, payload) ==
    LET r == detectFlow(engine, id, packet, payload)
    IN  /\ engine' = r.engine
        /\ heard' = Append(heard, [id |-> id, packet |-> packet, payload |-> payload,
                                   reported |-> r.detected])

\* Whatever packet is heard, the engine goes on matching what was heard.
LEMMA HearingKeepsMatch ==
    ASSUME EngineMatches,
           NEW id, NEW packet, NEW payload, Hears(id, packet, payload)
    PROVE  EngineMatches'
<1> USE DetectionAssumption
<1> DEFINE r == detectFlow(engine, id, packet, payload)
           h == [id |-> id, packet |-> packet, payload |-> payload, reported |-> r.detected]
           size == Len(heard)
           n == size + 1
           st == FlowStateOf(engine, id)
           found == Examined(engine, packet, payload)
           count == Cardinality(Of(heard, id))
<1>1. engine' = r.engine /\ heard' = Append(heard, h)
  BY DEF Hears
<1>2. PICK S : heard \in Seq(S)
  BY DEF EngineMatches
<1>3. /\ heard' \in Seq(S \cup {h})
      /\ size \in Nat /\ n \in Nat \ {0}
      /\ DOMAIN heard = 1..size /\ DOMAIN heard' = 1..n
      /\ Len(heard') = n
      /\ heard'[n] = h
      /\ \A k \in 1..size : heard'[k] = heard[k]
  <2> HIDE DEF h
  <2> QED
    BY <1>1, <1>2, AppendFacts
<1>4. h.id = id /\ h.packet = packet /\ h.payload = payload /\ h.reported = r.detected
  OBVIOUS
<1> HIDE DEF h, size
<1>5. /\ \A k \in 1..size : /\ FlowUpTo(heard', k) = FlowUpTo(heard, k)
                            /\ TakenFor(heard', k) = TakenFor(heard, k)
      /\ TransferPorts(heard', n) = TransferPorts(heard, n)
  <2>1. \A k \in 1..(size + 1) : TransferPorts(heard', k) = TransferPorts(heard, k)
    BY <1>3, HistoryDecides
  <2>2. \A k \in 1..size : /\ FlowUpTo(heard', k) = FlowUpTo(heard, k)
                           /\ TakenFor(heard', k) = TakenFor(heard, k)
    BY <1>3, HistoryDecides
  <2>3. n \in 1..(size + 1)
    BY <1>3
  <2> QED
    BY <2>1, <2>2, <2>3
<1>6. engine.tftpPorts = TransferPorts(heard', n)
  BY <1>5 DEF EngineMatches, size
<1>7. Shows(heard', n) = found
  BY <1>3, <1>4, <1>6, ShowsIsExamined
<1> HIDE DEF found
<1>8. \A other :
         /\ Cardinality(Of(heard, other)) \in Nat
         /\ Cardinality(Of(heard', other)) = IF other = id THEN Cardinality(Of(heard, other)) + 1
                                                           ELSE Cardinality(Of(heard, other))
         /\ other = id => Telling(heard', n) = Shown(heard', other)
         /\ Told(heard', other) =
               IF other = id /\ Told(heard, other) = Unknown
                    /\ Cardinality(Of(heard, other)) + 1 <= MaxPackets
               THEN found ELSE Told(heard, other)
  <2> TAKE other
  <2>1. /\ Cardinality(Of(heard, other)) \in Nat
        /\ Cardinality(Of(heard', other)) = IF heard'[n].id = other
                                            THEN Cardinality(Of(heard, other)) + 1
                                            ELSE Cardinality(Of(heard, other))
        /\ heard'[n].id = other => Telling(heard', n) = Shown(heard', other)
        /\ Told(heard', other) =
              IF heard'[n].id = other /\ Told(heard, other) = Unknown
                   /\ Cardinality(Of(heard, other)) + 1 <= MaxPackets
              THEN Shows(heard', n) ELSE Told(heard, other)
    BY <1>3, ToldGrows
  <2>2. heard'[n].id = id /\ Shows(heard', n) = found
    BY <1>3, <1>4, <1>7
  <2> HIDE DEF n
  <2> QED
    BY <2>1, <2>2
<1>9. /\ count \in Nat
      /\ Telling(heard', n) = Shown(heard', id)
      /\ Cardinality(Of(heard', id)) = count + 1
      /\ Told(heard', id) = IF Told(heard, id) = Unknown /\ count + 1 <= MaxPackets
                            THEN found ELSE Told(heard, id)
      /\ \A other : other # id =>
            /\ Told(heard', other) = Told(heard, other)
            /\ Cardinality(Of(heard', other)) = Cardinality(Of(heard, other))
  BY <1>8
<1>10. TakenFor(heard', n) = Told(heard', id)
  BY <1>9 DEF TakenFor, Told
<1>11. FlowMatches(heard, id, st)
  BY DEF EngineMatches
<1>12. \A k \in 1..size : /\ heard'[k] = heard[k]
                          /\ heard[k].reported =
                                IF TakenFor(heard, k) \in Multiplexed
                                THEN detectSingle(heard[k].packet, heard[k].payload)
                                ELSE TakenFor(heard, k)
  BY <1>3 DEF EngineMatches, DetectsAsHeard
<1>13. ASSUME r.detected = IF TakenFor(heard', n) \in Multiplexed
                           THEN detectSingle(packet, payload) ELSE TakenFor(heard', n)
       PROVE  DetectsAsHeard'
  <2>1. \A k \in 1..size : heard'[k].reported =
                              IF TakenFor(heard', k) \in Multiplexed
                              THEN detectSingle(heard'[k].packet, heard'[k].payload)
                              ELSE TakenFor(heard', k)
    BY <1>5, <1>12
  <2>2. heard'[n].reported =
           IF TakenFor(heard', n) \in Multiplexed
           THEN detectSingle(heard'[n].packet, heard'[n].payload) ELSE TakenFor(heard', n)
    BY <1>3, <1>4, <1>13
  <2>3. \A k \in 1..n : k \in 1..size \/ k = n
    BY <1>3
  <2> HIDE DEF n
  <2> QED
    BY <1>3, <2>1, <2>2, <2>3 DEF DetectsAsHeard
<1>14. /\ Told(heard, id) # Unknown => \E m \in Of(heard, id) : heard[m].reported # Unknown
       /\ Told(heard, id) = Unknown => \A m \in Of(heard, id) : heard[m].reported = Unknown
  BY <1>3, FirstWasReported DEF EngineMatches, size
<1>15. /\ Begins(heard', n) <=>
              r.detected = "TFTP" /\ \A m \in Of(heard, id) : heard[m].reported = Unknown
  <2>1. FlowUpTo(heard', n) \ {n} = Of(heard, id)
    <3>1. FlowUpTo(heard', n) = {k \in 1..n : heard'[k].id = id}
      BY <1>3, <1>4 DEF FlowUpTo
    <3>2. 1..n = 1..size \cup {n} /\ n \notin 1..size
      BY <1>3
    <3>3. Of(heard, id) = {k \in 1..size : heard[k].id = id}
      BY <1>3 DEF Of
    <3> HIDE DEF n
    <3> QED
      BY <1>3, <3>1, <3>2, <3>3
  <2>2. \A m \in Of(heard, id) : heard'[m] = heard[m]
    BY <1>3 DEF Of
  <2> QED
    BY <1>3, <1>4, <2>1, <2>2 DEF Begins
<1>16. TransferPorts(heard', n + 1) =
          engine.tftpPorts \cup
              (IF Begins(heard', n) THEN {packet.srcPort, packet.dstPort} \ {69} ELSE {})
  BY <1>3, <1>4, <1>6, TransferPortsGrow
<1>17. ASSUME /\ engine' = [flowStates |-> engine'.flowStates, tftpPorts |-> engine'.tftpPorts]
              /\ engine'.tftpPorts = TransferPorts(heard', n + 1)
              /\ FlowMatches(heard', id, FlowStateOf(engine', id))
              /\ \A other : other # id => FlowStateOf(engine', other) = FlowStateOf(engine, other)
              /\ DetectsAsHeard'
       PROVE  EngineMatches'
  <2>1. \A other : FlowMatches(heard', other, FlowStateOf(engine', other))
    <3>1. \A other : other # id => FlowMatches(heard, other, FlowStateOf(engine, other))
      BY DEF EngineMatches
    <3>2. \A other : other # id => FlowMatches(heard', other, FlowStateOf(engine', other))
      BY <1>9, <1>17, <3>1 DEF FlowMatches
    <3> QED
      BY <1>17, <3>2
  <2>2. \E T : heard' \in Seq(T)
    BY <1>3
  <2> QED
    BY <1>3, <1>17, <2>1, <2>2 DEF EngineMatches
<1>18. CASE ~st.decided
  <2>1. Told(heard, id) = Unknown /\ count < MaxPackets /\ st.packetsSeen = count
    BY <1>9, <1>11, <1>18 DEF FlowMatches
  <2>2. r = [detected |-> found, engine |-> Learned(engine, id, packet, found)]
    BY <1>18 DEF detectFlow, found
  <2>3. r.detected = found /\ engine' = Learned(engine, id, packet, found)
    BY <1>1, <2>2
  <2>4. Told(heard', id) = found
    BY <1>9, <2>1
  <2>5. found = IF found \in Multiplexed THEN detectSingle(packet, payload) ELSE found
    BY <1>3, <1>4, <1>7, MultiplexedBySelf
  <2>6. DetectsAsHeard'
    BY <1>10, <1>13, <2>3, <2>4, <2>5
  <2>7. Begins(heard', n) <=> found = "TFTP"
    BY <1>14, <1>15, <2>1, <2>3
  <2>8. engine = [flowStates |-> engine.flowStates, tftpPorts |-> engine.tftpPorts]
    BY DEF EngineMatches
  <2> HIDE DEF found, r
  <2>9. /\ engine' = [flowStates |-> engine'.flowStates, tftpPorts |-> engine'.tftpPorts]
        /\ engine'.tftpPorts = engine.tftpPorts \cup
              (IF found = "TFTP" THEN {packet.srcPort, packet.dstPort} \ {69} ELSE {})
        /\ FlowStateOf(engine', id) =
              [packetsSeen |-> st.packetsSeen + 1, result |-> found,
               decided |-> found # Unknown \/ st.packetsSeen + 1 >= MaxPackets]
        /\ \A other : other # id => FlowStateOf(engine', other) = FlowStateOf(engine, other)
    BY <2>3, <2>8, LearnedState
  <2>10. engine'.tftpPorts = TransferPorts(heard', n + 1)
    BY <1>16, <2>7, <2>9
  <2>11. FlowMatches(heard', id, FlowStateOf(engine', id))
    <3> DEFINE new == FlowStateOf(engine', id)
    <3>1. /\ new.packetsSeen = count + 1 /\ new.result = found
          /\ new.decided <=> (found # Unknown \/ count + 1 >= MaxPackets)
      <4>1. new = [packetsSeen |-> st.packetsSeen + 1, result |-> found,
                   decided |-> found # Unknown \/ st.packetsSeen + 1 >= MaxPackets]
        BY <2>9
      <4> HIDE DEF new, st
      <4>2. /\ new.packetsSeen = st.packetsSeen + 1 /\ new.result = found
            /\ new.decided = (found # Unknown \/ st.packetsSeen + 1 >= MaxPackets)
        BY <4>1
      <4> QED
        BY <2>1, <4>2
    <3> HIDE DEF new, count
    <3>2. FlowMatches(heard', id, new)
      BY <1>9, <2>4, <3>1 DEF FlowMatches
    <3> QED
      BY <3>2 DEF new
  <2> QED
    BY <1>17, <2>6, <2>9, <2>10, <2>11
<1>19. CASE st.decided
  <2>1. /\ Told(heard, id) # Unknown \/ count >= MaxPackets
        /\ st.result = Told(heard, id)
    BY <1>11, <1>19 DEF FlowMatches
  <2>2. Told(heard', id) = Told(heard, id)
    BY <1>9, <2>1
  <2>3. r = [detected |-> IF st.result \in Multiplexed THEN detectSingle(packet, payload)
                                                      ELSE st.result,
             engine |-> engine]
    BY <1>19 DEF detectFlow
  <2>4. /\ engine' = engine
        /\ r.detected = IF st.result \in Multiplexed THEN detectSingle(packet, payload)
                                                     ELSE st.result
    BY <1>1, <2>3
  <2>5. DetectsAsHeard'
    BY <1>10, <1>13, <2>1, <2>2, <2>4
  <2>6. ~Begins(heard', n)
    <3>1. CASE Told(heard, id) = Unknown
      BY <1>15, <2>1, <2>4, <3>1 DEF Unknown, Multiplexed
    <3>2. CASE Told(heard, id) # Unknown
      BY <1>14, <1>15, <3>2
    <3> QED
      BY <3>1, <3>2
  <2>7. engine'.tftpPorts = TransferPorts(heard', n + 1)
    BY <1>16, <2>4, <2>6
  <2>8. FlowMatches(heard', id, FlowStateOf(engine', id))
    <3>1. FlowStateOf(engine', id) = st
      BY <2>4
    <3> HIDE DEF st, count
    <3>2. Told(heard', id) # Unknown \/ count + 1 >= MaxPackets
      BY <1>9, <2>1, <2>2
    <3> QED
      BY <1>9, <1>19, <2>1, <2>2, <3>1, <3>2 DEF FlowMatches
  <2>9. engine = [flowStates |-> engine.flowStates, tftpPorts |-> engine.tftpPorts]
    BY DEF EngineMatches
  <2> QED
    BY <1>17, <2>4, <2>5, <2>7, <2>8, <2>9
<1> QED
  BY <1>18, <1>19

\* A step of the decoder hears a packet or leaves the engine alone.
LEMMA DecoderHears ==
    ASSUME [DecoderNext]_decoderVars
    PROVE  \/ UNCHANGED <<engine, heard>>
           \/ \E id, packet, payload : Hears(id, packet, payload)
<1>1. CASE UNCHANGED decoderVars
  BY <1>1 DEF decoderVars
<1>2. ASSUME NEW f, decode(f)
      PROVE  \/ UNCHANGED <<engine, heard>>
             \/ \E id, packet, payload : Hears(id, packet, payload)
  <2>1. CASE Throws(Headers(f))
    BY <1>2, <2>1 DEF decode, Continue, Escape
  <2>2. CASE ~Throws(Headers(f))
    <3>1. PICK end, s, id : Deliver(f, end, s, id)
      BY <1>2, <2>2 DEF decode, Continue, Escape
    <3>2. CASE Decoding(end) /\ s.payload < f.cap
      <4>1. Classify(f, s, id, Ported(s), PayloadOf(s))
        BY <3>1, <3>2 DEF Deliver
      <4>2. Hears(id, Ported(s), PayloadOf(s))
        BY <4>1 DEF Classify, Hears
      <4> QED
        BY <4>2
    <3>3. CASE ~(Decoding(end) /\ s.payload < f.cap)
      BY <3>1, <3>3 DEF Deliver
    <3> QED
      BY <3>2, <3>3
  <2> QED
    BY <2>1, <2>2
<1> QED
  BY <1>1, <1>2 DEF DecoderNext

\* Whatever packets of whatever flows a decoder hears: it reports for each what the packets
\* up to it show.
THEOREM DetectionCorrect ==
    DecoderSpec => []DetectsAsHeard
<1> USE DetectionAssumption
<1>1. DecoderInit => EngineMatches
  <2> SUFFICES ASSUME DecoderInit
               PROVE  EngineMatches
    OBVIOUS
  <2>1. heard = <<>> /\ engine = EmptyEngine /\ DOMAIN heard = {} /\ Len(heard) = 0
    BY DEF DecoderInit
  <2>2. \E S : heard \in Seq(S)
    BY <2>1, EmptySeq
  <2>3. \A id : Of(heard, id) = {} /\ Shown(heard, id) = {}
    BY <2>1 DEF Of, Shown
  <2>4. \A id : FlowMatches(heard, id, FlowStateOf(engine, id))
    <3> TAKE id
    <3>1. FlowStateOf(engine, id) = NewFlowState
      BY <2>1 DEF EmptyEngine, FlowStateOf
    <3>2. Told(heard, id) = Unknown /\ Cardinality(Of(heard, id)) = 0
      BY <2>3, FS_EmptySet DEF Told
    <3> QED
      BY <3>1, <3>2 DEF NewFlowState, FlowMatches
  <2>5. TransferPorts(heard, 0 + 1) = {}
    <3>1. \A port : port \notin TransferPorts(heard, 0 + 1)
      BY TransferPortsDef
    <3> QED
      BY <3>1
  <2> QED
    BY <2>1, <2>2, <2>4, <2>5 DEF EngineMatches, EmptyEngine, DetectsAsHeard
<1>2. EngineMatches /\ [DecoderNext]_decoderVars => EngineMatches'
  <2> SUFFICES ASSUME EngineMatches, [DecoderNext]_decoderVars
               PROVE  EngineMatches'
    OBVIOUS
  <2>1. CASE UNCHANGED <<engine, heard>>
    BY <2>1 DEF EngineMatches, DetectsAsHeard
  <2>2. CASE \E id, packet, payload : Hears(id, packet, payload)
    BY <2>2, HearingKeepsMatch
  <2> QED
    BY <2>1, <2>2, DecoderHears
<1>3. EngineMatches => DetectsAsHeard
  BY DEF EngineMatches
<1> QED
  BY <1>1, <1>2, <1>3, PTL DEF DecoderSpec

-----------------------------------------------------------------------------
(* The capture is not left.                                                *)

\* A packet that is reported was read from its frame.
Contained ==
    /\ KnownCapture
    /\ last # None => Inside(last.s, last.f) /\ Bounded(last.layer7, last.f, last.s.payload)

\* A step reports a packet of its frame: what the pipeline makes of it, or what the headers
\* in front of a fragment say that makes the defragmenter throw.
LEMMA Reports ==
    ASSUME NEW f, decode(f)
    PROVE  /\ capture' = capture
           /\ last'.f = f
           /\ \/ \E complete : last'.s = Finished(Pipeline(Headers(f), complete))
              \/ last'.s = [Headers(f) EXCEPT !.status = "length_error"]
           /\ \/ last'.layer7 = NoMessage
              \/ \E proto, packet : last'.layer7 = decodeL7(proto, packet, f, last'.s.payload)
<1> DEFINE front == Headers(f)
           complete == Asked(front) /\ Completes(front)
           end == Pipeline(front, complete)
           s == Finished(end)
           id == buildFlowId(end)
<1>1. capture' = capture
  BY DEF decode
<1>2. CASE Throws(front)
  BY <1>1, <1>2 DEF decode, Continue, Escape
<1>3. CASE ~Throws(front)
  <2>1. Deliver(f, end, s, id)
    BY <1>3 DEF decode, Continue, Escape
  <2> HIDE DEF end, s, id
  <2>2. \/ last' = [f |-> f, s |-> s, id |-> id, detected |-> Unknown, layer7 |-> NoMessage]
        \/ \E r, packet : last' = [f |-> f, s |-> s, id |-> id, detected |-> r.detected,
                                   layer7 |-> decodeL7(r.detected, packet, f, s.payload)]
    BY <2>1, Zenon DEF Deliver, Classify
  <2>3. /\ last'.f = f /\ last'.s = s
        /\ \/ last'.layer7 = NoMessage
           \/ \E proto, packet : last'.layer7 = decodeL7(proto, packet, f, s.payload)
    <3>1. CASE last' = [f |-> f, s |-> s, id |-> id, detected |-> Unknown, layer7 |-> NoMessage]
      BY <3>1
    <3>2. ASSUME NEW r, NEW packet,
                 last' = [f |-> f, s |-> s, id |-> id, detected |-> r.detected,
                          layer7 |-> decodeL7(r.detected, packet, f, s.payload)]
          PROVE  last'.f = f /\ last'.s = s /\ last'.layer7 = decodeL7(r.detected, packet, f, s.payload)
      BY <3>2
    <3> QED
      BY <2>2, <3>1, <3>2
  <2> QED
    BY <1>1, <2>3 DEF s, end
<1> QED
  BY <1>2, <1>3

LEMMA DecodeContains ==
    ASSUME CapturesAreFrames, Contained, NEW f \in capture, decode(f)
    PROVE  Contained'
<1> DEFINE front == Headers(f)
<1>1. IsFrame(f) /\ capture' = capture /\ last'.f = f
  BY Reports DEF CapturesAreFrames, Contained, KnownCapture
<1>2. Inside(front, f)
  BY <1>1, HeadersInside
<1> HIDE DEF front
<1>3. \A complete : Inside(Finished(Pipeline(front, complete)), f)
  BY <1>1, <1>2, PipelineInside, EndsInside
<1>4. Inside([front EXCEPT !.status = "length_error"], f)
  BY <1>2 DEF Inside
<1>5. Inside(last'.s, f)
  BY <1>3, <1>4, Reports DEF front
<1>6. Bounded(last'.layer7, f, last'.s.payload)
  <2>1. CASE last'.layer7 = NoMessage
    BY <2>1, FailureBounded DEF NoMessage
  <2>2. ASSUME NEW proto, NEW packet, last'.layer7 = decodeL7(proto, packet, f, last'.s.payload)
        PROVE  Bounded(last'.layer7, f, last'.s.payload)
    BY <1>1, <1>5, <2>2, L7Bounded DEF Inside
  <2> QED
    BY <2>1, <2>2, Reports
<1> QED
  BY <1>1, <1>5, <1>6 DEF Contained, KnownCapture

\* Wherever the captures end and whatever their frames are encapsulated in: no decoder
\* moves past the end, not those of the layers and not those of the messages.
THEOREM StaysCorrect ==
    ASSUME CapturesAreFrames
    PROVE  DecoderSpec => []StaysInCapture
<1>1. DecoderInit => Contained
  BY DEF DecoderInit, Contained, KnownCapture
<1>2. Contained /\ [DecoderNext]_decoderVars => Contained'
  <2>1. Contained /\ UNCHANGED decoderVars => Contained'
    BY DEF Contained, KnownCapture, decoderVars
  <2>2. Contained /\ DecoderNext => Contained'
    BY DecodeContains DEF DecoderNext
  <2> QED
    BY <2>1, <2>2
<1>3. Contained => StaysInCapture
  BY DEF Contained, StaysInCapture, Inside, Bounded
<1> QED
  BY <1>1, <1>2, <1>3, PTL DEF DecoderSpec

-----------------------------------------------------------------------------
(* Addresses and ports come from one level. The stages go down through the *)
(* headers of a frame: up to the transport layer 3 is the header that ends *)
(* where the decoding is, or a fragment header does behind it; a tunnel    *)
(* goes on further down than the transport header it was found in.         *)

\* The kinds of header with addresses, and with ports.
Addressed == {"ipv4", "ipv6"}

WithPorts == {"tcp", "udp"}

\* What is read is a header of the frame, or filler.
LEMMA ReadIsHeader ==
    ASSUME NEW f, NEW off, NEW kind, Read(f, off, kind).kind # "filler"
    PROVE  \E i \in DOMAIN f.hs : /\ f.hs[i] = Read(f, off, kind)
                                  /\ f.hs[i].kind = kind /\ f.hs[i].at = off
<1> DEFINE here == {i \in DOMAIN f.hs : f.hs[i].kind = kind /\ f.hs[i].at = off}
<1>1. here # {}
  BY DEF Read, Filler
<1>2. \E i \in here : Read(f, off, kind) = f.hs[i]
  BY <1>1 DEF Read
<1> QED
  BY <1>2

\* At an offset one header begins at most, and the one that begins where another ends is
\* the next.
LEMMA PlacesOfHeaders ==
    ASSUME NEW f, IsFrame(f), LaidOut(f), NEW i \in DOMAIN f.hs, NEW j \in DOMAIN f.hs
    PROVE  /\ DOMAIN f.hs = 1..Len(f.hs) /\ Len(f.hs) \in Nat
           /\ f.hs[i].at \in Nat /\ f.hs[i].len \in Nat
           /\ f.hs[i].at = f.hs[j].at => i = j
           /\ f.hs[i].at < f.hs[j].at => i < j
           /\ f.hs[i].len > 0 /\ f.hs[j].at = f.hs[i].at + f.hs[i].len => j = i + 1
<1>1. DOMAIN f.hs = 1..Len(f.hs) /\ Len(f.hs) \in Nat
  BY DEF LaidOut
<1>2. \A k \in DOMAIN f.hs : f.hs[k].at \in Nat /\ f.hs[k].len \in Nat
  BY DEF IsFrame, WellFormed
<1>3. \A k, l \in DOMAIN f.hs : k < l => f.hs[k].at < f.hs[l].at
  BY DEF LaidOut
<1>4. f.hs[i].at = f.hs[j].at => i = j
  BY <1>1, <1>2, <1>3
<1>5. f.hs[i].at < f.hs[j].at => i < j
  BY <1>1, <1>2, <1>3
<1>6. ASSUME f.hs[i].len > 0, f.hs[j].at = f.hs[i].at + f.hs[i].len
      PROVE  j = i + 1
  <2>1. f.hs[i].at < f.hs[j].at
    BY <1>2, <1>6
  <2>2. i + 1 \in DOMAIN f.hs /\ i + 1 <= j
    BY <1>1, <1>5, <2>1
  <2>3. f.hs[i + 1].at = f.hs[j].at
    BY <1>6, <2>2 DEF LaidOut
  <2>4. ~(i + 1 < j)
    BY <1>2, <1>3, <2>2, <2>3
  <2> QED
    BY <1>1, <2>2, <2>4
<1> QED
  BY <1>1, <1>2, <1>4, <1>5, <1>6

\* An IP header that was decoded is a header of the frame and was passed over.
LEMMA IpFound ==
    ASSUME NEW f, IsFrame(f), LaidOut(f), NEW off \in Nat, NEW r,
           r \in {decodeIPv4(f, off), decodeIPv6(f, off)}, r.ok
    PROVE  \E i \in DOMAIN f.hs :
              /\ f.hs[i] = r.hdr /\ f.hs[i].kind \in Addressed /\ f.hs[i].at = off
              /\ f.hs[i].len > 0 /\ r.off = f.hs[i].at + f.hs[i].len
<1>1. Filler.version = 5 /\ Filler.kind = "filler"
  BY DEF Filler
<1>2. CASE r = decodeIPv4(f, off)
  <2> DEFINE h == Read(f, off, "ipv4")
             result == Success(h, off + 4 * h.ihl)
  <2>1. h.ihl \in Nat
    BY ReadSizes
  <2>2. h = Filler \/ h.kind = "ipv4"
    BY ReadFacts
  <2>3. result.hdr = h /\ result.off = off + 4 * h.ihl
    BY DEF Success
  <2> DEFINE fixed == Has(f, off, 20)
             four == h.version = 4
             sane == h.ihl >= 5
             whole == Has(f, off, 4 * h.ihl)
  <2>4. r = result /\ h.version = 4 /\ h.ihl >= 5
    <3>1. r = Checked(<< <<fixed, "TruncatedHeader">>, <<four, "MalformedPacket">>,
                         <<sane, "InvalidHeaderLength">>, <<whole, "TruncatedHeader">> >>, off, result)
      BY <1>2 DEF decodeIPv4
    <3> HIDE DEF fixed, four, sane, whole, result
    <3>2. r = result /\ four /\ sane
      BY <3>1, Checked4
    <3> QED
      BY <3>2 DEF four, sane
  <2> HIDE DEF h, result
  <2>5. h.kind = "ipv4"
    BY <1>1, <2>2, <2>4
  <2>6. PICK i \in DOMAIN f.hs : f.hs[i] = h /\ f.hs[i].kind = "ipv4" /\ f.hs[i].at = off
    BY <2>5, ReadIsHeader DEF h
  <2>7. f.hs[i].len = 4 * h.ihl
    BY <2>6 DEF LaidOut
  <2> QED
    BY <2>1, <2>3, <2>4, <2>6, <2>7 DEF Addressed
<1>3. CASE r = decodeIPv6(f, off)
  <2> DEFINE h == Read(f, off, "ipv6")
             result == Success(h, off + 40)
  <2>1. h = Filler \/ h.kind = "ipv6"
    BY ReadFacts
  <2>2. result.hdr = h /\ result.off = off + 40
    BY DEF Success
  <2> DEFINE fixed == Has(f, off, 40)
             six == h.version = 6
  <2>3. r = result /\ h.version = 6
    <3>1. r = Checked(<< <<fixed, "TruncatedHeader">>, <<six, "MalformedPacket">> >>, off, result)
      BY <1>3 DEF decodeIPv6
    <3> HIDE DEF fixed, six, result
    <3>2. r = result /\ six
      BY <3>1, Checked2
    <3> QED
      BY <3>2 DEF six
  <2> HIDE DEF h, result
  <2>4. h.kind = "ipv6"
    BY <1>1, <2>1, <2>3
  <2>5. PICK i \in DOMAIN f.hs : f.hs[i] = h /\ f.hs[i].kind = "ipv6" /\ f.hs[i].at = off
    BY <2>4, ReadIsHeader DEF h
  <2>6. f.hs[i].len = 40
    BY <2>5 DEF LaidOut
  <2> QED
    BY <2>2, <2>3, <2>5, <2>6 DEF Addressed
<1> QED
  BY <1>2, <1>3

\* A header with ports that was decoded is a header of the frame and was passed over.
LEMMA TransportFound ==
    ASSUME NEW f, IsFrame(f), LaidOut(f), NEW off \in Nat, NEW protocol \in Transports, NEW r,
           r = decodeTransport(f, off, protocol), r.ok, r.hdr.kind \in WithPorts
    PROVE  r.off > off /\ \E j \in DOMAIN f.hs : f.hs[j] = r.hdr /\ f.hs[j].at = off
<1>1. \A kind : Read(f, off, kind).kind \in {"filler", kind}
  BY ReadFacts DEF Filler
<1>2. ASSUME NEW kind \in {"igmp", "esp", "udp"}, r = Fixed(f, off, kind, 8)
      PROVE  r.hdr = Read(f, off, "udp") /\ r.off = off + 8
  <2> DEFINE result == Success(Read(f, off, kind), off + 8)
  <2>1. r = result
    BY <1>2, Checked1 DEF Fixed
  <2>2. r.hdr = Read(f, off, kind) /\ r.off = off + 8
    BY <2>1 DEF Success
  <2> QED
    BY <1>1, <2>2 DEF WithPorts
<1>3. CASE protocol = "TCP"
  <2> DEFINE h == Read(f, off, "tcp")
             result == Success(h, off + 4 * h.dataOffset)
  <2>1. h.dataOffset \in Nat
    BY ReadSizes
  <2>2. result.hdr = h /\ result.off = off + 4 * h.dataOffset
    BY DEF Success
  <2> DEFINE fixed == Has(f, off, 20)
             sane == h.dataOffset >= 5
             whole == Has(f, off, 4 * h.dataOffset)
  <2>3. r = result /\ h.dataOffset >= 5
    <3>1. r = Checked(<< <<fixed, "TruncatedHeader">>, <<sane, "InvalidHeaderLength">>,
                         <<whole, "TruncatedHeader">> >>, off, result)
      BY <1>3 DEF decodeTransport, decodeTcp
    <3> HIDE DEF fixed, sane, whole, result
    <3>2. r = result /\ sane
      BY <3>1, Checked3
    <3> QED
      BY <3>2 DEF sane
  <2> HIDE DEF h, result
  <2>4. h.kind # "filler"
    BY <2>2, <2>3 DEF WithPorts
  <2> QED
    BY <2>1, <2>2, <2>3, <2>4, ReadIsHeader DEF h
<1>4. CASE protocol \in {"UDP", "IGMP", "ESP"}
  <2>1. \E kind \in {"igmp", "esp", "udp"} : r = Fixed(f, off, kind, 8)
    BY <1>4 DEF decodeTransport, decodeUdp, decodeIgmp, decodeEsp
  <2>2. r.hdr = Read(f, off, "udp") /\ r.off = off + 8
    BY <1>2, <2>1
  <2>3. Read(f, off, "udp").kind # "filler"
    BY <2>2 DEF WithPorts
  <2> QED
    BY <2>2, <2>3, ReadIsHeader
<1>5. CASE protocol \in {"ICMP", "ICMPv6"}
  <2>1. r \in {decodeIcmp(f, off), decodeIcmpv6(f, off)}
    BY <1>5 DEF decodeTransport
  <2>2. \A info : /\ Success([kind |-> "icmp", embedded |-> info], off + 8).hdr.kind = "icmp"
                  /\ Success([kind |-> "icmpv6", embedded |-> info], off + 8).hdr.kind = "icmpv6"
    BY DEF Success
  <2>3. r = decodeIcmp(f, off) => r.hdr.kind = "icmp"
    BY <2>2, Checked1 DEF decodeIcmp
  <2>4. r = decodeIcmpv6(f, off) => r.hdr.kind = "icmpv6"
    BY <2>2, Checked1 DEF decodeIcmpv6
  <2> QED
    BY <2>1, <2>3, <2>4 DEF WithPorts
<1> QED
  BY <1>3, <1>4, <1>5 DEF Transports

\* A transport header that is there and of the right protocol is missed only if the capture
\* cut it.
LEMMA TransportMissed ==
    ASSUME NEW f, IsFrame(f), LaidOut(f), NEW j \in DOMAIN f.hs,
           f.hs[j].kind \in DOMAIN ProtocolOf,
           ~decodeTransport(f, f.hs[j].at, ProtocolOf[f.hs[j].kind]).ok
    PROVE  ~Has(f, f.hs[j].at, Needed(f.hs[j]))
<1> DEFINE off == f.hs[j].at
           h == f.hs[j]
<1>1. \A hdr, end : Success(hdr, end).ok
  BY DEF Success
<1>2. ASSUME NEW fits \in BOOLEAN, fits, NEW end, NEW result
      PROVE  Checked(<< <<fits, "TruncatedHeader">> >>, end, result) = result
  <2> DEFINE checks == << <<fits, "TruncatedHeader">> >>
  <2>1. DOMAIN checks = {1} /\ checks[1][1] = fits
    OBVIOUS
  <2> HIDE DEF checks
  <2>2. Checked(checks, end, result) = result
    BY <1>2, <2>1, CheckedPasses
  <2> QED
    BY <2>2 DEF checks
<1>3. off \in Nat /\ f.cap \in Nat
  BY DEF IsFrame, WellFormed
<1>4. CASE h.kind = "tcp"
  <2>1. Read(f, off, "tcp").kind = "tcp"
    BY <1>4 DEF Read
  <2>2. \E i \in DOMAIN f.hs : f.hs[i] = Read(f, off, "tcp") /\ f.hs[i].at = off
    BY <2>1, ReadIsHeader
  <2>3. Read(f, off, "tcp") = h
    BY <2>2, PlacesOfHeaders
  <2>4. h.dataOffset >= 5 /\ h.dataOffset \in Nat
    BY <1>4 DEF LaidOut, IsFrame, WellFormed
  <2> DEFINE enough == Has(f, off, 20)
             said == h.dataOffset >= 5
             whole == Has(f, off, 4 * h.dataOffset)
             checks == << <<enough, "TruncatedHeader">>, <<said, "InvalidHeaderLength">>,
                          <<whole, "TruncatedHeader">> >>
  <2>5. decodeTcp(f, off) = Checked(checks, off, Success(h, off + 4 * h.dataOffset))
    BY <2>3 DEF decodeTcp
  <2>6. whole => enough
    BY <1>3, <2>4 DEF Has
  <2>7. said
    BY <2>4
  <2> HIDE DEF enough, said, whole
  <2>8. ASSUME whole
        PROVE  \A i \in DOMAIN checks : checks[i][1]
    <3>1. DOMAIN checks = 1..3 /\ checks[1][1] = enough /\ checks[2][1] = said /\ checks[3][1] = whole
      OBVIOUS
    <3> HIDE DEF checks
    <3>2. checks[1][1] /\ checks[2][1] /\ checks[3][1]
      BY <2>6, <2>7, <2>8, <3>1
    <3> QED
      BY <3>1, <3>2
  <2> HIDE DEF checks
  <2>9. whole => decodeTcp(f, off).ok
    BY <1>1, <2>5, <2>8, CheckedPasses
  <2>10. decodeTransport(f, off, ProtocolOf[h.kind]) = decodeTcp(f, off)
    BY <1>4 DEF decodeTransport, ProtocolOf
  <2>11. Needed(h) = 4 * h.dataOffset
    BY <1>4 DEF Needed
  <2> QED
    BY <2>9, <2>10, <2>11 DEF whole
<1>5. CASE h.kind \in {"udp", "icmp", "icmpv6"}
  <2> DEFINE fits == Has(f, off, 8)
  <2>1. decodeTransport(f, off, ProtocolOf[h.kind]) \in {decodeUdp(f, off), decodeIcmp(f, off), decodeIcmpv6(f, off)}
    <3>1. ProtocolOf[h.kind] \in {"UDP", "ICMP", "ICMPv6"}
      BY <1>5 DEF ProtocolOf
    <3> QED
      BY <3>1 DEF decodeTransport
  <2>2. fits \in BOOLEAN
    BY DEF Has
  <2>3. \E result : /\ result.ok
                    /\ decodeUdp(f, off) = Checked(<< <<fits, "TruncatedHeader">> >>, off, result)
    BY <1>1 DEF decodeUdp, Fixed
  <2>4. \E result : /\ result.ok
                    /\ decodeIcmp(f, off) = Checked(<< <<fits, "TruncatedHeader">> >>, off, result)
    BY <1>1, Zenon DEF decodeIcmp
  <2>5. \E result : /\ result.ok
                    /\ decodeIcmpv6(f, off) = Checked(<< <<fits, "TruncatedHeader">> >>, off, result)
    BY <1>1, Zenon DEF decodeIcmpv6
  <2> HIDE DEF fits
  <2>6. fits => decodeUdp(f, off).ok /\ decodeIcmp(f, off).ok /\ decodeIcmpv6(f, off).ok
    <3> SUFFICES ASSUME fits
                 PROVE  decodeUdp(f, off).ok /\ decodeIcmp(f, off).ok /\ decodeIcmpv6(f, off).ok
      OBVIOUS
    <3>1. \A result : Checked(<< <<fits, "TruncatedHeader">> >>, off, result) = result
      BY <1>2, <2>2
    <3> QED
      BY <2>3, <2>4, <2>5, <3>1, Zenon
  <2>7. Needed(h) = 8
    BY <1>5 DEF Needed
  <2> QED
    BY <2>1, <2>6, <2>7 DEF fits
<1>6. DOMAIN ProtocolOf = {"tcp", "udp", "icmp", "icmpv6"}
  BY DEF ProtocolOf
<1> QED
  BY <1>4, <1>5, <1>6

\* A decoding that may go on to the transport layer: its offset is where the network header
\* of layer 3 ends, or a fragment header directly behind that.
Networked(s, f) ==
    /\ Inside(s, f)
    /\ s.layer4 = Nothing
    /\ s.l4Protocol \in Transports =>
           \E i, k \in DOMAIN f.hs :
              /\ f.hs[i] = s.layer3
              /\ k = i \/ (k = i + 1 /\ f.hs[k].kind = "fragment")
              /\ f.hs[k].len > 0 /\ s.off = f.hs[k].at + f.hs[k].len

\* Ports that were found are those of a header in front of the offset, directly below the
\* addresses or in front of them.
Leveled(s, f) ==
    s.layer4.kind \in WithPorts =>
        \E i, j \in DOMAIN f.hs :
           /\ f.hs[i] = s.layer3 /\ f.hs[j] = s.layer4 /\ f.hs[j].at < s.off
           /\ Over4(f, i, j) \/ (j < i /\ NotFollowed(f, i))

\* Where nothing is found there are no ports.
LEMMA NothingLeveled ==
    ASSUME NEW f, NEW s, s.layer4 = Nothing
    PROVE  Leveled(s, f)
BY NoneAssumption DEF Leveled, Nothing, WithPorts

\* The numbers of the protocols that lead to no transport.
LEMMA NoTransport ==
    {"0", "GRE", "Fragment", "other"} \cap Transports = {}
BY DEF Transports

\* The ends of the packet, and what does not touch the layers.
LEMMA EndsNetworked ==
    ASSUME NEW f, NEW s, Networked(s, f)
    PROVE  /\ Networked(Return(s), f) /\ Networked(ReturnPayload(s), f)
           /\ \A r : Networked(Fail(s, r), f)
<1>1. /\ Inside(Return(s), f) /\ Inside(ReturnPayload(s), f) /\ \A r : Inside(Fail(s, r), f)
  BY EndsInside DEF Networked
<1>2. \A t : t \in {Return(s), ReturnPayload(s)} \/ (\E r : t = Fail(s, r)) =>
                /\ t.layer3 = s.layer3 /\ t.layer4 = s.layer4
                /\ t.l4Protocol = s.l4Protocol /\ t.off = s.off
  BY DEF Return, ReturnPayload, Fail, Networked, Inside
<1> QED
  BY <1>1, <1>2 DEF Networked

LEMMA EndsLeveled ==
    ASSUME NEW f, NEW s, Inside(s, f), Leveled(s, f)
    PROVE  Leveled(ReturnPayload(s), f) /\ Leveled(Finished(s), f)
<1>1. LET t == ReturnPayload(s)
      IN  t.layer3 = s.layer3 /\ t.layer4 = s.layer4 /\ t.off = s.off
  BY DEF ReturnPayload, Inside
<1> QED
  BY <1>1 DEF Leveled, Finished

\* What no number of a transport goes with.
LEMMA NumberlessNetworked ==
    ASSUME NEW f, NEW s, Inside(s, f), s.layer4 = Nothing, s.l4Protocol \notin Transports
    PROVE  Networked(s, f)
BY DEF Networked

\* A packet over an IP header that was decoded.
LEMMA OverNetworked ==
    ASSUME NEW f, IsFrame(f), LaidOut(f), NEW s, Inside(s, f), s.layer4 = Nothing,
           NEW off \in Nat, NEW r, r \in {decodeIPv4(f, off), decodeIPv6(f, off)}, r.ok, r.off \in 0..f.cap
    PROVE  Networked(Over(s, r.hdr, r.off), f)
<1> DEFINE t == Over(s, r.hdr, r.off)
<1>1. Inside(t, f)
  BY OverInside
<1>2. t.layer4 = Nothing /\ t.layer3 = r.hdr /\ t.off = r.off
  BY DEF Over, Inside
<1>3. PICK i \in DOMAIN f.hs :
         f.hs[i] = r.hdr /\ f.hs[i].len > 0 /\ r.off = f.hs[i].at + f.hs[i].len
  BY IpFound
<1> HIDE DEF t
<1> QED
  BY <1>1, <1>2, <1>3 DEF Networked, t

LEMMA FragmentHeaderNetworked ==
    ASSUME NEW f, IsFrame(f), LaidOut(f), NEW s, Networked(s, f),
           \E i \in DOMAIN f.hs : /\ f.hs[i] = s.layer3 /\ f.hs[i].len > 0
                                  /\ s.off = f.hs[i].at + f.hs[i].len
    PROVE  Networked(FragmentHeader(s), f)
<1> DEFINE h == Read(f, s.off, "fragment")
           at == s.off + 8
           t == [s EXCEPT !.off = at, !.l4Protocol = h.protocol]
<1>1. s.f = f /\ s.off \in 0..f.cap /\ Inside(s, f) /\ s.layer4 = Nothing
  BY DEF Networked, Inside
<1>2. ASSUME Has(f, s.off, 8)
      PROVE  Networked(t, f)
  <2>1. at \in 0..f.cap
    BY <1>1, <1>2 DEF Has, IsFrame
  <2> HIDE DEF h
  <2>2. t.off = at /\ t.l4Protocol = h.protocol /\ t.layer3 = s.layer3 /\ t.layer4 = Nothing
    BY <1>1 DEF Inside
  <2>3. Inside(t, f)
    <3> HIDE DEF at
    <3> QED
      BY <1>1, <2>1 DEF Inside
  <2> HIDE DEF t
  <2>4. CASE h.kind = "filler"
    <3>1. h = Filler
      BY <2>4, ReadFacts DEF h
    <3>2. t.l4Protocol \notin Transports
      BY <2>2, <3>1, NoTransport DEF Filler
    <3> QED
      BY <2>2, <2>3, <3>2, NumberlessNetworked
  <2>5. CASE h.kind # "filler"
    <3>1. PICK k \in DOMAIN f.hs : f.hs[k].kind = "fragment" /\ f.hs[k].at = s.off
      BY <2>5, ReadIsHeader DEF h
    <3>2. f.hs[k].len = 8 /\ at = f.hs[k].at + f.hs[k].len
      BY <3>1 DEF LaidOut
    <3>3. PICK i \in DOMAIN f.hs : f.hs[i] = s.layer3 /\ f.hs[i].len > 0 /\ s.off = f.hs[i].at + f.hs[i].len
      OBVIOUS
    <3>4. k = i + 1
      BY <3>1, <3>3, PlacesOfHeaders
    <3> HIDE DEF at
    <3> QED
      BY <2>2, <2>3, <3>1, <3>2, <3>3, <3>4 DEF Networked
  <2> QED
    BY <2>4, <2>5
<1>3. FragmentHeader(s) \in {s, Return(s)} \/ (Has(f, s.off, 8) /\ FragmentHeader(s) \in {t, ReturnPayload(t)})
  BY <1>1 DEF FragmentHeader
<1> HIDE DEF t
<1> QED
  BY <1>2, <1>3, EndsNetworked

LEMMA NetworkNetworked ==
    ASSUME NEW f, IsFrame(f), LaidOut(f), NEW s, Unopened(s, f)
    PROVE  Networked(Network(s), f)
<1> DEFINE v4 == decodeIPv4(f, s.off)
           v6 == decodeIPv6(f, s.off)
           terminal == s.etherType \in {"ARP", "RARP", "EAPOL", "LLDP", "HomePlug"}
           end == Terminal(f, s.off, s.etherType)
           t == [s EXCEPT !.off = end.off, !.layer3 = end.hdr]
           over == Over(s, v6.hdr, v6.off)
<1>1. s.f = f /\ s.off \in 0..f.cap /\ Inside(s, f) /\ s.layer4 = Nothing /\ s.l4Protocol = "0"
  BY DEF Unopened, Inside, Bare
<1>2. v4.off \in 0..f.cap /\ v6.off \in 0..f.cap
  BY <1>1, IPv4Bounds, IPv6Bounds, Later
<1>3. Networked(s, f)
  BY <1>1, NoTransport, NumberlessNetworked
<1>4. \/ Network(s) \in {s, Fail(s, v4), Fail(s, v6), Fail(s, end), ReturnPayload(s)}
      \/ terminal /\ end.ok /\ Network(s) = Return(t)
      \/ v4.ok /\ Network(s) = Over(s, v4.hdr, v4.off)
      \/ v6.ok /\ Network(s) = FragmentHeader(over)
  BY <1>1 DEF Network, OrFail
<1>5. terminal /\ end.ok => Networked(t, f)
  <2> SUFFICES ASSUME terminal, end.ok
               PROVE  Networked(t, f)
    OBVIOUS
  <2>1. end.off \in 0..f.cap
    BY <1>1, TerminalBounded, Later DEF Bounded
  <2> HIDE DEF end
  <2>2. Inside(t, f) /\ t.layer4 = Nothing /\ t.l4Protocol = "0"
    BY <1>1, <2>1 DEF Inside
  <2> HIDE DEF t
  <2> QED
    BY <2>2, NoTransport, NumberlessNetworked
<1> HIDE DEF end, t, terminal
<1>6. v4.ok => Networked(Over(s, v4.hdr, v4.off), f)
  BY <1>1, <1>2, OverNetworked
<1>7. ASSUME v6.ok
      PROVE  Networked(FragmentHeader(over), f)
  <2>1. Networked(over, f)
    BY <1>1, <1>2, <1>7, OverNetworked
  <2>2. over.layer3 = v6.hdr /\ over.off = v6.off
    BY <1>1 DEF Over, Inside
  <2>3. \E i \in DOMAIN f.hs : f.hs[i] = v6.hdr /\ f.hs[i].len > 0 /\ v6.off = f.hs[i].at + f.hs[i].len
    BY <1>1, <1>7, IpFound
  <2> HIDE DEF over, v6
  <2> QED
    BY <2>1, <2>2, <2>3, FragmentHeaderNetworked
<1> HIDE DEF v4, v6, over
<1> QED
  BY <1>3, <1>4, <1>5, <1>6, <1>7, EndsNetworked

LEMMA FragmentNetworked ==
    ASSUME NEW f, NEW s, Networked(s, f), NEW complete
    PROVE  Networked(Fragment(s, complete), f)
<1>1. Fragment(s, complete) \in {s, Return(s), ReturnPayload(s)}
  BY DEF Fragment
<1> QED
  BY <1>1, EndsNetworked

\* GRE puts an inner network header in the place of the outer one, or ends the packet.
LEMMA GreNetworked ==
    ASSUME NEW f, IsFrame(f), LaidOut(f), NEW s, Networked(s, f)
    PROVE  Networked(Gre(s), f)
<1> DEFINE gre == decodeGre(f, s.off)
           t == [s EXCEPT !.off = gre.off]
           ip == decodeIp(f, gre.off, IF gre.hdr.protocolType = "IPv4" THEN 4 ELSE 6)
<1>1. s.f = f /\ s.off \in 0..f.cap /\ Inside(s, f) /\ s.layer4 = Nothing
  BY DEF Networked, Inside
<1>2. gre.off \in 0..f.cap
  BY <1>1, GreBounds, Later
<1>3. \/ Gre(s) = s
      \/ Gre(s) \in {Fail(s, ip), Fail(s, gre)}
      \/ s.l4Protocol = "GRE" /\ Gre(s) = ReturnPayload(t)
      \/ ip.ok /\ Gre(s) = Over(s, ip.hdr, ip.off)
  BY <1>1 DEF Gre, OrFail
<1> HIDE DEF gre
<1>4. ip \in {decodeIPv4(f, gre.off), decodeIPv6(f, gre.off)} /\ ip.off \in 0..f.cap
  BY <1>2, IpBounds, Later DEF decodeIp
<1> HIDE DEF ip
<1>5. ip.ok => Networked(Over(s, ip.hdr, ip.off), f)
  BY <1>1, <1>2, <1>4, OverNetworked DEF IsFrame
<1>6. s.l4Protocol = "GRE" => Networked(t, f)
  <2>1. Inside(t, f) /\ t.layer4 = Nothing /\ t.l4Protocol = s.l4Protocol
    BY <1>1, <1>2 DEF Inside
  <2> HIDE DEF t
  <2> QED
    BY <2>1, NoTransport, NumberlessNetworked
<1> HIDE DEF t
<1> QED
  BY <1>3, <1>5, <1>6, EndsNetworked

LEMMA TransportLeveled ==
    ASSUME NEW f, IsFrame(f), LaidOut(f), NEW s, Networked(s, f)
    PROVE  Leveled(Transport(s), f)
<1> DEFINE r == decodeTransport(f, s.off, s.l4Protocol)
           t == [s EXCEPT !.off = r.off, !.layer4 = r.hdr]
<1>1. s.f = f /\ s.off \in 0..f.cap /\ s.off \in Nat /\ Inside(s, f) /\ s.layer4 = Nothing
  BY DEF Networked, Inside
<1>2. ASSUME s.l4Protocol \in Transports, r.ok
      PROVE  Inside(t, f) /\ Leveled(t, f)
  <2>1. r.off \in 0..f.cap
    BY <1>1, <1>2, TransportBounds, Later
  <2>2. r.hdr.kind \in WithPorts => /\ r.off > s.off
                                  /\ \E j \in DOMAIN f.hs : f.hs[j] = r.hdr /\ f.hs[j].at = s.off
    BY <1>1, <1>2, TransportFound
  <2> HIDE DEF r
  <2>3. t.off = r.off /\ t.layer3 = s.layer3 /\ t.layer4 = r.hdr
    BY <1>1 DEF Inside
  <2>4. Inside(t, f)
    BY <1>1, <2>1 DEF Inside
  <2> HIDE DEF t
  <2>5. ASSUME t.layer4.kind \in WithPorts
        PROVE  \E i, j \in DOMAIN f.hs :
                  f.hs[i] = t.layer3 /\ f.hs[j] = t.layer4 /\ f.hs[j].at < t.off /\ Over4(f, i, j)
    <3>1. PICK j \in DOMAIN f.hs : f.hs[j] = t.layer4 /\ f.hs[j].at = s.off /\ s.off < t.off
      BY <2>2, <2>3, <2>5
    <3>2. PICK i, k \in DOMAIN f.hs :
             /\ f.hs[i] = s.layer3
             /\ k = i \/ (k = i + 1 /\ f.hs[k].kind = "fragment")
             /\ f.hs[k].len > 0 /\ s.off = f.hs[k].at + f.hs[k].len
      BY <1>2 DEF Networked
    <3>3. j = k + 1 /\ i \in Nat
      <4>1. f.hs[j].at = f.hs[k].at + f.hs[k].len
        BY <3>1, <3>2
      <4>2. j = k + 1
        BY <3>2, <4>1, PlacesOfHeaders
      <4>3. i \in Nat
        BY PlacesOfHeaders
      <4> QED
        BY <4>2, <4>3
    <3>4. Over4(f, i, j)
      <4>1. CASE k = i
        BY <3>3, <4>1 DEF Over4
      <4>2. CASE k = i + 1 /\ f.hs[k].kind = "fragment"
        <5>1. \A l \in (i + 1)..(j - 1) : l = k
          BY <3>3, <4>2
        <5> QED
          BY <3>3, <4>2, <5>1 DEF Over4
      <4> QED
        BY <3>2, <4>1, <4>2
    <3> QED
      BY <2>3, <3>1, <3>2, <3>4
  <2> QED
    BY <2>4, <2>5 DEF Leveled
<1>3. \/ Transport(s) \in {s, Fail(s, r)}
      \/ s.l4Protocol \in Transports /\ r.ok /\ Transport(s) \in {t, ReturnPayload(t)}
  BY <1>1 DEF Transport, OrFail
<1>4. Fail(s, r).layer4 = Nothing
  BY <1>1 DEF Fail, Inside
<1> HIDE DEF r, t
<1> QED
  BY <1>1, <1>2, <1>3, <1>4, NothingLeveled, EndsLeveled

\* Further on in the frame what was found stays in front.
LEMMA MovedLeveled ==
    ASSUME NEW f, IsFrame(f), NEW s, Inside(s, f), Leveled(s, f), NEW off \in 0..f.cap, off >= s.off
    PROVE  Inside([s EXCEPT !.off = off], f) /\ Leveled([s EXCEPT !.off = off], f)
<1> DEFINE t == [s EXCEPT !.off = off]
<1>1. Inside(t, f) /\ t.layer3 = s.layer3 /\ t.layer4 = s.layer4 /\ t.off = off
  BY Moved DEF Inside
<1>2. \A j \in DOMAIN f.hs : f.hs[j].at \in Nat
  BY DEF IsFrame, WellFormed
<1>3. s.off \in Nat /\ off \in Nat
  BY DEF Inside, IsFrame
<1> HIDE DEF t
<1>4. Leveled(t, f)
  BY <1>1, <1>2, <1>3 DEF Leveled
<1> QED
  BY <1>1, <1>4 DEF t

\* What a tunnel carries, from a place behind the transport header that it was found in: the
\* network header is further down, and its transport is found or not followed.
LEMMA InnerLeveled ==
    ASSUME NEW f, IsFrame(f), LaidOut(f), NEW s, Inside(s, f), Leveled(s, f), NEW version
    PROVE  Leveled(InnerTransport(InnerNetwork(s, version)), f)
<1> DEFINE ip == decodeIp(f, s.off, version)
           u == Over(s, ip.hdr, ip.off)
           none == [s EXCEPT !.l4Protocol = "0"]
<1>1. s.f = f /\ s.off \in 0..f.cap /\ s.off \in Nat
  BY DEF Inside
<1>2. ip.off \in 0..f.cap
  BY <1>1, IpBounds, Later
<1>3. ip \in {decodeIPv4(f, s.off), decodeIPv6(f, s.off)}
  BY DEF decodeIp
<1>4. InnerNetwork(s, version) = none \/ (ip.ok /\ InnerNetwork(s, version) = u)
  BY <1>1 DEF InnerNetwork
<1> HIDE DEF ip
<1>5. Leveled(InnerTransport(none), f)
  <2>1. none.l4Protocol = "0" /\ none.layer3 = s.layer3 /\ none.layer4 = s.layer4 /\ none.off = s.off
    BY DEF Inside
  <2> HIDE DEF none
  <2>2. InnerTransport(none) = none
    BY <2>1 DEF InnerTransport
  <2> QED
    BY <2>1, <2>2 DEF Leveled
<1>6. ASSUME ip.ok
      PROVE  Leveled(InnerTransport(u), f)
  <2>1. PICK i \in DOMAIN f.hs :
           /\ f.hs[i] = ip.hdr /\ f.hs[i].kind \in Addressed /\ f.hs[i].at = s.off
           /\ f.hs[i].len > 0 /\ ip.off = f.hs[i].at + f.hs[i].len
    BY <1>1, <1>3, <1>6, IpFound
  <2>2. /\ u.f = f /\ u.off = ip.off /\ u.layer3 = ip.hdr /\ u.layer4 = s.layer4
        /\ u.l4Protocol = ip.hdr.protocol /\ Inside(u, f)
    BY <1>1, <1>2, OverInside DEF Over, Inside
  <2> DEFINE q == decodeTransport(f, u.off, u.l4Protocol)
             v == [u EXCEPT !.off = q.off, !.layer4 = q.hdr]
             n == i + 1
             followed == {"TCP", "UDP", "ICMP", "ICMPv6"}
  <2> HIDE DEF u
  <2>3. /\ DOMAIN f.hs = 1..Len(f.hs) /\ Len(f.hs) \in Nat /\ i \in Nat
        /\ f.hs[i].at \in Nat /\ f.hs[i].len \in Nat
    BY PlacesOfHeaders
  <2>4. n \in DOMAIN f.hs => f.hs[n].at = u.off
    BY <2>1, <2>2 DEF LaidOut
  <2>5. ASSUME NotFollowed(f, i)
        PROVE  Leveled(u, f)
    <3> SUFFICES ASSUME u.layer4.kind \in WithPorts
                 PROVE  \E k, j \in DOMAIN f.hs :
                           /\ f.hs[k] = u.layer3 /\ f.hs[j] = u.layer4 /\ f.hs[j].at < u.off
                           /\ Over4(f, k, j) \/ (j < k /\ NotFollowed(f, k))
      BY DEF Leveled
    <3>1. PICK j \in DOMAIN f.hs : f.hs[j] = u.layer4 /\ f.hs[j].at < s.off
      BY <2>2 DEF Leveled
    <3>2. j < i /\ f.hs[j].at \in Nat
      BY <2>1, <3>1, PlacesOfHeaders
    <3>3. f.hs[j].at < u.off
      BY <2>1, <2>2, <2>3, <3>1, <3>2
    <3> QED
      BY <2>1, <2>2, <2>5, <3>1, <3>2, <3>3
  <2>6. CASE u.l4Protocol \notin followed
    <3>1. InnerTransport(u) = u
      BY <2>6 DEF InnerTransport
    <3>2. NotFollowed(f, i)
      <4>1. ASSUME n \in DOMAIN f.hs, f.hs[n].kind \in DOMAIN ProtocolOf
            PROVE  FALSE
        <5>1. ip.hdr.protocol = ProtocolOf[f.hs[n].kind]
          BY <2>1, <4>1 DEF LaidOut, Addressed
        <5>2. ProtocolOf[f.hs[n].kind] \in followed
          BY <4>1 DEF ProtocolOf
        <5> QED
          BY <2>2, <2>6, <5>1, <5>2
      <4> QED
        BY <2>3, <4>1 DEF NotFollowed
    <3> QED
      BY <2>5, <3>1, <3>2
  <2>7. CASE u.l4Protocol \in followed /\ ~q.ok
    <3>1. InnerTransport(u) = u
      BY <2>2, <2>7 DEF InnerTransport
    <3>2. NotFollowed(f, i)
      <4>1. ASSUME n \in DOMAIN f.hs, f.hs[n].kind \in DOMAIN ProtocolOf
            PROVE  ~Has(f, f.hs[n].at, Needed(f.hs[n]))
        <5>1. u.l4Protocol = ProtocolOf[f.hs[n].kind]
          BY <2>1, <2>2, <4>1 DEF LaidOut, Addressed
        <5> QED
          BY <2>4, <2>7, <4>1, <5>1, TransportMissed
      <4> QED
        BY <2>3, <4>1 DEF NotFollowed
    <3> QED
      BY <2>5, <3>1, <3>2
  <2>8. CASE u.l4Protocol \in followed /\ q.ok
    <3>1. InnerTransport(u) = v
      BY <2>2, <2>8 DEF InnerTransport
    <3>2. u.l4Protocol \in Transports /\ u.off \in Nat
      BY <1>2, <2>2, <2>8 DEF Transports
    <3>3. q.hdr.kind \in WithPorts => /\ q.off > u.off
                                    /\ \E j \in DOMAIN f.hs : f.hs[j] = q.hdr /\ f.hs[j].at = u.off
      BY <2>8, <3>2, TransportFound
    <3> HIDE DEF q
    <3>4. v.off = q.off /\ v.layer3 = ip.hdr /\ v.layer4 = q.hdr
      BY <2>2 DEF Inside
    <3> HIDE DEF v
    <3>5. ASSUME v.layer4.kind \in WithPorts
          PROVE  \E j \in DOMAIN f.hs : f.hs[j] = v.layer4 /\ f.hs[j].at < v.off /\ Over4(f, i, j)
      <4>1. PICK j \in DOMAIN f.hs : f.hs[j] = v.layer4 /\ f.hs[j].at = u.off /\ u.off < v.off
        BY <3>3, <3>4, <3>5
      <4>2. j = i + 1
        BY <2>1, <2>2, <4>1, PlacesOfHeaders
      <4>3. Over4(f, i, j)
        BY <2>3, <4>2 DEF Over4
      <4> QED
        BY <4>1, <4>3
    <3> QED
      BY <2>1, <3>1, <3>4, <3>5 DEF Leveled
  <2> QED
    BY <2>6, <2>7, <2>8
<1> QED
  BY <1>4, <1>5, <1>6

LEMMA VxlanLeveled ==
    ASSUME NEW f, IsFrame(f), LaidOut(f), NEW s, Inside(s, f), Leveled(s, f)
    PROVE  Leveled(Vxlan(s), f)
<1> DEFINE eth == decodeEthernet(f, s.off + 8)
           vlan == decodeVlan(f, eth.off)
           tagged == IF eth.hdr.etherType \in {"VLAN", "QinQ"} /\ vlan.ok THEN vlan ELSE eth
           version == IF tagged.hdr.etherType = "IPv4" THEN 4 ELSE IF tagged.hdr.etherType = "IPv6" THEN 6 ELSE 0
           t == [s EXCEPT !.off = tagged.off]
           u == [s EXCEPT !.off = eth.off]
<1>1. s.f = f /\ s.off \in 0..f.cap
  BY DEF Inside
<1>2. Vxlan(s) = s \/ (s.off + 8 < f.cap /\ Vxlan(s) \in {InnerTransport(InnerNetwork(t, version)), u})
  BY <1>1 DEF Vxlan
<1>3. ASSUME s.off + 8 < f.cap
      PROVE  eth.off \in s.off..f.cap /\ vlan.off \in s.off..f.cap
  <2> DEFINE at == s.off + 8
  <2>1. at \in 0..f.cap /\ at >= s.off
    BY <1>1, <1>3 DEF IsFrame
  <2> HIDE DEF at
  <2>2. decodeEthernet(f, at).off \in at..f.cap
    BY <2>1, FixedBounds DEF decodeEthernet
  <2>3. eth.off \in 0..f.cap /\ eth.off \in s.off..f.cap
    BY <1>1, <2>1, <2>2 DEF at, IsFrame
  <2> HIDE DEF eth
  <2>4. vlan.off \in eth.off..f.cap
    BY <2>3, FixedBounds DEF decodeVlan
  <2> HIDE DEF vlan
  <2> QED
    BY <1>1, <2>3, <2>4 DEF IsFrame
<1> HIDE DEF eth, vlan
<1>4. s.off + 8 < f.cap => tagged.off \in s.off..f.cap
  BY <1>3
<1> HIDE DEF tagged, version
<1>5. \A off : off \in s.off..f.cap => off \in 0..f.cap /\ off >= s.off
  BY <1>1 DEF IsFrame
<1>6. s.off + 8 < f.cap => Inside(t, f) /\ Leveled(t, f) /\ Leveled(u, f)
  BY <1>3, <1>4, <1>5, MovedLeveled
<1> HIDE DEF t, u
<1> QED
  BY <1>2, <1>6, InnerLeveled

LEMMA GtpuLeveled ==
    ASSUME NEW f, IsFrame(f), LaidOut(f), NEW s, Inside(s, f), Leveled(s, f)
    PROVE  Leveled(Gtpu(s), f)
<1> DEFINE r == decodeGtp(f, s.off)
           at == [s EXCEPT !.off = r.off]
           n == Nibble(f, r.off)
<1>1. s.f = f /\ s.off \in 0..f.cap
  BY DEF Inside
<1>2. r.off \in 0..f.cap /\ r.off >= s.off
  BY <1>1, GtpBounds DEF IsFrame
<1>3. Gtpu(s) \in {s, at, InnerTransport(InnerNetwork(at, n))}
  BY <1>1 DEF Gtpu
<1> HIDE DEF r, n
<1>4. Inside(at, f) /\ Leveled(at, f)
  BY <1>2, MovedLeveled
<1> HIDE DEF at
<1> QED
  BY <1>3, <1>4, InnerLeveled

\* What is found in a frame, whatever the defragmenter says of it.
LEMMA FrameLeveled ==
    ASSUME NEW f, IsFrame(f), LaidOut(f), NEW complete
    PROVE  Leveled(Finished(Pipeline(Headers(f), complete)), f)
<1> DEFINE front == Gre(Fragment(Headers(f), complete))
           through == Transport(front)
           tunnel == Vxlan(through)
           end == Gtpu(tunnel)
<1>1. Networked(Headers(f), f)
  BY HeadersInside, NetworkNetworked DEF Headers
<1>2. Networked(front, f)
  BY <1>1, FragmentNetworked, GreNetworked
<1>3. Pipeline(Headers(f), complete) = end
  BY DEF Pipeline
<1> HIDE DEF front
<1>4. Inside(through, f) /\ Leveled(through, f)
  BY <1>2, TransportInside, TransportLeveled DEF Networked
<1> HIDE DEF through
<1>5. Inside(tunnel, f) /\ Leveled(tunnel, f)
  BY <1>4, VxlanInside, VxlanLeveled
<1> HIDE DEF tunnel
<1>6. Inside(end, f) /\ Leveled(end, f)
  BY <1>5, GtpuInside, GtpuLeveled
<1> HIDE DEF end
<1> QED
  BY <1>3, <1>6, EndsLeveled

\* The packet that is reported was found in its frame.
LastLeveled ==
    /\ KnownCapture
    /\ last # None => Leveled(last.s, last.f)

\* For all captures of frames whose headers follow one another, however they are
\* encapsulated and wherever they were cut: the addresses and the ports of a flow id come
\* from one level, unless a tunnel's inner transport is not followed or is cut.
THEOREM OneLevelCorrect ==
    ASSUME CapturesAreFrames, CapturesAreLaidOut
    PROVE  DecoderSpec => []FlowIdFromOneLevel
<1>1. DecoderInit => LastLeveled
  BY DEF DecoderInit, LastLeveled, KnownCapture
<1>2. LastLeveled /\ [DecoderNext]_decoderVars => LastLeveled'
  <2> SUFFICES ASSUME LastLeveled, [DecoderNext]_decoderVars
               PROVE  LastLeveled'
    OBVIOUS
  <2>1. CASE UNCHANGED decoderVars
    BY <2>1 DEF LastLeveled, KnownCapture, decoderVars
  <2>2. ASSUME NEW f \in capture, decode(f)
        PROVE  LastLeveled'
    <3>1. IsFrame(f) /\ LaidOut(f) /\ capture' = capture /\ last'.f = f
      BY <2>2, Reports DEF CapturesAreFrames, CapturesAreLaidOut, LastLeveled, KnownCapture
    <3>2. \A complete : Leveled(Finished(Pipeline(Headers(f), complete)), f)
      BY <3>1, FrameLeveled
    <3>3. Leveled([Headers(f) EXCEPT !.status = "length_error"], f)
      <4>1. Networked(Headers(f), f)
        BY <3>1, HeadersInside, NetworkNetworked DEF Headers
      <4>2. [Headers(f) EXCEPT !.status = "length_error"].layer4 = Nothing
        <5>1. DOMAIN Headers(f) = DOMAIN [Headers(f) EXCEPT !.status = "length_error"]
          OBVIOUS
        <5> QED
          BY <4>1 DEF Networked, Inside
      <4> QED
        BY <4>2, NothingLeveled
    <3>4. Leveled(last'.s, f)
      BY <2>2, <3>2, <3>3, Reports
    <3> QED
      BY <3>1, <3>4 DEF LastLeveled, KnownCapture
  <2> QED
    BY <2>1, <2>2 DEF DecoderNext
<1>3. LastLeveled => FlowIdFromOneLevel
  <2> SUFFICES ASSUME LastLeveled, last # None, last.s.layer4.kind \in {"tcp", "udp"}
               PROVE  \E i, j \in DOMAIN last.f.hs :
                         /\ last.f.hs[i] = last.s.layer3 /\ last.f.hs[j] = last.s.layer4
                         /\ Over4(last.f, i, j) \/ (j < i /\ NotFollowed(last.f, i))
    BY DEF FlowIdFromOneLevel
  <2> QED
    BY DEF LastLeveled, Leveled, WithPorts
<1> QED
  BY <1>1, <1>2, <1>3, PTL DEF DecoderSpec
=============================================================================
