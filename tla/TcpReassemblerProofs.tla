------------------------- MODULE TcpReassemblerProofs -------------------------
(***************************************************************************)
(* What holds of the reassembly of a stream, for every stream, every way   *)
(* of cutting it up, every limit and every order of the segments.          *)
(***************************************************************************)
EXTENDS TcpReassembler, TLAPS, FiniteSetTheorems, SequenceTheorems

-----------------------------------------------------------------------------
(* Sequence numbers.                                                       *)

\* The sequence number of a byte.
Num(x) == (ISN + 1 + x) % SeqSpace

Offsets == -1..StreamBytes

\* The number of a byte wraps once at most.
LEMMA NumValue ==
    ASSUME NEW x \in Offsets
    PROVE  /\ Num(x) = IF ISN + 1 + x < SeqSpace THEN ISN + 1 + x ELSE ISN + 1 + x - SeqSpace
           /\ Num(x) \in SeqNums
<1>1. SeqSpace \in Nat \ {0} /\ ISN \in 0..(SeqSpace - 1) /\ x \in Int
      /\ ISN + 1 + x \in 0..(2 * SeqSpace - 1)
  BY ReassemblerAssumption DEF Offsets
<1>2. CASE ISN + 1 + x < SeqSpace
  <2>1. (ISN + 1 + x) % SeqSpace = ISN + 1 + x
    BY <1>1, <1>2
  <2> QED
    BY <1>1, <1>2, <2>1 DEF Num, SeqNums
<1>3. CASE ~(ISN + 1 + x < SeqSpace)
  <2>1. (ISN + 1 + x) % SeqSpace = ISN + 1 + x - SeqSpace
    BY <1>1, <1>3
  <2> QED
    BY <1>1, <1>3, <2>1 DEF Num, SeqNums
<1> QED
  BY <1>2, <1>3

\* Different bytes of a stream have different numbers.
LEMMA NumInjective ==
    ASSUME NEW x \in Offsets, NEW y \in Offsets, Num(x) = Num(y)
    PROVE  x = y
BY NumValue, ReassemblerAssumption DEF Offsets

\* The number of the byte that comes n after another.
LEMMA NumPlus ==
    ASSUME NEW x \in Offsets, NEW n \in Nat, x + n \in Offsets
    PROVE  (Num(x) + n) % SeqSpace = Num(x + n)
<1>1. SeqSpace \in Nat \ {0} /\ ISN \in 0..(SeqSpace - 1) /\ x \in Int
      /\ 2 * (StreamBytes + 1) < SeqSpace /\ StreamBytes \in Nat
  BY ReassemblerAssumption DEF Offsets
<1>2. Num(x) \in 0..(SeqSpace - 1) /\ Num(x) + n \in 0..(2 * SeqSpace - 1)
  BY <1>1, NumValue DEF Offsets, SeqNums
<1>3. CASE Num(x) + n < SeqSpace
  <2>1. (Num(x) + n) % SeqSpace = Num(x) + n
    BY <1>1, <1>2, <1>3
  <2> QED
    BY <1>1, <1>2, <1>3, <2>1, NumValue DEF Offsets
<1>4. CASE ~(Num(x) + n < SeqSpace)
  <2>1. (Num(x) + n) % SeqSpace = Num(x) + n - SeqSpace
    BY <1>1, <1>2, <1>4
  <2> QED
    BY <1>1, <1>2, <1>4, <2>1, NumValue DEF Offsets
<1> QED
  BY <1>3, <1>4

\* The comparison of sequence numbers orders the bytes of a stream, across the wrap.
LEMMA SeqOrder ==
    ASSUME NEW x \in Offsets, NEW y \in Offsets
    PROVE  seqBeforeOrEqual(Num(x), Num(y)) <=> x <= y
<1> DEFINE d == Num(x) - Num(y)
<1>1. SeqSpace \in Nat \ {0} /\ ISN \in 0..(SeqSpace - 1) /\ x \in Int /\ y \in Int
      /\ 2 * (StreamBytes + 1) < SeqSpace /\ StreamBytes \in Nat
  BY ReassemblerAssumption DEF Offsets
<1>2. /\ Num(x) \in 0..(SeqSpace - 1) /\ Num(y) \in 0..(SeqSpace - 1)
      /\ d = x - y \/ d = x - y + SeqSpace \/ d = x - y - SeqSpace
      /\ x - y \in -(StreamBytes + 1)..(StreamBytes + 1)
      /\ d \in Int
  BY <1>1, NumValue DEF Offsets, SeqNums
<1>3. d % SeqSpace = IF x - y >= 0 THEN x - y ELSE x - y + SeqSpace
  <2>1. CASE d >= 0
    <3>1. d % SeqSpace = d
      BY <1>1, <1>2, <2>1
    <3> HIDE DEF d
    <3> QED
      BY <1>1, <1>2, <2>1, <3>1
  <2>2. CASE d < 0
    <3>1. d % SeqSpace = d + SeqSpace
      <4>1. d \in (-SeqSpace)..(-1)
        BY <1>1, <1>2, <2>2
      <4> HIDE DEF d
      <4> QED
        BY <1>1, <4>1
    <3> HIDE DEF d
    <3> QED
      BY <1>1, <1>2, <2>2, <3>1
  <2> QED
    BY <1>2, <2>1, <2>2
<1> QED
  BY <1>1, <1>2, <1>3 DEF seqBeforeOrEqual

-----------------------------------------------------------------------------
(* The loop of process(): what holds of its first state and is kept by     *)
(* each round holds of what it ends with.                                  *)

Buffers == UNION {[D -> Seq(Int)] : D \in SUBSET SeqNums}
LoopStates == [data : Seq(Int), next : SeqNums, buffer : Buffers]

\* What is left of a buffer without one of its segments.
Without(buffer, q) == [r \in DOMAIN buffer \ {q} |-> buffer[r]]

\* A buffer is a function, and there are finitely many segments in it.
LEMMA BufferFacts ==
    ASSUME NEW buffer \in Buffers
    PROVE  /\ DOMAIN buffer \subseteq SeqNums
           /\ buffer = [q \in DOMAIN buffer |-> buffer[q]]
           /\ \A q \in DOMAIN buffer : buffer[q] \in Seq(Int)
           /\ IsFiniteSet(DOMAIN buffer)
<1>1. PICK D \in SUBSET SeqNums : buffer \in [D -> Seq(Int)]
  BY DEF Buffers
<1>2. IsFiniteSet(SeqNums)
  BY ReassemblerAssumption, FS_Interval DEF SeqNums
<1> QED
  BY <1>1, <1>2, FS_Subset

\* A function from sequence numbers to payloads is a buffer.
LEMMA IsBuffer ==
    ASSUME NEW D, D \subseteq SeqNums, NEW buffer \in [D -> Seq(Int)]
    PROVE  buffer \in Buffers
BY DEF Buffers

\* A round leads from a state of the loop to another.
LEMMA RoundType ==
    ASSUME NEW st \in LoopStates
    PROVE  Round(st) \in LoopStates
<1>1. st.data \in Seq(Int) /\ st.next \in SeqNums /\ st.buffer \in Buffers
  BY DEF LoopStates
<1>2. CASE st.next \in DOMAIN st.buffer
  <2>1. st.buffer[st.next] \in Seq(Int) /\ Len(st.buffer[st.next]) \in Nat
    BY <1>1, <1>2, BufferFacts
  <2>2. (st.next + Len(st.buffer[st.next])) % SeqSpace \in SeqNums
    <3>1. SeqSpace \in Nat \ {0} /\ st.next + Len(st.buffer[st.next]) \in Int
      BY <1>1, <2>1, ReassemblerAssumption DEF SeqNums
    <3> QED
      BY <3>1 DEF SeqNums
  <2>3. Without(st.buffer, st.next) \in Buffers
    <3>1. /\ DOMAIN st.buffer \ {st.next} \subseteq SeqNums
          /\ Without(st.buffer, st.next) \in [DOMAIN st.buffer \ {st.next} -> Seq(Int)]
      BY <1>1, BufferFacts DEF Without
    <3> QED
      BY <3>1, IsBuffer
  <2>4. st.data \o st.buffer[st.next] \in Seq(Int)
    BY <1>1, <2>1
  <2> QED
    BY <1>2, <2>2, <2>3, <2>4 DEF Round, LoopStates, Without
<1> QED
  BY <1>2 DEF Round

\* The rounds as a recursive function, and what a set that they do not leave says of the
\* states of the k-th: in it, with one segment less than before, or at the end.
RoundPlaces(c) == Nat
RoundMore(c, k) == k # 0
RoundNext(c, k) == k - 1
RoundLast(c, k) == {[data |-> <<>>, next |-> c.next, buffer |-> c.buffer]}
RoundJoin(c, k, states) == {Round(st) : st \in states}

SizeOf(buffer) == Cardinality(DOMAIN buffer)

RoundIn(c, k, states) ==
    \A st \in states :
        /\ st \in c.states
        /\ \/ st.next \notin DOMAIN st.buffer
           \/ SizeOf(st.buffer) + k = SizeOf(c.buffer)

Loop == INSTANCE RecursionLemmas WITH
            Dom <- RoundPlaces, More <- RoundMore, Next <- RoundNext,
            Last <- RoundLast, Join <- RoundJoin, Inv <- RoundIn

\* What holds of the state the loop begins in, and of the state after a round if it
\* holds of the one before, holds of what the loop ends with; and then the next
\* segment is missing.
LEMMA AssembleRule ==
    ASSUME NEW buffer \in Buffers, NEW next \in SeqNums, NEW P, P \subseteq LoopStates,
           [data |-> <<>>, next |-> next, buffer |-> buffer] \in P,
           \A st \in P : st.next \in DOMAIN st.buffer => Round(st) \in P
    PROVE  \A result \in Assemble(buffer, next) :
              result \in P /\ result.next \notin DOMAIN result.buffer
<1> DEFINE c == [buffer |-> buffer, next |-> next, states |-> P]
           rank == [k \in Nat |-> k]
           loop == Rounds(buffer, next)
           first == [data |-> <<>>, next |-> next, buffer |-> buffer]
<1>1. c.buffer = buffer /\ c.next = next /\ c.states = P
  OBVIOUS
<1> HIDE DEF c
<1>2. loop = CHOOSE g : Loop!IsRecursion(c, g)
  <2> DEFINE IsLoop(g) == g = [k \in Nat |-> IF k = 0 THEN {first} ELSE {Round(st) : st \in g[k - 1]}]
             chosen == CHOOSE g : IsLoop(g)
  <2>1. loop = chosen
    BY DEF Rounds
  <2>2. \A g : Loop!IsRecursion(c, g) <=> IsLoop(g)
    <3> TAKE g
    <3> DEFINE left == [k \in Nat |-> IF RoundMore(c, k) THEN RoundJoin(c, k, g[RoundNext(c, k)])
                                      ELSE RoundLast(c, k)]
               right == [k \in Nat |-> IF k = 0 THEN {first} ELSE {Round(st) : st \in g[k - 1]}]
    <3>1. \A k \in Nat : left[k] = right[k]
      BY <1>1 DEF RoundMore, RoundNext, RoundLast, RoundJoin
    <3>2. left = right
      BY <3>1
    <3>3. Loop!IsRecursion(c, g) <=> g = left
      BY DEF Loop!IsRecursion, RoundPlaces
    <3>4. IsLoop(g) <=> g = right
      OBVIOUS
    <3> HIDE DEF left, right, IsLoop
    <3> QED
      BY <3>2, <3>3, <3>4
  <2> HIDE DEF IsLoop
  <2>3. chosen = CHOOSE g : Loop!IsRecursion(c, g)
    BY <2>2, Zenon
  <2> HIDE DEF chosen, loop
  <2> QED
    BY <2>1, <2>3
<1> HIDE DEF loop
<1>3. Loop!Descends(c, rank)
  BY DEF Loop!Descends, RoundPlaces, RoundMore, RoundNext
<1>4. /\ SizeOf(buffer) \in Nat
      /\ \A st \in P : SizeOf(st.buffer) \in Nat /\ st.buffer \in Buffers
  BY BufferFacts, FS_CardinalityType DEF LoopStates, SizeOf
<1> DEFINE Sound(k, st) == /\ st \in P
                           /\ \/ st.next \notin DOMAIN st.buffer
                              \/ SizeOf(st.buffer) + k = SizeOf(buffer)
<1>5. \A k, states : RoundIn(c, k, states) <=> \A st \in states : Sound(k, st)
  BY <1>1 DEF RoundIn
<1>6. \A k \in Nat : ~RoundMore(c, k) => RoundIn(c, k, RoundLast(c, k))
  <2> SUFFICES Sound(0, first)
    <3> HIDE DEF Sound
    <3> QED
      BY <1>1, <1>5 DEF RoundMore, RoundLast
  <2> QED
    BY <1>4
<1>7. ASSUME NEW k \in Nat, NEW st, k # 0, Sound(k - 1, st)
      PROVE  Sound(k, Round(st))
  <2>1. CASE st.next \notin DOMAIN st.buffer
    BY <1>7, <2>1 DEF Round
  <2>2. CASE st.next \in DOMAIN st.buffer
    <3>1. Round(st) \in P
      BY <1>7, <2>2
    <3>2. Round(st).buffer = Without(st.buffer, st.next)
      BY <2>2 DEF Round, Without
    <3>3. DOMAIN Round(st).buffer = DOMAIN st.buffer \ {st.next}
      BY <3>2 DEF Without
    <3>4. IsFiniteSet(DOMAIN st.buffer)
      BY <1>4, <1>7, BufferFacts
    <3>5. SizeOf(Round(st).buffer) = SizeOf(st.buffer) - 1
      BY <2>2, <3>3, <3>4, FS_RemoveElement DEF SizeOf
    <3>6. SizeOf(st.buffer) \in Nat /\ SizeOf(st.buffer) + (k - 1) = SizeOf(buffer)
      BY <1>4, <1>7, <2>2
    <3>7. SizeOf(Round(st).buffer) + k = SizeOf(buffer)
      BY <3>5, <3>6
    <3> QED
      BY <3>1, <3>7
  <2> QED
    BY <2>1, <2>2
<1>8. \A k \in Nat : \A states : RoundMore(c, k) /\ RoundIn(c, RoundNext(c, k), states)
                                     => RoundIn(c, k, RoundJoin(c, k, states))
  <2> HIDE DEF Sound
  <2> QED
    BY <1>5, <1>7 DEF RoundMore, RoundNext, RoundJoin
<1>9. \A k \in Nat : RoundIn(c, k, loop[k])
  <2> HIDE DEF rank
  <2> QED
    BY <1>2, <1>3, <1>6, <1>8, Loop!RankedChoice DEF RoundPlaces
<1>10. ASSUME NEW result \in Assemble(buffer, next)
       PROVE  result \in P /\ result.next \notin DOMAIN result.buffer
  <2>1. result \in loop[SizeOf(buffer)]
    BY DEF Assemble, loop, SizeOf
  <2>2. Sound(SizeOf(buffer), result)
    <3> HIDE DEF Sound
    <3> QED
      BY <1>4, <1>5, <1>9, <2>1
  <2>3. CASE SizeOf(result.buffer) + SizeOf(buffer) = SizeOf(buffer)
    <3>1. SizeOf(result.buffer) = 0
      BY <1>4, <2>2, <2>3
    <3>2. DOMAIN result.buffer = {}
      BY <1>4, <2>2, <3>1, BufferFacts, FS_EmptySet DEF SizeOf
    <3> QED
      BY <2>2, <3>2
  <2> QED
    BY <2>2, <2>3
<1> QED
  BY <1>10

-----------------------------------------------------------------------------
(* Buffers that hold segments of the sender as they were sent.             *)

\* What is buffered are segments of one way of cutting the stream up, each at its number.
Whole(cut, buffer) ==
    /\ DOMAIN buffer \subseteq SeqNums
    /\ buffer = [q \in DOMAIN buffer |-> buffer[q]]
    /\ \A q \in DOMAIN buffer : \E t \in cut : q = SeqNum(t) /\ buffer[q] = Payload(t)

\* The bytes that are buffered.
BytesIn(buffer) == UNION {Range(buffer[q]) : q \in DOMAIN buffer}

\* No two segments share a byte.
Apart(cut) ==
    \A s, t \in cut : s = t \/ s.first + s.len <= t.first \/ t.first + t.len <= s.first

\* No segment has bytes on both sides of an offset.
Boundary(cut, n) == \A s \in cut : s.first >= n \/ s.first + s.len <= n

\* The segments of a stream.
LEMMA SegmentFacts ==
    ASSUME NEW cut \in Cuts, NEW s \in cut
    PROVE  /\ s.first \in 0..(StreamBytes - 1) /\ s.len \in 1..(StreamBytes - s.first)
           /\ s.first \in Offsets /\ s.first + s.len \in Offsets
           /\ SeqNum(s) = Num(s.first) /\ SeqNum(s) \in SeqNums
           /\ Payload(s) \in Seq(0..(StreamBytes - 1))
           /\ Len(Payload(s)) = s.len /\ s.len \in 1..StreamBytes
           /\ \A i \in 1..s.len : Payload(s)[i] = s.first + i - 1
           /\ Range(Payload(s)) = Bytes(s)
           /\ Bytes(s) \subseteq 0..(StreamBytes - 1)
<1>1. s.first \in 0..(StreamBytes - 1) /\ s.len \in 1..(StreamBytes - s.first) /\ StreamBytes \in Nat
  BY ReassemblerAssumption
<1>2. s.first \in Offsets /\ s.first + s.len \in Offsets
  BY <1>1 DEF Offsets
<1>3. SeqNum(s) = Num(s.first) /\ SeqNum(s) \in SeqNums
  BY <1>2, NumValue DEF SeqNum, Num
<1>4. /\ Payload(s) \in [1..s.len -> 0..(StreamBytes - 1)]
      /\ \A i \in 1..s.len : Payload(s)[i] = s.first + i - 1
      /\ s.len \in 1..StreamBytes
  BY <1>1 DEF Payload
<1>5. Payload(s) \in Seq(0..(StreamBytes - 1)) /\ Len(Payload(s)) = s.len
  BY <1>1, <1>4, SMTT(20)
<1>6. Bytes(s) \subseteq 0..(StreamBytes - 1)
  BY <1>1 DEF Bytes
<1>7. Range(Payload(s)) = Bytes(s)
  <2>1. ASSUME NEW x \in Bytes(s)
        PROVE  x \in Range(Payload(s))
    <3>1. x - s.first + 1 \in 1..s.len /\ Payload(s)[x - s.first + 1] = x
      BY <1>1, <1>4, SMTT(20) DEF Bytes
    <3> QED
      BY <1>4, <3>1 DEF Range
  <2>2. ASSUME NEW x \in Range(Payload(s))
        PROVE  x \in Bytes(s)
    BY <1>1, <1>4 DEF Range, Bytes
  <2> QED
    BY <2>1, <2>2
<1> QED
  BY <1>1, <1>2, <1>3, <1>4, <1>5, <1>6, <1>7

\* The number of a segment tells where it begins.
LEMMA SegmentOfNumber ==
    ASSUME NEW cut \in Cuts, NEW s \in cut, NEW n \in 0..StreamBytes, SeqNum(s) = Num(n)
    PROVE  s.first = n
BY SegmentFacts, NumInjective, ReassemblerAssumption DEF Offsets

\* A buffer of whole segments is one the loop can run on.
LEMMA WholeFacts ==
    ASSUME NEW cut \in Cuts, NEW buffer, Whole(cut, buffer)
    PROVE  /\ buffer \in Buffers
           /\ \A q \in DOMAIN buffer : /\ buffer[q] \in Seq(0..(StreamBytes - 1))
                                       /\ Len(buffer[q]) \in 1..StreamBytes
                                       /\ DOMAIN buffer[q] = 1..Len(buffer[q])
<1>1. \A q \in DOMAIN buffer : /\ buffer[q] \in Seq(0..(StreamBytes - 1))
                               /\ Len(buffer[q]) \in 1..StreamBytes
                               /\ DOMAIN buffer[q] = 1..Len(buffer[q])
  BY SegmentFacts DEF Whole
<1>2. ASSUME NEW q \in DOMAIN buffer
      PROVE  buffer[q] \in Seq(Int)
  <2>1. 0..(StreamBytes - 1) \subseteq Int
    BY ReassemblerAssumption
  <2> QED
    BY <1>1, <2>1, SeqMonotonic
<1>3. buffer \in [DOMAIN buffer -> Seq(Int)]
  BY <1>2 DEF Whole
<1> QED
  BY <1>1, <1>3, IsBuffer DEF Whole

\* A buffer stays whole without one of its segments.
LEMMA WithoutWhole ==
    ASSUME NEW cut \in Cuts, NEW buffer, Whole(cut, buffer), NEW q
    PROVE  Whole(cut, Without(buffer, q))
<1>1. DOMAIN Without(buffer, q) = DOMAIN buffer \ {q}
  BY DEF Without
<1>2. \A r \in DOMAIN buffer \ {q} : Without(buffer, q)[r] = buffer[r]
  BY DEF Without
<1>3. Without(buffer, q) = [r \in DOMAIN Without(buffer, q) |-> Without(buffer, q)[r]]
  BY DEF Without
<1> QED
  BY <1>1, <1>2, <1>3 DEF Whole

\* There are finitely many places in a buffer.
LEMMA PlacesFinite ==
    ASSUME NEW cut \in Cuts, NEW buffer, Whole(cut, buffer)
    PROVE  IsFiniteSet(Places(buffer)) /\ Cardinality(Places(buffer)) \in Nat
<1>1. Places(buffer) \subseteq SeqNums \X (1..StreamBytes)
  <2>1. ASSUME NEW q \in DOMAIN buffer
        PROVE  {q} \X DOMAIN buffer[q] \subseteq SeqNums \X (1..StreamBytes)
    <3>1. q \in SeqNums /\ DOMAIN buffer[q] = 1..Len(buffer[q]) /\ Len(buffer[q]) \in 1..StreamBytes
      BY WholeFacts DEF Whole
    <3>2. DOMAIN buffer[q] \subseteq 1..StreamBytes
      BY <3>1, ReassemblerAssumption
    <3> QED
      BY <3>1, <3>2
  <2> QED
    BY <2>1 DEF Places
<1>2. IsFiniteSet(SeqNums) /\ IsFiniteSet(1..StreamBytes)
  BY ReassemblerAssumption, FS_Interval DEF SeqNums
<1>3. IsFiniteSet(SeqNums \X (1..StreamBytes))
  BY <1>2, FS_Product
<1> QED
  BY <1>1, <1>3, FS_Subset, FS_CardinalityType

\* Taking a segment out of a buffer takes away as many places as it has bytes.
LEMMA PlacesWithout ==
    ASSUME NEW cut \in Cuts, NEW buffer, Whole(cut, buffer), NEW q \in DOMAIN buffer
    PROVE  Cardinality(Places(buffer)) = Cardinality(Places(Without(buffer, q))) + Len(buffer[q])
<1> DEFINE A == Places(Without(buffer, q))
           B == {q} \X (1..Len(buffer[q]))
<1>1. DOMAIN buffer[q] = 1..Len(buffer[q]) /\ Len(buffer[q]) \in Nat \ {0}
  BY WholeFacts
<1>2. DOMAIN Without(buffer, q) = DOMAIN buffer \ {q}
      /\ \A r \in DOMAIN buffer \ {q} : Without(buffer, q)[r] = buffer[r]
  BY DEF Without
<1>3. Places(buffer) = A \cup B
  <2>1. ASSUME NEW p \in Places(buffer)
        PROVE  p \in A \cup B
    <3>1. PICK r \in DOMAIN buffer : p \in {r} \X DOMAIN buffer[r]
      BY <2>1 DEF Places
    <3>2. CASE r = q
      BY <1>1, <3>1, <3>2
    <3>3. CASE r # q
      BY <1>2, <3>1, <3>3 DEF Places
    <3> QED
      BY <3>2, <3>3
  <2>2. ASSUME NEW p \in A
        PROVE  p \in Places(buffer)
    <3>1. PICK r \in DOMAIN buffer \ {q} : p \in {r} \X DOMAIN buffer[r]
      BY <1>2, <2>2 DEF Places
    <3> QED
      BY <3>1 DEF Places
  <2>3. ASSUME NEW p \in B
        PROVE  p \in Places(buffer)
    BY <1>1, <2>3 DEF Places
  <2> QED
    BY <2>1, <2>2, <2>3
<1>4. A \cap B = {}
  <2>1. ASSUME NEW p \in A
        PROVE  p[1] # q
    <3>1. PICK r \in DOMAIN Without(buffer, q) :
             p \in {r} \X DOMAIN Without(buffer, q)[r]
      BY <2>1 DEF Places
    <3>2. r # q /\ p[1] = r
      BY <1>2, <3>1
    <3> QED
      BY <3>2
  <2> QED
    BY <2>1
<1>5. IsFiniteSet(A) /\ Cardinality(A) \in Nat
  BY WithoutWhole, PlacesFinite
<1>6. IsFiniteSet(B) /\ Cardinality(B) = Len(buffer[q])
  <2>1. IsFiniteSet({q}) /\ Cardinality({q}) = 1
    BY FS_Singleton
  <2>2. IsFiniteSet(1..Len(buffer[q])) /\ Cardinality(1..Len(buffer[q])) = Len(buffer[q])
    BY <1>1, FS_Interval
  <2>3. IsFiniteSet(B) /\ Cardinality(B) = 1 * Len(buffer[q])
    <3>1. Cardinality({q} \X (1..Len(buffer[q]))) = Cardinality({q}) * Cardinality(1..Len(buffer[q]))
          /\ IsFiniteSet({q} \X (1..Len(buffer[q])))
      BY <2>1, <2>2, FS_Product
    <3>2. DOMAIN buffer[q] = 1..Len(buffer[q])
      BY <1>1
    <3> QED
      BY <2>1, <2>2, <3>1, <3>2
  <2>4. \A n \in Nat : 1 * n = n
    OBVIOUS
  <2>5. 1 * Len(buffer[q]) = Len(buffer[q])
    BY <1>1, <2>4, Zenon
  <2> QED
    BY <2>3, <2>5
<1>7. Cardinality(A \cup B) = Cardinality(A) + Cardinality(B) - Cardinality(A \cap B)
  <2> HIDE DEF A, B
  <2> QED
    BY <1>5, <1>6, FS_Union
<1>8. Cardinality(A \cap B) = 0
  <2> HIDE DEF A, B
  <2> QED
    BY <1>4, FS_EmptySet
<1> HIDE DEF A, B
<1>9. Cardinality(Places(buffer)) = Cardinality(A) + Len(buffer[q])
  BY <1>1, <1>3, <1>5, <1>6, <1>7, <1>8
<1> QED
  BY <1>9 DEF A

\* The bytes of a buffer are those of one of its segments and those of the others.
LEMMA BytesWithout ==
    ASSUME NEW buffer, NEW q \in DOMAIN buffer
    PROVE  BytesIn(buffer) = Range(buffer[q]) \cup BytesIn(Without(buffer, q))
<1>1. DOMAIN Without(buffer, q) = DOMAIN buffer \ {q}
      /\ \A r \in DOMAIN buffer \ {q} : Without(buffer, q)[r] = buffer[r]
  BY DEF Without
<1>2. ASSUME NEW x \in BytesIn(buffer)
      PROVE  x \in Range(buffer[q]) \cup BytesIn(Without(buffer, q))
  <2>1. PICK r \in DOMAIN buffer : x \in Range(buffer[r])
    BY DEF BytesIn
  <2> QED
    BY <1>1, <2>1 DEF BytesIn
<1>3. ASSUME NEW x \in BytesIn(Without(buffer, q))
      PROVE  x \in BytesIn(buffer)
  <2>1. PICK r \in DOMAIN buffer \ {q} : x \in Range(buffer[r])
    BY <1>1 DEF BytesIn
  <2> QED
    BY <2>1 DEF BytesIn
<1>4. Range(buffer[q]) \subseteq BytesIn(buffer)
  BY DEF BytesIn
<1> QED
  BY <1>2, <1>3, <1>4

-----------------------------------------------------------------------------
(* What the loop does to a buffer of whole segments.                       *)

\* No byte is lost and none invented: what leaves the buffer is in the result.
LEMMA AssembleConserves ==
    ASSUME NEW cut \in Cuts, NEW buffer, Whole(cut, buffer), NEW next \in SeqNums,
           NEW result \in Assemble(buffer, next)
    PROVE  /\ result.next \in SeqNums
           /\ result.next \notin DOMAIN result.buffer
           /\ result.data \in Seq(0..(StreamBytes - 1))
           /\ Whole(cut, result.buffer)
           /\ Cardinality(Places(result.buffer)) + Len(result.data) = Cardinality(Places(buffer))
           /\ Range(result.data) \cup BytesIn(result.buffer) = BytesIn(buffer)
<1> DEFINE Conserved(st) ==
              /\ st.data \in Seq(0..(StreamBytes - 1))
              /\ Whole(cut, st.buffer)
              /\ Cardinality(Places(st.buffer)) + Len(st.data) = Cardinality(Places(buffer))
              /\ Range(st.data) \cup BytesIn(st.buffer) = BytesIn(buffer)
           start == [data |-> <<>>, next |-> next, buffer |-> buffer]
           P == {st \in LoopStates : Conserved(st)}
<1>1. buffer \in Buffers
  BY WholeFacts
<1>2. start \in P
  <2>1. start \in LoopStates
    BY <1>1, EmptySeq DEF LoopStates
  <2>2. <<>> \in Seq(0..(StreamBytes - 1)) /\ Len(<<>>) = 0 /\ Range(<<>>) = {}
    BY EmptySeq DEF Range
  <2>3. Cardinality(Places(buffer)) + 0 = Cardinality(Places(buffer))
    BY PlacesFinite
  <2>4. {} \cup BytesIn(buffer) = BytesIn(buffer)
    OBVIOUS
  <2>5. start.data = <<>> /\ start.buffer = buffer
    OBVIOUS
  <2> HIDE DEF start
  <2>6. Conserved(start)
    BY <2>2, <2>3, <2>4, <2>5
  <2> HIDE DEF Conserved
  <2> QED
    BY <2>1, <2>6
<1>3. ASSUME NEW st \in P, st.next \in DOMAIN st.buffer
      PROVE  Round(st) \in P
  <2> DEFINE taken == st.buffer[st.next]
             rest == Without(st.buffer, st.next)
  <2>1. /\ Round(st).data = st.data \o taken
        /\ Round(st).buffer = rest
    BY <1>3 DEF Round, Without
  <2>2. Round(st) \in LoopStates
    BY RoundType
  <2>3. taken \in Seq(0..(StreamBytes - 1)) /\ Len(taken) \in Nat
    BY <1>3, WholeFacts
  <2>4. st.data \o taken \in Seq(0..(StreamBytes - 1))
        /\ Len(st.data \o taken) = Len(st.data) + Len(taken)
        /\ Range(st.data \o taken) = Range(st.data) \cup Range(taken)
        /\ Len(st.data) \in Nat
    <3> HIDE DEF taken
    <3> QED
      BY <2>3, ConcatProperties, RangeConcatenation, LenProperties
  <2>5. Whole(cut, rest)
    BY WithoutWhole
  <2>6. Cardinality(Places(st.buffer)) = Cardinality(Places(rest)) + Len(taken)
    BY <1>3, PlacesWithout
  <2>7. BytesIn(st.buffer) = Range(taken) \cup BytesIn(rest)
    BY <1>3, BytesWithout
  <2>8. Cardinality(Places(rest)) \in Nat
    BY <2>5, PlacesFinite
  <2>9. Cardinality(Places(rest)) + Len(st.data \o taken) = Cardinality(Places(buffer))
    <3>1. Cardinality(Places(st.buffer)) + Len(st.data) = Cardinality(Places(buffer))
      BY <1>3
    <3> HIDE DEF taken, rest
    <3> QED
      BY <2>3, <2>4, <2>6, <2>8, <3>1
  <2>10. Range(st.data \o taken) \cup BytesIn(rest) = BytesIn(buffer)
    <3>1. Range(st.data) \cup BytesIn(st.buffer) = BytesIn(buffer)
      BY <1>3
    <3> HIDE DEF taken, rest
    <3> QED
      BY <2>4, <2>7, <3>1
  <2> HIDE DEF taken, rest
  <2>11. Conserved(Round(st))
    BY <2>1, <2>4, <2>5, <2>9, <2>10
  <2> HIDE DEF Conserved
  <2> QED
    BY <2>2, <2>11
<1>4. result \in P /\ result.next \notin DOMAIN result.buffer
  <2>1. P \subseteq LoopStates
    OBVIOUS
  <2> HIDE DEF P
  <2> QED
    BY <1>1, <1>2, <1>3, <2>1, AssembleRule
<1> QED
  BY <1>4 DEF LoopStates

\* Two segments that share no byte are not cut by each other's end.
LEMMA BoundaryBehind ==
    ASSUME NEW cut \in Cuts, Apart(cut), NEW n \in 0..StreamBytes, Boundary(cut, n),
           NEW t \in cut, t.first = n
    PROVE  Boundary(cut, n + t.len)
<1>1. t.first \in Nat /\ t.len \in Nat /\ \A s \in cut : s.first \in Nat /\ s.len \in Nat \ {0}
  BY SegmentFacts
<1>2. ASSUME NEW s \in cut
      PROVE  s.first >= n + t.len \/ s.first + s.len <= n + t.len
  <2>1. s = t \/ s.first + s.len <= t.first \/ t.first + t.len <= s.first
    BY DEF Apart
  <2> QED
    BY <1>1, <2>1
<1> QED
  BY <1>2 DEF Boundary

\* The loop returns the bytes that follow each other from the expected one on.
LEMMA AssembleContinues ==
    ASSUME NEW cut \in Cuts, NEW buffer, Whole(cut, buffer), NEW n \in 0..StreamBytes,
           NEW result \in Assemble(buffer, Num(n))
    PROVE  \E m \in n..StreamBytes :
              /\ result.next = Num(m)
              /\ Len(result.data) = m - n
              /\ \A i \in 1..(m - n) : result.data[i] = n + i - 1
              /\ Apart(cut) /\ Boundary(cut, n) => Boundary(cut, m)
<1> DEFINE At(st, m) ==
              /\ st.next = Num(m)
              /\ Len(st.data) = m - n
              /\ \A i \in 1..(m - n) : st.data[i] = n + i - 1
              /\ Apart(cut) /\ Boundary(cut, n) => Boundary(cut, m)
           start == [data |-> <<>>, next |-> Num(n), buffer |-> buffer]
           P == {st \in LoopStates : Whole(cut, st.buffer) /\ \E m \in n..StreamBytes : At(st, m)}
<1>1. buffer \in Buffers /\ Num(n) \in SeqNums /\ n \in Offsets
  BY WholeFacts, NumValue DEF Offsets
<1>2. start \in P
  <2>1. start \in LoopStates
    BY <1>1, EmptySeq DEF LoopStates
  <2>2. n \in n..StreamBytes /\ At(start, n)
    BY EmptySeq
  <2> QED
    BY <2>1, <2>2
<1>3. ASSUME NEW st \in P, st.next \in DOMAIN st.buffer
      PROVE  Round(st) \in P
  <2>1. PICK m \in n..StreamBytes : At(st, m)
    BY <1>3
  <2>2. PICK t \in cut : st.next = SeqNum(t) /\ st.buffer[st.next] = Payload(t)
    BY <1>3 DEF Whole
  <2>3. /\ t.first = m /\ m \in 0..StreamBytes
        /\ t.len \in Nat \ {0} /\ m + t.len \in n..StreamBytes
        /\ m \in Offsets /\ m + t.len \in Offsets
    <3>1. m \in 0..StreamBytes /\ SeqNum(t) = Num(m)
      BY <2>1, <2>2
    <3>2. t.first = m
      BY <3>1, SegmentOfNumber
    <3>3. t.len \in 1..(StreamBytes - t.first) /\ StreamBytes \in Nat
      BY SegmentFacts, ReassemblerAssumption
    <3>4. t.len \in Nat \ {0} /\ m + t.len \in n..StreamBytes
      BY <2>1, <3>1, <3>2, <3>3
    <3> QED
      BY <3>1, <3>2, <3>3, <3>4 DEF Offsets
  <2>4. /\ Round(st).data = st.data \o Payload(t)
        /\ Round(st).next = (st.next + Len(Payload(t))) % SeqSpace
        /\ Round(st).buffer = Without(st.buffer, st.next)
    BY <1>3, <2>2 DEF Round, Without
  <2>5. Payload(t) \in Seq(Int) /\ Len(Payload(t)) = t.len
        /\ \A i \in 1..t.len : Payload(t)[i] = m + i - 1
    <3>1. st.buffer[st.next] \in Seq(Int)
      BY <1>3, BufferFacts DEF LoopStates
    <3> QED
      BY <2>2, <2>3, <3>1, SegmentFacts
  <2>6. Round(st).next = Num(m + t.len)
    BY <2>1, <2>3, <2>4, <2>5, NumPlus
  <2>7. st.data \in Seq(Int) /\ Len(st.data) = m - n
    BY <2>1 DEF LoopStates
  <2>8. /\ Len(st.data \o Payload(t)) = m - n + t.len
        /\ \A i \in 1..(m - n + t.len) : (st.data \o Payload(t))[i] =
              IF i <= m - n THEN st.data[i] ELSE Payload(t)[i - (m - n)]
    <3> DEFINE p == Payload(t)
               d == st.data
    <3>1. p \in Seq(Int) /\ Len(p) = t.len /\ d \in Seq(Int) /\ Len(d) = m - n
      BY <2>5, <2>7
    <3> HIDE DEF p, d
    <3>2. /\ Len(d \o p) = Len(d) + Len(p)
          /\ \A i \in 1..(Len(d) + Len(p)) : (d \o p)[i] = IF i <= Len(d) THEN d[i] ELSE p[i - Len(d)]
      BY <3>1, ConcatProperties
    <3>3. /\ Len(d \o p) = m - n + t.len
          /\ \A i \in 1..(m - n + t.len) : (d \o p)[i] = IF i <= m - n THEN d[i] ELSE p[i - (m - n)]
      BY <3>1, <3>2
    <3> QED
      BY <3>3 DEF p, d
  <2>9. \A i \in 1..((m + t.len) - n) : (st.data \o Payload(t))[i] = n + i - 1
    <3>1. ASSUME NEW i \in 1..((m + t.len) - n)
          PROVE  (st.data \o Payload(t))[i] = n + i - 1
      <4>1. i \in 1..(m - n + t.len) /\ m \in Int /\ n \in Int
        BY <2>3
      <4>2. CASE i <= m - n
        <5>1. i \in 1..(m - n) /\ (st.data \o Payload(t))[i] = st.data[i]
          BY <2>8, <4>1, <4>2
        <5> QED
          BY <2>1, <5>1
      <4>3. CASE ~(i <= m - n)
        <5>1. i - (m - n) \in 1..t.len /\ (st.data \o Payload(t))[i] = Payload(t)[i - (m - n)]
          <6>1. i - (m - n) \in 1..t.len
            BY <2>3, <4>1, <4>3
          <6> QED
            BY <2>8, <4>1, <4>3, <6>1
        <5> QED
          BY <2>5, <4>1, <5>1
      <4> QED
        BY <4>2, <4>3
    <3> QED
      BY <3>1
  <2>10. Apart(cut) /\ Boundary(cut, n) => Boundary(cut, m + t.len)
    BY <2>1, <2>3, BoundaryBehind
  <2>11. At(Round(st), m + t.len)
    <3>1. m - n + t.len = (m + t.len) - n
      BY <2>3
    <3> DEFINE d == st.data \o Payload(t)
               e == m + t.len
    <3>2. Round(st).data = d /\ Round(st).next = Num(e) /\ Len(d) = e - n
      <4>1. Round(st).data = d
        BY <2>4
      <4>2. Round(st).next = Num(e)
        BY <2>6
      <4>3. Len(d) = e - n
        <5>1. Len(d) = m - n + t.len
          BY <2>8
        <5> QED
          BY <3>1, <5>1, Zenon
      <4> QED
        BY <4>1, <4>2, <4>3, Zenon
    <3>3. \A i \in 1..(e - n) : d[i] = n + i - 1
      BY <2>9
    <3>4. Apart(cut) /\ Boundary(cut, n) => Boundary(cut, e)
      BY <2>10
    <3> HIDE DEF d, e
    <3>5. Len(Round(st).data) = e - n /\ \A i \in 1..(e - n) : Round(st).data[i] = n + i - 1
      BY <3>2, <3>3, Zenon
    <3>6. At(Round(st), e)
      BY <3>2, <3>4, <3>5, Zenon
    <3> HIDE DEF At
    <3> QED
      BY <3>6 DEF e
  <2>12. Round(st) \in LoopStates
    BY RoundType
  <2>13. Whole(cut, Round(st).buffer)
    BY <1>3, <2>4, WithoutWhole
  <2> HIDE DEF At
  <2> QED
    BY <2>3, <2>11, <2>12, <2>13
<1>4. result \in P
  <2>1. P \subseteq LoopStates
    OBVIOUS
  <2> HIDE DEF P
  <2> QED
    BY <1>1, <1>2, <1>3, <2>1, AssembleRule
<1> QED
  BY <1>4

-----------------------------------------------------------------------------
(* Bytes are accounted for wherever the stream begins and whatever the     *)
(* order of its segments, a SYN in the middle of the data included.        *)

\* The bytes returned so far.
Returned == Range(delivered)

StreamTypes ==
    /\ segmentation \in Cuts
    /\ Whole(segmentation, segments)
    /\ nextExpectedSeq \in SeqNums
    /\ synSeen \in BOOLEAN
    /\ delivered \in Seq(0..(StreamBytes - 1))
    /\ kept \subseteq -1..(StreamBytes - 1)
    /\ misreported \subseteq -1..(StreamBytes - 1)

\* The counter covers what is buffered, and is it if the sender cuts its stream once.
Accounted ==
    /\ totalBytes \in Nat
    /\ WithinLimit
    /\ AccountBalanced

\* What was accepted is in the result or in the buffer, and nothing else is, up to the
\* buffered segments that others have replaced.
Traced ==
    /\ Returned \cup BytesIn(segments) \subseteq kept
    /\ CutOnce => kept \subseteq {-1} \cup Returned \cup BytesIn(segments)

Account == StreamTypes /\ Accounted /\ Traced

\* What storing a segment adds to the buffer.
LEMMA StoredFacts ==
    ASSUME StreamTypes, NEW s \in segmentation
    PROVE  /\ Whole(segmentation, Stored(s))
           /\ Cardinality(Places(Stored(s))) \in Nat /\ Buffered \in Nat
           /\ Cardinality(Places(Stored(s))) <= Buffered + s.len
           /\ BytesIn(Stored(s)) \subseteq BytesIn(segments) \cup Bytes(s)
           /\ SeqNum(s) \notin DOMAIN segments =>
                 /\ Cardinality(Places(Stored(s))) = Buffered + s.len
                 /\ BytesIn(Stored(s)) = BytesIn(segments) \cup Bytes(s)
<1> DEFINE q == SeqNum(s)
           others == Without(segments, q)
<1>1. segmentation \in Cuts /\ Whole(segmentation, segments) /\ q \in SeqNums
      /\ Len(Payload(s)) = s.len /\ s.len \in Nat /\ Range(Payload(s)) = Bytes(s)
  BY SegmentFacts DEF StreamTypes
<1>2. DOMAIN Stored(s) = DOMAIN segments \cup {q} /\ Stored(s)[q] = Payload(s)
      /\ \A r \in DOMAIN segments \ {q} : Stored(s)[r] = segments[r]
  BY DEF Stored
<1>3. Whole(segmentation, Stored(s))
  <2>1. Stored(s) = [r \in DOMAIN Stored(s) |-> Stored(s)[r]]
    BY DEF Stored
  <2>2. ASSUME NEW r \in DOMAIN Stored(s)
        PROVE  \E t \in segmentation : r = SeqNum(t) /\ Stored(s)[r] = Payload(t)
    <3>1. CASE r = q
      BY <1>2, <3>1
    <3>2. CASE r # q
      BY <1>1, <1>2, <3>2 DEF Whole
    <3> QED
      BY <3>1, <3>2
  <2> QED
    BY <1>1, <1>2, <2>1, <2>2 DEF Whole
<1>4. Without(Stored(s), q) = others
  BY <1>2 DEF Without
<1>5. Whole(segmentation, others)
  BY <1>1, WithoutWhole
<1>6. /\ Cardinality(Places(Stored(s))) \in Nat
      /\ Buffered \in Nat
      /\ Cardinality(Places(others)) \in Nat
  BY <1>1, <1>3, <1>5, PlacesFinite DEF Buffered
<1>7. Cardinality(Places(Stored(s))) = Cardinality(Places(others)) + s.len
  BY <1>1, <1>2, <1>3, <1>4, PlacesWithout
<1>8. BytesIn(Stored(s)) = Bytes(s) \cup BytesIn(others)
  BY <1>1, <1>2, <1>4, BytesWithout
<1>9. CASE q \in DOMAIN segments
  <2>1. Buffered = Cardinality(Places(others)) + Len(segments[q])
    BY <1>1, <1>9, PlacesWithout DEF Buffered
  <2>2. Len(segments[q]) \in Nat
    BY <1>1, <1>9, WholeFacts
  <2>3. BytesIn(others) \subseteq BytesIn(segments)
    BY <1>9, BytesWithout
  <2> HIDE DEF others
  <2> QED
    BY <1>1, <1>3, <1>6, <1>7, <1>8, <1>9, <2>1, <2>2, <2>3
<1>10. CASE q \notin DOMAIN segments
  <2>1. others = segments
    <3>1. DOMAIN segments \ {q} = DOMAIN segments
      BY <1>10
    <3>2. segments = [r \in DOMAIN segments |-> segments[r]]
      BY <1>1 DEF Whole
    <3> QED
      BY <3>1, <3>2 DEF Without
  <2>2. Cardinality(Places(others)) = Buffered
    BY <2>1 DEF Buffered
  <2> QED
    BY <1>1, <1>3, <1>6, <1>7, <1>8, <1>10, <2>1, <2>2
<1> QED
  BY <1>9, <1>10

\* A sender that cuts its stream once stores a segment at a free place only.
LEMMA StoredIsNew ==
    ASSUME StreamTypes, NEW s \in segmentation, CutOnce, ~Retransmitted(s)
    PROVE  SeqNum(s) \notin DOMAIN segments
<1> SUFFICES ASSUME SeqNum(s) \in DOMAIN segments
             PROVE  FALSE
  OBVIOUS
<1>1. segmentation \in Cuts
  BY DEF StreamTypes
<1>2. PICK t \in segmentation : SeqNum(s) = SeqNum(t) /\ segments[SeqNum(s)] = Payload(t)
  BY DEF StreamTypes, Whole
<1>3. s.first = t.first
  BY <1>1, <1>2, SegmentFacts, NumInjective
<1>4. s = t
  <2>1. s = t \/ s.first + s.len <= t.first \/ t.first + t.len <= s.first
    BY DEF CutOnce
  <2>2. s.first \in Nat /\ t.first \in Nat /\ s.len \in Nat \ {0} /\ t.len \in Nat \ {0}
    BY <1>1, SegmentFacts
  <2> QED
    BY <1>3, <2>1, <2>2
<1>5. Len(segments[SeqNum(s)]) = s.len
  BY <1>1, <1>2, <1>4, SegmentFacts
<1> QED
  BY <1>5 DEF Retransmitted

\* No byte is buffered, accepted or returned in the beginning.
LEMMA AccountInit == Init => Account
<1> SUFFICES ASSUME Init
             PROVE  Account
  OBVIOUS
<1>1. segments = <<>> /\ DOMAIN segments = {} /\ delivered = <<>> /\ kept = {} /\ misreported = {}
      /\ totalBytes = 0 /\ nextExpectedSeq = 0 /\ synSeen = FALSE /\ segmentation \in Cuts
  BY DEF Init
<1>2. StreamTypes
  <2>1. Whole(segmentation, segments)
    BY <1>1 DEF Whole
  <2>2. <<>> \in Seq(0..(StreamBytes - 1)) /\ 0 \in SeqNums
    BY EmptySeq, ReassemblerAssumption DEF SeqNums
  <2> QED
    BY <1>1, <2>1, <2>2 DEF StreamTypes
<1>3. Buffered = 0
  <2>1. Places(segments) = {}
    BY <1>1 DEF Places
  <2> QED
    BY <2>1, FS_EmptySet DEF Buffered
<1>4. Accounted
  BY <1>1, <1>3, ReassemblerAssumption DEF Accounted, WithinLimit, AccountBalanced
<1>5. Traced
  <2>1. Returned = {} /\ BytesIn(segments) = {}
    BY <1>1 DEF Returned, Range, BytesIn
  <2> QED
    BY <1>1, <2>1 DEF Traced
<1> QED
  BY <1>2, <1>4, <1>5 DEF Account

\* A segment that is stored is accounted for.
LEMMA AccountAccept ==
    ASSUME Account, NEW s \in segmentation, Accept(s), ~OverLimit(s), ~Retransmitted(s),
           synSeen' = TRUE, segmentation' = segmentation
    PROVE  Account'
<1>1. StreamTypes /\ segmentation \in Cuts
  BY DEF Account, StreamTypes
<1>2. Expected(s) \in SeqNums
  BY <1>1, SegmentFacts DEF Expected, StreamTypes
<1>3. PICK result \in Assemble(Stored(s), Expected(s)) :
         /\ segments' = result.buffer
         /\ nextExpectedSeq' = result.next
         /\ totalBytes' = totalBytes + s.len - Len(result.data)
         /\ delivered' = delivered \o result.data
         /\ kept' = kept \cup Bytes(s)
         /\ misreported' = misreported
  BY DEF Accept
<1>4. /\ result.next \in SeqNums
      /\ result.data \in Seq(0..(StreamBytes - 1))
      /\ Whole(segmentation, result.buffer)
      /\ Cardinality(Places(result.buffer)) + Len(result.data) = Cardinality(Places(Stored(s)))
      /\ Range(result.data) \cup BytesIn(result.buffer) = BytesIn(Stored(s))
  BY <1>1, <1>2, StoredFacts, AssembleConserves
<1>5. Bytes(s) \subseteq 0..(StreamBytes - 1) /\ s.len \in Nat /\ StreamBytes \in Nat
  BY <1>1, SegmentFacts, ReassemblerAssumption
<1>6. StreamTypes'
  <2>1. delivered' \in Seq(0..(StreamBytes - 1))
    BY <1>1, <1>3, <1>4, ConcatProperties DEF StreamTypes
  <2>2. kept' \subseteq -1..(StreamBytes - 1)
    <3>1. 0..(StreamBytes - 1) \subseteq -1..(StreamBytes - 1)
      BY <1>5
    <3>2. kept \subseteq -1..(StreamBytes - 1) /\ kept' = kept \cup Bytes(s)
      BY <1>1, <1>3 DEF StreamTypes
    <3> QED
      BY <1>5, <3>1, <3>2
  <2> QED
    BY <1>1, <1>3, <1>4, <2>1, <2>2 DEF StreamTypes
<1>7. Len(result.data) \in Nat /\ Cardinality(Places(result.buffer)) \in Nat
      /\ Buffered' = Cardinality(Places(result.buffer))
  BY <1>1, <1>3, <1>4, LenProperties, PlacesFinite DEF Buffered
<1>8. Accounted'
  <2>1. totalBytes \in Nat /\ Buffered <= totalBytes /\ (CutOnce => totalBytes = Buffered)
    BY DEF Account, Accounted, WithinLimit, AccountBalanced
  <2>2. totalBytes + s.len <= MaxStreamBytes
    BY <1>5, <2>1, ReassemblerAssumption DEF OverLimit
  <2>3. totalBytes' \in Nat /\ Buffered' <= totalBytes' /\ totalBytes' <= MaxStreamBytes
    <3>1. /\ Cardinality(Places(Stored(s))) \in Nat /\ Buffered \in Nat
          /\ Cardinality(Places(Stored(s))) <= Buffered + s.len
      BY <1>1, StoredFacts
    <3>2. totalBytes' = totalBytes + s.len - Len(result.data)
          /\ Buffered' + Len(result.data) = Cardinality(Places(Stored(s)))
      BY <1>3, <1>4, <1>7
    <3>3. Len(result.data) \in Nat /\ s.len \in Nat /\ Buffered' \in Nat
          /\ MaxStreamBytes \in Nat
      BY <1>5, <1>7, ReassemblerAssumption
    <3>4. \A t, b, c, l, n, p \in Nat : p + n = c /\ c <= b + l /\ b <= t =>
             t + l - n \in Nat /\ p <= t + l - n /\ t + l - n <= t + l
      OBVIOUS
    <3>5. /\ totalBytes + s.len - Len(result.data) \in Nat
          /\ Buffered' <= totalBytes + s.len - Len(result.data)
          /\ totalBytes + s.len - Len(result.data) <= totalBytes + s.len
      BY <2>1, <3>1, <3>2, <3>3, <3>4
    <3> QED
      BY <2>1, <2>2, <3>2, <3>3, <3>5
  <2>4. CutOnce => totalBytes' = Buffered'
    BY <1>1, <1>3, <1>4, <1>5, <1>7, <2>1, StoredFacts, StoredIsNew, SMTT(20)
  <2>5. CutOnce' <=> CutOnce
    BY DEF CutOnce
  <2> QED
    BY <2>3, <2>4, <2>5 DEF Accounted, WithinLimit, AccountBalanced
<1>9. Traced'
  <2>1. Returned' = Returned \cup Range(result.data)
    BY <1>1, <1>3, <1>4, RangeConcatenation DEF Returned, StreamTypes
  <2>2. BytesIn(segments)' = BytesIn(result.buffer)
    BY <1>3 DEF BytesIn
  <2>3. Returned' \cup BytesIn(segments)' = Returned \cup BytesIn(Stored(s))
    BY <1>4, <2>1, <2>2
  <2>4. Returned' \cup BytesIn(segments)' \subseteq kept'
    BY <1>1, <1>3, <2>3, StoredFacts DEF Account, Traced
  <2>5. CutOnce => kept' \subseteq {-1} \cup Returned' \cup BytesIn(segments)'
    BY <1>1, <1>3, <2>3, StoredFacts, StoredIsNew DEF Account, Traced
  <2>6. CutOnce' <=> CutOnce
    BY DEF CutOnce
  <2> QED
    BY <2>4, <2>5, <2>6 DEF Traced
<1> QED
  BY <1>6, <1>8, <1>9 DEF Account

\* Every step keeps the account.
LEMMA AccountNext == Account /\ [Next]_vars => Account'
<1> SUFFICES ASSUME Account, [Next]_vars
             PROVE  Account'
  OBVIOUS
<1>1. StreamTypes /\ Accounted /\ Traced /\ segmentation \in Cuts
  BY DEF Account, StreamTypes
<1>2. CASE segments' = segments /\ totalBytes' = totalBytes /\ delivered' = delivered
           /\ segmentation' = segmentation /\ kept \subseteq kept' /\ kept' \subseteq kept \cup {-1}
           /\ nextExpectedSeq' \in SeqNums /\ synSeen' \in BOOLEAN
           /\ misreported' \subseteq -1..(StreamBytes - 1)
  <2>1. StreamTypes'
    <3>1. kept' \subseteq -1..(StreamBytes - 1)
      BY <1>1, <1>2, ReassemblerAssumption DEF StreamTypes
    <3> QED
      BY <1>1, <1>2, <3>1 DEF StreamTypes
  <2>2. Buffered' = Buffered /\ (CutOnce' <=> CutOnce)
    BY <1>2 DEF Buffered, CutOnce
  <2>3. Accounted'
    BY <1>1, <1>2, <2>2 DEF Accounted, WithinLimit, AccountBalanced
  <2>4. Returned' = Returned /\ BytesIn(segments)' = BytesIn(segments)
    BY <1>2 DEF Returned, BytesIn
  <2>5. Traced'
    BY <1>1, <1>2, <2>2, <2>4 DEF Traced
  <2> QED
    BY <2>1, <2>3, <2>5 DEF Account
<1>3. CASE Syn
  <2>1. SeqNum(SynSegment) + 1 \in Int /\ SeqSpace \in Nat \ {0} /\ StreamBytes \in Nat
    BY ReassemblerAssumption DEF SeqNum, SynSegment
  <2>2. (SeqNum(SynSegment) + 1) % SeqSpace \in SeqNums
    BY <2>1 DEF SeqNums
  <2>3. Bytes(SynSegment) \subseteq {-1}
    BY DEF Bytes, SynSegment
  <2>4. misreported' \subseteq -1..(StreamBytes - 1)
    <3>1. misreported' \subseteq misreported \cup {-1}
      BY <1>3, <2>3 DEF Syn
    <3>2. -1 \in -1..(StreamBytes - 1)
      BY <2>1
    <3> QED
      BY <1>1, <3>1, <3>2 DEF StreamTypes
  <2> QED
    BY <1>2, <1>3, <2>2, <2>4 DEF Syn
<1>4. ASSUME NEW s \in Segments, process(s)
      PROVE  Account'
  <2>1. s \in segmentation /\ synSeen' = TRUE /\ segmentation' = segmentation
    BY <1>4 DEF process
  <2>2. Expected(s) \in SeqNums /\ Bytes(s) \subseteq -1..(StreamBytes - 1)
    BY <1>1, <2>1, SegmentFacts DEF Expected, StreamTypes
  <2>3. CASE OverLimit(s)
    BY <1>1, <1>2, <1>4, <2>1, <2>2, <2>3 DEF process, StreamTypes
  <2>4. CASE ~OverLimit(s) /\ Retransmitted(s)
    BY <1>1, <1>2, <1>4, <2>1, <2>2, <2>4 DEF process, StreamTypes
  <2>5. CASE ~OverLimit(s) /\ ~Retransmitted(s)
    <3>1. Accept(s)
      BY <1>4, <2>5 DEF process
    <3> QED
      BY <2>1, <2>5, <3>1, AccountAccept
  <2> QED
    BY <2>3, <2>4, <2>5
<1>5. CASE UNCHANGED vars
  BY <1>1, <1>2, <1>5 DEF vars, StreamTypes
<1> QED
  BY <1>3, <1>4, <1>5 DEF Next

\* The account is kept throughout.
LEMMA AccountAlways == Spec => []Account
BY AccountInit, AccountNext, PTL DEF Spec

\* Every variable has its type: the buffer holds segments that were sent, each under its own
\* sequence number, and no byte from outside the stream is returned.
THEOREM ReassemblerTypesCorrect == Spec => []TypeOK
<1>1. Account => TypeOK
  <2> SUFFICES ASSUME Account
               PROVE  TypeOK
    OBVIOUS
  <2>1. StreamTypes /\ totalBytes \in Nat
    BY DEF Account, Accounted
  <2> QED
    BY <2>1 DEF TypeOK, StreamTypes, Whole
<1> QED
  BY <1>1, AccountAlways, PTL

\* What a stream buffers stays within maxStreamBytes, and its counter never wraps.
THEOREM LimitCorrect == Spec => []WithinLimit
<1>1. Account => WithinLimit
  BY DEF Account, Accounted
<1> QED
  BY <1>1, AccountAlways, PTL

\* From a sender that cuts its stream once, no part of the limit is lost for good.
THEOREM BalanceCorrect == Spec => []AccountBalanced
<1>1. Account => AccountBalanced
  BY DEF Account, Accounted
<1> QED
  BY <1>1, AccountAlways, PTL

-----------------------------------------------------------------------------
(* The order of what is returned, where no SYN is seen after data.         *)

\* `next` is the number of the offset n, and what was returned ends just before n. If the
\* SYN was seen, it is the whole stream up to n, and n is the end of a segment.
Position(next, n) ==
    /\ next = Num(n)
    /\ Len(delivered) <= n
    /\ \A i \in 1..Len(delivered) : delivered[i] = (n - Len(delivered)) + i - 1
    /\ -1 \in kept => /\ n = Len(delivered)
                      /\ Apart(segmentation) => Boundary(segmentation, n)

Stream ==
    /\ ~synSeen => delivered = <<>> /\ segments = <<>>
    /\ -1 \in kept => synSeen
    /\ SynFirst /\ synSeen => -1 \in kept
    /\ nextExpectedSeq \notin DOMAIN segments
    /\ synSeen => \E n \in 0..StreamBytes : Position(nextExpectedSeq, n)
    /\ SynFirst => misreported = {}

\* Where a stream begins, nothing was returned before.
LEMMA PositionAtStart ==
    ASSUME NEW n \in 0..StreamBytes, delivered = <<>>,
           -1 \in kept => n = 0, StreamTypes
    PROVE  Position(Num(n), n)
<1>1. Len(delivered) = 0
  BY EmptySeq
<1>2. ASSUME n = 0
      PROVE  Boundary(segmentation, n)
  BY <1>2, SegmentFacts DEF Boundary, StreamTypes
<1> QED
  BY <1>1, <1>2 DEF Position

\* The number a segment is compared with is a position of the stream, and no segment
\* waits there.
LEMMA ExpectedPosition ==
    ASSUME Account, Stream, NEW s \in segmentation
    PROVE  /\ Expected(s) \notin DOMAIN segments
           /\ \E n \in 0..StreamBytes : Position(Expected(s), n)
<1>1. StreamTypes /\ segmentation \in Cuts
  BY DEF Account, StreamTypes
<1>2. CASE synSeen
  BY <1>1, <1>2 DEF Expected, Stream
<1>3. CASE ~synSeen
  <2>1. Expected(s) = Num(s.first) /\ delivered = <<>> /\ segments = <<>> /\ -1 \notin kept
    BY <1>1, <1>3, SegmentFacts DEF Expected, Stream
  <2>2. s.first \in 0..StreamBytes
    BY <1>1, SegmentFacts, ReassemblerAssumption
  <2>3. DOMAIN segments = {}
    BY <2>1
  <2> QED
    BY <1>1, <2>1, <2>2, <2>3, PositionAtStart
<1> QED
  BY <1>2, <1>3

\* Where the SYN came first, what is taken for a retransmission is one.
LEMMA RetransmittedSeen ==
    ASSUME Account, Stream, NEW s \in segmentation, Retransmitted(s), -1 \in kept
    PROVE  Bytes(s) \subseteq kept
<1>1. StreamTypes /\ Traced /\ segmentation \in Cuts
  BY DEF Account, StreamTypes
<1>2. PICK n \in 0..StreamBytes : Position(Expected(s), n)
  BY ExpectedPosition
<1>3. CASE seqBeforeOrEqual((SeqNum(s) + s.len) % SeqSpace, Expected(s))
  <2>1. s.first \in Offsets /\ s.len \in Nat /\ s.first + s.len \in Offsets /\ n \in Offsets
        /\ SeqNum(s) = Num(s.first)
    BY <1>1, SegmentFacts DEF Offsets
  <2>2. seqBeforeOrEqual(Num(s.first + s.len), Num(n))
    BY <1>2, <1>3, <2>1, NumPlus DEF Position
  <2>3. s.first + s.len <= n
    BY <2>1, <2>2, SeqOrder
  <2>4. ASSUME NEW x \in Bytes(s)
        PROVE  x \in kept
    <3>1. n = Len(delivered) /\ delivered \in Seq(0..(StreamBytes - 1))
      BY <1>1, <1>2 DEF Position, StreamTypes
    <3>2. x \in Int /\ 0 <= x /\ x < n
      <4>1. s.first \in Nat
        BY <1>1, SegmentFacts
      <4> QED
        BY <2>1, <2>3, <2>4, <4>1 DEF Bytes
    <3>3. x + 1 \in 1..Len(delivered) /\ n \in Int
      BY <3>1, <3>2
    <3>4. delivered[x + 1] = (n - Len(delivered)) + (x + 1) - 1
      BY <1>2, <3>3 DEF Position
    <3>5. delivered[x + 1] = x
      BY <3>1, <3>2, <3>3, <3>4
    <3>6. x \in Returned
      <4>1. x + 1 \in DOMAIN delivered
        BY <3>1, <3>3, LenProperties
      <4> QED
        BY <3>5, <4>1 DEF Returned, Range
    <3> QED
      BY <1>1, <3>6 DEF Traced
  <2> QED
    BY <2>4
<1>4. CASE /\ SeqNum(s) \in DOMAIN segments
           /\ Len(segments[SeqNum(s)]) = s.len
  <2>1. PICK t \in segmentation : SeqNum(s) = SeqNum(t) /\ segments[SeqNum(s)] = Payload(t)
    BY <1>1, <1>4 DEF StreamTypes, Whole
  <2>2. s.first = t.first /\ s.len = t.len
    BY <1>1, <1>4, <2>1, SegmentFacts, NumInjective
  <2>3. Bytes(s) = Range(segments[SeqNum(s)])
    BY <1>1, <2>1, <2>2, SegmentFacts DEF Bytes
  <2>4. Range(segments[SeqNum(s)]) \subseteq BytesIn(segments)
    BY <1>4 DEF BytesIn
  <2> QED
    BY <1>1, <2>3, <2>4 DEF Traced
<1> QED
  BY <1>3, <1>4 DEF Retransmitted

\* What a segment releases continues what was returned before.
LEMMA StreamAccept ==
    ASSUME Account, Stream, NEW s \in segmentation, Accept(s),
           SynFirst => -1 \in kept, synSeen' = TRUE, segmentation' = segmentation
    PROVE  Stream'
<1>1. StreamTypes /\ segmentation \in Cuts
  BY DEF Account, StreamTypes
<1>2. PICK n \in 0..StreamBytes : Position(Expected(s), n)
  BY ExpectedPosition
<1>3. Expected(s) = Num(n) /\ Num(n) \in SeqNums
  BY <1>2, NumValue DEF Position, Offsets
<1>4. PICK result \in Assemble(Stored(s), Num(n)) :
         /\ segments' = result.buffer
         /\ nextExpectedSeq' = result.next
         /\ delivered' = delivered \o result.data
         /\ kept' = kept \cup Bytes(s)
         /\ misreported' = misreported
  BY <1>3 DEF Accept
<1>5. /\ result.next \notin DOMAIN result.buffer
      /\ result.data \in Seq(0..(StreamBytes - 1))
  BY <1>1, <1>3, StoredFacts, AssembleConserves
<1>6. PICK m \in n..StreamBytes :
         /\ result.next = Num(m)
         /\ Len(result.data) = m - n
         /\ \A i \in 1..(m - n) : result.data[i] = n + i - 1
         /\ Apart(segmentation) /\ Boundary(segmentation, n) => Boundary(segmentation, m)
  BY <1>1, StoredFacts, AssembleContinues
<1>7. -1 \in kept' <=> -1 \in kept
  <2>1. -1 \notin Bytes(s)
    BY <1>1, SegmentFacts, ReassemblerAssumption
  <2> QED
    BY <1>4, <2>1
<1> DEFINE L == Len(delivered)
           d == delivered'
<1>8. /\ L \in Nat /\ n \in Nat /\ m \in Nat /\ n <= m /\ L <= n
      /\ \A i \in 1..L : delivered[i] = (n - L) + i - 1
  BY <1>1, <1>2, LenProperties, ReassemblerAssumption DEF StreamTypes, Position
<1>9. /\ Len(d) = L + (m - n)
      /\ \A i \in 1..(L + (m - n)) : d[i] = IF i <= L THEN delivered[i] ELSE result.data[i - L]
  <2>1. /\ delivered \in Seq(0..(StreamBytes - 1))
        /\ d = delivered \o result.data /\ Len(result.data) = m - n
    BY <1>1, <1>4, <1>6 DEF StreamTypes
  <2>2. /\ Len(delivered \o result.data) = Len(delivered) + Len(result.data)
        /\ \A i \in 1..(Len(delivered) + Len(result.data)) : (delivered \o result.data)[i] =
              IF i <= Len(delivered) THEN delivered[i] ELSE result.data[i - Len(delivered)]
    BY <1>5, <2>1, ConcatProperties
  <2> HIDE DEF d
  <2> QED
    BY <2>1, <2>2
<1>10. m - Len(d) = n - L /\ Len(d) <= m /\ Len(d) \in Nat
  <2> HIDE DEF L, d
  <2> QED
    BY <1>8, <1>9
<1>11. \A i \in 1..Len(d) : d[i] = (m - Len(d)) + i - 1
  <2>1. ASSUME NEW i \in 1..Len(d)
        PROVE  d[i] = (n - L) + i - 1
    <3>1. i \in 1..(L + (m - n))
      BY <1>9, <2>1
    <3> HIDE DEF L, d
    <3>2. CASE i <= L
      BY <1>8, <1>9, <3>1, <3>2
    <3>3. CASE ~(i <= L)
      <4>1. i - L \in 1..(m - n)
        BY <1>8, <3>1, <3>3
      <4>2. d[i] = n + (i - L) - 1
        BY <1>6, <1>9, <3>1, <3>3, <4>1
      <4> QED
        BY <1>8, <3>1, <4>2
    <3> QED
      BY <3>2, <3>3
  <2> HIDE DEF L, d
  <2> QED
    BY <1>10, <2>1
<1>12. -1 \in kept => /\ m = Len(d)
                      /\ Apart(segmentation) => Boundary(segmentation, m)
  <2>1. SUFFICES ASSUME -1 \in kept
                 PROVE  m = Len(d) /\ (Apart(segmentation) => Boundary(segmentation, m))
    OBVIOUS
  <2>2. n = L /\ (Apart(segmentation) => Boundary(segmentation, n))
    BY <1>2, <2>1 DEF Position
  <2> HIDE DEF L, d
  <2> QED
    BY <1>6, <1>8, <1>10, <2>2
<1>13. Position(nextExpectedSeq, m)'
  BY <1>4, <1>6, <1>7, <1>10, <1>11, <1>12 DEF Position
<1>14. m \in 0..StreamBytes
  BY <1>8
<1>15. nextExpectedSeq' \notin DOMAIN segments'
  BY <1>4, <1>5
<1>16. SynFirst => -1 \in kept' /\ misreported' = {}
  BY <1>4, <1>7 DEF Stream
<1> HIDE DEF L, d
<1> QED
  BY <1>13, <1>14, <1>15, <1>16 DEF Stream

\* The initial states are in order.
LEMMA StreamInit == Init => Stream
<1> SUFFICES ASSUME Init
             PROVE  Stream
  OBVIOUS
<1>1. DOMAIN segments = {}
  BY DEF Init
<1> QED
  BY <1>1 DEF Init, Stream

\* Every step keeps the order.
LEMMA StreamNext ==
    ASSUME ~LateSyn
    PROVE  Account /\ Stream /\ [Next]_vars => Stream'
<1> SUFFICES ASSUME Account, Stream, [Next]_vars
             PROVE  Stream'
  OBVIOUS
<1>1. StreamTypes /\ segmentation \in Cuts /\ Account'
  BY AccountNext DEF Account, StreamTypes
<1>2. CASE Syn
  <2>1. /\ delivered = <<>> /\ segments = <<>> /\ synSeen' = TRUE
        /\ delivered' = delivered /\ segments' = segments /\ segmentation' = segmentation
        /\ kept' = kept \cup {-1}
    BY <1>2 DEF Syn
  <2>2. nextExpectedSeq' = Num(0) /\ 0 \in 0..StreamBytes
    <3>1. SeqNum(SynSegment) = Num(-1)
      BY DEF SeqNum, SynSegment, Num
    <3>2. -1 \in Offsets /\ 0 \in Offsets /\ -1 + 1 = 0 /\ 1 \in Nat /\ 0 \in 0..StreamBytes
      BY ReassemblerAssumption DEF Offsets
    <3>3. (Num(-1) + 1) % SeqSpace = Num(0)
      <4>1. -1 + 1 \in Offsets
        BY <3>2
      <4>2. (Num(-1) + 1) % SeqSpace = Num(-1 + 1)
        BY <3>2, <4>1, NumPlus
      <4> QED
        BY <3>2, <4>2
    <3> QED
      BY <1>2, <3>1, <3>2, <3>3 DEF Syn
  <2>3. Position(nextExpectedSeq, 0)'
    <3>1. \A t \in segmentation : t.first >= 0
      BY <1>1, SegmentFacts
    <3>2. Len(delivered') = 0
      BY <2>1, EmptySeq
    <3>3. Boundary(segmentation', 0)
      BY <2>1, <3>1 DEF Boundary
    <3> QED
      BY <2>2, <3>2, <3>3 DEF Position
  <2>4. SynFirst => misreported' = {}
    <3>1. SUFFICES ASSUME SynFirst
                   PROVE  misreported' = {}
      OBVIOUS
    <3>2. misreported = {} /\ (synSeen => -1 \in kept)
      BY <3>1 DEF Stream
    <3>3. Bytes(SynSegment) \subseteq {-1}
      BY DEF Bytes, SynSegment
    <3>4. CASE synSeen
      BY <1>2, <3>2, <3>3, <3>4 DEF Syn
    <3>5. CASE ~synSeen
      BY <1>2, <3>2, <3>5 DEF Syn
    <3> QED
      BY <3>4, <3>5
  <2>5. nextExpectedSeq' \notin DOMAIN segments'
    <3>1. DOMAIN segments' = {}
      BY <2>1
    <3> QED
      BY <3>1
  <2> QED
    BY <2>1, <2>2, <2>3, <2>4, <2>5 DEF Stream
<1>3. ASSUME NEW s \in Segments, process(s)
      PROVE  Stream'
  <2>1. /\ s \in segmentation /\ synSeen' = TRUE /\ segmentation' = segmentation
        /\ SynFirst => -1 \in kept
    BY <1>3 DEF process
  <2>2. ASSUME segments' = segments, delivered' = delivered, kept' = kept,
               nextExpectedSeq' = Expected(s), SynFirst => misreported' = {}
        PROVE  Stream'
    <3>1. /\ Expected(s) \notin DOMAIN segments
          /\ \E n \in 0..StreamBytes : Position(Expected(s), n)
      BY <2>1, ExpectedPosition
    <3>2. PICK n \in 0..StreamBytes : Position(Expected(s), n)
      BY <3>1
    <3>3. Position(nextExpectedSeq, n)'
      BY <2>1, <2>2, <3>2 DEF Position
    <3> QED
      BY <2>1, <2>2, <3>1, <3>3 DEF Stream
  <2>3. CASE OverLimit(s)
    BY <1>3, <2>2, <2>3 DEF process, Stream
  <2>4. CASE ~OverLimit(s) /\ Retransmitted(s)
    <3>1. /\ segments' = segments /\ delivered' = delivered /\ kept' = kept
          /\ nextExpectedSeq' = Expected(s)
          /\ misreported' = misreported \cup (Bytes(s) \ kept)
      BY <1>3, <2>4 DEF process
    <3>2. SynFirst => misreported' = {}
      BY <2>1, <2>4, <3>1, RetransmittedSeen DEF Stream
    <3> QED
      BY <2>2, <3>1, <3>2
  <2>5. CASE ~OverLimit(s) /\ ~Retransmitted(s)
    <3>1. Accept(s)
      BY <1>3, <2>5 DEF process
    <3> QED
      BY <2>1, <3>1, StreamAccept
  <2> QED
    BY <2>3, <2>4, <2>5
<1>4. CASE UNCHANGED vars
  BY <1>4 DEF vars, Stream, Position
<1> QED
  BY <1>2, <1>3, <1>4 DEF Next

\* The order is kept throughout, as long as no SYN comes late.
LEMMA StreamAlways ==
    ASSUME ~LateSyn
    PROVE  Spec => [](Account /\ Stream)
<1>1. Account /\ Stream /\ [Next]_vars => (Account /\ Stream)'
  BY AccountNext, StreamNext
<1> QED
  BY <1>1, AccountInit, StreamInit, PTL DEF Spec

\* The bytes are returned in the sender's order, none left out and none twice, from the
\* first one if the SYN came first: where no SYN comes late.
THEOREM DeliveryCorrect ==
    ASSUME ~LateSyn
    PROVE  Spec => []DeliversInOrder
<1>1. Account /\ Stream => DeliversInOrder
  <2> SUFFICES ASSUME Account, Stream
               PROVE  DeliversInOrder
    OBVIOUS
  <2>1. delivered \in Seq(0..(StreamBytes - 1)) /\ Len(delivered) \in Nat
    BY LenProperties DEF Account, StreamTypes
  <2>2. CASE ~synSeen
    <3>1. delivered = <<>> /\ Len(delivered) = 0
      BY <2>2, EmptySeq DEF Stream
    <3> QED
      BY <3>1 DEF DeliversInOrder
  <2>3. CASE synSeen
    <3>1. PICK n \in 0..StreamBytes : Position(nextExpectedSeq, n)
      BY <2>3 DEF Stream
    <3>2. n \in Nat /\ \A i \in 1..Len(delivered) : delivered[i] = (n - Len(delivered)) + i - 1
      BY <3>1, ReassemblerAssumption DEF Position
    <3>3. ASSUME NEW i \in 1..(Len(delivered) - 1)
          PROVE  delivered[i + 1] = delivered[i] + 1
      <4>1. i \in 1..Len(delivered) /\ i + 1 \in 1..Len(delivered)
        BY <2>1
      <4> QED
        BY <2>1, <3>2, <4>1
    <3>4. SynFirst /\ delivered # <<>> => delivered[1] = 0
      <4>1. SUFFICES ASSUME SynFirst, delivered # <<>>
                     PROVE  delivered[1] = 0
        OBVIOUS
      <4>2. n = Len(delivered)
        BY <2>3, <3>1, <4>1 DEF Stream, Position
      <4>3. 1 \in 1..Len(delivered)
        BY <2>1, <4>1, EmptySeq
      <4> QED
        BY <2>1, <3>2, <4>2, <4>3
    <3> QED
      BY <3>3, <3>4 DEF DeliversInOrder
  <2> QED
    BY <2>2, <2>3
<1> QED
  BY <1>1, StreamAlways, PTL

\* What is reported as a retransmission has been accepted before: where the SYN comes
\* first, and none comes late.
THEOREM RetransmissionsCorrect ==
    ASSUME SynFirst, ~LateSyn
    PROVE  Spec => []RetransmissionsWereSeen
<1>1. Account /\ Stream => RetransmissionsWereSeen
  BY DEF Stream, RetransmissionsWereSeen
<1> QED
  BY <1>1, StreamAlways, PTL

\* From a sender that cuts its stream once, the byte that comes next was not accepted
\* yet: where no SYN comes late.
THEOREM ReleaseCorrect ==
    ASSUME ~LateSyn
    PROVE  Spec => []NothingWithheld
<1>1. Account /\ Stream => NothingWithheld
  <2> SUFFICES ASSUME Account, Stream, CutOnce, -1 \in kept, Len(delivered) \in kept
               PROVE  FALSE
    BY DEF NothingWithheld
  <2>1. StreamTypes /\ segmentation \in Cuts /\ Apart(segmentation)
    BY DEF Account, StreamTypes, CutOnce, Apart
  <2>2. PICK n \in 0..StreamBytes : Position(nextExpectedSeq, n)
    BY DEF Stream
  <2>3. n = Len(delivered) /\ Boundary(segmentation, n) /\ nextExpectedSeq = Num(n)
    BY <2>1, <2>2 DEF Position
  <2>4. n \in Nat /\ n # -1 /\ delivered \in Seq(0..(StreamBytes - 1))
    BY <2>1, ReassemblerAssumption DEF StreamTypes
  <2>5. n \notin Returned
    <3>1. ASSUME NEW i \in DOMAIN delivered
          PROVE  delivered[i] # n
      <4>1. i \in 1..Len(delivered)
        BY <2>4, LenProperties
      <4>2. delivered[i] = (n - Len(delivered)) + i - 1
        BY <2>2, <4>1 DEF Position
      <4> QED
        BY <2>3, <2>4, <4>1, <4>2
    <3> QED
      BY <3>1 DEF Returned, Range
  <2>6. n \notin BytesIn(segments)
    <3>1. SUFFICES ASSUME NEW q \in DOMAIN segments, n \in Range(segments[q])
                   PROVE  FALSE
      BY DEF BytesIn
    <3>2. PICK t \in segmentation : q = SeqNum(t) /\ segments[q] = Payload(t)
      BY <2>1 DEF StreamTypes, Whole
    <3>3. n \in Bytes(t) /\ t.first \in Nat /\ t.len \in Nat /\ SeqNum(t) = Num(t.first)
      BY <2>1, <3>1, <3>2, SegmentFacts
    <3>4. t.first = n
      BY <2>3, <2>4, <3>3 DEF Boundary, Bytes
    <3>5. nextExpectedSeq \in DOMAIN segments
      BY <2>3, <3>2, <3>3, <3>4
    <3> QED
      BY <3>5 DEF Stream
  <2> QED
    BY <2>3, <2>4, <2>5, <2>6 DEF Account, Traced
<1> QED
  BY <1>1, StreamAlways, PTL
=============================================================================
