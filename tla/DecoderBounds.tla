---------------------------- MODULE DecoderBounds -----------------------------
(***************************************************************************)
(* No decoder moves behind the capture: for every frame whose headers are  *)
(* well formed, wherever the capture ends and at whatever offset a decoder *)
(* begins, the offset it leaves is between that offset and the end of the  *)
(* capture. What it reads on the way is not bounded here: see Stray in     *)
(* StreamMessages and Beyond in IpDefragmenter. One lemma per decoder of   *)
(* HeaderDecoders, DataLink, FrameDecoder, MessageDecoders and             *)
(* StreamMessages.                                                         *)
(***************************************************************************)
EXTENDS FrameDecoder, StreamMessages, TLAPS, FiniteSetTheorems, SequenceTheorems

-----------------------------------------------------------------------------
(* Sums of sizes: the first recursive function. The context is the sizes   *)
(* and, for each place, the set the sum up to there is claimed to be in.   *)

SumPlaces(c) == 0..Len(c.sizes)
SumMore(c, i) == i # 0
SumNext(c, i) == i - 1
SumLast(c, i) == 0
SumJoin(c, i, v) == v + c.sizes[i]
SumIn(c, i, v) == v \in c.sets[i]

Sums == INSTANCE RecursionLemmas WITH
            Dom <- SumPlaces, More <- SumMore, Next <- SumNext,
            Last <- SumLast, Join <- SumJoin, Inv <- SumIn

-----------------------------------------------------------------------------
(* Numbers, checks, and what is read                                       *)

\* A set of numbers that is not empty has a least one.
LEMMA MinIsLeast ==
    ASSUME NEW S, S \subseteq Nat, S # {}
    PROVE  Min(S) \in S /\ \A x \in S : Min(S) <= x
<1> DEFINE Above == {n \in Nat : \A x \in S : n <= x}
<1>1. 0 \in Above
  OBVIOUS
<1>2. \E n \in Above : n + 1 \notin Above
  <2> SUFFICES ASSUME \A n \in Above : n + 1 \in Above
               PROVE  FALSE
    OBVIOUS
  <2>1. \A n \in Nat : n \in Above => n + 1 \in Above
    OBVIOUS
  <2>2. Nat \subseteq Above
    <3> HIDE DEF Above
    <3> QED
      BY <1>1, <2>1, Sums!NatSetInduction
  <2>3. PICK x \in S : TRUE
    OBVIOUS
  <2>4. x \in Nat /\ x + 1 \in Nat
    BY <2>3
  <2>5. x + 1 \in Above
    BY <2>2, <2>4
  <2>6. x + 1 <= x
    BY <2>3, <2>5
  <2> QED
    BY <2>4, <2>6
<1>3. PICK n \in Above : n + 1 \notin Above
  BY <1>2
<1>4. n \in Nat /\ (\A x \in S : n <= x) /\ \E x \in S : ~(n + 1 <= x)
  BY <1>3
<1>5. n \in S /\ \A x \in S : n =< x
  BY <1>4
<1> QED
  BY <1>5 DEF Min

\* What Min gives of two numbers.
LEMMA MinOfTwo ==
    ASSUME NEW a \in Int, NEW b \in Int
    PROVE  Min({a, b}) = IF a <= b THEN a ELSE b
<1> DEFINE m == IF a <= b THEN a ELSE b
<1>1. m \in {a, b} /\ \A y \in {a, b} : m =< y
  OBVIOUS
<1>2. \A x \in {a, b} : (\A y \in {a, b} : x =< y) => x = m
  OBVIOUS
<1> HIDE DEF m
<1>3. Min({a, b}) = m
  BY <1>1, <1>2 DEF Min
<1> QED
  BY <1>3 DEF m

\* What the bounds of a decoder at an offset are.
LEMMA Here ==
    ASSUME NEW f, IsFrame(f), NEW off \in 0..f.cap
    PROVE  /\ f.cap \in Nat /\ off \in Nat /\ off <= f.cap
           /\ off \in off..f.cap /\ f.cap \in off..f.cap
           /\ \A n \in Nat : Has(f, off, n) => off + n \in off..f.cap
BY DEF IsFrame, Has

\* A decoder that looks first is as its result says and all checks are passed, or it fails
\* where it is.
LEMMA CheckedCases ==
    ASSUME NEW checks, NEW off, NEW result
    PROVE  LET r == Checked(checks, off, result)
           IN  \/ r = result /\ \A i \in DOMAIN checks : checks[i][1]
               \/ ~r.ok /\ r.off = off
<1> DEFINE failed == {i \in DOMAIN checks : ~checks[i][1]}
<1>1. CASE failed = {}
  <2>1. \A i \in DOMAIN checks : checks[i][1]
    BY <1>1
  <2>2. Checked(checks, off, result) = result
    BY <1>1 DEF Checked
  <2> QED
    BY <2>1, <2>2
<1>2. CASE failed # {}
  <2>1. Checked(checks, off, result) = Failure(checks[Min(failed)][2], off)
    BY <1>2 DEF Checked
  <2> QED
    BY <2>1 DEF Failure
<1> QED
  BY <1>1, <1>2

\* What passes all checks is as the result says.
LEMMA CheckedPasses ==
    ASSUME NEW checks, NEW off, NEW result, \A i \in DOMAIN checks : checks[i][1]
    PROVE  Checked(checks, off, result) = result
<1>1. {i \in DOMAIN checks : ~checks[i][1]} = {}
  OBVIOUS
<1> QED
  BY <1>1 DEF Checked

\* It succeeds exactly when the checks are passed: with one check.
LEMMA Exactly1 ==
    ASSUME NEW off, NEW result, NEW a1, NEW x1
    PROVE  LET r == Checked(<< <<a1, x1>> >>, off, result)
           IN  \/ r = result /\ a1
               \/ ~r.ok /\ ~(a1)
<1> DEFINE checks == << <<a1, x1>> >>
           r == Checked(checks, off, result)
<1>1. DOMAIN checks = {1} /\ checks[1][1] = a1
  OBVIOUS
<1> HIDE DEF checks
<1>2. (\A i \in DOMAIN checks : checks[i][1]) <=> (a1)
  BY <1>1
<1>3. CASE \A i \in DOMAIN checks : checks[i][1]
  <2>1. r = result
    BY <1>3, CheckedPasses
  <2> HIDE DEF r
  <2>2. a1
    BY <1>2, <1>3
  <2> QED
    BY <2>1, <2>2 DEF r, checks
<1>4. CASE \E i \in DOMAIN checks : ~checks[i][1]
  <2>1. ~r.ok
    BY <1>4 DEF Checked, Failure
  <2> HIDE DEF r
  <2>2. ~(a1)
    BY <1>2, <1>4
  <2> QED
    BY <2>1, <2>2 DEF r, checks
<1> QED
  BY <1>3, <1>4

\* The same with two checks.
LEMMA Exactly2 ==
    ASSUME NEW off, NEW result, NEW a1, NEW x1, NEW a2, NEW x2
    PROVE  LET r == Checked(<< <<a1, x1>>, <<a2, x2>> >>, off, result)
           IN  \/ r = result /\ a1 /\ a2
               \/ ~r.ok /\ ~(a1 /\ a2)
<1> DEFINE checks == << <<a1, x1>>, <<a2, x2>> >>
           r == Checked(checks, off, result)
<1>1. DOMAIN checks = {1, 2} /\ checks[1][1] = a1 /\ checks[2][1] = a2
  OBVIOUS
<1> HIDE DEF checks
<1>2. (\A i \in DOMAIN checks : checks[i][1]) <=> (a1 /\ a2)
  BY <1>1
<1>3. CASE \A i \in DOMAIN checks : checks[i][1]
  <2>1. r = result
    BY <1>3, CheckedPasses
  <2> HIDE DEF r
  <2>2. a1 /\ a2
    BY <1>2, <1>3
  <2> QED
    BY <2>1, <2>2 DEF r, checks
<1>4. CASE \E i \in DOMAIN checks : ~checks[i][1]
  <2>1. ~r.ok
    BY <1>4 DEF Checked, Failure
  <2> HIDE DEF r
  <2>2. ~(a1 /\ a2)
    BY <1>2, <1>4
  <2> QED
    BY <2>1, <2>2 DEF r, checks
<1> QED
  BY <1>3, <1>4

\* The same with three.
LEMMA Exactly3 ==
    ASSUME NEW off, NEW result, NEW a1, NEW x1, NEW a2, NEW x2, NEW a3, NEW x3
    PROVE  LET r == Checked(<< <<a1, x1>>, <<a2, x2>>, <<a3, x3>> >>, off, result)
           IN  \/ r = result /\ a1 /\ a2 /\ a3
               \/ ~r.ok /\ ~(a1 /\ a2 /\ a3)
<1> DEFINE checks == << <<a1, x1>>, <<a2, x2>>, <<a3, x3>> >>
           r == Checked(checks, off, result)
<1>1. DOMAIN checks = {1, 2, 3} /\ checks[1][1] = a1 /\ checks[2][1] = a2 /\ checks[3][1] = a3
  OBVIOUS
<1> HIDE DEF checks
<1>2. (\A i \in DOMAIN checks : checks[i][1]) <=> (a1 /\ a2 /\ a3)
  BY <1>1
<1>3. CASE \A i \in DOMAIN checks : checks[i][1]
  <2>1. r = result
    BY <1>3, CheckedPasses
  <2> HIDE DEF r
  <2>2. a1 /\ a2 /\ a3
    BY <1>2, <1>3
  <2> QED
    BY <2>1, <2>2 DEF r, checks
<1>4. CASE \E i \in DOMAIN checks : ~checks[i][1]
  <2>1. ~r.ok
    BY <1>4 DEF Checked, Failure
  <2> HIDE DEF r
  <2>2. ~(a1 /\ a2 /\ a3)
    BY <1>2, <1>4
  <2> QED
    BY <2>1, <2>2 DEF r, checks
<1> QED
  BY <1>3, <1>4

\* What CheckedCases says, with one check.
LEMMA Checked1 ==
    ASSUME NEW off, NEW result, NEW a1, NEW x1
    PROVE  LET r == Checked(<< <<a1, x1>> >>, off, result)
           IN  \/ r = result /\ a1
               \/ ~r.ok /\ r.off = off
<1> DEFINE checks == << <<a1, x1>> >>
           r == Checked(checks, off, result)
<1>1. 1 \in DOMAIN checks
  OBVIOUS
<1>2. checks[1][1] = a1
  OBVIOUS
<1> HIDE DEF checks
<1>3. CASE r = result /\ \A i \in DOMAIN checks : checks[i][1]
  <2>1. a1
    BY <1>1, <1>2, <1>3
  <2> QED
    BY <1>3, <2>1 DEF checks
<1>4. \/ r = result /\ \A i \in DOMAIN checks : checks[i][1]
      \/ ~r.ok /\ r.off = off
  BY CheckedCases
<1> QED
  BY <1>3, <1>4 DEF checks

\* The same with two checks.
LEMMA Checked2 ==
    ASSUME NEW off, NEW result, NEW a1, NEW x1, NEW a2, NEW x2
    PROVE  LET r == Checked(<< <<a1, x1>>, <<a2, x2>> >>, off, result)
           IN  \/ r = result /\ a1 /\ a2
               \/ ~r.ok /\ r.off = off
<1> DEFINE checks == << <<a1, x1>>, <<a2, x2>> >>
           r == Checked(checks, off, result)
<1>1. 1 \in DOMAIN checks /\ 2 \in DOMAIN checks
  OBVIOUS
<1>2. checks[1][1] = a1 /\ checks[2][1] = a2
  OBVIOUS
<1> HIDE DEF checks
<1>3. CASE r = result /\ \A i \in DOMAIN checks : checks[i][1]
  <2>1. a1
    BY <1>1, <1>2, <1>3
  <2>2. a2
    BY <1>1, <1>2, <1>3
  <2> QED
    BY <1>3, <2>1, <2>2 DEF checks
<1>4. \/ r = result /\ \A i \in DOMAIN checks : checks[i][1]
      \/ ~r.ok /\ r.off = off
  BY CheckedCases
<1> QED
  BY <1>3, <1>4 DEF checks

\* The same with three.
LEMMA Checked3 ==
    ASSUME NEW off, NEW result, NEW a1, NEW x1, NEW a2, NEW x2, NEW a3, NEW x3
    PROVE  LET r == Checked(<< <<a1, x1>>, <<a2, x2>>, <<a3, x3>> >>, off, result)
           IN  \/ r = result /\ a1 /\ a2 /\ a3
               \/ ~r.ok /\ r.off = off
<1> DEFINE checks == << <<a1, x1>>, <<a2, x2>>, <<a3, x3>> >>
           r == Checked(checks, off, result)
<1>1. 1 \in DOMAIN checks /\ 2 \in DOMAIN checks /\ 3 \in DOMAIN checks
  OBVIOUS
<1>2. checks[1][1] = a1 /\ checks[2][1] = a2 /\ checks[3][1] = a3
  OBVIOUS
<1> HIDE DEF checks
<1>3. CASE r = result /\ \A i \in DOMAIN checks : checks[i][1]
  <2>1. a1
    BY <1>1, <1>2, <1>3
  <2>2. a2
    BY <1>1, <1>2, <1>3
  <2>3. a3
    BY <1>1, <1>2, <1>3
  <2> QED
    BY <1>3, <2>1, <2>2, <2>3 DEF checks
<1>4. \/ r = result /\ \A i \in DOMAIN checks : checks[i][1]
      \/ ~r.ok /\ r.off = off
  BY CheckedCases
<1> QED
  BY <1>3, <1>4 DEF checks

\* The same with four.
LEMMA Checked4 ==
    ASSUME NEW off, NEW result, NEW a1, NEW x1, NEW a2, NEW x2, NEW a3, NEW x3, NEW a4, NEW x4
    PROVE  LET r == Checked(<< <<a1, x1>>, <<a2, x2>>, <<a3, x3>>, <<a4, x4>> >>, off, result)
           IN  \/ r = result /\ a1 /\ a2 /\ a3 /\ a4
               \/ ~r.ok /\ r.off = off
<1> DEFINE checks == << <<a1, x1>>, <<a2, x2>>, <<a3, x3>>, <<a4, x4>> >>
           r == Checked(checks, off, result)
<1>1. 1 \in DOMAIN checks /\ 2 \in DOMAIN checks /\ 3 \in DOMAIN checks /\ 4 \in DOMAIN checks
  OBVIOUS
<1>2. checks[1][1] = a1 /\ checks[2][1] = a2 /\ checks[3][1] = a3 /\ checks[4][1] = a4
  OBVIOUS
<1> HIDE DEF checks
<1>3. CASE r = result /\ \A i \in DOMAIN checks : checks[i][1]
  <2>1. a1
    BY <1>1, <1>2, <1>3
  <2>2. a2
    BY <1>1, <1>2, <1>3
  <2>3. a3
    BY <1>1, <1>2, <1>3
  <2>4. a4
    BY <1>1, <1>2, <1>3
  <2> QED
    BY <1>3, <2>1, <2>2, <2>3, <2>4 DEF checks
<1>4. \/ r = result /\ \A i \in DOMAIN checks : checks[i][1]
      \/ ~r.ok /\ r.off = off
  BY CheckedCases
<1> QED
  BY <1>3, <1>4 DEF checks

\* What can be read.
Readable(f) == {Filler} \cup {f.hs[i] : i \in DOMAIN f.hs}

LEMMA ReadableSizes ==
    ASSUME NEW f, IsFrame(f), NEW h \in Readable(f)
    PROVE  h.len \in Nat
<1>1. Filler.len = 0
  BY DEF Filler
<1>2. \A i \in DOMAIN f.hs : f.hs[i].len \in Nat
  BY DEF IsFrame, WellFormed
<1> QED
  BY <1>1, <1>2 DEF Readable

\* What is read is filler, or a header of that kind that begins there.
LEMMA ReadFacts ==
    ASSUME NEW f, IsFrame(f), NEW off, NEW kind
    PROVE  LET h == Read(f, off, kind)
           IN  /\ h \in Readable(f)
               /\ \/ h = Filler
                  \/ h.kind = kind /\ h.at = off /\ WellFormed(h)
<1> DEFINE here == {i \in DOMAIN f.hs : f.hs[i].kind = kind /\ f.hs[i].at = off}
<1>1. CASE here = {}
  BY <1>1 DEF Read, Readable
<1>2. CASE here # {}
  <2>1. PICK i \in here : Read(f, off, kind) = f.hs[i]
    BY <1>2 DEF Read
  <2> QED
    BY <2>1 DEF IsFrame, Readable
<1> QED
  BY <1>1, <1>2

\* Where a size is read it is a number, in filler as in a header.
LEMMA ReadSizes ==
    ASSUME NEW f, IsFrame(f), NEW off
    PROVE  /\ Read(f, off, "ipv4").ihl \in Nat
           /\ Read(f, off, "tcp").dataOffset \in Nat
           /\ IsFiniteSet(Read(f, off, "gre").flags)
           /\ Read(f, off, "tokenring").routingLen \in Nat
           /\ Read(f, off, "radiotap").radiotapLen \in Nat
           /\ Read(f, off, "rtcp").words \in Nat
           /\ \A kind \in {"stun", "dtls", "tls", "bgp", "tpkt", "asn1"} : Read(f, off, kind).length \in Nat
           /\ \A kind : Read(f, off, kind).len \in Nat
           /\ \A kind \in {"dns", "nbns"} : \E n \in Nat : DOMAIN Read(f, off, kind).entries = 1..n
<1>1. /\ Filler.kind = "filler" /\ Filler.len = 0 /\ Filler.ihl = 0 /\ Filler.dataOffset = 5 /\ Filler.flags = {}
      /\ Filler.routingLen = 16 /\ Filler.radiotapLen = 20560 /\ Filler.words = 20560
      /\ Filler.length = 20560
  BY DEF Filler
<1>2. Read(f, off, "ipv4").ihl \in Nat
  <2> DEFINE h == Read(f, off, "ipv4")
  <2>1. h = Filler \/ (h.kind = "ipv4" /\ WellFormed(h))
    BY ReadFacts
  <2> QED
    BY <1>1, <2>1 DEF WellFormed
<1>3. Read(f, off, "tcp").dataOffset \in Nat
  <2> DEFINE h == Read(f, off, "tcp")
  <2>1. h = Filler \/ (h.kind = "tcp" /\ WellFormed(h))
    BY ReadFacts
  <2> QED
    BY <1>1, <2>1 DEF WellFormed
<1>4. Read(f, off, "tokenring").routingLen \in Nat
  <2> DEFINE h == Read(f, off, "tokenring")
  <2>1. h = Filler \/ (h.kind = "tokenring" /\ WellFormed(h))
    BY ReadFacts
  <2> QED
    BY <1>1, <2>1 DEF WellFormed
<1>5. Read(f, off, "radiotap").radiotapLen \in Nat
  <2> DEFINE h == Read(f, off, "radiotap")
  <2>1. h = Filler \/ (h.kind = "radiotap" /\ WellFormed(h))
    BY ReadFacts
  <2> QED
    BY <1>1, <2>1 DEF WellFormed
<1>6. Read(f, off, "rtcp").words \in Nat
  <2> DEFINE h == Read(f, off, "rtcp")
  <2>1. h = Filler \/ (h.kind = "rtcp" /\ WellFormed(h))
    BY ReadFacts
  <2> QED
    BY <1>1, <2>1 DEF WellFormed
<1>7. IsFiniteSet(Read(f, off, "gre").flags)
  <2> DEFINE h == Read(f, off, "gre")
  <2>1. h = Filler \/ (h.kind = "gre" /\ WellFormed(h))
    BY ReadFacts
  <2>2. h.flags = {} \/ IsFiniteSet(h.flags)
    BY <1>1, <2>1 DEF WellFormed
  <2>3. IsFiniteSet({})
    BY FS_EmptySet
  <2> QED
    BY <2>2, <2>3, Zenon
<1>8. ASSUME NEW kind \in {"stun", "dtls", "tls", "bgp", "tpkt", "asn1"}
       PROVE  Read(f, off, kind).length \in Nat
  <2> DEFINE h == Read(f, off, kind)
  <2>1. h = Filler \/ (h.kind = kind /\ WellFormed(h))
    BY ReadFacts
  <2>2. h.kind = kind /\ WellFormed(h) => h.length \in Nat
    BY DEF WellFormed
  <2> QED
    BY <1>1, <2>1, <2>2
<1>9. ASSUME NEW kind
       PROVE  Read(f, off, kind).len \in Nat
  <2> DEFINE h == Read(f, off, kind)
  <2>1. h = Filler \/ (h.kind = kind /\ WellFormed(h))
    BY ReadFacts
  <2> QED
    BY <1>1, <2>1 DEF WellFormed
<1>10. ASSUME NEW kind \in {"dns", "nbns"}
       PROVE  \E n \in Nat : DOMAIN Read(f, off, kind).entries = 1..n
  <2> DEFINE h == Read(f, off, kind)
  <2>1. h = Filler \/ (h.kind = kind /\ WellFormed(h))
    BY ReadFacts
  <2>2. h.kind = kind /\ WellFormed(h) => h.entries \in Seq(STRING)
    BY DEF WellFormed
  <2>3. h.entries \in Seq(STRING) => Len(h.entries) \in Nat /\ DOMAIN h.entries = 1..Len(h.entries)
    OBVIOUS
  <2>4. DOMAIN Filler.entries = 1..4
    BY DEF Filler
  <2> HIDE DEF h
  <2> QED
    BY <2>1, <2>2, <2>3, <2>4 DEF h
<1> QED
  BY <1>2, <1>3, <1>4, <1>5, <1>6, <1>7, <1>8, <1>9, <1>10

-----------------------------------------------------------------------------
(* Link, network, transport and tunnel headers. Also where they fail the   *)
(* offset is inside: a tunnel goes on from there.                          *)

\* A header of a fixed size.
LEMMA FixedBounds ==
    ASSUME NEW f, IsFrame(f), NEW off \in 0..f.cap, NEW kind, NEW size \in Nat
    PROVE  Fixed(f, off, kind, size).off \in off..f.cap
<1>1. Has(f, off, size) => Success(Read(f, off, kind), off + size).off \in off..f.cap
  BY Here DEF Success
<1> QED
  BY <1>1, Here, Checked1 DEF Fixed

LEMMA MplsBounds ==
    ASSUME NEW f, IsFrame(f), NEW off \in 0..f.cap
    PROVE  decodeMpls(f, off).off \in off..f.cap
<1> DEFINE entries == (f.cap - off) \div 4
           bottom == {k \in 1..entries : Read(f, off + 4 * (k - 1), "mpls").bottomOfStack}
<1>1. entries \in Nat /\ \A k \in 0..entries : off + 4 * k \in off..f.cap
  BY Here
<1>2. CASE bottom = {}
  BY <1>1, <1>2 DEF decodeMpls, Failure
<1>3. CASE bottom # {}
  <2> DEFINE least == Min(bottom)
  <2>1. least \in bottom
    <3>1. bottom \subseteq Nat
      BY <1>1
    <3> QED
      BY <1>3, <3>1, MinIsLeast
  <2>2. decodeMpls(f, off).off = off + 4 * least
    BY <1>3 DEF decodeMpls, Success
  <2>3. least \in 0..entries
    BY <1>1, <2>1
  <2> HIDE DEF least, entries
  <2> QED
    BY <1>1, <2>2, <2>3
<1> QED
  BY <1>2, <1>3

LEMMA IPv4Bounds ==
    ASSUME NEW f, IsFrame(f), NEW off \in 0..f.cap
    PROVE  decodeIPv4(f, off).off \in off..f.cap
<1> DEFINE h == Read(f, off, "ipv4")
<1>1. h.ihl \in Nat
  BY ReadSizes
<1>2. Has(f, off, 4 * h.ihl) => Success(h, off + 4 * h.ihl).off \in off..f.cap
  BY <1>1, Here DEF Success
<1> QED
  BY <1>2, Here, Checked4 DEF decodeIPv4

LEMMA IPv6Bounds ==
    ASSUME NEW f, IsFrame(f), NEW off \in 0..f.cap
    PROVE  decodeIPv6(f, off).off \in off..f.cap
<1>1. Has(f, off, 40) => Success(Read(f, off, "ipv6"), off + 40).off \in off..f.cap
  BY Here DEF Success
<1> QED
  BY <1>1, Here, Checked2 DEF decodeIPv6

LEMMA TcpBounds ==
    ASSUME NEW f, IsFrame(f), NEW off \in 0..f.cap
    PROVE  decodeTcp(f, off).off \in off..f.cap
<1> DEFINE h == Read(f, off, "tcp")
<1>1. h.dataOffset \in Nat
  BY ReadSizes
<1>2. Has(f, off, 4 * h.dataOffset) => Success(h, off + 4 * h.dataOffset).off \in off..f.cap
  BY <1>1, Here DEF Success
<1> QED
  BY <1>2, Here, Checked3 DEF decodeTcp

LEMMA GreBounds ==
    ASSUME NEW f, IsFrame(f), NEW off \in 0..f.cap
    PROVE  decodeGre(f, off).off \in off..f.cap
<1> DEFINE h == Read(f, off, "gre")
           size == 4 + 4 * Cardinality(h.flags)
<1>1. IsFiniteSet(h.flags)
  BY ReadSizes
<1>2. size \in Nat
  BY <1>1, FS_CardinalityType
<1>3. Has(f, off, size) => Success(h, off + size).off \in off..f.cap
  BY <1>2, Here DEF Success
<1> QED
  BY <1>3, Here, Checked2 DEF decodeGre

\* Of GTP the fixed part is passed over also where the options are cut.
LEMMA GtpBounds ==
    ASSUME NEW f, IsFrame(f), NEW off \in 0..f.cap
    PROVE  decodeGtp(f, off).off \in off..f.cap
<1> DEFINE h == Read(f, off, "gtp")
           size == IF h.flags = {} THEN 8 ELSE 12
<1>1. CASE ~Has(f, off, 8)
  BY <1>1, Here DEF decodeGtp, Failure
<1>2. CASE Has(f, off, 8)
  <2>1. off + 8 \in off..f.cap
    BY <1>2, Here
  <2>2. Has(f, off, size) => Success(h, off + size).off \in off..f.cap
    BY Here DEF Success
  <2>3. decodeGtp(f, off) = Checked(<< <<Has(f, off, size), "TruncatedHeader">> >>, off + 8,
                                    Success(h, off + size))
    BY <1>2 DEF decodeGtp
  <2> QED
    BY <2>1, <2>2, <2>3, Checked1
<1> QED
  BY <1>1, <1>2

LEMMA IcmpBounds ==
    ASSUME NEW f, IsFrame(f), NEW off \in 0..f.cap
    PROVE  decodeIcmp(f, off).off \in off..f.cap /\ decodeIcmpv6(f, off).off \in off..f.cap
<1>1. \A h : Has(f, off, 8) => Success(h, off + 8).off \in off..f.cap
  BY Here DEF Success
<1>2. decodeIcmp(f, off).off \in off..f.cap
  BY <1>1, Here, Checked1 DEF decodeIcmp
<1>3. decodeIcmpv6(f, off).off \in off..f.cap
  BY <1>1, Here, Checked1 DEF decodeIcmpv6
<1> QED
  BY <1>2, <1>3

\* What has a length that is clamped to the capture.
LEMMA ClampedBounds ==
    ASSUME NEW f, IsFrame(f), NEW off \in 0..f.cap, NEW n \in Nat
    PROVE  Min({off + n, f.cap}) \in off..f.cap
BY Here, MinOfTwo

\* Of the transports there are six.
LEMMA TransportBounds ==
    ASSUME NEW f, IsFrame(f), NEW off \in 0..f.cap, NEW protocol \in Transports
    PROVE  decodeTransport(f, off, protocol).off \in off..f.cap
<1>1. CASE protocol = "TCP"
  BY <1>1, TcpBounds DEF decodeTransport
<1>2. CASE protocol = "UDP"
  BY <1>2, FixedBounds DEF decodeTransport, decodeUdp
<1>3. CASE protocol = "ICMP"
  BY <1>3, IcmpBounds DEF decodeTransport
<1>4. CASE protocol = "ICMPv6"
  BY <1>4, IcmpBounds DEF decodeTransport
<1>5. CASE protocol = "IGMP"
  BY <1>5, FixedBounds DEF decodeTransport, decodeIgmp
<1>6. CASE protocol = "ESP"
  BY <1>6, FixedBounds DEF decodeTransport, decodeEsp
<1> QED
  BY <1>1, <1>2, <1>3, <1>4, <1>5, <1>6 DEF Transports

LEMMA IpBounds ==
    ASSUME NEW f, IsFrame(f), NEW off \in 0..f.cap, NEW version
    PROVE  decodeIp(f, off, version).off \in off..f.cap
BY IPv4Bounds, IPv6Bounds DEF decodeIp

-----------------------------------------------------------------------------
(* The other link layers. Where they fail the frame is refused, so that    *)
(* from here on only the offset of a success is of interest.               *)

Bounded(r, f, off) == r.ok => r.off \in off..f.cap

\* What begins further on is bounded from here, too.
LEMMA Later ==
    ASSUME NEW f, IsFrame(f), NEW off \in 0..f.cap, NEW at \in off..f.cap
    PROVE  at \in 0..f.cap /\ \A r : Bounded(r, f, at) => Bounded(r, f, off)
BY DEF Bounded, IsFrame

\* What is reported where so many bytes are left.
LEMMA SuccessBounded ==
    ASSUME NEW f, IsFrame(f), NEW off \in 0..f.cap, NEW n \in Nat, Has(f, off, n), NEW hdr
    PROVE  Bounded(Success(hdr, off + n), f, off)
BY Here DEF Success, Bounded

LEMMA FailureBounded ==
    ASSUME NEW f, NEW off, NEW error, NEW at
    PROVE  Bounded(Failure(error, at), f, off)
BY DEF Failure, Bounded

\* Of a decoder that looks first only the result counts, with what it has looked at.
LEMMA CheckedBounded ==
    ASSUME NEW f, NEW off, NEW at, NEW result
    PROVE  /\ \A a1, x1 :
                 (a1 => Bounded(result, f, off)) =>
                 Bounded(Checked(<< <<a1, x1>> >>, at, result), f, off)
           /\ \A a1, x1, a2, x2 :
                 (a1 /\ a2 => Bounded(result, f, off)) =>
                 Bounded(Checked(<< <<a1, x1>>, <<a2, x2>> >>, at, result), f, off)
           /\ \A a1, x1, a2, x2, a3, x3 :
                 (a1 /\ a2 /\ a3 => Bounded(result, f, off)) =>
                 Bounded(Checked(<< <<a1, x1>>, <<a2, x2>>, <<a3, x3>> >>, at, result), f, off)
<1>1. ASSUME NEW a1, NEW x1, a1 => Bounded(result, f, off)
      PROVE  Bounded(Checked(<< <<a1, x1>> >>, at, result), f, off)
  BY <1>1, Checked1 DEF Bounded
<1>2. ASSUME NEW a1, NEW x1, NEW a2, NEW x2, a1 /\ a2 => Bounded(result, f, off)
      PROVE  Bounded(Checked(<< <<a1, x1>>, <<a2, x2>> >>, at, result), f, off)
  BY <1>2, Checked2 DEF Bounded
<1>3. ASSUME NEW a1, NEW x1, NEW a2, NEW x2, NEW a3, NEW x3, a1 /\ a2 /\ a3 => Bounded(result, f, off)
      PROVE  Bounded(Checked(<< <<a1, x1>>, <<a2, x2>>, <<a3, x3>> >>, at, result), f, off)
  BY <1>3, Checked3 DEF Bounded
<1> QED
  BY <1>1, <1>2, <1>3

LEMMA LlcBounded ==
    ASSUME NEW f, IsFrame(f), NEW off \in 0..f.cap, NEW hasMacs, NEW wifi
    PROVE  Bounded(ThroughLlc(f, off, hasMacs, wifi), f, off)
<1> DEFINE llc == decodeLlcSnap(f, off)
<1>1. Bounded(llc, f, off)
  <2>1. Has(f, off, 8) => Bounded(Success(Read(f, off, "llc"), off + 8), f, off)
    BY SuccessBounded
  <2> QED
    BY <2>1, CheckedBounded DEF decodeLlcSnap
<1> HIDE DEF llc
<1>2. CASE llc.ok
  BY <1>1, <1>2 DEF ThroughLlc, Bounded, Success, llc
<1>3. CASE ~llc.ok
  BY <1>3 DEF ThroughLlc, Bounded, llc
<1> QED
  BY <1>2, <1>3

LEMMA BsdNullBounded ==
    ASSUME NEW f, IsFrame(f), NEW off \in 0..f.cap
    PROVE  Bounded(decodeBsdNull(f, off), f, off)
<1>1. \A hdr : Has(f, off, 4) => Bounded(Success(hdr, off + 4), f, off)
  BY SuccessBounded
<1> QED
  BY <1>1, FailureBounded DEF decodeBsdNull

LEMMA EthernetDltBounded ==
    ASSUME NEW f, IsFrame(f), NEW off \in 0..f.cap
    PROVE  Bounded(decodeEthernetDlt(f, off), f, off)
<1> DEFINE eth == decodeEthernet(f, off)
<1>1. eth.off \in off..f.cap
  BY FixedBounds DEF decodeEthernet
<1> HIDE DEF eth
<1> QED
  BY <1>1 DEF decodeEthernetDlt, Bounded, Success, eth

LEMMA RawIpBounded ==
    ASSUME NEW f, IsFrame(f), NEW off \in 0..f.cap
    PROVE  Bounded(decodeRawIp(f, off), f, off)
<1>1. \A hdr : Bounded(Success(hdr, off), f, off)
  BY Here DEF Success, Bounded
<1> QED
  BY <1>1, CheckedBounded DEF decodeRawIp

LEMMA PppBounded ==
    ASSUME NEW f, IsFrame(f), NEW off \in 0..f.cap
    PROVE  Bounded(decodePpp(f, off), f, off)
<1>1. \A hdr : \A n \in Nat : Has(f, off, n) => Bounded(Success(hdr, off + n), f, off)
  BY SuccessBounded
<1> DEFINE h == Read(f, off, "ppp")
           start == IF h.addressControl /\ Has(f, off, 2) THEN 2 ELSE 0
           alone == h.addressControl /\ start = 0
           size == start + (IF h.short \/ alone THEN 1 ELSE 2)
           known == h.protocol \in {"IPv4", "IPv6"} /\ ~alone
<1>2. size \in Nat
  <2>1. start \in Nat
    OBVIOUS
  <2> HIDE DEF start, h
  <2> QED
    BY <2>1
<1>3. decodePpp(f, off) = IF ~Has(f, off, size) THEN Failure("TruncatedHeader", off)
                          ELSE IF ~known THEN Failure("UnsupportedProtocol", off + size)
                          ELSE Success(Link(h.protocol, FALSE, FALSE), off + size)
  BY DEF decodePpp
<1> HIDE DEF size, known
<1> QED
  BY <1>1, <1>2, <1>3, FailureBounded

LEMMA SllBounded ==
    ASSUME NEW f, IsFrame(f), NEW off \in 0..f.cap
    PROVE  Bounded(decodeLinuxSll(f, off), f, off) /\ Bounded(decodeLinuxSll2(f, off), f, off)
<1>1. \A hdr : \A n \in Nat : Has(f, off, n) => Bounded(Success(hdr, off + n), f, off)
  BY SuccessBounded
<1> QED
  BY <1>1, CheckedBounded DEF decodeLinuxSll, decodeLinuxSll2

LEMMA TokenRingBounded ==
    ASSUME NEW f, IsFrame(f), NEW off \in 0..f.cap
    PROVE  Bounded(decodeTokenRing(f, off), f, off)
<1> DEFINE h == Read(f, off, "tokenring")
           routing == IF h.sourceRouting THEN h.routingLen ELSE 0
           routed == Has(f, off + 14, 2) /\ routing >= 2 /\ Has(f, off + 14, routing)
           at == off + 14 + routing
<1>1. routing \in Nat
  BY ReadSizes
<1>2. decodeTokenRing(f, off) = IF ~Has(f, off, 14) THEN Failure("TruncatedHeader", off)
                                ELSE IF h.sourceRouting /\ ~routed THEN Failure("TruncatedHeader", off + 14)
                                ELSE ThroughLlc(f, at, TRUE, FALSE)
  BY DEF decodeTokenRing
<1>3. CASE Has(f, off, 14) /\ ~(h.sourceRouting /\ ~routed)
  <2>1. at \in off..f.cap
    <3>1. routing = 0 \/ Has(f, off + 14, routing)
      BY <1>3
    <3> HIDE DEF routing
    <3> QED
      BY <1>1, <1>3, <3>1, Here DEF Has
  <2> HIDE DEF at
  <2>2. Bounded(ThroughLlc(f, at, TRUE, FALSE), f, at)
    BY <2>1, LlcBounded, Later
  <2> QED
    BY <1>2, <1>3, <2>1, <2>2, Later
<1>4. CASE ~Has(f, off, 14) \/ (h.sourceRouting /\ ~routed)
  BY <1>2, <1>4, FailureBounded
<1> QED
  BY <1>3, <1>4

LEMMA FddiBounded ==
    ASSUME NEW f, IsFrame(f), NEW off \in 0..f.cap
    PROVE  Bounded(decodeFddi(f, off), f, off)
<1>1. CASE Has(f, off, 13)
  <2> DEFINE at == off + 13
  <2>1. at \in off..f.cap
    BY <1>1, Here
  <2> HIDE DEF at
  <2>2. Bounded(ThroughLlc(f, at, TRUE, FALSE), f, at)
    BY <2>1, LlcBounded, Later
  <2>3. Bounded(ThroughLlc(f, at, TRUE, FALSE), f, off)
    BY <2>1, <2>2, Later
  <2> QED
    BY <1>1, <2>3 DEF decodeFddi, at
<1>2. CASE ~Has(f, off, 13)
  BY <1>2, FailureBounded DEF decodeFddi
<1> QED
  BY <1>1, <1>2

LEMMA WifiBounded ==
    ASSUME NEW f, IsFrame(f), NEW off \in 0..f.cap
    PROVE  Bounded(decodeWifi(f, off), f, off)
<1> DEFINE h == Read(f, off, "wifi")
           size == WifiHeaderSize(h)
<1>1. size \in Nat
  BY DEF WifiHeaderSize
<1> HIDE DEF size
<1>2. CASE Has(f, off, 10) /\ Has(f, off, size)
  <2> DEFINE at == off + size
  <2>1. at \in off..f.cap
    BY <1>1, <1>2, Here
  <2>2. Bounded(Success(Link("0", FALSE, TRUE), at), f, off)
    BY <1>1, <1>2, SuccessBounded
  <2> HIDE DEF at
  <2>3. Bounded(ThroughLlc(f, at, FALSE, TRUE), f, at)
    BY <2>1, LlcBounded, Later
  <2>4. Bounded(ThroughLlc(f, at, FALSE, TRUE), f, off)
    BY <2>1, <2>3, Later
  <2> QED
    BY <1>2, <2>2, <2>4 DEF decodeWifi, size, at
<1>3. CASE ~(Has(f, off, 10) /\ Has(f, off, size))
  BY <1>3, FailureBounded DEF decodeWifi, size
<1> QED
  BY <1>2, <1>3

LEMMA RadiotapBounded ==
    ASSUME NEW f, IsFrame(f), NEW off \in 0..f.cap
    PROVE  Bounded(decodeRadiotap(f, off), f, off)
<1> DEFINE h == Read(f, off, "radiotap")
           found == Has(f, off, 8) /\ h.radiotapLen >= 8 /\ Has(f, off, h.radiotapLen)
<1>1. h.radiotapLen \in Nat
  BY ReadSizes
<1>2. CASE found
  <2> DEFINE at == off + h.radiotapLen
  <2>1. at \in off..f.cap
    BY <1>1, <1>2, Here
  <2> HIDE DEF at
  <2>2. Bounded(decodeWifi(f, at), f, at)
    BY <2>1, WifiBounded, Later
  <2>3. Bounded(decodeWifi(f, at), f, off)
    BY <2>1, <2>2, Later
  <2> QED
    BY <1>2, <2>3 DEF decodeRadiotap, at
<1>3. CASE ~found
  BY <1>3, FailureBounded DEF decodeRadiotap
<1> QED
  BY <1>2, <1>3

LEMMA DataLinkBounded ==
    ASSUME NEW f, IsFrame(f)
    PROVE  Bounded(resolveDataLink(f), f, 0)
<1>1. 0 \in 0..f.cap
  BY DEF IsFrame
<1>2. /\ Bounded(decodeBsdNull(f, 0), f, 0) /\ Bounded(decodeEthernetDlt(f, 0), f, 0)
      /\ Bounded(decodeRawIp(f, 0), f, 0) /\ Bounded(decodePpp(f, 0), f, 0)
      /\ Bounded(decodeLinuxSll(f, 0), f, 0) /\ Bounded(decodeLinuxSll2(f, 0), f, 0)
      /\ Bounded(decodeTokenRing(f, 0), f, 0) /\ Bounded(decodeFddi(f, 0), f, 0)
      /\ Bounded(decodeWifi(f, 0), f, 0) /\ Bounded(decodeRadiotap(f, 0), f, 0)
  BY <1>1, BsdNullBounded, EthernetDltBounded, RawIpBounded, PppBounded, SllBounded,
     TokenRingBounded, FddiBounded, WifiBounded, RadiotapBounded
<1> QED
  BY <1>2, FailureBounded DEF resolveDataLink

-----------------------------------------------------------------------------
(* Folds over a sequence: the value of a set of its places is made from    *)
(* that of the set without the last one. The context has the sequence and  *)
(* the value to begin with.                                                *)

FoldPlaces(c) == SUBSET DOMAIN c.seq
FoldMore(c, S) == S # {}
FoldNext(c, S) == S \ {Max(S)}
FoldLast(c, S) == c.base

\* A set of places that is not empty has a greatest one.
LEMMA MaxIsGreatest ==
    ASSUME NEW n \in Nat, NEW S, S \subseteq 0..n, S # {}
    PROVE  Max(S) \in S /\ \A x \in S : x <= Max(S)
<1> DEFINE Mirror == {n - x : x \in S}
<1>1. Mirror \subseteq Nat /\ Mirror # {}
  <2>1. \A x \in S : n - x \in Nat
    OBVIOUS
  <2>2. \E x \in S : n - x \in Mirror
    OBVIOUS
  <2> QED
    BY <2>1, <2>2
<1>2. PICK m \in Mirror : \A y \in Mirror : m <= y
  <2> HIDE DEF Mirror
  <2> QED
    BY <1>1, MinIsLeast
<1>3. PICK x \in S : m = n - x
  BY <1>2
<1>4. \A y \in S : x >= y
  <2> TAKE y \in S
  <2>1. n - y \in Mirror
    OBVIOUS
  <2>2. m <= n - y
    BY <1>2, <2>1
  <2>3. x \in Nat /\ y \in Nat
    OBVIOUS
  <2> HIDE DEF Mirror
  <2> QED
    BY <1>3, <2>2, <2>3
<1>5. Max(S) \in S /\ \A y \in S : Max(S) >= y
  <2>1. \E z \in S : \A y \in S : z >= y
    BY <1>4
  <2> QED
    BY <2>1 DEF Max
<1> QED
  BY <1>5

\* Each place leads to one with fewer elements.
FoldRank(c) == [S \in FoldPlaces(c) |-> Cardinality(S)]

LEMMA FoldDescends ==
    ASSUME NEW c, NEW n \in Nat, DOMAIN c.seq = 1..n, NEW S \in FoldPlaces(c)
    PROVE  /\ FoldRank(c)[S] \in Nat
           /\ FoldMore(c, S) => /\ FoldNext(c, S) \in FoldPlaces(c)
                                /\ FoldRank(c)[FoldNext(c, S)] < FoldRank(c)[S]
                                /\ Max(S) \in DOMAIN c.seq
<1>1. IsFiniteSet(1..n) /\ S \in SUBSET (1..n)
  BY FS_Interval DEF FoldPlaces
<1>2. IsFiniteSet(S)
  BY <1>1, FS_Subset
<1>3. FoldRank(c)[S] = Cardinality(S) /\ Cardinality(S) \in Nat
  BY <1>2, FS_CardinalityType DEF FoldRank
<1>4. ASSUME S # {}
      PROVE  /\ FoldNext(c, S) \in FoldPlaces(c)
             /\ FoldRank(c)[FoldNext(c, S)] < FoldRank(c)[S]
             /\ Max(S) \in DOMAIN c.seq
  <2> DEFINE x == Max(S)
  <2>1. x \in S
    <3>1. S \subseteq 0..n
      BY <1>1
    <3> QED
      BY <1>4, <3>1, MaxIsGreatest
  <2> HIDE DEF x
  <2>2. S \ {x} \in FoldPlaces(c)
    BY DEF FoldPlaces
  <2>3. Cardinality(S \ {x}) = Cardinality(S) - 1
    BY <1>2, <2>1, FS_RemoveElement
  <2>4. FoldRank(c)[S \ {x}] = Cardinality(S \ {x})
    BY <2>2 DEF FoldRank
  <2> QED
    BY <1>1, <1>3, <2>1, <2>2, <2>3, <2>4 DEF FoldNext, FoldPlaces, x
<1> QED
  BY <1>3, <1>4 DEF FoldMore

-----------------------------------------------------------------------------
(* The sizes of items in a row                                             *)

\* The sums that Total is made of.
LEMMA SumsExist ==
    ASSUME NEW sizes \in Seq(Nat)
    PROVE  \E sum : /\ Sums!IsRecursion([sizes |-> sizes], sum)
                    /\ sum[0] = 0
                    /\ \A i \in 1..Len(sizes) : sum[i] = sum[i - 1] + sizes[i]
                    /\ \A i \in 0..Len(sizes) : sum[i] \in Nat
                    /\ Total(sizes) = sum[Len(sizes)]
<1> DEFINE n == Len(sizes)
           c == [sizes |-> sizes, sets |-> [i \in 0..n |-> Nat]]
           rank == [i \in 0..n |-> i]
           sum == CHOOSE g : Sums!IsRecursion(c, g)
<1>1. n \in Nat /\ c.sizes = sizes /\ SumPlaces(c) = 0..n /\ \A i \in 0..n : c.sets[i] = Nat
  BY DEF SumPlaces
<1> HIDE DEF c
<1>2. Sums!Descends(c, rank)
  <2> HIDE DEF n
  <2> QED
    BY <1>1 DEF Sums!Descends, SumMore, SumNext
<1>3. \A i \in SumPlaces(c) : ~SumMore(c, i) => SumIn(c, i, SumLast(c, i))
  BY <1>1 DEF SumIn, SumLast
<1>4. ASSUME NEW i \in SumPlaces(c), NEW v, SumMore(c, i), SumIn(c, SumNext(c, i), v)
      PROVE  SumIn(c, i, SumJoin(c, i, v))
  <2>1. i \in 1..n /\ i - 1 \in 0..n
    BY <1>1, <1>4 DEF SumMore
  <2>2. v \in Nat /\ sizes[i] \in Nat
    BY <1>1, <1>4, <2>1 DEF SumIn, SumNext
  <2>3. c.sets[i] = Nat /\ c.sizes[i] = sizes[i]
    BY <1>1, <2>1
  <2>4. SumJoin(c, i, v) \in Nat
    BY <2>2, <2>3 DEF SumJoin
  <2> QED
    BY <2>3, <2>4 DEF SumIn
<1>5. Sums!IsRecursion(c, sum) /\ \A i \in SumPlaces(c) : SumIn(c, i, sum[i])
  BY <1>2, <1>3, <1>4, Sums!RankedChoice
<1>6. \A g : /\ Sums!IsRecursion(c, g) <=> g = [i \in 0..n |-> IF i = 0 THEN 0 ELSE g[i - 1] + sizes[i]]
             /\ Sums!IsRecursion([sizes |-> sizes], g) <=> g = [i \in 0..n |-> IF i = 0 THEN 0 ELSE g[i - 1] + sizes[i]]
  BY <1>1 DEF Sums!IsRecursion, SumPlaces, SumMore, SumNext, SumLast, SumJoin
<1>7. Total(sizes) = (CHOOSE g : g = [i \in 0..n |-> IF i = 0 THEN 0 ELSE g[i - 1] + sizes[i]])[n]
  BY DEF Total
<1>8. Total(sizes) = sum[n]
  BY <1>6, <1>7
<1> HIDE DEF sum
<1>9. sum = [i \in 0..n |-> IF i = 0 THEN 0 ELSE sum[i - 1] + sizes[i]]
  BY <1>5, <1>6
<1>10. sum[0] = 0 /\ \A i \in 1..n : sum[i] = sum[i - 1] + sizes[i]
  <2> HIDE DEF n
  <2> QED
    BY <1>1, <1>9
<1>11. \A i \in 0..n : sum[i] \in Nat
  BY <1>1, <1>5 DEF SumIn
<1> QED
  BY <1>5, <1>6, <1>8, <1>10, <1>11

LEMMA TotalOfNone == Total(<<>>) = 0
<1>1. <<>> \in Seq(Nat) /\ Len(<<>>) = 0
  OBVIOUS
<1> QED
  BY <1>1, SumsExist

\* The first size can be taken off.
LEMMA TotalOfMore ==
    ASSUME NEW sizes \in Seq(Nat), NEW a \in Nat
    PROVE  Total(sizes) \in Nat /\ Total(<<a>> \o sizes) = a + Total(sizes)
<1> DEFINE more == <<a>> \o sizes
           n == Len(sizes)
<1>1. more \in Seq(Nat) /\ Len(more) = n + 1 /\ more[1] = a /\ \A i \in 1..n : more[i + 1] = sizes[i]
  OBVIOUS
<1> HIDE DEF more
<1>2. PICK sum : /\ sum[0] = 0
                 /\ \A i \in 1..n : sum[i] = sum[i - 1] + sizes[i]
                 /\ \A i \in 0..n : sum[i] \in Nat
                 /\ Total(sizes) = sum[n]
  BY SumsExist
<1>3. PICK all : /\ Sums!IsRecursion([sizes |-> more], all)
                 /\ Total(more) = all[n + 1]
  BY <1>1, SumsExist
<1> DEFINE sets == [i \in 0..(n + 1) |-> IF i = 0 THEN {0} ELSE {a + sum[i - 1]}]
           c == [sizes |-> more, sets |-> sets]
           rank == [i \in 0..(n + 1) |-> i]
<1>4. n \in Nat /\ c.sizes = more /\ c.sets = sets /\ SumPlaces(c) = 0..(n + 1)
  BY <1>1 DEF SumPlaces
<1> HIDE DEF c
<1>5. Sums!Descends(c, rank)
  <2> HIDE DEF n
  <2> QED
    BY <1>4 DEF Sums!Descends, SumMore, SumNext
<1>6. Sums!IsRecursion(c, all)
  BY <1>3, <1>4 DEF Sums!IsRecursion, SumPlaces, SumMore, SumNext, SumLast, SumJoin
<1>7. \A i \in SumPlaces(c) : ~SumMore(c, i) => SumIn(c, i, SumLast(c, i))
  BY <1>4 DEF SumIn, SumLast, SumMore
<1>8. ASSUME NEW i \in SumPlaces(c), SumMore(c, i), SumIn(c, SumNext(c, i), all[SumNext(c, i)])
      PROVE  SumIn(c, i, SumJoin(c, i, all[SumNext(c, i)]))
  <2> DEFINE v == all[SumNext(c, i)]
  <2> HIDE DEF v
  <2>1. i \in 1..(n + 1) /\ i - 1 \in 0..(n + 1) /\ SumNext(c, i) = i - 1
    <3> HIDE DEF n
    <3> QED
      BY <1>4, <1>8 DEF SumMore, SumNext
  <2>2. v \in sets[i - 1] /\ sets[i] = {a + sum[i - 1]}
    <3>1. v \in sets[i - 1]
      BY <1>4, <1>8, <2>1 DEF SumIn, v
    <3> QED
      BY <2>1, <3>1
  <2>3. v + more[i] = a + sum[i - 1]
    <3>1. CASE i = 1
      <4>1. v = 0 /\ more[i] = a
        BY <1>1, <1>4, <2>2, <3>1
      <4> QED
        BY <1>2, <3>1, <4>1
    <3>2. CASE i # 1
      <4>1. i - 1 \in 1..n /\ i - 1 # 0 /\ i - 1 + 1 = i /\ i - 1 - 1 \in 0..n
        <5> HIDE DEF n
        <5> QED
          BY <1>4, <2>1, <3>2
      <4>2. v = a + sum[i - 1 - 1]
        BY <2>1, <2>2, <4>1
      <4>3. more[i] = sizes[i - 1] /\ sum[i - 1] = sum[i - 1 - 1] + sizes[i - 1]
        BY <1>1, <1>2, <4>1
      <4>4. sizes[i - 1] \in Nat /\ sum[i - 1 - 1] \in Nat
        BY <1>2, <4>1
      <4> QED
        BY <4>2, <4>3, <4>4
    <3> QED
      BY <3>1, <3>2
  <2> QED
    BY <1>4, <2>2, <2>3 DEF SumIn, SumJoin, v
<1>9. \A i \in SumPlaces(c) : SumIn(c, i, all[i])
  BY <1>5, <1>6, <1>7, <1>8, Sums!RankedInduction
<1>10. n + 1 \in 0..(n + 1) /\ n + 1 # 0 /\ n + 1 - 1 = n
  <2> HIDE DEF n
  <2> QED
    BY <1>4
<1>11. all[n + 1] \in sets[n + 1] /\ sets[n + 1] = {a + sum[n]}
  <2>1. sets[n + 1] = {a + sum[n]}
    BY <1>10
  <2>2. c.sets[n + 1] = sets[n + 1] /\ n + 1 \in SumPlaces(c)
    BY <1>4, <1>10
  <2> HIDE DEF sets
  <2> QED
    BY <1>9, <2>1, <2>2 DEF SumIn
<1>12. sum[n] \in Nat
  BY <1>2, <1>4
<1> QED
  BY <1>2, <1>3, <1>11, <1>12 DEF more

\* What follows an EtherType and has no transport.
LEMMA EapolBounded ==
    ASSUME NEW f, IsFrame(f), NEW off \in 0..f.cap
    PROVE  Bounded(decodeEapol(f, off), f, off)
<1> DEFINE h == Read(f, off, "eapol")
           end == Min({off + 4 + h.bodyLength, f.cap})
<1>1. h = Filler \/ (h.kind = "eapol" /\ WellFormed(h))
  BY ReadFacts
<1>2. h.bodyLength \in Nat
  BY <1>1 DEF WellFormed, Filler
<1>3. end \in off..f.cap
  <2> DEFINE n == 4 + h.bodyLength
  <2>1. n \in Nat /\ off + 4 + h.bodyLength = off + n
    BY <1>2, Here
  <2> HIDE DEF n
  <2> QED
    BY <2>1, ClampedBounds
<1>4. Bounded(Success(h, end), f, off)
  BY <1>3 DEF Bounded, Success
<1> HIDE DEF h, end
<1> QED
  BY <1>4, CheckedBounded DEF decodeEapol, h, end

\* The TLVs of LLDP have sizes that are numbers, and the end mark is clamped.
LEMMA LldpBounded ==
    ASSUME NEW f, IsFrame(f), NEW off \in 0..f.cap
    PROVE  Bounded(decodeLldp(f, off), f, off)
<1> DEFINE h == Read(f, off, "lldp")
           tlvs == h.tlvs
           at(k) == off + Total([j \in 1..(k - 1) |-> 2 + tlvs[j].length])
           stops == {k \in DOMAIN tlvs : tlvs[k].type = "end" \/ ~Has(f, at(k), 2 + tlvs[k].length)}
                      \cup {Len(tlvs) + 1}
           stop == Min(stops)
           cut == stop \in DOMAIN tlvs /\ tlvs[stop].type # "end" /\ Has(f, at(stop), 2)
           end == Min({at(stop) + 2, f.cap})
           result == Success([kind |-> "lldp", tlvs |-> SubSeq(tlvs, 1, stop - 1)], end)
<1>1. tlvs \in Seq([type : STRING, length : Nat])
  <2>1. h = Filler \/ (h.kind = "lldp" /\ WellFormed(h))
    BY ReadFacts
  <2>2. Filler.tlvs \in Seq([type : STRING, length : Nat])
    BY DEF Filler
  <2> HIDE DEF h
  <2> QED
    BY <2>1, <2>2 DEF WellFormed
<1> HIDE DEF tlvs, at
<1> DEFINE n == Len(tlvs)
<1>2. n \in Nat /\ DOMAIN tlvs = 1..n /\ \A j \in 1..n : tlvs[j].length \in Nat
  <2> DEFINE Tlv == [type : STRING, length : Nat]
  <2>1. n \in Nat /\ tlvs \in [1..n -> Tlv]
    <3> HIDE DEF Tlv
    <3> QED
      BY <1>1, LenProperties DEF Tlv
  <2> HIDE DEF n
  <2> QED
    BY <2>1
<1>3. stop \in 1..(n + 1)
  <2>1. stops \subseteq 1..(n + 1) /\ n + 1 \in stops
    <3>1. \A k \in DOMAIN tlvs : k \in 1..(n + 1)
      <4> HIDE DEF n
      <4> QED
        BY <1>2
    <3>2. n + 1 \in 1..(n + 1)
      <4> HIDE DEF n
      <4> QED
        BY <1>2
    <3> QED
      BY <3>1, <3>2
  <2> HIDE DEF stops, n
  <2>2. stops \subseteq Nat
    BY <1>2, <2>1
  <2> QED
    BY <2>1, <2>2, MinIsLeast
<1> HIDE DEF stop
<1>4. at(stop) + 2 - off \in Nat /\ off + (at(stop) + 2 - off) = at(stop) + 2
  <2> DEFINE sizes == [j \in 1..(stop - 1) |-> 2 + tlvs[j].length]
  <2>1. stop - 1 \in Nat /\ 1..(stop - 1) \subseteq 1..n
    <3> HIDE DEF n
    <3> QED
      BY <1>2, <1>3
  <2>2. sizes \in [1..(stop - 1) -> Nat]
    <3> HIDE DEF n
    <3> QED
      BY <1>2, <2>1
  <2>3. sizes \in Seq(Nat)
    <3> HIDE DEF sizes
    <3> QED
      BY <2>1, <2>2, SeqDef
  <2>4. at(stop) = off + Total(sizes)
    BY DEF at
  <2> HIDE DEF sizes
  <2>5. Total(sizes) \in Nat
    BY <2>3, TotalOfMore
  <2> QED
    BY <2>4, <2>5, Here
<1>5. end \in off..f.cap
  <2> DEFINE more == at(stop) + 2 - off
  <2>1. more \in Nat /\ at(stop) + 2 = off + more
    BY <1>4
  <2> HIDE DEF more
  <2> QED
    BY <2>1, ClampedBounds
<1> HIDE DEF end
<1>6. Bounded(result, f, off)
  BY <1>5 DEF Bounded, Success
<1> HIDE DEF result, cut
<1>7. decodeLldp(f, off) =
        Checked(<< <<Has(f, off, 2), "TruncatedHeader">>, <<~cut, "TruncatedHeader">> >>, off, result)
  BY DEF decodeLldp, result, end, cut, stop, stops, at, tlvs
<1> QED
  BY <1>6, <1>7, CheckedBounded

LEMMA TerminalBounded ==
    ASSUME NEW f, IsFrame(f), NEW off \in 0..f.cap,
           NEW etherType \in {"ARP", "RARP", "EAPOL", "LLDP", "HomePlug"}
    PROVE  Bounded(Terminal(f, off, etherType), f, off)
<1>1. CASE etherType \in {"ARP", "RARP", "HomePlug"}
  <2>1. \A kind : \A size \in Nat : Bounded(Fixed(f, off, kind, size), f, off)
    BY FixedBounds DEF Bounded
  <2> QED
    BY <1>1, <2>1 DEF Terminal, decodeArp, decodeRarp, decodeHomeplug
<1>2. CASE etherType = "EAPOL"
  BY <1>2, EapolBounded DEF Terminal
<1>3. CASE etherType = "LLDP"
  BY <1>3, LldpBounded DEF Terminal
<1> QED
  BY <1>1, <1>2, <1>3

-----------------------------------------------------------------------------
(* The stages of a frame                                                   *)

\* Where a stage has come to in a frame.
Inside(s, f) ==
    /\ {"f", "off", "status", "etherType", "l4Protocol", "layer3", "layer4", "payload"} \subseteq DOMAIN s
    /\ s.f = f
    /\ s.off \in 0..f.cap
    /\ s.payload \in 0..f.cap

\* Where a stage of the link layer has come to: nothing of the layers above is known.
Bare(s) == s.layer3 = Nothing /\ s.layer4 = Nothing /\ s.l4Protocol = "0"

Unopened(s, f) == Inside(s, f) /\ Bare(s)

\* The offset may be set to what is inside.
LEMMA Moved ==
    ASSUME NEW f, NEW s, Inside(s, f), NEW off \in 0..f.cap
    PROVE  Inside([s EXCEPT !.off = off], f)
BY DEF Inside

\* The ends of the packet.
LEMMA EndsInside ==
    ASSUME NEW f, NEW s, Inside(s, f)
    PROVE  /\ Inside(Return(s), f) /\ Inside(ReturnPayload(s), f) /\ Inside(Finished(s), f)
           /\ \A r : Inside(Fail(s, r), f)
<1>1. Inside(Return(s), f) /\ \A r : Inside(Fail(s, r), f)
  BY DEF Return, Fail, Inside
<1>2. Inside(ReturnPayload(s), f)
  BY DEF ReturnPayload, Inside
<1> QED
  BY <1>1, <1>2 DEF Finished

LEMMA EndsUnopened ==
    ASSUME NEW f, NEW s, Unopened(s, f)
    PROVE  Unopened(ReturnPayload(s), f) /\ \A r : Unopened(Fail(s, r), f)
<1>1. Bare(ReturnPayload(s)) /\ \A r : Bare(Fail(s, r))
  BY DEF ReturnPayload, Fail, Unopened, Inside, Bare
<1> QED
  BY <1>1, EndsInside DEF Unopened

LEMMA OverInside ==
    ASSUME NEW f, NEW s, Inside(s, f), NEW h, NEW off \in 0..f.cap
    PROVE  Inside(Over(s, h, off), f)
BY DEF Over, Inside

LEMMA VlanUnopened ==
    ASSUME NEW f, IsFrame(f), NEW s, Unopened(s, f)
    PROVE  Unopened(Vlan(s), f)
<1> DEFINE r == decodeVlan(f, s.off)
           t == [s EXCEPT !.off = r.off, !.etherType = r.hdr.etherType, !.vlan = TRUE]
<1>1. r.off \in s.off..f.cap
  BY FixedBounds DEF decodeVlan, Unopened, Inside
<1>2. r.off \in 0..f.cap
  BY <1>1, Later DEF Unopened, Inside, Bare
<1> HIDE DEF r
<1>3. Unopened(t, f)
  BY <1>2 DEF Unopened, Inside, Bare
<1>4. Vlan(s) \in {s, t, Fail(s, r)}
  BY DEF Vlan, OrFail, Unopened, Inside, r
<1> HIDE DEF t
<1> QED
  BY <1>3, <1>4, EndsUnopened

\* The loop over the tags.
TagJoin(c, S, t) == Vlan(t)
TagIn(c, S, t) == Unopened(t, c.f)

Tags == INSTANCE RecursionLemmas WITH
            Dom <- FoldPlaces, More <- FoldMore, Next <- FoldNext,
            Last <- FoldLast, Join <- TagJoin, Inv <- TagIn

LEMMA TagsUnopened ==
    ASSUME NEW f, IsFrame(f), NEW s, Unopened(s, f), NEW n \in Nat
    PROVE  Unopened(FoldLeft(LAMBDA t, i : Vlan(t), s, [i \in 1..n |-> i]), f)
<1> DEFINE seq == [i \in 1..n |-> i]
           c == [seq |-> seq, base |-> s, f |-> f]
           g == CHOOSE h : Tags!IsRecursion(c, h)
<1>1. c.seq = seq /\ c.base = s /\ c.f = f /\ DOMAIN seq = 1..n
  OBVIOUS
<1> HIDE DEF c
<1>2. Tags!Descends(c, FoldRank(c))
  BY <1>1, FoldDescends DEF Tags!Descends
<1>3. \A S \in FoldPlaces(c) : ~FoldMore(c, S) => TagIn(c, S, FoldLast(c, S))
  BY <1>1 DEF TagIn, FoldLast
<1>4. \A S \in FoldPlaces(c) : \A v : FoldMore(c, S) /\ TagIn(c, FoldNext(c, S), v)
                                          => TagIn(c, S, TagJoin(c, S, v))
  BY <1>1, VlanUnopened DEF TagIn, TagJoin
<1>5. \A S \in FoldPlaces(c) : TagIn(c, S, g[S])
  BY <1>2, <1>3, <1>4, Tags!RankedChoice
<1>6. FoldLeft(LAMBDA t, i : Vlan(t), s, seq) = g[DOMAIN seq]
  <2> HIDE DEF seq
  <2>1. FoldLeft(LAMBDA t, i : Vlan(t), s, seq) =
            (CHOOSE h : h = [S \in SUBSET DOMAIN seq |->
                                IF S = {} THEN s ELSE Vlan(h[S \ {Max(S)}])])[DOMAIN seq]
    BY DEF FoldLeft, MapThenFoldSet
  <2>2. \A h : Tags!IsRecursion(c, h) <=>
                 h = [S \in SUBSET DOMAIN seq |-> IF S = {} THEN s ELSE Vlan(h[S \ {Max(S)}])]
    BY <1>1 DEF Tags!IsRecursion, FoldPlaces, FoldMore, FoldNext, FoldLast, TagJoin
  <2>3. g = CHOOSE h : h = [S \in SUBSET DOMAIN seq |-> IF S = {} THEN s ELSE Vlan(h[S \ {Max(S)}])]
    BY <2>2, Zenon
  <2> HIDE DEF g
  <2> QED
    BY <2>1, <2>3, Zenon
<1>7. DOMAIN seq \in FoldPlaces(c)
  BY <1>1 DEF FoldPlaces
<1> QED
  BY <1>1, <1>5, <1>6, <1>7 DEF TagIn

LEMMA LinkLayerUnopened ==
    ASSUME NEW f, IsFrame(f), NEW s, Unopened(s, f)
    PROVE  Unopened(LinkLayer(s), f)
<1> DEFINE r == resolveDataLink(f)
           t == [s EXCEPT !.off = r.off, !.etherType = r.hdr.etherType,
                          !.ethernet = r.hdr.hasMacs, !.wifi = r.hdr.wifi]
           tags == IF f.dlt \in {"EN10MB", "LINUX_SLL", "LINUX_SLL2"} THEN f.cap \div 4 ELSE 0
           taken == FoldLeft(LAMBDA u, i : Vlan(u), t, [i \in 1..(tags + 1) |-> i])
<1>1. r.ok => r.off \in 0..f.cap
  BY DataLinkBounded DEF Bounded
<1> HIDE DEF r
<1>2. r.ok => Unopened(t, f)
  BY <1>1 DEF Unopened, Inside, Bare
<1>3. tags + 1 \in Nat
  BY DEF IsFrame
<1> DEFINE n == tags + 1
<1> HIDE DEF t, tags
<1>4. r.ok => Unopened(taken, f)
  <2>1. n \in Nat
    BY <1>3
  <2> HIDE DEF n
  <2>2. r.ok => Unopened(FoldLeft(LAMBDA u, i : Vlan(u), t, [i \in 1..n |-> i]), f)
    BY <1>2, <2>1, TagsUnopened
  <2> QED
    BY <2>2 DEF n
<1>5. s.f = f
  BY DEF Unopened, Inside, Bare
<1>6. LinkLayer(s) = IF ~Decoding(s) THEN s ELSE IF r.ok THEN taken ELSE Fail(s, r)
  BY <1>5 DEF LinkLayer, OrFail, r, t, tags
<1> HIDE DEF taken
<1> QED
  BY <1>4, <1>6, EndsUnopened

LEMMA MplsUnopened ==
    ASSUME NEW f, IsFrame(f), NEW s, Unopened(s, f)
    PROVE  Unopened(Mpls(s), f)
<1> DEFINE r == decodeMpls(f, s.off)
           t == [s EXCEPT !.off = r.off]
           n == Nibble(f, r.off)
           u == [t EXCEPT !.etherType = IF n = 4 THEN "IPv4" ELSE "IPv6"]
<1>1. s.f = f /\ s.off \in 0..f.cap
  BY DEF Unopened, Inside, Bare
<1>2. r.off \in 0..f.cap
  BY <1>1, MplsBounds, Later
<1>3. Mpls(s) \in {s, t, u, ReturnPayload(t), Fail(s, r)}
  BY <1>1 DEF Mpls, OrFail
<1> HIDE DEF r, n
<1>4. Unopened(t, f)
  BY <1>2, Moved DEF Unopened, Inside, Bare
<1>5. Unopened(u, f)
  <2> HIDE DEF t
  <2> QED
    BY <1>4 DEF Unopened, Inside, Bare
<1> HIDE DEF t, u
<1> QED
  BY <1>3, <1>4, <1>5, EndsUnopened

\* The fragment header of IPv6 has eight bytes.
LEMMA FragmentHeaderInside ==
    ASSUME NEW f, IsFrame(f), NEW s, Inside(s, f)
    PROVE  Inside(FragmentHeader(s), f)
<1> DEFINE h == Read(f, s.off, "fragment")
           at == s.off + 8
           t == [s EXCEPT !.off = at, !.l4Protocol = h.protocol]
<1>1. s.f = f /\ s.off \in 0..f.cap
  BY DEF Inside
<1>2. Has(f, s.off, 8) => at \in 0..f.cap
  BY <1>1 DEF Has, IsFrame
<1>3. Has(f, s.off, 8) => Inside(t, f)
  <2> HIDE DEF at
  <2> QED
    BY <1>2 DEF Inside
<1>4. FragmentHeader(s) \in {s, Return(s)} \/ (Has(f, s.off, 8) /\ FragmentHeader(s) \in {t, ReturnPayload(t)})
  BY <1>1 DEF FragmentHeader
<1> HIDE DEF t
<1> QED
  BY <1>3, <1>4, EndsInside

LEMMA NetworkInside ==
    ASSUME NEW f, IsFrame(f), NEW s, Inside(s, f)
    PROVE  Inside(Network(s), f)
<1> DEFINE v4 == decodeIPv4(f, s.off)
           v6 == decodeIPv6(f, s.off)
           terminal == s.etherType \in {"ARP", "RARP", "EAPOL", "LLDP", "HomePlug"}
           end == Terminal(f, s.off, s.etherType)
           t == [s EXCEPT !.off = end.off, !.layer3 = end.hdr]
<1>1. s.f = f /\ s.off \in 0..f.cap
  BY DEF Inside
<1>2. v4.off \in 0..f.cap /\ v6.off \in 0..f.cap
  BY <1>1, IPv4Bounds, IPv6Bounds, Later
<1>3. terminal /\ end.ok => end.off \in 0..f.cap
  <2>1. terminal /\ end.ok => end.off \in s.off..f.cap
    BY <1>1, TerminalBounded DEF Bounded
  <2> HIDE DEF end
  <2> QED
    BY <1>1, <2>1, Later
<1>4. \/ Network(s) \in {s, Over(s, v4.hdr, v4.off), Fail(s, v4), FragmentHeader(Over(s, v6.hdr, v6.off)),
                         Fail(s, v6), Fail(s, end), ReturnPayload(s)}
      \/ terminal /\ end.ok /\ Network(s) = Return(t)
  BY <1>1 DEF Network, OrFail
<1> HIDE DEF v4, v6, end
<1>5. Inside(Over(s, v4.hdr, v4.off), f) /\ Inside(Over(s, v6.hdr, v6.off), f)
  BY <1>2, OverInside
<1>6. Inside(FragmentHeader(Over(s, v6.hdr, v6.off)), f)
  BY <1>5, FragmentHeaderInside
<1>7. terminal /\ end.ok => Inside(t, f)
  BY <1>3 DEF Inside
<1> HIDE DEF t, terminal
<1> QED
  BY <1>4, <1>5, <1>6, <1>7, EndsInside

LEMMA FragmentInside ==
    ASSUME NEW f, NEW s, Inside(s, f), NEW complete
    PROVE  Inside(Fragment(s, complete), f)
<1>1. Fragment(s, complete) \in {s, Return(s), ReturnPayload(s)}
  BY DEF Fragment
<1> QED
  BY <1>1, EndsInside

LEMMA GreInside ==
    ASSUME NEW f, IsFrame(f), NEW s, Inside(s, f)
    PROVE  Inside(Gre(s), f)
<1> DEFINE gre == decodeGre(f, s.off)
           t == [s EXCEPT !.off = gre.off]
           ip == decodeIp(f, gre.off, IF gre.hdr.protocolType = "IPv4" THEN 4 ELSE 6)
<1>1. s.f = f /\ s.off \in 0..f.cap
  BY DEF Inside
<1>2. gre.off \in 0..f.cap
  BY <1>1, GreBounds, Later
<1>3. Gre(s) \in {s, ReturnPayload(t), Over(s, ip.hdr, ip.off), Fail(s, ip), Fail(s, gre)}
  BY <1>1 DEF Gre, OrFail
<1>4. ip.off \in 0..f.cap
  <2> HIDE DEF gre
  <2> QED
    BY <1>2, IpBounds, Later
<1> HIDE DEF gre, ip
<1>5. Inside(t, f)
  BY <1>2, Moved
<1> HIDE DEF t
<1> QED
  BY <1>3, <1>4, <1>5, EndsInside, OverInside

LEMMA TransportInside ==
    ASSUME NEW f, IsFrame(f), NEW s, Inside(s, f)
    PROVE  Inside(Transport(s), f)
<1> DEFINE r == decodeTransport(f, s.off, s.l4Protocol)
           t == [s EXCEPT !.off = r.off, !.layer4 = r.hdr]
<1>1. s.f = f /\ s.off \in 0..f.cap
  BY DEF Inside
<1>2. s.l4Protocol \in Transports => r.off \in 0..f.cap
  BY <1>1, TransportBounds, Later
<1>3. Transport(s) = s \/ (s.l4Protocol \in Transports /\ Transport(s) \in {t, ReturnPayload(t), Fail(s, r)})
  BY <1>1 DEF Transport, OrFail
<1> HIDE DEF r
<1>4. s.l4Protocol \in Transports => Inside(t, f)
  BY <1>2 DEF Inside
<1> HIDE DEF t
<1> QED
  BY <1>3, <1>4, EndsInside

LEMMA InnerNetworkInside ==
    ASSUME NEW f, IsFrame(f), NEW s, Inside(s, f), NEW version
    PROVE  Inside(InnerNetwork(s, version), f)
<1> DEFINE r == decodeIp(f, s.off, version)
           t == [s EXCEPT !.l4Protocol = "0"]
<1>1. s.f = f /\ s.off \in 0..f.cap
  BY DEF Inside
<1>2. r.off \in 0..f.cap
  BY <1>1, IpBounds, Later
<1>3. InnerNetwork(s, version) \in {Over(s, r.hdr, r.off), t}
  BY <1>1 DEF InnerNetwork
<1> HIDE DEF r
<1>4. Inside(t, f)
  BY DEF Inside
<1> HIDE DEF t
<1> QED
  BY <1>2, <1>3, <1>4, OverInside

LEMMA InnerTransportInside ==
    ASSUME NEW f, IsFrame(f), NEW s, Inside(s, f)
    PROVE  Inside(InnerTransport(s), f)
<1> DEFINE r == decodeTransport(f, s.off, s.l4Protocol)
           t == [s EXCEPT !.off = r.off, !.layer4 = r.hdr]
<1>1. s.f = f /\ s.off \in 0..f.cap
  BY DEF Inside
<1>2. s.l4Protocol \in Transports => r.off \in 0..f.cap
  BY <1>1, TransportBounds, Later
<1>3. InnerTransport(s) = s \/ (s.l4Protocol \in Transports /\ InnerTransport(s) = t)
  BY <1>1 DEF InnerTransport, Transports
<1> HIDE DEF r
<1>4. s.l4Protocol \in Transports => Inside(t, f)
  BY <1>2 DEF Inside
<1> HIDE DEF t
<1> QED
  BY <1>3, <1>4

\* A VXLAN header has eight bytes, and the decoder goes on from where it has failed.
LEMMA VxlanInside ==
    ASSUME NEW f, IsFrame(f), NEW s, Inside(s, f)
    PROVE  Inside(Vxlan(s), f)
<1> DEFINE eth == decodeEthernet(f, s.off + 8)
           vlan == decodeVlan(f, eth.off)
           tagged == IF eth.hdr.etherType \in {"VLAN", "QinQ"} /\ vlan.ok THEN vlan ELSE eth
           version == IF tagged.hdr.etherType = "IPv4" THEN 4 ELSE IF tagged.hdr.etherType = "IPv6" THEN 6 ELSE 0
           t == [s EXCEPT !.off = tagged.off]
           u == [s EXCEPT !.off = eth.off]
<1>1. s.f = f /\ s.off \in 0..f.cap
  BY DEF Inside
<1>2. Vxlan(s) = s \/ (s.off + 8 < f.cap /\ Vxlan(s) \in {InnerTransport(InnerNetwork(t, version)), u})
  BY <1>1 DEF Vxlan
<1>3. ASSUME s.off + 8 < f.cap
      PROVE  eth.off \in 0..f.cap /\ vlan.off \in 0..f.cap
  <2> DEFINE at == s.off + 8
  <2>1. at \in 0..f.cap
    BY <1>1, <1>3 DEF IsFrame
  <2> HIDE DEF at
  <2>2. decodeEthernet(f, at).off \in 0..f.cap
    BY <2>1, FixedBounds, Later DEF decodeEthernet
  <2>3. eth.off \in 0..f.cap
    BY <2>2 DEF at
  <2> HIDE DEF eth
  <2> QED
    BY <2>3, FixedBounds, Later DEF decodeVlan
<1> HIDE DEF eth, vlan
<1>4. s.off + 8 < f.cap => tagged.off \in 0..f.cap
  BY <1>3
<1> HIDE DEF tagged, version
<1>5. s.off + 8 < f.cap => Inside(t, f) /\ Inside(u, f)
  BY <1>3, <1>4, Moved
<1> HIDE DEF t, u
<1>6. s.off + 8 < f.cap => Inside(InnerTransport(InnerNetwork(t, version)), f)
  BY <1>5, InnerNetworkInside, InnerTransportInside
<1> QED
  BY <1>2, <1>5, <1>6

LEMMA GtpuInside ==
    ASSUME NEW f, IsFrame(f), NEW s, Inside(s, f)
    PROVE  Inside(Gtpu(s), f)
<1> DEFINE r == decodeGtp(f, s.off)
           at == [s EXCEPT !.off = r.off]
           n == Nibble(f, r.off)
<1>1. s.f = f /\ s.off \in 0..f.cap
  BY DEF Inside
<1>2. r.off \in 0..f.cap
  BY <1>1, GtpBounds, Later
<1>3. Gtpu(s) \in {s, at, InnerTransport(InnerNetwork(at, n))}
  BY <1>1 DEF Gtpu
<1> HIDE DEF r, n
<1>4. Inside(at, f)
  BY <1>2, Moved
<1> HIDE DEF at
<1> QED
  BY <1>3, <1>4, InnerNetworkInside, InnerTransportInside

\* What the headers of a frame in front of its fragments lead to, and the stages behind.
LEMMA HeadersInside ==
    ASSUME NEW f, IsFrame(f)
    PROVE  Unopened(Mpls(LinkLayer(Received(f))), f) /\ Inside(Headers(f), f)
<1>1. Unopened(Received(f), f)
  BY DEF Received, Unopened, Inside, Bare, IsFrame
<1>2. Unopened(Mpls(LinkLayer(Received(f))), f)
  BY <1>1, LinkLayerUnopened, MplsUnopened
<1> QED
  BY <1>2, NetworkInside DEF Headers, Unopened

LEMMA PipelineInside ==
    ASSUME NEW f, IsFrame(f), NEW s, Inside(s, f), NEW complete
    PROVE  Inside(Pipeline(s, complete), f)
BY FragmentInside, GreInside, TransportInside, VxlanInside, GtpuInside DEF Pipeline

-----------------------------------------------------------------------------
(* Items in a row                                                          *)

\* What is read of some kinds is filler, or a header of one of them that begins there.
LEMMA ReadOneFacts ==
    ASSUME NEW f, IsFrame(f), NEW off, NEW kinds, "filler" \notin kinds
    PROVE  LET h == ReadOne(f, off, kinds)
           IN  /\ h \in Readable(f)
               /\ \/ h = Filler /\ h.kind \notin kinds
                  \/ h.kind \in kinds /\ h.at = off /\ WellFormed(h)
<1> DEFINE here == {k \in kinds : Read(f, off, k).kind = k}
<1>1. Filler.kind = "filler"
  BY DEF Filler
<1>2. CASE here = {}
  BY <1>1, <1>2 DEF ReadOne, Readable
<1>3. CASE here # {}
  <2>1. PICK k \in here : ReadOne(f, off, kinds) = Read(f, off, k)
    BY <1>3 DEF ReadOne
  <2>2. Read(f, off, k) # Filler
    BY <1>1, <2>1
  <2> QED
    BY <2>1, <2>2, ReadFacts
<1> QED
  BY <1>2, <1>3

\* Nothing leaves the offset where it is.
LEMMA AfterNone ==
    ASSUME NEW off \in Int
    PROVE  After(off, <<>>) = off
<1> DEFINE sizes == [i \in DOMAIN <<>> |-> <<>>[i].len]
<1>1. sizes = <<>>
  OBVIOUS
<1>2. After(off, <<>>) = off + Total(sizes)
  BY DEF After
<1> HIDE DEF sizes
<1> QED
  BY <1>1, <1>2, TotalOfNone

\* How the offset behind items changes with the first of them.
LEMMA AfterItems ==
    ASSUME NEW f, IsFrame(f), NEW items \in Seq(Readable(f)), NEW h \in Readable(f), NEW off \in Int
    PROVE  /\ <<h>> \o items \in Seq(Readable(f))
           /\ After(off, <<h>> \o items) = After(off + h.len, items)
<1> DEFINE sizes(s) == [i \in DOMAIN s |-> s[i].len]
           more == <<h>> \o items
<1>1. \A s \in Seq(Readable(f)) : sizes(s) \in Seq(Nat) /\ Len(sizes(s)) = Len(s)
  <2> TAKE s \in Seq(Readable(f))
  <2>1. DOMAIN s = 1..Len(s) /\ Len(s) \in Nat /\ \A i \in DOMAIN s : s[i] \in Readable(f)
    OBVIOUS
  <2>2. \A i \in DOMAIN s : s[i].len \in Nat
    BY <2>1, ReadableSizes
  <2> QED
    BY <2>1, <2>2
<1>2. h.len \in Nat
  BY ReadableSizes
<1>3. more \in Seq(Readable(f))
  OBVIOUS
<1>4. sizes(more) = <<h.len>> \o sizes(items)
  <2>1. /\ Len(more) = Len(items) + 1 /\ more[1] = h /\ \A i \in 1..Len(items) : more[i + 1] = items[i]
        /\ DOMAIN more = 1..(Len(items) + 1) /\ Len(items) \in Nat /\ DOMAIN items = 1..Len(items)
    OBVIOUS
  <2> HIDE DEF more
  <2>2. /\ sizes(items) \in Seq(Nat) /\ Len(sizes(items)) = Len(items)
        /\ \A i \in 1..Len(items) : sizes(items)[i] = items[i].len
    BY <1>1, <2>1
  <2>3. /\ <<h.len>> \o sizes(items) \in Seq(Nat)
        /\ DOMAIN (<<h.len>> \o sizes(items)) = 1..(Len(items) + 1)
        /\ (<<h.len>> \o sizes(items))[1] = h.len
        /\ \A i \in 1..Len(items) : (<<h.len>> \o sizes(items))[i + 1] = items[i].len
    <3> DEFINE t == sizes(items)
    <3> HIDE DEF sizes, t
    <3>1. t \in Seq(Nat) /\ Len(t) = Len(items) /\ \A i \in 1..Len(items) : t[i] = items[i].len
      BY <2>2 DEF t
    <3>2. /\ <<h.len>> \o t \in Seq(Nat) /\ DOMAIN (<<h.len>> \o t) = 1..(Len(items) + 1)
          /\ (<<h.len>> \o t)[1] = h.len /\ \A i \in 1..Len(items) : (<<h.len>> \o t)[i + 1] = t[i]
      BY <1>2, <3>1
    <3> QED
      BY <3>1, <3>2 DEF t
  <2>4. ASSUME NEW i \in 1..(Len(items) + 1)
        PROVE  sizes(more)[i] = (<<h.len>> \o sizes(items))[i]
    <3>1. sizes(more)[i] = more[i].len
      BY <2>1
    <3>2. CASE i = 1
      BY <2>1, <2>3, <3>1, <3>2
    <3>3. CASE i # 1
      <4>1. i - 1 \in 1..Len(items) /\ i - 1 + 1 = i
        BY <2>1, <3>3
      <4> HIDE DEF sizes
      <4>2. more[i] = items[i - 1] /\ (<<h.len>> \o sizes(items))[i] = items[i - 1].len
        BY <2>1, <2>3, <4>1
      <4> QED
        BY <3>1, <4>2
    <3> QED
      BY <3>2, <3>3
  <2>5. DOMAIN sizes(more) = 1..(Len(items) + 1)
    BY <2>1
  <2>6. sizes(more) \in Seq(Nat)
    BY <1>1, <1>3 DEF more
  <2> DEFINE t == sizes(more)
             u == <<h.len>> \o sizes(items)
  <2>7. t \in Seq(Nat) /\ u \in Seq(Nat) /\ Len(t) = Len(items) + 1 /\ Len(u) = Len(items) + 1
        /\ \A i \in 1..(Len(items) + 1) : t[i] = u[i]
    <3> HIDE DEF sizes
    <3> QED
      BY <2>1, <2>3, <2>4, <2>5, <2>6
  <2> HIDE DEF t, u
  <2>8. t = u
    BY <2>7, SeqEqual
  <2> QED
    BY <2>8 DEF t, u
<1>5. Total(sizes(items)) \in Nat /\ Total(<<h.len>> \o sizes(items)) = h.len + Total(sizes(items))
  <2> HIDE DEF sizes
  <2> QED
    BY <1>1, <1>2, TotalOfMore
<1>6. \A at, s : After(at, s) = at + Total(sizes(s))
  BY DEF After
<1>7. After(off, more) = After(off + h.len, items)
  <2> DEFINE total == Total(sizes(items))
  <2>1. total \in Nat /\ Total(sizes(more)) = h.len + total /\ After(off + h.len, items) = off + h.len + total
    BY <1>4, <1>5, <1>6
  <2> HIDE DEF total
  <2> HIDE DEF sizes
  <2>2. After(off, more) = off + (h.len + total)
    BY <1>6, <2>1
  <2> HIDE DEF more
  <2> QED
    BY <1>2, <2>1, <2>2
<1> HIDE DEF sizes
<1> QED
  BY <1>3, <1>7 DEF more

\* The recursion of Items.
ItemPlaces(c) == Nat
ItemAt(c, p) == ReadOne(c.f, p, c.kinds)
ItemMore(c, p) == ItemAt(c, p).kind \in c.kinds /\ p + ItemAt(c, p).used <= c.end
ItemNext(c, p) == p + ItemAt(c, p).len
ItemLast(c, p) == <<>>
ItemJoin(c, p, items) == <<ItemAt(c, p)>> \o items
ItemIn(c, p, items) == items \in Seq(Readable(c.f)) /\ (p <= c.end => After(p, items) \in p..c.end)

ItemRow == INSTANCE RecursionLemmas WITH
               Dom <- ItemPlaces, More <- ItemMore, Next <- ItemNext,
               Last <- ItemLast, Join <- ItemJoin, Inv <- ItemIn

\* Items with one length are whole in front of the end they are looked for.
LEMMA ItemsBounds ==
    ASSUME NEW f, IsFrame(f), NEW off \in Nat, NEW end \in Nat, off <= end,
           NEW kinds \in SUBSET {"label", "language", "line", "option6"}
    PROVE  After(off, Items(f, off, end, kinds)) \in off..end
<1> DEFINE c == [f |-> f, end |-> end, kinds |-> kinds]
           from == CHOOSE g : ItemRow!IsRecursion(c, g)
           rank == [p \in Nat |-> IF p <= end THEN end - p ELSE 0]
<1>1. c.f = f /\ c.end = end /\ c.kinds = kinds /\ "filler" \notin kinds
  OBVIOUS
<1> HIDE DEF c
<1>2. ASSUME NEW p \in Nat
      PROVE  /\ ItemAt(c, p) \in Readable(f)
             /\ ItemMore(c, p) => /\ ItemAt(c, p).len \in Nat /\ ItemAt(c, p).len > 0
                                  /\ ItemNext(c, p) \in Nat /\ p < ItemNext(c, p) /\ ItemNext(c, p) <= end
  <2> DEFINE h == ItemAt(c, p)
  <2>1. h \in Readable(f) /\ ((h = Filler /\ h.kind \notin kinds) \/ (h.kind \in kinds /\ WellFormed(h)))
    BY <1>1, ReadOneFacts DEF ItemAt
  <2>2. h.kind \in kinds /\ WellFormed(h) => h.len \in Nat /\ h.len > 0 /\ h.used = h.len
    BY DEF WellFormed
  <2> HIDE DEF h
  <2> QED
    BY <1>1, <2>1, <2>2 DEF ItemMore, ItemNext, h
<1>3. ItemRow!Descends(c, rank)
  <2> SUFFICES ASSUME NEW p \in Nat
               PROVE  /\ rank[p] \in Nat
                      /\ ItemMore(c, p) => ItemNext(c, p) \in Nat /\ rank[ItemNext(c, p)] < rank[p]
    BY DEF ItemRow!Descends, ItemPlaces
  <2> QED
    BY <1>2
<1>4. \A p \in ItemPlaces(c) : ~ItemMore(c, p) => ItemIn(c, p, ItemLast(c, p))
  <2> SUFFICES ASSUME NEW p \in Nat
               PROVE  ItemIn(c, p, <<>>)
    BY DEF ItemPlaces, ItemLast
  <2> QED
    BY <1>1, AfterNone DEF ItemIn
<1>5. ASSUME NEW p \in ItemPlaces(c), NEW items, ItemMore(c, p), ItemIn(c, ItemNext(c, p), items)
      PROVE  ItemIn(c, p, ItemJoin(c, p, items))
  <2> DEFINE h == ItemAt(c, p)
             at == ItemNext(c, p)
  <2>1. p \in Nat
    BY DEF ItemPlaces
  <2>2. h \in Readable(f) /\ at = p + h.len /\ at \in Nat /\ p < at /\ at <= end
    BY <1>2, <1>5, <2>1 DEF ItemNext
  <2>3. items \in Seq(Readable(f)) /\ After(at, items) \in at..end
    BY <1>1, <1>5, <2>2 DEF ItemIn
  <2> HIDE DEF h, at
  <2>4. /\ <<h>> \o items \in Seq(Readable(f))
        /\ After(p, <<h>> \o items) = After(p + h.len, items)
    BY <2>1, <2>2, <2>3, AfterItems
  <2>5. After(p, <<h>> \o items) \in p..end
    BY <2>1, <2>2, <2>3, <2>4
  <2> QED
    BY <1>1, <2>4, <2>5 DEF ItemIn, ItemJoin, h
<1>6. \A p \in Nat : ItemIn(c, p, from[p])
  BY <1>3, <1>4, <1>5, ItemRow!RankedChoice DEF ItemPlaces
<1>7. Items(f, off, end, kinds) = from[off]
  <2>1. Items(f, off, end, kinds) =
            (CHOOSE g : g = [p \in Nat |-> IF ReadOne(f, p, kinds).kind \in kinds /\ p + ReadOne(f, p, kinds).used <= end
                                           THEN <<ReadOne(f, p, kinds)>> \o g[p + ReadOne(f, p, kinds).len]
                                           ELSE <<>>])[off]
    BY DEF Items
  <2>2. \A g : ItemRow!IsRecursion(c, g) <=>
                 g = [p \in Nat |-> IF ReadOne(f, p, kinds).kind \in kinds /\ p + ReadOne(f, p, kinds).used <= end
                                    THEN <<ReadOne(f, p, kinds)>> \o g[p + ReadOne(f, p, kinds).len]
                                    ELSE <<>>]
    BY <1>1 DEF ItemRow!IsRecursion, ItemPlaces, ItemAt, ItemMore, ItemNext, ItemLast, ItemJoin
  <2>3. from = CHOOSE g : g = [p \in Nat |-> IF ReadOne(f, p, kinds).kind \in kinds /\ p + ReadOne(f, p, kinds).used <= end
                                            THEN <<ReadOne(f, p, kinds)>> \o g[p + ReadOne(f, p, kinds).len]
                                            ELSE <<>>]
    BY <2>2, Zenon
  <2> HIDE DEF from
  <2> QED
    BY <2>1, <2>3
<1> HIDE DEF from
<1> QED
  BY <1>1, <1>6, <1>7 DEF ItemIn

-----------------------------------------------------------------------------
(* Names. A name may lead through pointers to anywhere in the message, but *)
(* what is behind it depends on the labels up to its first pointer only:   *)
(* these are one behind the other. That there is such a function also      *)
(* where pointers lead round in a circle, and its value there, says        *)
(* nothing of the code, which does not return then.                        *)

NamePlaces(c) == Nat
NameAt(c, p) == ReadOne(c.f, p, {"label", "pointer", "root"})
NameTarget(c, p) == c.start + NameAt(c, p).target
NameMore(c, p) ==
    LET h == NameAt(c, p)
    IN  /\ Has(c.f, p, 1) /\ h.kind # "filler" /\ Has(c.f, p, h.len) /\ h.kind # "root"
        /\ ~(h.kind = "pointer" /\ ~Has(c.f, NameTarget(c, p), 1))
NameNext(c, p) == IF NameAt(c, p).kind = "pointer" THEN NameTarget(c, p) ELSE p + NameAt(c, p).len
NameLast(c, p) ==
    LET h == NameAt(c, p)
    IN  IF ~Has(c.f, p, 1) THEN Success(<<>>, p)
        ELSE IF h.kind = "filler" THEN Failure("MalformedPacket", p)
        ELSE IF ~Has(c.f, p, h.len) THEN Failure("TruncatedHeader", p)
        ELSE IF h.kind = "root" THEN Success(<<>>, p + 1)
        ELSE Failure("MalformedPacket", p)
NameJoin(c, p, rest) ==
    LET h == NameAt(c, p)
    IN  IF ~rest.ok THEN rest
        ELSE Success((IF h.kind = "label" THEN <<h.value>> ELSE <<>>) \o rest.hdr,
                     IF h.kind = "pointer" THEN p + h.len ELSE rest.off)
NameIn(c, p, name) == p <= c.f.cap => Bounded(name, c.f, p)

Names == INSTANCE RecursionLemmas WITH
             Dom <- NamePlaces, More <- NameMore, Next <- NameNext,
             Last <- NameLast, Join <- NameJoin, Inv <- NameIn

\* The same function, cut up at the pointers: c.names has the values at these.
LabelMore(c, p) == NameMore(c, p) /\ NameAt(c, p).kind = "label"
LabelLast(c, p) == c.names[p]

Labels == INSTANCE RecursionLemmas WITH
              Dom <- NamePlaces, More <- LabelMore, Next <- NameNext,
              Last <- LabelLast, Join <- NameJoin, Inv <- NameIn

LEMMA NameFacts ==
    ASSUME NEW c, IsFrame(c.f), c.start \in Nat, NEW p \in Nat
    PROVE  LET h == NameAt(c, p)
           IN  /\ h.len \in Nat
               /\ h.kind \in {"label", "pointer", "root", "filler"}
               /\ h.kind = "label" => h.len > 0
               /\ h.kind = "pointer" => h.target \in Nat
<1> DEFINE h == NameAt(c, p)
           kinds == {"label", "pointer", "root"}
<1>1. h \in Readable(c.f) /\ ((h = Filler /\ h.kind \notin kinds) \/ (h.kind \in kinds /\ WellFormed(h)))
  <2>1. "filler" \notin kinds
    OBVIOUS
  <2> HIDE DEF kinds
  <2>2. LET g == ReadOne(c.f, p, kinds)
        IN  /\ g \in Readable(c.f)
            /\ (g = Filler /\ g.kind \notin kinds) \/ (g.kind \in kinds /\ g.at = p /\ WellFormed(g))
    BY <2>1, ReadOneFacts
  <2> QED
    BY <2>2 DEF NameAt, kinds
<1>2. h.len \in Nat
  BY <1>1, ReadableSizes
<1>3. Filler.kind = "filler"
  BY DEF Filler
<1>4. WellFormed(h) => (h.kind = "label" => h.len > 0) /\ (h.kind = "pointer" => h.target \in Nat)
  BY DEF WellFormed
<1> HIDE DEF h
<1> QED
  BY <1>1, <1>2, <1>3, <1>4 DEF h

LEMMA NameBounded ==
    ASSUME NEW f, IsFrame(f), NEW start \in Nat, NEW off \in 0..f.cap
    PROVE  Bounded(dnsName(f, start, off), f, off)
<1> DEFINE c == [f |-> f, start |-> start]
           name == CHOOSE g : Names!IsRecursion(c, g)
           e == Failure("MalformedPacket", 0)
<1>1. c.f = f /\ c.start = start /\ f.cap \in Nat
  BY DEF IsFrame
<1> HIDE DEF c
<1>2. ASSUME NEW p \in Nat
      PROVE  /\ NameNext(c, p) \in Nat
             /\ NameJoin(c, p, e) = e
  <2>1. NameNext(c, p) \in Nat
    BY <1>1, NameFacts DEF NameNext, NameTarget
  <2>2. NameJoin(c, p, e) = e
    BY DEF NameJoin, Failure
  <2> QED
    BY <2>1, <2>2
<1>3. Names!IsRecursion(c, name)
  <2>1. Names!Leads(c)
    BY <1>2 DEF Names!Leads, NamePlaces
  <2>2. \A p \in NamePlaces(c) : NameMore(c, p) => NameJoin(c, p, e) = e
    BY <1>2 DEF NamePlaces
  <2> HIDE DEF e
  <2>3. \E g : Names!IsRecursion(c, g)
    BY <2>1, <2>2, Names!AbsorbingRecursion
  <2> QED
    BY <2>3
<1> DEFINE d == [f |-> f, start |-> start, names |-> name]
           rank == [p \in Nat |-> IF p <= f.cap THEN f.cap - p ELSE 0]
<1> HIDE DEF name
<1>4. d.f = f /\ d.start = start /\ d.names = name
  OBVIOUS
<1>5. \A p : /\ NameAt(d, p) = NameAt(c, p) /\ NameMore(d, p) = NameMore(c, p) /\ NameNext(d, p) = NameNext(c, p)
             /\ \A v : NameJoin(d, p, v) = NameJoin(c, p, v)
  BY <1>1, <1>4 DEF NameAt, NameMore, NameNext, NameTarget, NameJoin
<1> HIDE DEF d
<1>6. \A p \in Nat : name[p] = IF NameMore(c, p) THEN NameJoin(c, p, name[NameNext(c, p)]) ELSE NameLast(c, p)
  BY <1>3 DEF Names!IsRecursion, NamePlaces
<1>7. Labels!IsRecursion(d, name)
  <2>1. name = [p \in Nat |-> name[p]]
    BY <1>3 DEF Names!IsRecursion, NamePlaces
  <2>2. \A p \in Nat : name[p] = IF LabelMore(d, p) THEN NameJoin(d, p, name[NameNext(d, p)]) ELSE LabelLast(d, p)
    BY <1>4, <1>5, <1>6 DEF LabelMore, LabelLast
  <2> QED
    BY <2>1, <2>2 DEF Labels!IsRecursion, NamePlaces
<1>8. ASSUME NEW p \in Nat, LabelMore(d, p)
      PROVE  NameNext(d, p) \in Nat /\ p < NameNext(d, p) /\ NameNext(d, p) <= f.cap
  <2>1. NameNext(d, p) = p + NameAt(c, p).len /\ NameAt(c, p).len \in Nat /\ NameAt(c, p).len > 0
    BY <1>1, <1>5, <1>8, NameFacts DEF LabelMore, NameNext
  <2>2. Has(f, p, NameAt(c, p).len)
    BY <1>1, <1>5, <1>8 DEF LabelMore, NameMore
  <2> QED
    BY <1>1, <2>1, <2>2 DEF Has
<1>9. Labels!Descends(d, rank)
  <2> SUFFICES ASSUME NEW p \in Nat
               PROVE  /\ rank[p] \in Nat
                      /\ LabelMore(d, p) => NameNext(d, p) \in Nat /\ rank[NameNext(d, p)] < rank[p]
    BY DEF Labels!Descends, NamePlaces
  <2> QED
    BY <1>1, <1>8
<1>10. ASSUME NEW p \in NamePlaces(d), ~LabelMore(d, p)
       PROVE  NameIn(d, p, LabelLast(d, p))
  <2> DEFINE h == NameAt(c, p)
  <2>1. p \in Nat /\ LabelLast(d, p) = name[p]
    BY <1>4 DEF NamePlaces, LabelLast
  <2>2. h.len \in Nat /\ h.kind \in {"label", "pointer", "root", "filler"}
    BY <1>1, <2>1, NameFacts
  <2>3. CASE NameMore(c, p)
    <3>1. h.kind = "pointer" /\ Has(f, p, h.len)
      BY <1>1, <1>5, <1>10, <2>2, <2>3 DEF LabelMore, NameMore
    <3>2. name[p] = NameJoin(c, p, name[NameNext(c, p)])
      BY <1>6, <2>1, <2>3
    <3>3. name[p].ok => name[p].off = p + h.len
      BY <3>1, <3>2 DEF NameJoin, Success
    <3> HIDE DEF h
    <3>4. p + h.len \in p..f.cap
      BY <1>1, <2>1, <2>2, <3>1 DEF Has
    <3> QED
      BY <1>4, <2>1, <3>3, <3>4 DEF NameIn, Bounded
  <2>4. CASE ~NameMore(c, p)
    <3>1. name[p] = NameLast(c, p)
      BY <1>6, <2>1, <2>4
    <3>2. \/ ~Has(f, p, 1) /\ NameLast(c, p).off = p
          \/ Has(f, p, 1) /\ NameLast(c, p).off = p + 1
          \/ ~NameLast(c, p).ok
      BY <1>1 DEF NameLast, Success, Failure
    <3>3. p <= f.cap /\ name[p].ok => name[p].off \in p..f.cap
      BY <1>1, <2>1, <3>1, <3>2 DEF Has
    <3> QED
      BY <1>4, <2>1, <3>3 DEF NameIn, Bounded
  <2> QED
    BY <2>3, <2>4
<1>11. ASSUME NEW p \in NamePlaces(d), LabelMore(d, p), NameIn(d, NameNext(d, p), name[NameNext(d, p)])
       PROVE  NameIn(d, p, NameJoin(d, p, name[NameNext(d, p)]))
  <2> DEFINE at == NameNext(d, p)
             v == name[at]
  <2>1. p \in Nat /\ at \in Nat /\ p < at /\ at <= f.cap /\ NameAt(d, p).kind = "label"
    BY <1>8, <1>11 DEF NamePlaces, LabelMore
  <2>2. v.ok => v.off \in at..f.cap
    BY <1>4, <1>11, <2>1 DEF NameIn, Bounded
  <2>3. NameJoin(d, p, v).ok => v.ok /\ NameJoin(d, p, v).off = v.off
    BY <2>1 DEF NameJoin, Success
  <2> HIDE DEF at, v
  <2>4. NameJoin(d, p, v).ok => NameJoin(d, p, v).off \in p..f.cap
    BY <1>1, <2>1, <2>2, <2>3
  <2> QED
    BY <1>4, <2>4 DEF NameIn, Bounded, v, at
<1>12. \A p \in Nat : NameIn(d, p, name[p])
  BY <1>7, <1>9, <1>10, <1>11, Labels!RankedInduction DEF NamePlaces
<1>13. dnsName(f, start, off) = name[off]
  <2> DEFINE Eq(g) == g = [p \in Nat |->
                LET h == ReadOne(f, p, {"label", "pointer", "root"})
                    rest == g[IF h.kind = "pointer" THEN start + h.target ELSE p + h.len]
                    next == IF h.kind = "pointer" THEN p + h.len ELSE rest.off
                IN  IF ~Has(f, p, 1) THEN Success(<<>>, p)
                    ELSE IF h.kind = "filler" THEN Failure("MalformedPacket", p)
                    ELSE IF ~Has(f, p, h.len) THEN Failure("TruncatedHeader", p)
                    ELSE IF h.kind = "root" THEN Success(<<>>, p + 1)
                    ELSE IF h.kind = "pointer" /\ ~Has(f, start + h.target, 1)
                    THEN Failure("MalformedPacket", p)
                    ELSE IF ~rest.ok THEN rest
                    ELSE Success((IF h.kind = "label" THEN <<h.value>> ELSE <<>>) \o rest.hdr, next)]
  <2>1. dnsName(f, start, off) = (CHOOSE g : Eq(g))[off]
    BY DEF dnsName
  <2>2. \A g : Names!IsRecursion(c, g) <=> Eq(g)
    BY <1>1 DEF Names!IsRecursion, NamePlaces, NameAt, NameTarget, NameMore, NameNext, NameLast, NameJoin
  <2>3. name = CHOOSE g : Eq(g)
    <3> HIDE DEF Eq
    <3> QED
      BY <2>2, Zenon DEF name
  <2> HIDE DEF Eq
  <2> QED
    BY <2>1, <2>3
<1> QED
  BY <1>4, <1>12, <1>13 DEF NameIn

-----------------------------------------------------------------------------
(* DNS and NetBIOS                                                         *)

LEMMA DnsEntryBounded ==
    ASSUME NEW f, IsFrame(f), NEW start \in Nat, NEW off \in 0..f.cap, NEW section
    PROVE  Bounded(dnsEntry(f, start, off, section), f, off)
<1> DEFINE name == dnsName(f, start, off)
           kind == IF section = "question" THEN "question" ELSE "record"
           size == IF section = "question" THEN 4 ELSE 10
           h == Read(f, name.off, kind)
           end == Success(<<section, name.hdr, h.value>>, name.off + h.len)
           fields == Checked(<< <<Has(f, name.off, size), "TruncatedHeader">>,
                                <<Has(f, name.off, h.len), "TruncatedHeader">> >>, name.off, end)
<1>1. Bounded(name, f, off)
  BY NameBounded
<1>2. dnsEntry(f, start, off, section) = IF name.ok THEN fields ELSE name
  BY DEF dnsEntry, Then
<1>3. h.len \in Nat
  BY ReadSizes
<1> HIDE DEF name, h
<1>4. CASE name.ok
  <2>1. name.off \in off..f.cap
    BY <1>1, <1>4 DEF Bounded
  <2>2. Has(f, name.off, h.len) => Bounded(end, f, name.off)
    BY <1>3, <2>1, Later, SuccessBounded
  <2> HIDE DEF end
  <2>3. Bounded(fields, f, name.off)
    BY <2>2, CheckedBounded
  <2> HIDE DEF fields
  <2> QED
    BY <1>2, <1>4, <2>1, <2>3, Later
<1>5. CASE ~name.ok
  BY <1>1, <1>2, <1>5
<1> QED
  BY <1>4, <1>5

\* The loop over the entries.
DnsJoin(c, S, r) ==
    Then(r, LAMBDA q : Then(dnsEntry(c.f, c.start, q.off, c.seq[Max(S)]),
                            LAMBDA e : Success(Append(q.hdr, e.hdr), e.off)))
DnsIn(c, S, r) == Bounded(r, c.f, c.from)

DnsEntries == INSTANCE RecursionLemmas WITH
                  Dom <- FoldPlaces, More <- FoldMore, Next <- FoldNext,
                  Last <- FoldLast, Join <- DnsJoin, Inv <- DnsIn

LEMMA DnsBounded ==
    ASSUME NEW f, IsFrame(f), NEW off \in 0..f.cap
    PROVE  Bounded(decodeDns(f, off), f, off)
<1> DEFINE h == Read(f, off, "dns")
           base == Success(<<>>, off + 12)
           Entry(r, section) ==
               Then(r, LAMBDA q : Then(dnsEntry(f, off, q.off, section),
                                       LAMBDA e : Success(Append(q.hdr, e.hdr), e.off)))
           entries == FoldLeft(Entry, base, h.entries)
<1>1. ASSUME Has(f, off, 12)
      PROVE  Bounded(entries, f, off)
  <2> DEFINE seq == h.entries
             c == [seq |-> seq, base |-> base, f |-> f, start |-> off, from |-> off]
             g == CHOOSE k : DnsEntries!IsRecursion(c, k)
  <2>1. PICK n \in Nat : DOMAIN seq = 1..n
    BY ReadSizes
  <2>2. Bounded(base, f, off)
    BY <1>1, SuccessBounded
  <2> HIDE DEF base
  <2>3. entries = g[DOMAIN seq]
    <3>1. entries =
            (CHOOSE k : k = [S \in SUBSET DOMAIN seq |->
                                IF S = {} THEN base ELSE Entry(k[S \ {Max(S)}], seq[Max(S)])])[DOMAIN seq]
      <4> HIDE DEF h
      <4> QED
        BY DEF FoldLeft, MapThenFoldSet
    <3> HIDE DEF h, seq
    <3>2. c.seq = seq /\ c.base = base /\ c.f = f /\ c.start = off
      OBVIOUS
    <3> HIDE DEF c
    <3>3. \A S, r : DnsJoin(c, S, r) = Entry(r, seq[Max(S)])
      BY <3>2 DEF DnsJoin, Then
    <3> HIDE DEF entries, Entry
    <3>4. \A k : DnsEntries!IsRecursion(c, k) <=>
                 k = [S \in SUBSET DOMAIN seq |-> IF S = {} THEN base ELSE Entry(k[S \ {Max(S)}], seq[Max(S)])]
      BY <3>2, <3>3 DEF DnsEntries!IsRecursion, FoldPlaces, FoldMore, FoldNext, FoldLast
    <3> QED
      BY <3>1, <3>4
  <2>4. c.seq = seq /\ c.base = base /\ c.f = f /\ c.start = off /\ c.from = off
    OBVIOUS
  <2> HIDE DEF c, seq, entries
  <2>5. DnsEntries!Descends(c, FoldRank(c))
    BY <2>1, <2>4, FoldDescends DEF DnsEntries!Descends
  <2>6. \A S \in FoldPlaces(c) : ~FoldMore(c, S) => DnsIn(c, S, FoldLast(c, S))
    BY <2>2, <2>4 DEF DnsIn, FoldLast
  <2>7. ASSUME NEW S \in FoldPlaces(c), NEW r, FoldMore(c, S), DnsIn(c, FoldNext(c, S), r)
        PROVE  DnsIn(c, S, DnsJoin(c, S, r))
    <3> DEFINE e == dnsEntry(f, off, r.off, seq[Max(S)])
    <3>1. Bounded(r, f, off)
      BY <2>4, <2>7 DEF DnsIn
    <3>2. DnsJoin(c, S, r) = IF ~r.ok THEN r ELSE IF ~e.ok THEN e ELSE Success(Append(r.hdr, e.hdr), e.off)
      BY <2>4 DEF DnsJoin, Then
    <3>3. CASE ~r.ok
      BY <2>4, <3>1, <3>2, <3>3 DEF DnsIn
    <3>4. CASE r.ok
      <4>1. r.off \in off..f.cap
        BY <3>1, <3>4 DEF Bounded
      <4>2. off \in Nat /\ r.off \in 0..f.cap
        BY <4>1, Later
      <4>3. Bounded(e, f, r.off)
        BY <4>2, DnsEntryBounded
      <4> HIDE DEF e
      <4>4. Bounded(e, f, off)
        BY <4>1, <4>3, Later
      <4>5. Bounded(DnsJoin(c, S, r), f, off)
        BY <3>2, <3>4, <4>4 DEF Bounded, Success
      <4> QED
        BY <2>4, <4>5 DEF DnsIn
    <3> QED
      BY <3>3, <3>4
  <2>8. \A S \in FoldPlaces(c) : DnsIn(c, S, g[S])
    BY <2>5, <2>6, <2>7, DnsEntries!RankedChoice
  <2>9. DOMAIN seq \in FoldPlaces(c)
    BY <2>4 DEF FoldPlaces
  <2> HIDE DEF g
  <2> QED
    BY <2>3, <2>4, <2>8, <2>9 DEF DnsIn
<1>2. decodeDns(f, off) = Checked(<< <<Has(f, off, 12), "TruncatedHeader">> >>, off, entries)
  BY DEF decodeDns, Message
<1> HIDE DEF entries
<1> QED
  BY <1>1, <1>2, CheckedBounded

\* A NetBIOS name is passed over, or its length byte, or nothing.
LEMMA NetbiosNameBounds ==
    ASSUME NEW f, IsFrame(f), NEW off \in 0..f.cap
    PROVE  decodeNetbiosName(f, off)[2] \in off..f.cap
<1> DEFINE h == Read(f, off, "netbios")
           at == off + h.len
           end == After(at, Items(f, at, f.cap, {"label"}))
<1>1. h.len \in Nat /\ f.cap \in Nat
  BY ReadSizes DEF IsFrame
<1>2. decodeNetbiosName(f, off)[2] = IF ~Has(f, off, 1) THEN off
                                     ELSE IF h.kind # "netbios" \/ ~Has(f, off, h.len) THEN off + 1
                                     ELSE IF Has(f, end, 1) THEN end + 1 ELSE end
  BY DEF decodeNetbiosName
<1>3. CASE Has(f, off, h.len)
  <2>1. at \in Nat /\ off <= at /\ at <= f.cap
    BY <1>1, <1>3 DEF Has
  <2> HIDE DEF at
  <2>2. end \in at..f.cap
    BY <1>1, <2>1, ItemsBounds
  <2> HIDE DEF end
  <2> QED
    BY <1>1, <1>2, <2>1, <2>2 DEF Has
<1>4. CASE ~Has(f, off, h.len)
  BY <1>1, <1>2, <1>4 DEF Has
<1> QED
  BY <1>3, <1>4

LEMMA NbnsNameBounds ==
    ASSUME NEW f, IsFrame(f), NEW start, NEW off \in 0..f.cap
    PROVE  nbnsName(f, start, off)[2] \in off..f.cap
<1>1. nbnsName(f, start, off)[2] \in {decodeNetbiosName(f, off)[2], off}
      \/ (Has(f, off, 2) /\ nbnsName(f, start, off)[2] = off + 2)
  BY DEF nbnsName
<1> QED
  BY <1>1, NetbiosNameBounds, Here

\* The loop over the entries of NBNS: where it is in the message.
NbnsPlaced(s, f) == "off" \in DOMAIN s /\ s.off \in 0..f.cap

LEMMA NbnsEntryPlaced ==
    ASSUME NEW f, IsFrame(f), NEW start, NEW s, NbnsPlaced(s, f), NEW section
    PROVE  /\ NbnsPlaced(nbnsEntry(f, start, s, section), f)
           /\ s.off <= nbnsEntry(f, start, s, section).off
<1> DEFINE name == nbnsName(f, start, s.off)
           off == name[2]
           h == Read(f, off, IF section = "question" THEN "question" ELSE "record")
           size == IF section = "question" THEN 4 ELSE 10
           whole == h.kind # "filler" /\ Has(f, off, h.len)
           t == [s EXCEPT !.off = off, !.ended = section]
           u == [s EXCEPT !.off = off + (IF whole THEN h.len ELSE size),
                          !.items = Append(@, <<section, name[1],
                              IF whole \/ h.kind = "filler" THEN h.value ELSE None>>)]
<1>1. s.off \in 0..f.cap /\ "off" \in DOMAIN s
  BY DEF NbnsPlaced
<1>2. off \in s.off..f.cap /\ h.len \in Nat /\ size \in Nat /\ f.cap \in Nat
  BY <1>1, NbnsNameBounds, ReadSizes DEF IsFrame
<1>3. nbnsEntry(f, start, s, section) = s \/ nbnsEntry(f, start, s, section) = t
      \/ (Has(f, off, size) /\ nbnsEntry(f, start, s, section) = u)
  BY DEF nbnsEntry
<1> HIDE DEF off, h, size
<1>4. DOMAIN t = DOMAIN s /\ t.off = off /\ DOMAIN u = DOMAIN s /\ u.off = off + (IF whole THEN h.len ELSE size)
  BY <1>1
<1> HIDE DEF t, u
<1>5. Has(f, off, size) => u.off \in s.off..f.cap
  BY <1>1, <1>2, <1>4 DEF Has
<1>6. t.off \in s.off..f.cap
  BY <1>2, <1>4
<1> QED
  BY <1>1, <1>2, <1>3, <1>4, <1>5, <1>6 DEF NbnsPlaced

NbnsJoin(c, S, s) == nbnsEntry(c.f, c.start, s, c.seq[Max(S)])
NbnsIn(c, S, s) == NbnsPlaced(s, c.f) /\ c.start <= s.off

NbnsEntries == INSTANCE RecursionLemmas WITH
                   Dom <- FoldPlaces, More <- FoldMore, Next <- FoldNext,
                   Last <- FoldLast, Join <- NbnsJoin, Inv <- NbnsIn

LEMMA NbnsBounded ==
    ASSUME NEW f, IsFrame(f), NEW off \in 0..f.cap
    PROVE  Bounded(decodeNbns(f, off), f, off)
<1> DEFINE h == Read(f, off, "nbns")
           base == [off |-> off + 12, items |-> <<>>, ended |-> None]
           Entry(s, section) == nbnsEntry(f, off, s, section)
           end == FoldLeft(Entry, base, h.entries)
           r == Success(end.items, end.off)
<1>1. ASSUME Has(f, off, 12)
      PROVE  Bounded(r, f, off)
  <2> DEFINE seq == h.entries
             c == [seq |-> seq, base |-> base, f |-> f, start |-> off]
             g == CHOOSE k : NbnsEntries!IsRecursion(c, k)
  <2>1. PICK n \in Nat : DOMAIN seq = 1..n
    BY ReadSizes
  <2>2. NbnsPlaced(base, f) /\ off <= base.off
    BY <1>1 DEF NbnsPlaced, Has, IsFrame
  <2> HIDE DEF base
  <2>3. end = g[DOMAIN seq]
    <3>1. end =
            (CHOOSE k : k = [S \in SUBSET DOMAIN seq |->
                                IF S = {} THEN base ELSE Entry(k[S \ {Max(S)}], seq[Max(S)])])[DOMAIN seq]
      <4> HIDE DEF h
      <4> QED
        BY DEF FoldLeft, MapThenFoldSet
    <3> HIDE DEF h, seq
    <3>2. c.seq = seq /\ c.base = base /\ c.f = f /\ c.start = off
      OBVIOUS
    <3> HIDE DEF c
    <3>3. \A k : NbnsEntries!IsRecursion(c, k) <=>
                 k = [S \in SUBSET DOMAIN seq |-> IF S = {} THEN base ELSE Entry(k[S \ {Max(S)}], seq[Max(S)])]
      BY <3>2 DEF NbnsEntries!IsRecursion, FoldPlaces, FoldMore, FoldNext, FoldLast, NbnsJoin
    <3> HIDE DEF end, Entry
    <3> QED
      BY <3>1, <3>3
  <2>4. c.seq = seq /\ c.base = base /\ c.f = f /\ c.start = off
    OBVIOUS
  <2> HIDE DEF c, seq, end
  <2>5. NbnsEntries!Descends(c, FoldRank(c))
    BY <2>1, <2>4, FoldDescends DEF NbnsEntries!Descends
  <2>6. \A S \in FoldPlaces(c) : ~FoldMore(c, S) => NbnsIn(c, S, FoldLast(c, S))
    BY <2>2, <2>4 DEF NbnsIn, FoldLast
  <2>7. ASSUME NEW S \in FoldPlaces(c), NEW s, FoldMore(c, S), NbnsIn(c, FoldNext(c, S), s)
        PROVE  NbnsIn(c, S, NbnsJoin(c, S, s))
    <3> DEFINE t == nbnsEntry(f, off, s, seq[Max(S)])
    <3>1. NbnsPlaced(s, f) /\ off <= s.off
      BY <2>4, <2>7 DEF NbnsIn
    <3>2. NbnsPlaced(t, f) /\ s.off <= t.off
      BY <3>1, NbnsEntryPlaced
    <3>3. NbnsJoin(c, S, s) = t
      BY <2>4 DEF NbnsJoin
    <3> HIDE DEF t
    <3>4. off <= t.off
      BY <3>1, <3>2 DEF NbnsPlaced, IsFrame
    <3> QED
      BY <2>4, <3>2, <3>3, <3>4 DEF NbnsIn
  <2>8. \A S \in FoldPlaces(c) : NbnsIn(c, S, g[S])
    BY <2>5, <2>6, <2>7, NbnsEntries!RankedChoice
  <2>9. DOMAIN seq \in FoldPlaces(c)
    BY <2>4 DEF FoldPlaces
  <2> HIDE DEF g
  <2>10. NbnsPlaced(end, f) /\ off <= end.off
    BY <2>3, <2>4, <2>8, <2>9 DEF NbnsIn
  <2> QED
    BY <2>10 DEF NbnsPlaced, Bounded, Success, IsFrame
<1>2. decodeNbns(f, off) = Checked(<< <<Has(f, off, 12), "TruncatedHeader">> >>, off, r)
  BY DEF decodeNbns, Message
<1> HIDE DEF r
<1> QED
  BY <1>1, <1>2, CheckedBounded

LEMMA NbdgmBounded ==
    ASSUME NEW f, IsFrame(f), NEW off \in 0..f.cap
    PROVE  Bounded(decodeNbdgm(f, off), f, off)
<1> DEFINE h == Read(f, off, "nbdgm")
           from == decodeNetbiosName(f, off + 14)
           to == decodeNetbiosName(f, from[2])
           names == IF h.type # "direct" THEN Success(<<>>, off + 10)
                    ELSE IF ~Has(f, off, 14) THEN Failure("TruncatedHeader", off + 10)
                    ELSE Success(<<from[1], to[1]>>, to[2])
<1>1. Has(f, off, 10) => Bounded(Success(<<>>, off + 10), f, off)
  BY SuccessBounded
<1>2. ASSUME Has(f, off, 14)
      PROVE  to[2] \in off..f.cap
  <2> DEFINE at == off + 14
  <2>1. at \in off..f.cap
    BY <1>2, Here
  <2> HIDE DEF at
  <2>2. at \in 0..f.cap
    BY <2>1, Later
  <2>3. decodeNetbiosName(f, at)[2] \in at..f.cap
    BY <2>2, NetbiosNameBounds
  <2>4. decodeNetbiosName(f, at)[2] \in off..f.cap
    BY <2>1, <2>2, <2>3 DEF IsFrame
  <2>5. decodeNetbiosName(f, at) = from
    BY DEF at
  <2> HIDE DEF from
  <2>6. from[2] \in off..f.cap /\ from[2] \in 0..f.cap
    BY <2>4, <2>5, Later
  <2>7. to[2] \in from[2]..f.cap
    BY <2>6, NetbiosNameBounds
  <2> HIDE DEF to
  <2> QED
    BY <2>6, <2>7 DEF IsFrame
<1>3. decodeNbdgm(f, off) = Checked(<< <<Has(f, off, 10), "TruncatedHeader">> >>, off, names)
  BY DEF decodeNbdgm, Message
<1> HIDE DEF to, from
<1>4. Has(f, off, 10) => Bounded(names, f, off)
  <2>1. Has(f, off, 14) => Bounded(Success(<<from[1], to[1]>>, to[2]), f, off)
    BY <1>2 DEF Bounded, Success
  <2> QED
    BY <1>1, <2>1, FailureBounded
<1> HIDE DEF names
<1> QED
  BY <1>3, <1>4, CheckedBounded

-----------------------------------------------------------------------------
(* Other datagrams                                                         *)

\* What is taken to the end of the capture, or to where it says it ends if it ends there.
LEMMA EndBounded ==
    ASSUME NEW f, IsFrame(f), NEW off \in 0..f.cap, NEW hdr
    PROVE  /\ Bounded(Success(hdr, f.cap), f, off)
           /\ \A n \in Nat : Bounded(Success(hdr, Min({off + n, f.cap})), f, off)
<1>1. Bounded(Success(hdr, f.cap), f, off)
  BY Here DEF Bounded, Success
<1>2. ASSUME NEW n \in Nat
      PROVE  Bounded(Success(hdr, Min({off + n, f.cap})), f, off)
  BY ClampedBounds DEF Bounded, Success
<1> QED
  BY <1>1, <1>2

LEMMA StunBounded ==
    ASSUME NEW f, IsFrame(f), NEW off \in 0..f.cap
    PROVE  Bounded(decodeStun(f, off), f, off)
<1> DEFINE h == Read(f, off, "stun")
           end == Min({off + 20 + h.length, f.cap})
           mapped == Mapped(Items(f, off + 20, end, {"attribute"}))
           r == Success(IF mapped = None THEN <<>> ELSE <<mapped>>, end)
<1>1. decodeStun(f, off) = Checked(<< <<Has(f, off, 20), "TruncatedHeader">> >>, off, r)
  BY DEF decodeStun, Message
<1>2. h.length \in Nat
  BY ReadSizes
<1> HIDE DEF mapped, h
<1>3. off + 20 + h.length = off + (20 + h.length) /\ 20 + h.length \in Nat
  BY <1>2, Here
<1>4. Bounded(r, f, off)
  BY <1>3, EndBounded
<1> HIDE DEF r
<1> QED
  BY <1>1, <1>4, CheckedBounded

\* Those that go on to the end.
LEMMA ToEndBounded ==
    ASSUME NEW f, IsFrame(f), NEW off \in 0..f.cap
    PROVE  /\ Bounded(decodeDhcp(f, off), f, off)
           /\ Bounded(decodeSsdp(f, off), f, off)
           /\ Bounded(decodeDbLanSyncDisc(f, off), f, off)
<1>1. \A hdr : Bounded(Success(hdr, f.cap), f, off)
  BY EndBounded
<1>2. Bounded(decodeDhcp(f, off), f, off)
  BY <1>1, FailureBounded, CheckedBounded DEF decodeDhcp, Marked, Message
<1>3. Bounded(decodeSsdp(f, off), f, off)
  BY <1>1, CheckedBounded DEF decodeSsdp
<1>4. Bounded(decodeDbLanSyncDisc(f, off), f, off)
  BY <1>1, FailureBounded, CheckedBounded DEF decodeDbLanSyncDisc, Marked, Message
<1> QED
  BY <1>2, <1>3, <1>4

\* Items of one length behind a fixed part.
LEMMA RowBounded ==
    ASSUME NEW f, IsFrame(f), NEW off \in 0..f.cap, NEW n \in Nat, Has(f, off, n),
           NEW kinds \in SUBSET {"label", "language", "line", "option6"}, NEW hdr
    PROVE  Bounded(Success(hdr, After(off + n, Items(f, off + n, f.cap, kinds))), f, off)
<1> DEFINE at == off + n
<1>1. f.cap \in Nat /\ at \in Nat /\ off <= at /\ at <= f.cap
  BY DEF IsFrame, Has
<1> HIDE DEF at
<1>2. After(at, Items(f, at, f.cap, kinds)) \in at..f.cap
  BY <1>1, ItemsBounds
<1>3. After(at, Items(f, at, f.cap, kinds)) \in off..f.cap
  BY <1>1, <1>2
<1> QED
  BY <1>3 DEF Bounded, Success, at

LEMMA Dhcpv6Bounded ==
    ASSUME NEW f, IsFrame(f), NEW off \in 0..f.cap
    PROVE  Bounded(decodeDhcpv6(f, off), f, off)
<1>1. \A hdr : Has(f, off, 4) =>
          Bounded(Success(hdr, After(off + 4, Items(f, off + 4, f.cap, {"option6"}))), f, off)
  BY RowBounded
<1> QED
  BY <1>1, FailureBounded, CheckedBounded DEF decodeDhcpv6, Marked, Message

LEMMA SrvlocBounded ==
    ASSUME NEW f, IsFrame(f), NEW off \in 0..f.cap
    PROVE  Bounded(decodeSrvloc(f, off), f, off)
<1> DEFINE h == Read(f, off, "srvloc")
           language == Items(f, off + h.len, f.cap, {"language"})
           r == IF h.kind # "srvloc" THEN Failure("MalformedPacket", off)
                ELSE IF Has(f, off, h.len) THEN Success(Values(language), After(off + h.len, language))
                ELSE Failure("TruncatedHeader", off)
<1>1. h.len \in Nat
  BY ReadSizes
<1>2. Has(f, off, h.len) => Bounded(Success(Values(language), After(off + h.len, language)), f, off)
  BY <1>1, RowBounded
<1>3. Bounded(r, f, off)
  BY <1>2, FailureBounded
<1>4. decodeSrvloc(f, off) = Checked(<< <<Has(f, off, 5), "TruncatedHeader">> >>, off, r)
  BY DEF decodeSrvloc, Marked, Message
<1> HIDE DEF r
<1> QED
  BY <1>3, <1>4, CheckedBounded

LEMMA TftpBounded ==
    ASSUME NEW f, IsFrame(f), NEW off \in 0..f.cap
    PROVE  Bounded(decodeTftp(f, off), f, off)
<1> DEFINE h == Read(f, off, "tftp")
           number == Read(f, off + 2, "number").value
           message == readNullTerminated(f, off + 4)
           r == IF h.kind # "tftp" THEN Failure("MalformedPacket", off)
                ELSE IF h.opcode \in {"RRQ", "WRQ"} THEN Success(Strings(f, off + 2), f.cap)
                ELSE IF ~Has(f, off + 2, 2) THEN Failure("TruncatedHeader", off)
                ELSE IF h.opcode = "ERROR" THEN Success(<<number>> \o message, f.cap)
                ELSE Success(<<number>>, IF h.opcode = "DATA" THEN f.cap ELSE off + 4)
<1>1. \A hdr : Bounded(Success(hdr, f.cap), f, off)
  BY EndBounded
<1>2. \A hdr : Has(f, off + 2, 2) => Bounded(Success(hdr, off + 4), f, off)
  BY SuccessBounded DEF Has, IsFrame
<1>3. Bounded(r, f, off)
  BY <1>1, <1>2, FailureBounded
<1>4. decodeTftp(f, off) = Checked(<< <<Has(f, off, 2), "TruncatedHeader">> >>, off, r)
  BY DEF decodeTftp, Marked, Message
<1> HIDE DEF r
<1> QED
  BY <1>3, <1>4, CheckedBounded

LEMMA NtpBounded ==
    ASSUME NEW f, IsFrame(f), NEW off \in 0..f.cap
    PROVE  Bounded(decodeNtp(f, off), f, off)
<1>1. \A hdr : Has(f, off, 48) => Bounded(Success(hdr, off + 48), f, off)
  BY SuccessBounded
<1> QED
  BY <1>1, CheckedBounded DEF decodeNtp, Message

LEMMA RtcpBounded ==
    ASSUME NEW f, IsFrame(f), NEW off \in 0..f.cap
    PROVE  Bounded(decodeRtcp(f, off), f, off)
<1> DEFINE h == Read(f, off, "rtcp")
           size == 4 * (h.words + 1)
<1>1. size \in Nat
  BY ReadSizes
<1> HIDE DEF size
<1>2. \A hdr : Bounded(Success(hdr, Min({off + size, f.cap})), f, off)
  BY <1>1, EndBounded
<1> QED
  BY <1>2, CheckedBounded DEF decodeRtcp, Message, size

LEMMA DtlsBounded ==
    ASSUME NEW f, IsFrame(f), NEW off \in 0..f.cap
    PROVE  Bounded(decodeDtls(f, off), f, off)
<1> DEFINE h == Read(f, off, "dtls")
           end == Min({off + 13 + h.length, f.cap})
<1>1. h.length \in Nat
  BY ReadSizes
<1>2. \A hdr : Bounded(Success(hdr, end), f, off)
  <2> HIDE DEF h
  <2>1. off + 13 + h.length = off + (13 + h.length) /\ 13 + h.length \in Nat
    BY <1>1, Here
  <2> QED
    BY <2>1, EndBounded
<1> QED
  BY <1>2, CheckedBounded DEF decodeDtls, Message

LEMMA QuicBounded ==
    ASSUME NEW f, IsFrame(f), NEW off \in 0..f.cap
    PROVE  Bounded(decodeQuic(f, off), f, off)
<1> DEFINE h == Read(f, off, "quic")
           dcid == off + 5
           scid == dcid + 1 + h.dcidLen
           r == Success(<<h.value>>, scid + 1 + h.scidLen)
<1>1. CASE h.kind # "quic" \/ ~h.long
  <2>1. \A hdr : Has(f, off, 1) => Bounded(Success(hdr, off + 1), f, off)
    BY SuccessBounded
  <2> QED
    BY <1>1, <2>1, CheckedBounded DEF decodeQuic
<1>2. CASE h.kind = "quic" /\ h.long
  <2>1. h.dcidLen \in Nat /\ h.scidLen \in Nat
    <3>1. h = Filler \/ (h.kind = "quic" /\ WellFormed(h))
      BY ReadFacts
    <3>2. Filler.kind = "filler"
      BY DEF Filler
    <3>3. WellFormed(h) => (h.kind = "quic" /\ h.long => h.dcidLen \in Nat /\ h.scidLen \in Nat)
      BY DEF WellFormed
    <3> HIDE DEF h
    <3> QED
      BY <1>2, <3>1, <3>2, <3>3
  <2>2. Has(f, scid, 1 + h.scidLen) => Bounded(r, f, off)
    <3> HIDE DEF h
    <3> QED
      BY <2>1 DEF Bounded, Success, Has, IsFrame
  <2>3. decodeQuic(f, off) = Checked(<< <<Has(f, off, 7), "TruncatedHeader">>,
                                        <<Has(f, dcid, 1 + h.dcidLen), "TruncatedHeader">>,
                                        <<Has(f, scid, 1 + h.scidLen), "TruncatedHeader">> >>, off, r)
    BY <1>2 DEF decodeQuic
  <2> HIDE DEF r, scid, dcid
  <2> QED
    BY <2>2, <2>3, CheckedBounded
<1> QED
  BY <1>1, <1>2

-----------------------------------------------------------------------------
(* ASN.1                                                                   *)

\* The content of a value starts behind its length and is there.
LEMMA Asn1Content ==
    ASSUME NEW f, IsFrame(f), NEW off \in 0..f.cap, NEW tags
    PROVE  LET c == asn1Content(f, off, tags)
           IN  c.ok => /\ c.hdr.length \in Nat
                       /\ c.off \in off..f.cap
                       /\ c.off + c.hdr.length \in off..f.cap
<1> DEFINE h == Read(f, off, "asn1")
           t == readAsn1Tag(f, off)
           l == readAsn1Length(f, h, off)
           at == off + 2 + h.lengthBytes
<1>1. t = Success(h, off + 1) \/ ~t.ok
  BY Checked1 DEF readAsn1Tag
<1>2. (l = Success(h, at) /\ h.lengthBytes \in 0..4 /\ Has(f, off + 2, h.lengthBytes)) \/ ~l.ok
  <2> DEFINE tagged == h.kind = "asn1" /\ h.lengthBytes \in 0..4
  <2>1. l = Checked(<< <<Has(f, off + 1, 1), "TruncatedHeader">>, <<tagged, "MalformedPacket">>,
                       <<Has(f, off + 2, h.lengthBytes), "TruncatedHeader">> >>, off, Success(h, at))
    BY DEF readAsn1Length
  <2>2. tagged => h.lengthBytes \in 0..4
    OBVIOUS
  <2> HIDE DEF tagged, l, h, at
  <2>3. (l = Success(h, at) /\ tagged /\ Has(f, off + 2, h.lengthBytes)) \/ ~l.ok
    BY <2>1, Checked3
  <2> QED
    BY <2>2, <2>3
<1>3. asn1Content(f, off, tags) = l \/ ~asn1Content(f, off, tags).ok
  <2>1. t.ok => t.hdr = h
    BY <1>1 DEF Success
  <2>2. asn1Content(f, off, tags) =
            IF ~t.ok THEN t
            ELSE IF t.hdr.tag \notin tags THEN Failure("MalformedPacket", off)
            ELSE LET m == readAsn1Length(f, t.hdr, off)
                 IN  IF ~m.ok THEN m
                     ELSE IF Has(f, m.off, m.hdr.length) THEN m ELSE Failure("TruncatedHeader", off)
    BY DEF asn1Content, Then
  <2> HIDE DEF h, t
  <2> QED
    BY <2>1, <2>2 DEF Failure
<1>4. asn1Content(f, off, tags).ok => Has(f, l.off, l.hdr.length)
  <2>1. t.ok => t.hdr = h
    BY <1>1 DEF Success
  <2>2. asn1Content(f, off, tags) =
            IF ~t.ok THEN t
            ELSE IF t.hdr.tag \notin tags THEN Failure("MalformedPacket", off)
            ELSE LET m == readAsn1Length(f, t.hdr, off)
                 IN  IF ~m.ok THEN m
                     ELSE IF Has(f, m.off, m.hdr.length) THEN m ELSE Failure("TruncatedHeader", off)
    BY DEF asn1Content, Then
  <2> HIDE DEF h, t
  <2> QED
    BY <2>1, <2>2 DEF Failure
<1>5. h.length \in Nat
  BY ReadSizes
<1>6. l.ok => l.hdr = h /\ l.off = at /\ at \in off..f.cap
  <2>1. h.lengthBytes \in 0..4 /\ Has(f, off + 2, h.lengthBytes) => at \in off..f.cap
    BY DEF Has, IsFrame
  <2> HIDE DEF at, h
  <2> QED
    BY <1>2, <2>1 DEF Success
<1> HIDE DEF h, l, at
<1>7. asn1Content(f, off, tags).ok => l.hdr = h /\ l.off = at /\ at \in off..f.cap /\ Has(f, at, h.length)
  BY <1>3, <1>4, <1>6
<1>8. asn1Content(f, off, tags).ok => at + h.length \in off..f.cap
  BY <1>5, <1>7 DEF Has, IsFrame
<1> QED
  BY <1>3, <1>5, <1>7, <1>8

\* A message is passed over as its sequence says, whatever its parts are.
LEMMA SnmpBounded ==
    ASSUME NEW f, IsFrame(f), NEW off \in 0..f.cap
    PROVE  Bounded(decodeSnmp(f, off), f, off)
<1> DEFINE seq == asn1Content(f, off, {"sequence"})
           Pdu(version, community) ==
               Then(asn1Content(f, community.off, Pdus), LAMBDA pdu :
                   Then(readAsn1Integer(f, pdu.off), LAMBDA id :
                       Success(<<version.hdr, community.hdr, pdu.hdr.tag, id.hdr>>, id.off)))
           Community(version) ==
               Then(readAsn1OctetString(f, version.off), LAMBDA c : Pdu(version, c))
           Version(v) == IF v.hdr = "v3" THEN Success(<<"v3">>, v.off) ELSE Community(v)
           parts == Then(readAsn1Integer(f, seq.off), Version)
<1>1. decodeSnmp(f, off) = IF ~seq.ok THEN seq ELSE IF ~parts.ok THEN parts
                           ELSE Success(parts.hdr, seq.off + seq.hdr.length)
  BY DEF decodeSnmp, InSequence, Then
<1>2. seq.ok => seq.off + seq.hdr.length \in off..f.cap
  BY Asn1Content
<1> HIDE DEF seq, parts
<1> QED
  BY <1>1, <1>2 DEF Bounded, Success

LEMMA LdapBounded ==
    ASSUME NEW f, IsFrame(f), NEW off \in 0..f.cap
    PROVE  Bounded(decodeLdap(f, off), f, off)
<1> DEFINE seq == asn1Content(f, off, {"sequence"})
           Name(id, version) ==
               Then(readAsn1OctetString(f, version.off), LAMBDA dn :
                   Success(<<id.hdr, "bind", version.hdr, dn.hdr>>, dn.off))
           Operation(id) ==
               Then(asn1Content(f, id.off, Operations), LAMBDA op :
                   IF op.hdr.tag # "bind" THEN Success(<<id.hdr, op.hdr.tag>>, op.off)
                   ELSE Then(readAsn1Integer(f, op.off), LAMBDA v : Name(id, v)))
           parts == Then(readAsn1Integer(f, seq.off), Operation)
<1>1. decodeLdap(f, off) = IF ~seq.ok THEN seq ELSE IF ~parts.ok THEN parts
                           ELSE Success(parts.hdr, seq.off + seq.hdr.length)
  BY DEF decodeLdap, InSequence, Then
<1>2. seq.ok => seq.off + seq.hdr.length \in off..f.cap
  BY Asn1Content
<1> HIDE DEF seq, parts
<1> QED
  BY <1>1, <1>2 DEF Bounded, Success

-----------------------------------------------------------------------------
(* Lines                                                                   *)

\* The first line ends in the capture.
LEMMA LineBounded ==
    ASSUME NEW f, IsFrame(f), NEW off \in 0..f.cap
    PROVE  LET last == Min(LineEnds(f, off) \cup {f.cap})
           IN  last \in off..f.cap /\ \A hdr : Bounded(Success(hdr, last), f, off)
<1> DEFINE ends == LineEnds(f, off) \cup {f.cap}
<1>1. ends \subseteq off..f.cap /\ ends # {}
  <2>1. \A i \in DOMAIN f.hs : f.hs[i].at \in Nat /\ f.hs[i].len \in Nat
    BY DEF IsFrame, WellFormed
  <2> QED
    BY <2>1, Here DEF LineEnds
<1> HIDE DEF ends
<1>2. ends \subseteq Nat
  BY <1>1, Here
<1>3. Min(ends) \in off..f.cap
  BY <1>1, <1>2, MinIsLeast
<1> QED
  BY <1>3 DEF Bounded, Success, ends

LEMMA TextBounded ==
    ASSUME NEW f, IsFrame(f), NEW off \in 0..f.cap
    PROVE  /\ Bounded(decodeSmtp(f, off), f, off)
           /\ Bounded(decodePop3(f, off), f, off)
           /\ Bounded(decodeFtp(f, off), f, off)
           /\ Bounded(decodeImap(f, off), f, off)
<1> DEFINE ends == LineEnds(f, off)
           text == LineText(f, off)
           r == Success(<<text.value>>, Min(ends \cup {f.cap}))
           any == ends # {} => Min(ends) # off + 2 /\ TRUE
           spaced == ends # {} => Min(ends) # off + 2 /\ text.spaced
<1>1. Bounded(r, f, off)
  BY LineBounded
<1>2. decodeImap(f, off) =
          Checked(<< <<Has(f, off, 1), "TruncatedHeader">>, <<ends # {}, "MalformedPacket">>,
                     <<spaced, "MalformedPacket">> >>, off, r)
  BY DEF decodeImap, textLine
<1>3. \A r1 \in {decodeSmtp(f, off), decodePop3(f, off), decodeFtp(f, off)} :
          r1 = Checked(<< <<Has(f, off, 1), "TruncatedHeader">>, <<ends # {}, "MalformedPacket">>,
                          <<any, "MalformedPacket">> >>, off, r)
  BY DEF decodeSmtp, decodePop3, decodeFtp, textLine, AnyLine
<1> HIDE DEF r, any, spaced, ends
<1> QED
  BY <1>1, <1>2, <1>3, CheckedBounded

\* The header lines are whole, and the empty line behind them is there when it is passed over.
LEMMA HttpBounded ==
    ASSUME NEW f, IsFrame(f), NEW off \in 0..f.cap
    PROVE  Bounded(decodeHttp(f, off), f, off)
<1> DEFINE ends == LineEnds(f, off)
           text == LineText(f, off)
           last == Min(ends \cup {f.cap})
           line == Success(<<text.value>>, last)
           begins == ends # {} => Min(ends) # off + 2 /\ text.kind = "start line"
           start == Checked(<< <<Has(f, off, 1), "TruncatedHeader">>, <<ends # {}, "MalformedPacket">>,
                               <<begins, "MalformedPacket">> >>, off, line)
           Past(end) == IF Read(f, end, "blank").kind = "blank" /\ Has(f, end, 2) THEN end + 2 ELSE end
           Asked(lines) == \E i \in DOMAIN lines : lines[i].value = "type ocsp"
           Body(lines, past, ocsp) ==
               IF Asked(lines) /\ Has(f, past, 1) /\ ocsp.ok THEN ocsp.hdr ELSE <<>>
           Whole(first, lines, past) ==
               Success(first.hdr \o Values(lines) \o Body(lines, past, decodeOcsp(f, past)), past)
           Headed(first, lines) == Whole(first, lines, Past(After(first.off, lines)))
           headers == Items(f, start.off, f.cap, {"line"})
<1>1. decodeHttp(f, off) = IF start.ok THEN Headed(start, headers) ELSE start
  BY DEF decodeHttp, textLine, Then
<1>2. start.ok => start.off \in off..f.cap
  <2>1. Bounded(line, f, off)
    BY LineBounded
  <2> HIDE DEF line, begins, ends
  <2>2. Bounded(start, f, off)
    BY <2>1, CheckedBounded
  <2> QED
    BY <2>2 DEF Bounded
<1> HIDE DEF start, headers
<1>3. ASSUME start.ok
      PROVE  Past(After(start.off, headers)) \in off..f.cap
  <2> DEFINE at == After(start.off, headers)
  <2>1. start.off \in Nat /\ start.off <= f.cap /\ off <= start.off /\ f.cap \in Nat
    BY <1>2, <1>3, Here
  <2>2. at \in start.off..f.cap
    BY <2>1, ItemsBounds DEF headers
  <2> HIDE DEF at
  <2>3. at \in off..f.cap
    BY <2>1, <2>2
  <2>4. Past(at) \in off..f.cap
    BY <2>1, <2>3 DEF Has
  <2> QED
    BY <2>4 DEF at
<1>4. start.ok => Headed(start, headers).off = Past(After(start.off, headers))
  BY DEF Success
<1> HIDE DEF Headed, Past
<1> QED
  BY <1>1, <1>3, <1>4 DEF Bounded

-----------------------------------------------------------------------------
(* Messages that say how long they are, and headers alone                  *)

LEMMA TlsBounded ==
    ASSUME NEW f, IsFrame(f), NEW off \in 0..f.cap
    PROVE  LET r == decodeTls(f, off) IN r.ok => r.off \in (off + 5)..f.cap
<1> DEFINE h == Read(f, off, "tls")
           end == off + 5 + h.length
           named == h.kind = "tls"
           record == h.kind = "tls" => Has(f, off, 5 + h.length)
           r == Success(<<h.value>> \o Hello(f, off + 5, end), end)
           d == Checked(<< <<Has(f, off, 5), "TruncatedHeader">>, <<named, "MalformedPacket">>,
                           <<record, "TruncatedHeader">> >>, off, r)
<1>1. decodeTls(f, off) = d
  BY DEF decodeTls
<1>2. h.length \in Nat
  BY ReadSizes
<1>3. r.off = end
  BY DEF Success
<1>4. named /\ record => end \in (off + 5)..f.cap
  <2> HIDE DEF h
  <2> QED
    BY <1>2, Here DEF Has
<1>5. (d = r /\ named /\ record) \/ ~d.ok
  <2> HIDE DEF named, record, r
  <2> QED
    BY Checked3
<1> HIDE DEF h, named, record, end, r, d
<1> QED
  BY <1>1, <1>3, <1>4, <1>5

\* The loop over the records: what is claimed holds at a place in the capture.
RecordPlaces(f) == Nat
RecordMore(f, p) == p < f.cap /\ decodeTls(f, p).ok
RecordNext(f, p) == decodeTls(f, p).off
RecordLast(f, p) == Success(<<>>, p)
RecordJoin(f, p, later) == Success(<<decodeTls(f, p).hdr[1]>> \o later.hdr, later.off)
RecordIn(f, p, r) == p \in 0..f.cap => r.ok /\ r.off \in p..f.cap

Records == INSTANCE RecursionLemmas WITH
               Dom <- RecordPlaces, More <- RecordMore, Next <- RecordNext,
               Last <- RecordLast, Join <- RecordJoin, Inv <- RecordIn

LEMMA TlsRecordsBounded ==
    ASSUME NEW f, IsFrame(f), NEW off \in 0..f.cap
    PROVE  Bounded(tlsRecords(f, off), f, off)
<1> DEFINE first == decodeTls(f, off)
           rest == CHOOSE g : Records!IsRecursion(f, g)
           rank == [p \in Nat |-> IF p <= f.cap THEN f.cap - p ELSE 0]
<1>1. tlsRecords(f, off) =
          IF first.ok THEN Success(first.hdr \o rest[first.off].hdr, rest[first.off].off) ELSE first
  <2> DEFINE Eq(g) ==
          g = [p \in Nat |-> IF p < f.cap /\ decodeTls(f, p).ok
                             THEN Success(<<decodeTls(f, p).hdr[1]>> \o g[decodeTls(f, p).off].hdr,
                                          g[decodeTls(f, p).off].off)
                             ELSE Success(<<>>, p)]
             chosen == CHOOSE g : Eq(g)
  <2>1. tlsRecords(f, off) =
          IF first.ok THEN Success(first.hdr \o chosen[first.off].hdr, chosen[first.off].off) ELSE first
    BY DEF tlsRecords, Then
  <2>2. \A g : Records!IsRecursion(f, g) <=> Eq(g)
    BY DEF Records!IsRecursion, RecordPlaces, RecordMore, RecordNext, RecordLast, RecordJoin
  <2> HIDE DEF Eq
  <2>3. chosen = rest
    BY <2>2, Zenon
  <2> HIDE DEF chosen, rest
  <2> QED
    BY <2>1, <2>3
<1>2. ASSUME NEW p \in Nat, RecordMore(f, p)
      PROVE  p \in 0..f.cap /\ p < f.cap /\ RecordNext(f, p) \in (p + 5)..f.cap
  BY <1>2, Here, TlsBounded DEF RecordMore, RecordNext, IsFrame
<1>3. Records!Descends(f, rank)
  <2> SUFFICES ASSUME NEW p \in Nat
               PROVE  /\ rank[p] \in Nat
                      /\ RecordMore(f, p) => RecordNext(f, p) \in Nat /\ rank[RecordNext(f, p)] < rank[p]
    BY DEF Records!Descends, RecordPlaces
  <2> QED
    BY <1>2 DEF IsFrame
<1>4. \A p \in Nat : ~RecordMore(f, p) => RecordIn(f, p, RecordLast(f, p))
  BY DEF RecordIn, RecordLast, Success, IsFrame
<1>5. \A p \in Nat : \A v : RecordMore(f, p) /\ RecordIn(f, RecordNext(f, p), v)
                                => RecordIn(f, p, RecordJoin(f, p, v))
  <2> TAKE p \in Nat
  <2> TAKE v
  <2> HAVE RecordMore(f, p) /\ RecordIn(f, RecordNext(f, p), v)
  <2>1. p \in 0..f.cap /\ RecordNext(f, p) \in p..f.cap /\ RecordNext(f, p) \in 0..f.cap
    BY <1>2 DEF IsFrame
  <2>2. v.off \in RecordNext(f, p)..f.cap
    BY <2>1 DEF RecordIn
  <2>3. v.off \in p..f.cap
    BY <2>1, <2>2 DEF IsFrame
  <2>4. RecordJoin(f, p, v).off = v.off /\ RecordJoin(f, p, v).ok
    BY DEF RecordJoin, Success
  <2> QED
    BY <2>3, <2>4 DEF RecordIn
<1>6. \A p \in Nat : RecordIn(f, p, rest[p])
  <2> HIDE DEF rank
  <2> QED
    BY <1>3, <1>4, <1>5, Records!RankedChoice DEF RecordPlaces
<1>7. ASSUME first.ok
      PROVE  rest[first.off].off \in off..f.cap
  <2> HIDE DEF rest
  <2>1. first.off \in off..f.cap /\ first.off \in 0..f.cap /\ first.off \in Nat
    BY <1>7, Here, TlsBounded DEF IsFrame
  <2>2. rest[first.off].off \in first.off..f.cap
    BY <1>6, <2>1 DEF RecordIn
  <2> QED
    BY <2>1, <2>2 DEF IsFrame
<1> HIDE DEF first, rest
<1> QED
  BY <1>1, <1>7 DEF Bounded, Success

LEMMA SizedBounded ==
    ASSUME NEW f, IsFrame(f), NEW off \in 0..f.cap
    PROVE  Bounded(decodeBgp(f, off), f, off) /\ Bounded(decodeRdp(f, off), f, off)
<1> DEFINE b == Read(f, off, "bgp")
           t == Read(f, off, "tpkt")
           open == b.value = "OPEN" => b.length >= 29
           message == Checked(<< <<Has(f, off, b.length), "TruncatedHeader">>,
                                 <<open, "TruncatedHeader">> >>, off, Success(<<b.value>>, off + b.length))
           packet == Checked(<< <<Has(f, off, t.length), "TruncatedHeader">> >>, off,
                             Success(<<RdpItem(t)>>, off + t.length))
<1>1. b.length \in Nat /\ t.length \in Nat
  BY ReadSizes
<1>2. /\ decodeBgp(f, off) = Checked(<< <<Has(f, off, 19), "TruncatedHeader">> >>, off,
             IF b.kind = "bgp" THEN message ELSE Failure("MalformedPacket", off))
      /\ decodeRdp(f, off) = Checked(<< <<Has(f, off, 11), "TruncatedHeader">> >>, off,
             IF t.kind = "tpkt" THEN packet ELSE Failure("MalformedPacket", off))
  BY DEF decodeBgp, decodeRdp, Marked, Message
<1> HIDE DEF b, t, open
<1>3. Has(f, off, b.length) => Bounded(Success(<<b.value>>, off + b.length), f, off)
  BY <1>1, SuccessBounded
<1>4. Has(f, off, t.length) => Bounded(Success(<<RdpItem(t)>>, off + t.length), f, off)
  BY <1>1, SuccessBounded
<1>5. Bounded(message, f, off)
  <2> DEFINE r == Success(<<b.value>>, off + b.length)
  <2> HIDE DEF r
  <2> QED
    BY <1>3, CheckedBounded DEF r
<1>6. Bounded(packet, f, off)
  BY <1>4, CheckedBounded
<1> HIDE DEF message, packet
<1> QED
  BY <1>2, <1>5, <1>6, FailureBounded, CheckedBounded

LEMMA DnsOverTcpBounded ==
    ASSUME NEW f, IsFrame(f), NEW off \in 0..f.cap
    PROVE  Bounded(dnsOverTcp(f, off), f, off)
<1> DEFINE at == off + 2
<1>1. Has(f, off, 2) => at \in off..f.cap
  BY Here
<1>2. dnsOverTcp(f, off) \in {Failure("TruncatedHeader", off)}
      \/ (Has(f, off, 2) /\ dnsOverTcp(f, off) = decodeDns(f, at))
  BY DEF dnsOverTcp
<1> HIDE DEF at
<1>3. ASSUME Has(f, off, 2)
      PROVE  Bounded(decodeDns(f, at), f, off)
  <2>1. at \in off..f.cap /\ at \in 0..f.cap
    BY <1>1, <1>3, Later
  <2>2. Bounded(decodeDns(f, at), f, at)
    BY <2>1, DnsBounded
  <2> QED
    BY <2>1, <2>2, Later
<1> QED
  BY <1>2, <1>3, FailureBounded

LEMMA SmbBounded ==
    ASSUME NEW f, IsFrame(f), NEW off \in 0..f.cap
    PROVE  /\ Bounded(decodeSmb(f, off), f, off)
           /\ \A packet : Bounded(smbOver(packet, f, off), f, off)
<1>1. ASSUME NEW at \in 0..f.cap
      PROVE  Bounded(decodeSmb(f, at), f, at)
  <2> DEFINE h == Read(f, at, "smb")
             body == Checked(<< <<Has(f, at, h.len), "TruncatedHeader">> >>, at, Success(<<h.value>>, at + h.len))
  <2>1. h.len \in Nat
    BY ReadSizes
  <2>2. decodeSmb(f, at) = Checked(<< <<Has(f, at, 4), "TruncatedHeader">> >>, at,
            IF h.kind = "smb" THEN body ELSE Failure("MalformedPacket", at))
    BY DEF decodeSmb, Marked, Message
  <2> HIDE DEF h
  <2>3. Has(f, at, h.len) => Bounded(Success(<<h.value>>, at + h.len), f, at)
    BY <2>1, SuccessBounded
  <2>4. Bounded(body, f, at)
    BY <2>3, CheckedBounded
  <2> HIDE DEF body
  <2> QED
    BY <2>2, <2>4, FailureBounded, CheckedBounded
<1>2. ASSUME NEW packet
      PROVE  Bounded(smbOver(packet, f, off), f, off)
  <2> DEFINE behind == off + 4
  <2>1. smbOver(packet, f, off) = decodeSmb(f, off)
        \/ (Has(f, off, 4) /\ smbOver(packet, f, off) = decodeSmb(f, behind))
    BY DEF smbOver
  <2>2. Has(f, off, 4) => behind \in off..f.cap
    BY Here
  <2> HIDE DEF behind
  <2>3. ASSUME Has(f, off, 4)
        PROVE  Bounded(decodeSmb(f, behind), f, off)
    <3>1. behind \in off..f.cap /\ behind \in 0..f.cap
      BY <2>2, <2>3, Later
    <3> QED
      BY <1>1, <3>1, Later
  <2> QED
    BY <1>1, <2>1, <2>3
<1> QED
  BY <1>1, <1>2

LEMMA RtmpBounded ==
    ASSUME NEW f, IsFrame(f), NEW off \in 0..f.cap
    PROVE  Bounded(decodeRtmp(f, off), f, off)
<1> DEFINE h == Read(f, off, "chunk")
           sizes == <<11, 7, 3, 0>>
           basic == IF h.stream = 0 THEN 2 ELSE IF h.stream = 1 THEN 3 ELSE 1
           end == off + basic + sizes[h.type + 1]
           handshake == Success(<<"handshake">>, off + 1)
           filler == Checked(<< <<Has(f, off, 8), "TruncatedHeader">> >>, off, Success(<<"filler">>, off + 8))
           chunk == Checked(<< <<Has(f, off, basic), "TruncatedHeader">>,
                               <<end <= f.cap, "TruncatedHeader">> >>, off, Success(<<h.value>>, end))
<1>1. Has(f, off, 1) => Bounded(handshake, f, off)
  BY SuccessBounded
<1>2. Bounded(filler, f, off)
  <2>1. Has(f, off, 8) => Bounded(Success(<<"filler">>, off + 8), f, off)
    BY SuccessBounded
  <2> QED
    BY <2>1, CheckedBounded
<1>3. ASSUME h.kind = "chunk"
      PROVE  Bounded(chunk, f, off)
  <2>1. h.type \in 0..3
    <3>1. h = Filler \/ (h.kind = "chunk" /\ WellFormed(h))
      BY ReadFacts
    <3>2. Filler.kind = "filler"
      BY DEF Filler
    <3>3. WellFormed(h) /\ h.kind = "chunk" => h.type \in 0..3
      BY DEF WellFormed
    <3> HIDE DEF h
    <3> QED
      BY <1>3, <3>1, <3>2, <3>3
  <2> HIDE DEF h
  <2>2. sizes[h.type + 1] \in Nat /\ basic \in Nat
    BY <2>1
  <2>3. end <= f.cap => end \in off..f.cap
    BY <2>2, Here
  <2> HIDE DEF end, basic
  <2>4. end <= f.cap => Bounded(Success(<<h.value>>, end), f, off)
    BY <2>3 DEF Bounded, Success
  <2> DEFINE r == Success(<<h.value>>, end)
             there == end <= f.cap
  <2> HIDE DEF r, there
  <2>5. Bounded(Checked(<< <<Has(f, off, basic), "TruncatedHeader">>,
                           <<there, "TruncatedHeader">> >>, off, r), f, off)
    BY <2>4, CheckedBounded DEF r, there
  <2> QED
    BY <2>5 DEF r, there
<1>4. \/ decodeRtmp(f, off) = Failure("TruncatedHeader", off)
      \/ Has(f, off, 1) /\ decodeRtmp(f, off) = handshake
      \/ decodeRtmp(f, off) = filler
      \/ h.kind = "chunk" /\ decodeRtmp(f, off) = chunk
  BY DEF decodeRtmp
<1> HIDE DEF h, handshake, filler, chunk
<1> QED
  BY <1>1, <1>2, <1>3, <1>4, FailureBounded

LEMMA SshBounded ==
    ASSUME NEW f, IsFrame(f), NEW off \in 0..f.cap
    PROVE  Bounded(decodeSsh(f, off), f, off)
<1> DEFINE h == Read(f, off, "banner")
           whole == h.kind = "banner" /\ Has(f, off, h.len)
           r == Success(<<h.value>>, off + h.len)
<1>1. h.len \in Nat
  BY ReadSizes
<1>2. decodeSsh(f, off) = Checked(<< <<Has(f, off, 8), "TruncatedHeader">>,
                                     <<whole, "TruncatedHeader">> >>, off, r)
  BY DEF decodeSsh
<1> HIDE DEF h
<1>3. whole => Bounded(r, f, off)
  BY <1>1, SuccessBounded
<1> HIDE DEF whole, r
<1> QED
  BY <1>2, <1>3, CheckedBounded

\* The loop over what comes by Telnet.
TelnetAt(f, p) == ReadOne(f, p, {"text", "command", "subnegotiation"})

TelnetWaits(f, p) ==
    \/ ~Has(f, p, 1)
    \/ TelnetAt(f, p).kind = "command" /\ ~Has(f, p, TelnetAt(f, p).len)
    \/ TelnetAt(f, p).kind \in {"text", "subnegotiation"} /\ ~Has(f, p, Min({TelnetAt(f, p).len, 2}))

TelnetCut(f, p) == TelnetAt(f, p).kind = "subnegotiation" /\ ~Has(f, p, TelnetAt(f, p).len)

TelnetPlaces(f) == Nat
TelnetMore(f, p) == ~TelnetWaits(f, p) /\ ~TelnetCut(f, p)
TelnetNext(f, p) == IF TelnetAt(f, p).kind = "filler" THEN p + 1 ELSE p + TelnetAt(f, p).len
TelnetLast(f, p) ==
    IF TelnetWaits(f, p) THEN Success(<<>>, p)
    ELSE Success(IF Has(f, p, 3) THEN <<TelnetAt(f, p).value>> ELSE <<>>, f.cap)
TelnetJoin(f, p, later) == Success(<<TelnetAt(f, p).value>> \o later.hdr, later.off)
TelnetIn(f, p, r) == p \in 0..f.cap => r.ok /\ r.off \in p..f.cap

Characters == INSTANCE RecursionLemmas WITH
                  Dom <- TelnetPlaces, More <- TelnetMore, Next <- TelnetNext,
                  Last <- TelnetLast, Join <- TelnetJoin, Inv <- TelnetIn

LEMMA TelnetBounded ==
    ASSUME NEW f, IsFrame(f), NEW off \in 0..f.cap
    PROVE  Bounded(decodeTelnet(f, off), f, off)
<1> DEFINE from == CHOOSE g : Characters!IsRecursion(f, g)
           rank == [p \in Nat |-> IF p <= f.cap THEN f.cap - p ELSE 0]
<1>1. decodeTelnet(f, off) = Checked(<< <<Has(f, off, 1), "TruncatedHeader">> >>, off, from[off])
  <2> DEFINE Eq(g) ==
          g = [p \in Nat |->
                 IF TelnetWaits(f, p) THEN Success(<<>>, p)
                 ELSE IF TelnetCut(f, p)
                 THEN Success(IF Has(f, p, 3) THEN <<TelnetAt(f, p).value>> ELSE <<>>, f.cap)
                 ELSE Success(<<TelnetAt(f, p).value>> \o g[TelnetNext(f, p)].hdr, g[TelnetNext(f, p)].off)]
             chosen == CHOOSE g : Eq(g)
  <2>1. decodeTelnet(f, off) = Checked(<< <<Has(f, off, 1), "TruncatedHeader">> >>, off, chosen[off])
    BY DEF decodeTelnet, TelnetWaits, TelnetCut, TelnetAt, TelnetNext
  <2>2. \A g : Characters!IsRecursion(f, g) <=> Eq(g)
    <3> TAKE g
    <3> DEFINE left == [p \in Nat |-> IF TelnetMore(f, p) THEN TelnetJoin(f, p, g[TelnetNext(f, p)])
                                      ELSE TelnetLast(f, p)]
               right == [p \in Nat |->
                 IF TelnetWaits(f, p) THEN Success(<<>>, p)
                 ELSE IF TelnetCut(f, p)
                 THEN Success(IF Has(f, p, 3) THEN <<TelnetAt(f, p).value>> ELSE <<>>, f.cap)
                 ELSE Success(<<TelnetAt(f, p).value>> \o g[TelnetNext(f, p)].hdr, g[TelnetNext(f, p)].off)]
    <3>1. \A p \in Nat : left[p] = right[p]
      BY DEF TelnetMore, TelnetLast, TelnetJoin
    <3>2. left = right
      BY <3>1
    <3>3. Characters!IsRecursion(f, g) <=> g = left
      BY DEF Characters!IsRecursion, TelnetPlaces
    <3>4. Eq(g) <=> g = right
      OBVIOUS
    <3> HIDE DEF left, right, Eq
    <3> QED
      BY <3>2, <3>3, <3>4
  <2> HIDE DEF Eq
  <2>3. chosen = from
    BY <2>2, Zenon
  <2> HIDE DEF chosen, from
  <2> QED
    BY <2>1, <2>3
<1>2. ASSUME NEW p \in Nat, TelnetMore(f, p)
      PROVE  p \in 0..f.cap /\ p < f.cap /\ TelnetNext(f, p) \in (p + 1)..f.cap
  <2> DEFINE h == TelnetAt(f, p)
  <2>1. \/ h = Filler
        \/ h.kind \in {"text", "command", "subnegotiation"} /\ WellFormed(h)
    BY ReadOneFacts DEF TelnetAt
  <2>2. Filler.kind = "filler"
    BY DEF Filler
  <2>3. WellFormed(h) => /\ h.len \in Nat
                         /\ h.kind \in {"command", "subnegotiation"} => h.len > 0
                         /\ h.kind = "text" => h.len \in 1..2
    BY DEF WellFormed
  <2>4. f.cap \in Nat
    BY DEF IsFrame
  <2>5. Has(f, p, 1) /\ (h.kind \in {"command", "subnegotiation"} => Has(f, p, h.len))
        /\ (h.kind = "text" => Has(f, p, Min({h.len, 2})))
    BY <1>2 DEF TelnetMore, TelnetWaits, TelnetCut
  <2>6. TelnetNext(f, p) = IF h.kind = "filler" THEN p + 1 ELSE p + h.len
    BY DEF TelnetNext
  <2> HIDE DEF h
  <2>7. CASE h = Filler
    BY <2>2, <2>4, <2>5, <2>6, <2>7 DEF Has
  <2>8. CASE h.kind \in {"command", "subnegotiation"} /\ WellFormed(h)
    <3>1. h.kind # "filler"
      BY <2>8
    <3> QED
      BY <2>3, <2>4, <2>5, <2>6, <2>8, <3>1 DEF Has
  <2>9. CASE h.kind = "text" /\ WellFormed(h)
    <3>1. h.len \in 1..2 /\ h.kind # "filler"
      BY <2>3, <2>9
    <3>2. Min({h.len, 2}) = h.len
      BY <3>1, MinOfTwo
    <3> QED
      BY <2>4, <2>5, <2>6, <2>9, <3>1, <3>2 DEF Has
  <2> QED
    BY <2>1, <2>7, <2>8, <2>9
<1>3. Characters!Descends(f, rank)
  <2> SUFFICES ASSUME NEW p \in Nat
               PROVE  /\ rank[p] \in Nat
                      /\ TelnetMore(f, p) => TelnetNext(f, p) \in Nat /\ rank[TelnetNext(f, p)] < rank[p]
    BY DEF Characters!Descends, TelnetPlaces
  <2> QED
    BY <1>2 DEF IsFrame
<1>4. \A p \in Nat : ~TelnetMore(f, p) => TelnetIn(f, p, TelnetLast(f, p))
  BY DEF TelnetIn, TelnetLast, Success, IsFrame
<1>5. \A p \in Nat : \A v : TelnetMore(f, p) /\ TelnetIn(f, TelnetNext(f, p), v)
                                => TelnetIn(f, p, TelnetJoin(f, p, v))
  <2> TAKE p \in Nat
  <2> TAKE v
  <2> HAVE TelnetMore(f, p) /\ TelnetIn(f, TelnetNext(f, p), v)
  <2>1. p \in 0..f.cap /\ TelnetNext(f, p) \in p..f.cap /\ TelnetNext(f, p) \in 0..f.cap
    BY <1>2 DEF IsFrame
  <2>2. v.off \in TelnetNext(f, p)..f.cap
    BY <2>1 DEF TelnetIn
  <2>3. v.off \in p..f.cap
    BY <2>1, <2>2 DEF IsFrame
  <2>4. TelnetJoin(f, p, v).off = v.off /\ TelnetJoin(f, p, v).ok
    BY DEF TelnetJoin, Success
  <2> QED
    BY <2>3, <2>4 DEF TelnetIn
<1>6. \A p \in Nat : TelnetIn(f, p, from[p])
  <2> HIDE DEF rank
  <2> QED
    BY <1>3, <1>4, <1>5, Characters!RankedChoice DEF TelnetPlaces
<1> HIDE DEF from
<1>7. Bounded(from[off], f, off)
  BY <1>6, Here DEF TelnetIn, Bounded
<1> QED
  BY <1>1, <1>7, CheckedBounded

-----------------------------------------------------------------------------

\* Whatever decoder is chosen, it consumes no more than there is.
LEMMA L7Bounded ==
    ASSUME NEW f, IsFrame(f), NEW off \in 0..f.cap, NEW proto, NEW packet
    PROVE  Bounded(decodeL7(proto, packet, f, off), f, off)
<1> DEFINE All == {dnsOverTcp(f, off), decodeDns(f, off), decodeHttp(f, off), tlsRecords(f, off),
                   decodeQuic(f, off), decodeFtp(f, off), decodeSsh(f, off), decodeDhcp(f, off),
                   decodeDhcpv6(f, off), decodeSmtp(f, off), decodePop3(f, off), decodeImap(f, off),
                   decodeSnmp(f, off), decodeRdp(f, off), decodeBgp(f, off), decodeNtp(f, off),
                   decodeLdap(f, off), decodeSsdp(f, off), decodeSrvloc(f, off), decodeNbns(f, off),
                   decodeNbdgm(f, off), smbOver(packet, f, off), decodeRtmp(f, off), decodeStun(f, off),
                   decodeTelnet(f, off), decodeTftp(f, off), decodeDtls(f, off), decodeRtcp(f, off),
                   decodeDbLanSyncDisc(f, off), Failure("Unknown", off)}
<1>1. decodeL7(proto, packet, f, off) \in All
  BY DEF decodeL7
<1>2. \A r \in All : Bounded(r, f, off)
  BY DnsOverTcpBounded, DnsBounded, HttpBounded, TlsRecordsBounded, QuicBounded, TextBounded, SshBounded,
     ToEndBounded, Dhcpv6Bounded, SnmpBounded, SizedBounded, NtpBounded, LdapBounded, SrvlocBounded,
     NbnsBounded, NbdgmBounded, SmbBounded, RtmpBounded, StunBounded, TelnetBounded, TftpBounded,
     DtlsBounded, RtcpBounded, FailureBounded
<1> HIDE DEF All
<1> QED
  BY <1>1, <1>2
=============================================================================
