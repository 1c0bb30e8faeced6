--------------------------- MODULE RecursionLemmas ---------------------------
(***************************************************************************)
(* Induction over the natural numbers, and recursive functions of one      *)
(* shape: the value at a place is made from the value at one other place,  *)
(* or is known. What is recursive in the decoders, the reassembler and the *)
(* defragmenter is an instance: each operator of the definition takes the  *)
(* place and a context c, the record or tuple of what else it depends on.  *)
(***************************************************************************)
EXTENDS Integers, TLAPS, WellFoundedInduction

CONSTANTS
    Dom(_),        \* the places
    More(_, _),    \* whether the value at a place depends on that at another
    Next(_, _),    \* the other place
    Last(_, _),    \* the value at a place where it does not
    Join(_, _, _), \* the value at a place, from that at the other
    Inv(_, _, _)   \* what is claimed of the value at a place

\* A set that has 0 and with each number its successor has every natural number.
LEMMA NatSetInduction ==
    ASSUME NEW S, 0 \in S, \A n \in Nat : n \in S => n + 1 \in S
    PROVE  Nat \subseteq S
<1> DEFINE R == OpToRel(<, Nat)
<1> DEFINE T == Nat \ S
<1>1. \A y, x \in Nat : y < x => <<y, x>> \in R
  BY DEF OpToRel
<1>2. SUFFICES ASSUME T # {} PROVE FALSE
  OBVIOUS
<1>3. IsWellFoundedOn(R, Nat)
  BY NatLessThanWellFounded
<1> HIDE DEF R
<1>4. PICK m \in T : \A y \in T : ~ (<<y, m>> \in R)
  <2> HIDE DEF T
  <2>1. T \subseteq Nat
    BY DEF T
  <2> QED
    BY <1>2, <1>3, <2>1, WFMin
<1>5. m # 0 /\ m \in Nat
  OBVIOUS
<1>6. m - 1 \in Nat /\ m - 1 < m
  BY <1>5
<1>7. m - 1 \notin T
  BY <1>1, <1>4, <1>5, <1>6
<1>8. m - 1 + 1 \in S
  BY <1>6, <1>7
<1> QED
  BY <1>5, <1>8

-----------------------------------------------------------------------------

\* The equation of the recursive function.
IsRecursion(c, g) ==
    g = [p \in Dom(c) |-> IF More(c, p) THEN Join(c, p, g[Next(c, p)]) ELSE Last(c, p)]

\* The places lead to places.
Leads(c) == \A p \in Dom(c) : More(c, p) => Next(c, p) \in Dom(c)

\* The places from which the recursion comes to an end: the least set with each place
\* from which it goes on to one of the set, or nowhere.
Closes(c, S) == \A p \in Dom(c) : (More(c, p) => Next(c, p) \in S) => p \in S

Grounded(c) == {p \in Dom(c) : \A S \in SUBSET Dom(c) : Closes(c, S) => p \in S}

\* The recursive function on some of the places.
Solves(c, X, g) ==
    /\ X \subseteq Grounded(c)
    /\ \A p \in X : More(c, p) => Next(c, p) \in X
    /\ g = [p \in X |-> IF More(c, p) THEN Join(c, p, g[Next(c, p)]) ELSE Last(c, p)]

\* What is closed has every grounded place.
LEMMA GroundedInduction ==
    ASSUME NEW c, NEW S, Leads(c),
           \A p \in Grounded(c) : (More(c, p) => Next(c, p) \in S) => p \in S
    PROVE  Grounded(c) \subseteq S
<1> DEFINE T == {p \in Dom(c) : p \in Grounded(c) => p \in S}
<1>1. ASSUME NEW p \in Dom(c), More(c, p) => Next(c, p) \in T
      PROVE  p \in T
  <2>1. SUFFICES ASSUME p \in Grounded(c)
                 PROVE  p \in S
    OBVIOUS
  <2>2. CASE ~More(c, p)
    BY <2>1, <2>2
  <2>3. CASE More(c, p)
    <3>1. Next(c, p) \in Grounded(c)
      <4>1. SUFFICES ASSUME Next(c, p) \notin Grounded(c)
                     PROVE  FALSE
        OBVIOUS
      <4>2. PICK R \in SUBSET Dom(c) : Closes(c, R) /\ Next(c, p) \notin R
        BY <2>3, <4>1 DEF Grounded, Leads
      <4>3. Closes(c, R \ {p})
        <5> SUFFICES ASSUME NEW q \in Dom(c), More(c, q) => Next(c, q) \in R \ {p}
                     PROVE  q \in R \ {p}
          BY DEF Closes
        <5>1. q \in R
          BY <4>2 DEF Closes
        <5>2. q # p
          BY <2>3, <4>2
        <5> QED
          BY <5>1, <5>2
      <4> QED
        BY <2>1, <4>3 DEF Grounded
    <3> QED
      BY <1>1, <2>1, <2>3, <3>1
  <2> QED
    BY <2>2, <2>3
<1>2. Closes(c, T)
  <2> HIDE DEF T
  <2> QED
    BY <1>1 DEF Closes
<1>3. T \in SUBSET Dom(c)
  OBVIOUS
<1>4. \A p \in Grounded(c) : p \in T
  <2> HIDE DEF T
  <2> QED
    BY <1>2, <1>3 DEF Grounded
<1> QED
  BY <1>4

\* A place is grounded when it leads nowhere or to a grounded place.
LEMMA GroundedPlace ==
    ASSUME NEW c, NEW p \in Dom(c), More(c, p) => Next(c, p) \in Grounded(c)
    PROVE  p \in Grounded(c)
<1> SUFFICES ASSUME NEW S \in SUBSET Dom(c), Closes(c, S)
             PROVE  p \in S
  BY DEF Grounded
<1>1. More(c, p) => Next(c, p) \in S
  BY DEF Grounded
<1> QED
  BY <1>1 DEF Closes

\* Two solutions agree.
LEMMA SolutionsAgree ==
    ASSUME NEW c, Leads(c), NEW X, NEW g, Solves(c, X, g), NEW Y, NEW h, Solves(c, Y, h)
    PROVE  \A p \in X \cap Y : g[p] = h[p]
<1> DEFINE S == {p \in Grounded(c) : p \in X \cap Y => g[p] = h[p]}
<1>1. ASSUME NEW p \in Grounded(c), More(c, p) => Next(c, p) \in S
      PROVE  p \in S
  <2> SUFFICES ASSUME p \in X, p \in Y
               PROVE  g[p] = h[p]
    OBVIOUS
  <2>1. /\ g[p] = IF More(c, p) THEN Join(c, p, g[Next(c, p)]) ELSE Last(c, p)
        /\ h[p] = IF More(c, p) THEN Join(c, p, h[Next(c, p)]) ELSE Last(c, p)
    BY DEF Solves
  <2>2. CASE ~More(c, p)
    BY <2>1, <2>2
  <2>3. CASE More(c, p)
    <3>1. Next(c, p) \in X /\ Next(c, p) \in Y
      BY <2>3 DEF Solves
    <3>2. g[Next(c, p)] = h[Next(c, p)]
      BY <1>1, <2>3, <3>1
    <3> QED
      BY <2>1, <2>3, <3>2
  <2> QED
    BY <2>2, <2>3
<1>2. Grounded(c) \subseteq S
  <2> HIDE DEF S
  <2> QED
    BY <1>1, GroundedInduction
<1>3. X \subseteq Grounded(c)
  BY DEF Solves
<1> QED
  BY <1>2, <1>3

\* At every grounded place there is a solution.
LEMMA SolutionExists ==
    ASSUME NEW c, Leads(c)
    PROVE  \A p \in Grounded(c) : \E X, g : p \in X /\ Solves(c, X, g)
<1> DEFINE S == {p \in Grounded(c) : \E X, g : p \in X /\ Solves(c, X, g)}
<1>1. ASSUME NEW p \in Grounded(c), More(c, p) => Next(c, p) \in S
      PROVE  p \in S
  <2>1. CASE ~More(c, p)
    <3> DEFINE g == [q \in {p} |-> Last(c, q)]
    <3>1. g = [q \in {p} |-> IF More(c, q) THEN Join(c, q, g[Next(c, q)]) ELSE Last(c, q)]
      BY <2>1
    <3> HIDE DEF g
    <3>2. Solves(c, {p}, g)
      BY <2>1, <3>1 DEF Solves
    <3> QED
      BY <3>2
  <2>2. CASE More(c, p)
    <3>1. PICK X, g : Next(c, p) \in X /\ Solves(c, X, g)
      BY <1>1, <2>2
    <3> DEFINE Y == X \cup {p}
               h == [q \in Y |-> IF More(c, q) THEN Join(c, q, g[Next(c, q)]) ELSE Last(c, q)]
    <3>2. Y \subseteq Grounded(c) /\ \A q \in Y : More(c, q) => Next(c, q) \in X
      BY <3>1 DEF Solves
    <3>3. \A q \in X : h[q] = g[q]
      BY <3>1 DEF Solves
    <3>4. \A q \in Y : h[q] = IF More(c, q) THEN Join(c, q, h[Next(c, q)]) ELSE Last(c, q)
      <4> TAKE q \in Y
      <4>1. h[q] = IF More(c, q) THEN Join(c, q, g[Next(c, q)]) ELSE Last(c, q)
        OBVIOUS
      <4> HIDE DEF h
      <4>2. More(c, q) => h[Next(c, q)] = g[Next(c, q)]
        BY <3>2, <3>3
      <4> QED
        BY <4>1, <4>2
    <3>5. h = [q \in Y |-> h[q]]
      OBVIOUS
    <3>6. \A q \in Y : More(c, q) => Next(c, q) \in Y
      BY <3>2
    <3> HIDE DEF h, Y
    <3>7. h = [q \in Y |-> IF More(c, q) THEN Join(c, q, h[Next(c, q)]) ELSE Last(c, q)]
      BY <3>4, <3>5
    <3>8. Solves(c, Y, h)
      BY <3>2, <3>6, <3>7 DEF Solves
    <3>9. p \in Y
      BY DEF Y
    <3> QED
      BY <3>8, <3>9
  <2> QED
    BY <2>1, <2>2
<1>2. Grounded(c) \subseteq S
  <2> HIDE DEF S
  <2> QED
    BY <1>1, GroundedInduction
<1> QED
  BY <1>2

\* A recursive function exists if there is a value that is passed on wherever the recursion
\* does not come to an end.
LEMMA RecursionExists ==
    ASSUME NEW c, Leads(c), NEW e, \A p \in Dom(c) \ Grounded(c) : Join(c, p, e) = e
    PROVE  \E g : IsRecursion(c, g)
<1> DEFINE sol(p) == CHOOSE g : \E X : p \in X /\ Solves(c, X, g)
           h == [p \in Dom(c) |-> IF p \in Grounded(c) THEN sol(p)[p] ELSE e]
<1>1. ASSUME NEW p \in Grounded(c)
      PROVE  \E X : p \in X /\ Solves(c, X, sol(p))
  <2>1. \E g : \E X : p \in X /\ Solves(c, X, g)
    BY SolutionExists
  <2> QED
    BY <2>1
<1>2. ASSUME NEW p \in Dom(c)
      PROVE  h[p] = IF More(c, p) THEN Join(c, p, h[Next(c, p)]) ELSE Last(c, p)
  <2>1. CASE p \in Grounded(c)
    <3>1. PICK X : p \in X /\ Solves(c, X, sol(p))
      BY <1>1, <2>1
    <3>2. h[p] = sol(p)[p]
      BY <2>1
    <3> HIDE DEF sol, h
    <3>3. h[p] = IF More(c, p) THEN Join(c, p, sol(p)[Next(c, p)]) ELSE Last(c, p)
      BY <3>1, <3>2 DEF Solves
    <3>4. CASE ~More(c, p)
      BY <3>3, <3>4
    <3>5. CASE More(c, p)
      <4> DEFINE q == Next(c, p)
      <4>1. q \in X /\ q \in Grounded(c) /\ q \in Dom(c)
        BY <3>1, <3>5 DEF Solves, Grounded
      <4>2. PICK Y : q \in Y /\ Solves(c, Y, sol(q))
        BY <1>1, <4>1
      <4>3. sol(p)[q] = sol(q)[q]
        <5> HIDE DEF q
        <5> QED
          BY <3>1, <4>1, <4>2, SolutionsAgree
      <4>4. h[q] = sol(q)[q]
        BY <4>1 DEF h
      <4> QED
        BY <3>3, <3>5, <4>3, <4>4
    <3> QED
      BY <3>4, <3>5
  <2>2. CASE p \notin Grounded(c)
    <3>1. More(c, p) /\ Next(c, p) \notin Grounded(c)
      BY <2>2, GroundedPlace
    <3>2. Next(c, p) \in Dom(c)
      BY <3>1 DEF Leads
    <3>3. h[p] = e /\ h[Next(c, p)] = e
      BY <2>2, <3>1, <3>2
    <3> HIDE DEF h
    <3> QED
      BY <2>2, <3>1, <3>3
  <2> QED
    BY <2>1, <2>2
<1>3. h = [p \in Dom(c) |-> h[p]]
  OBVIOUS
<1> HIDE DEF h
<1>4. IsRecursion(c, h)
  BY <1>2, <1>3 DEF IsRecursion
<1> QED
  BY <1>4

-----------------------------------------------------------------------------

\* Each place leads to one of a lower rank.
Descends(c, rank) ==
    \A p \in Dom(c) :
        /\ rank[p] \in Nat
        /\ More(c, p) => Next(c, p) \in Dom(c) /\ rank[Next(c, p)] < rank[p]

\* What holds of the known values, and of each value if it holds of the one it is made
\* from, holds of all.
LEMMA RankedInduction ==
    ASSUME NEW c, NEW rank, Descends(c, rank), NEW g, IsRecursion(c, g),
           \A p \in Dom(c) : ~More(c, p) => Inv(c, p, Last(c, p)),
           \A p \in Dom(c) : More(c, p) /\ Inv(c, Next(c, p), g[Next(c, p)])
                                 => Inv(c, p, Join(c, p, g[Next(c, p)]))
    PROVE  \A p \in Dom(c) : Inv(c, p, g[p])
<1> DEFINE S == {n \in Nat : \A p \in Dom(c) : rank[p] <= n => Inv(c, p, g[p])}
<1>1. \A p \in Dom(c) : g[p] = IF More(c, p) THEN Join(c, p, g[Next(c, p)]) ELSE Last(c, p)
  BY DEF IsRecursion
<1>2. 0 \in S
  <2> SUFFICES ASSUME NEW p \in Dom(c), rank[p] <= 0
               PROVE  Inv(c, p, g[p])
    OBVIOUS
  <2>1. ~More(c, p)
    BY DEF Descends
  <2> QED
    BY <1>1, <2>1
<1>3. ASSUME NEW n \in Nat, n \in S
      PROVE  n + 1 \in S
  <2> SUFFICES ASSUME NEW p \in Dom(c), rank[p] <= n + 1
               PROVE  Inv(c, p, g[p])
    OBVIOUS
  <2>1. CASE ~More(c, p)
    BY <1>1, <2>1
  <2>2. CASE More(c, p)
    <3>1. Next(c, p) \in Dom(c) /\ rank[Next(c, p)] \in Nat /\ rank[p] \in Nat
          /\ rank[Next(c, p)] < rank[p]
      BY <2>2 DEF Descends
    <3>2. rank[Next(c, p)] <= n
      BY <3>1
    <3>3. Inv(c, Next(c, p), g[Next(c, p)])
      BY <1>3, <3>1, <3>2
    <3> QED
      BY <1>1, <2>2, <3>3
  <2> QED
    BY <2>1, <2>2
<1>4. Nat \subseteq S
  <2>1. \A n \in Nat : n \in S => n + 1 \in S
    BY <1>3
  <2> HIDE DEF S
  <2> QED
    BY <1>2, <2>1, NatSetInduction
<1> QED
  <2> TAKE p \in Dom(c)
  <2>1. rank[p] \in Nat /\ rank[p] <= rank[p]
    BY DEF Descends
  <2> QED
    BY <1>4, <2>1

\* Where the ranks descend the recursion comes to an end: the function exists.
LEMMA RankedRecursion ==
    ASSUME NEW c, NEW rank, Descends(c, rank)
    PROVE  \E g : IsRecursion(c, g)
<1> DEFINE S == {n \in Nat : \A p \in Dom(c) : rank[p] <= n => p \in Grounded(c)}
<1>1. 0 \in S
  <2> SUFFICES ASSUME NEW p \in Dom(c), rank[p] <= 0
               PROVE  p \in Grounded(c)
    OBVIOUS
  <2>1. ~More(c, p)
    BY DEF Descends
  <2> QED
    BY <2>1, GroundedPlace
<1>2. ASSUME NEW n \in Nat, n \in S
      PROVE  n + 1 \in S
  <2> SUFFICES ASSUME NEW p \in Dom(c), rank[p] <= n + 1
               PROVE  p \in Grounded(c)
    OBVIOUS
  <2>1. ASSUME More(c, p)
        PROVE  Next(c, p) \in Grounded(c)
    <3>1. Next(c, p) \in Dom(c) /\ rank[Next(c, p)] \in Nat /\ rank[p] \in Nat
          /\ rank[Next(c, p)] < rank[p]
      BY <2>1 DEF Descends
    <3>2. rank[Next(c, p)] <= n
      BY <3>1
    <3> QED
      BY <1>2, <3>1, <3>2
  <2> QED
    BY <2>1, GroundedPlace
<1>3. Nat \subseteq S
  <2>1. \A n \in Nat : n \in S => n + 1 \in S
    BY <1>2
  <2> HIDE DEF S
  <2> QED
    BY <1>1, <2>1, NatSetInduction
<1>4. ASSUME NEW p \in Dom(c)
      PROVE  p \in Grounded(c)
  <2>1. rank[p] \in Nat /\ rank[p] <= rank[p]
    BY DEF Descends
  <2> QED
    BY <1>3, <2>1
<1>5. Leads(c)
  BY DEF Leads, Descends
<1> QED
  BY <1>4, <1>5, RecursionExists

\* So what is claimed of the known values and passed on holds of the function that a
\* recursive definition stands for, at every place.
LEMMA RankedChoice ==
    ASSUME NEW c, NEW rank, Descends(c, rank),
           \A p \in Dom(c) : ~More(c, p) => Inv(c, p, Last(c, p)),
           \A p \in Dom(c) : \A v : More(c, p) /\ Inv(c, Next(c, p), v) => Inv(c, p, Join(c, p, v))
    PROVE  LET g == CHOOSE h : IsRecursion(c, h)
           IN  IsRecursion(c, g) /\ \A p \in Dom(c) : Inv(c, p, g[p])
<1> DEFINE g == CHOOSE h : IsRecursion(c, h)
<1>1. IsRecursion(c, g)
  BY RankedRecursion
<1> HIDE DEF g
<1>2. \A p \in Dom(c) : More(c, p) /\ Inv(c, Next(c, p), g[Next(c, p)])
                           => Inv(c, p, Join(c, p, g[Next(c, p)]))
  OBVIOUS
<1>3. \A p \in Dom(c) : Inv(c, p, g[p])
  BY <1>1, <1>2, RankedInduction
<1> QED
  BY <1>1, <1>3 DEF g

\* Where the recursion may go on for ever, it exists if some value is passed on everywhere.
LEMMA AbsorbingRecursion ==
    ASSUME NEW c, Leads(c), NEW e, \A p \in Dom(c) : More(c, p) => Join(c, p, e) = e
    PROVE  \E g : IsRecursion(c, g)
<1>1. ASSUME NEW p \in Dom(c) \ Grounded(c)
      PROVE  Join(c, p, e) = e
  <2>1. More(c, p)
    BY GroundedPlace
  <2> QED
    BY <2>1
<1> QED
  BY <1>1, RecursionExists
=============================================================================
