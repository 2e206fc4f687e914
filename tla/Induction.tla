----------------------------- MODULE Induction -----------------------------
(***************************************************************************)
(* Induction over the naturals, and the functions defined by it, stated    *)
(* for sets and functions, so that they can be cited.                      *)
(***************************************************************************)
EXTENDS Integers, WellFoundedInduction, TLAPS

\* A set with 0 that has n + 1 with every n has all naturals.
LEMMA SetInduction ==
  ASSUME NEW S, 0 \in S, \A n \in Nat : n \in S => n + 1 \in S
  PROVE  Nat \subseteq S
<1> DEFINE Bad  == Nat \ S
           Less == OpToRel(<, Nat)
<1> SUFFICES ASSUME Bad # {} PROVE FALSE
  OBVIOUS
<1>1. PICK x \in Bad : \A y \in Bad : ~ (<<y, x>> \in Less)
  <2>1. IsWellFoundedOn(Less, Nat)
    BY NatLessThanWellFounded
  <2>2. Bad \subseteq Nat
    OBVIOUS
  <2> HIDE DEF Bad, Less
  <2>3. QED
    BY <2>1, <2>2, WFMin
<1>2. x # 0 /\ x - 1 \in Nat /\ x - 1 < x
  OBVIOUS
<1>3. x - 1 \in Bad
  BY <1>2
<1>4. <<x - 1, x>> \in Less
  BY <1>2 DEF OpToRel
<1>5. QED
  BY <1>1, <1>3, <1>4

-----------------------------------------------------------------------------
(* Functions on 0..m.  The hypotheses have names: the provers instantiate  *)
(* the lemmas as long as these are not expanded.                           *)

\* g is defined by recursion: from b, by the steps F.
Recurs(g, b, F, m) == g[0] = b /\ \A n \in 1..m : g[n] = F[n][g[n - 1]]

\* There is a function for every definition.
LEMMA RecursionExists ==
  ASSUME NEW S, NEW b \in S, NEW m \in Nat, NEW F \in [1..m -> [S -> S]]
  PROVE  \E g \in [0..m -> S] : Recurs(g, b, F, m)
<1> DEFINE Good == {k \in Nat : k <= m => \E g \in [0..k -> S] : Recurs(g, b, F, k)}
<1>1. 0 \in Good
  <2> DEFINE h == [n \in 0..0 |-> b]
  <2>1. h \in [0..0 -> S] /\ Recurs(h, b, F, 0)
    BY DEF Recurs
  <2>2. QED
    BY <2>1
<1>2. ASSUME NEW k \in Nat, k \in Good PROVE k + 1 \in Good
  <2> SUFFICES ASSUME k + 1 <= m PROVE \E g \in [0..(k + 1) -> S] : Recurs(g, b, F, k + 1)
    OBVIOUS
  <2>1. PICK g \in [0..k -> S] : Recurs(g, b, F, k)
    BY <1>2
  <2> DEFINE h == [n \in 0..(k + 1) |-> IF n = k + 1 THEN F[k + 1][g[k]] ELSE g[n]]
  <2>2. F[k + 1][g[k]] \in S
    BY <2>1
  <2>3. h \in [0..(k + 1) -> S]
    BY <2>2
  <2>4. Recurs(h, b, F, k + 1)
    BY <2>1 DEF Recurs
  <2>5. QED
    BY <2>3, <2>4
<1>3. m \in Good
  <2> HIDE DEF Good
  <2>1. Nat \subseteq Good
    BY <1>1, <1>2, SetInduction
  <2>2. QED
    BY <2>1
<1>4. QED
  BY <1>3

Alike(g, h, m) == \A n \in 0..m : g[n] = h[n]
GoOnAlike(g, h, m) == \A n \in 1..m : g[n - 1] = h[n - 1] => g[n] = h[n]

\* Functions that start alike and go on alike are alike.
LEMMA RecursionUnique ==
  ASSUME NEW m \in Nat, NEW g, NEW h, g[0] = h[0], GoOnAlike(g, h, m)
  PROVE  Alike(g, h, m)
<1> DEFINE Good == {n \in Nat : n <= m => g[n] = h[n]}
<1>1. 0 \in Good
  OBVIOUS
<1>2. ASSUME NEW n \in Nat, n \in Good PROVE n + 1 \in Good
  BY <1>2 DEF GoOnAlike
<1>3. Nat \subseteq Good
  <2> HIDE DEF Good
  <2>1. QED
    BY <1>1, <1>2, SetInduction
<1>4. QED
  BY <1>3 DEF Alike

\* The same on all naturals: g is defined from b by the step F.
RecursOn(g, b, F) == g[0] = b /\ \A n \in Nat : g[n + 1] = F[g[n]]

LEMMA RecursionOnNat ==
  ASSUME NEW S, NEW b \in S, NEW F \in [S -> S]
  PROVE  \E g \in [Nat -> S] : RecursOn(g, b, F)
<1> DEFINE G(m) == [n \in 1..m |-> F]
           Good(g, m) == g \in [0..m -> S] /\ Recurs(g, b, G(m), m)
           Part(m) == CHOOSE g : Good(g, m)
           h == [n \in Nat |-> Part(n)[n]]
<1>1. ASSUME NEW m \in Nat PROVE Good(Part(m), m)
  <2>1. G(m) \in [1..m -> [S -> S]]
    OBVIOUS
  <2>2. \E g \in [0..m -> S] : Recurs(g, b, G(m), m)
    <3> HIDE DEF G
    <3>1. QED
      BY <2>1, RecursionExists
  <2>3. \E g : Good(g, m)
    BY <2>2
  <2> HIDE DEF Good
  <2>4. QED
    BY <2>3
<1>2. ASSUME NEW m \in Nat
      PROVE  /\ Part(m) \in [0..m -> S] /\ Part(m)[0] = b
             /\ \A n \in 1..m : Part(m)[n] = F[Part(m)[n - 1]]
  <2>1. Part(m) \in [0..m -> S] /\ Recurs(Part(m), b, G(m), m)
    BY <1>1
  <2> HIDE DEF Part
  <2>2. QED
    BY <2>1 DEF Recurs
<1> HIDE DEF Part
<1>3. h \in [Nat -> S]
  BY <1>2
<1>4. h[0] = b
  BY <1>2
<1>5. ASSUME NEW n \in Nat PROVE h[n + 1] = F[h[n]]
  <2>1. n + 1 \in Nat /\ n + 1 \in 1..(n + 1) /\ (n + 1) - 1 = n
    OBVIOUS
  <2>2. Part(n + 1)[n + 1] = F[Part(n + 1)[n]]
    BY <1>2, <2>1
  <2>3. Part(n + 1)[n] = Part(n)[n]
    <3>1. Part(n + 1)[0] = Part(n)[0]
      BY <1>2
    <3>2. GoOnAlike(Part(n + 1), Part(n), n)
      <4> SUFFICES ASSUME NEW j \in 1..n, Part(n + 1)[j - 1] = Part(n)[j - 1]
                   PROVE  Part(n + 1)[j] = Part(n)[j]
        BY DEF GoOnAlike
      <4>1. j \in 1..(n + 1)
        OBVIOUS
      <4>2. QED
        BY <1>2, <2>1, <4>1
    <3>3. Alike(Part(n + 1), Part(n), n)
      BY <3>1, <3>2, RecursionUnique
    <3>4. QED
      BY <3>3 DEF Alike
  <2>4. QED
    BY <2>2, <2>3
<1>6. RecursOn(h, b, F)
  <2> HIDE DEF h
  <2>1. QED
    BY <1>4, <1>5 DEF RecursOn
<1>7. QED
  BY <1>3, <1>6
=============================================================================
