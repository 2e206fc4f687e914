----------------------- MODULE DiskBTreeOrder_proofs -----------------------
(***************************************************************************)
(* For every node capacity, every set of calls and every history of them:  *)
(* in every state of a call, the file that the queued writes lead to, with *)
(* the node the code is at as it will be written, has its keys in the      *)
(* order that its separators say, and so is the list of leaves.  Every     *)
(* block has a range of keys, which the operations of NodeOps divide and   *)
(* join.                                                                   *)
(***************************************************************************)
EXTENDS DiskBTreeProps_proofs

-----------------------------------------------------------------------------
(* Keys in order *)

\* A key below the upper end of a range; -1 is no upper end.
Under(k, h) == h = -1 \/ k < h

Ascending(s) == \A i, j \in 1..Len(s) : i < j => s[i] < s[j]

\* The keys from l on and below h.
Span(l, h) == {k \in Nat : l <= k /\ Under(k, h)}

\* Where a key belongs in an array in order.
Place(s, i, k) == \A j \in 1..Len(s) : IF j <= i THEN s[j] < k ELSE k < s[j]

\* InsertedIs for words.
LEMMA NatInserted ==
  ASSUME NEW s \in Seq(Nat), NEW i \in 0..Len(s), NEW k \in Nat
  PROVE  /\ array_insert(s, i, k) \in Seq(Nat)
         /\ Len(array_insert(s, i, k)) = Len(s) + 1 /\ Len(s) \in Nat
         /\ \A j \in 1..(Len(s) + 1) :
              array_insert(s, i, k)[j] =
                IF j <= i THEN s[j] ELSE IF j = i + 1 THEN k ELSE s[j - 1]
<1> DEFINE R == \A j \in 1..(Len(s) + 1) :
              array_insert(s, i, k)[j] =
                IF j <= i THEN s[j] ELSE IF j = i + 1 THEN k ELSE s[j - 1]
<1>1. ASSUME NEW S, s \in Seq(S), k \in S
      PROVE  R
  BY ONLY <1>1, i \in 0..Len(s), InsertedIs
<1> HIDE DEF R
<1>2. R
  <2>1. s \in Seq(Nat) /\ k \in Nat
    OBVIOUS
  <2>2. QED
    BY ONLY <1>1, <2>1, Zenon
<1>3. array_insert(s, i, k) \in Seq(Nat) /\ Len(array_insert(s, i, k)) = Len(s) + 1
  BY ArrayInsert
<1>4. Len(s) \in Nat
  OBVIOUS
<1>5. QED
  BY <1>2, <1>3, <1>4 DEF R

\* t is s with x inserted at i.
InsertedAt(t, s, i, x) ==
  /\ t \in Seq(Nat) /\ Len(t) = Len(s) + 1
  /\ \A j \in 1..(Len(s) + 1) :
       t[j] = IF j <= i THEN s[j] ELSE IF j = i + 1 THEN x ELSE s[j - 1]

LEMMA WordInserted ==
  ASSUME NEW s \in Seq(Nat), NEW i, i \in 0..Len(s), NEW k \in Nat
  PROVE  InsertedAt(array_insert(s, i, k), s, i, k)
<1>1. /\ array_insert(s, i, k) \in Seq(Nat)
      /\ Len(array_insert(s, i, k)) = Len(s) + 1
      /\ \A j \in 1..(Len(s) + 1) :
           array_insert(s, i, k)[j] = IF j <= i THEN s[j] ELSE IF j = i + 1 THEN k ELSE s[j - 1]
  BY NatInserted, ZenonT(60)
<1>2. QED
  BY ONLY <1>1 DEF InsertedAt

LEMMA AscendingInsert ==
  ASSUME NEW s \in Seq(Nat), NEW i \in 0..Len(s), NEW k \in Nat, Ascending(s), Place(s, i, k)
  PROVE  Ascending(array_insert(s, i, k))
<1> DEFINE t == array_insert(s, i, k)
<1>1. /\ Len(t) = Len(s) + 1 /\ Len(s) \in Nat
      /\ \A j \in 1..(Len(s) + 1) :
           t[j] = IF j <= i THEN s[j] ELSE IF j = i + 1 THEN k ELSE s[j - 1]
  BY NatInserted
<1> HIDE DEF t
<1>2. ASSUME NEW p \in 1..Len(t), NEW q \in 1..Len(t), p < q
      PROVE  t[p] < t[q]
  <2>1. CASE q <= i
    <3>1. p \in 1..Len(s) /\ q \in 1..Len(s) /\ t[p] = s[p] /\ t[q] = s[q]
      BY <2>1, <1>1, <1>2
    <3>2. QED
      BY <3>1, <1>2 DEF Ascending
  <2>2. CASE q = i + 1
    <3>1. p \in 1..Len(s) /\ p <= i /\ t[p] = s[p] /\ t[q] = k
      BY <2>2, <1>1, <1>2
    <3>2. QED
      BY <3>1 DEF Place
  <2>3. CASE q > i + 1
    <3>1. q - 1 \in 1..Len(s) /\ ~(q - 1 <= i) /\ t[q] = s[q - 1]
      BY <2>3, <1>1, <1>2
    <3>2. CASE p <= i
      <4>1. p \in 1..Len(s) /\ t[p] = s[p] /\ p < q - 1
        BY <3>2, <2>3, <1>1, <1>2
      <4>2. QED
        BY <3>1, <4>1 DEF Ascending
    <3>3. CASE p = i + 1
      <4>1. t[p] = k
        BY <3>3, <1>1, <1>2
      <4>2. QED
        BY <3>1, <4>1 DEF Place
    <3>4. CASE p > i + 1
      <4>1. p - 1 \in 1..Len(s) /\ t[p] = s[p - 1] /\ p - 1 < q - 1
        BY <3>4, <1>1, <1>2
      <4>2. QED
        BY <3>1, <4>1 DEF Ascending
    <3>5. QED
      BY <3>2, <3>3, <3>4, <1>1
  <2>4. QED
    BY <2>1, <2>2, <2>3, <1>1
<1>3. QED
  BY <1>2 DEF Ascending, t

LEMMA AscendingDelete ==
  ASSUME NEW s \in Seq(Nat), NEW i \in 0..(Len(s) - 1), Ascending(s)
  PROVE  Ascending(array_delete(s, i))
<1> DEFINE t == array_delete(s, i)
<1>1. /\ Len(t) = Len(s) - 1 /\ Len(s) \in Nat
      /\ \A j \in 1..(Len(s) - 1) : t[j] = IF j <= i THEN s[j] ELSE s[j + 1]
  BY DeletedIs
<1> HIDE DEF t
<1>2. ASSUME NEW p \in 1..Len(t), NEW q \in 1..Len(t), p < q
      PROVE  t[p] < t[q]
  <2>1. p \in 1..Len(s) /\ q \in 1..Len(s) /\ p + 1 \in 1..Len(s) /\ q + 1 \in 1..Len(s)
        /\ p < q + 1 /\ p + 1 < q + 1
    BY <1>1, <1>2
  <2>2. s[p] < s[q] /\ s[p] < s[q + 1] /\ s[p + 1] < s[q + 1]
    BY <2>1, <1>2 DEF Ascending
  <2>3. p \in 1..(Len(s) - 1) /\ q \in 1..(Len(s) - 1) /\ p <= q
    BY <1>1, <1>2
  <2>4. /\ t[p] = IF p <= i THEN s[p] ELSE s[p + 1]
        /\ t[q] = IF q <= i THEN s[q] ELSE s[q + 1]
    BY <1>1, <2>3
  <2>5. p \in Nat /\ q \in Nat /\ i \in Nat
    BY <1>1, <2>3
  <2>6. QED
    BY ONLY <2>2, <2>3, <2>4, <2>5
<1>3. QED
  BY <1>2 DEF Ascending, t

\* Two arrays, all of the first below all of the second.
LEMMA AscendingJoin ==
  ASSUME NEW s \in Seq(Nat), NEW t \in Seq(Nat), Ascending(s), Ascending(t),
         \A i \in 1..Len(s), j \in 1..Len(t) : s[i] < t[j]
  PROVE  Ascending(s \o t)
<1> DEFINE u == s \o t
<1>1. /\ u \in Seq(Nat) /\ Len(u) = Len(s) + Len(t)
      /\ \A j \in 1..Len(s) : u[j] = s[j]
      /\ \A j \in 1..Len(t) : u[Len(s) + j] = t[j]
  BY ConcatIs
<1> HIDE DEF u
<1>2. Len(s) \in Nat /\ Len(t) \in Nat
  OBVIOUS
<1>3. ASSUME NEW i \in 1..Len(u), NEW j \in 1..Len(u), i < j
      PROVE  u[i] < u[j]
  <2>1. CASE j <= Len(s)
    <3>1. i \in 1..Len(s) /\ j \in 1..Len(s) /\ u[i] = s[i] /\ u[j] = s[j]
      BY SMTT(30), ZenonT(30), <2>1, <1>1, <1>2, <1>3
    <3>2. QED
      BY <3>1, <1>3 DEF Ascending
  <2>2. CASE i > Len(s)
    <3>1. /\ i - Len(s) \in 1..Len(t) /\ j - Len(s) \in 1..Len(t)
          /\ i - Len(s) < j - Len(s)
      BY <2>2, <1>1, <1>2, <1>3
    <3>2. u[i] = t[i - Len(s)] /\ u[j] = t[j - Len(s)]
      <4>1. Len(s) + (i - Len(s)) = i /\ Len(s) + (j - Len(s)) = j
        BY <1>2
      <4>2. QED
        BY <3>1, <4>1, <1>1
    <3>3. QED
      BY <3>1, <3>2 DEF Ascending
  <2>3. CASE i <= Len(s) /\ j > Len(s)
    <3>1. j - Len(s) \in 1..Len(t) /\ i \in 1..Len(s)
      BY <2>3, <1>1, <1>2
    <3>2. u[j] = t[j - Len(s)] /\ u[i] = s[i]
      <4>1. Len(s) + (j - Len(s)) = j
        BY <1>2
      <4>2. QED
        BY <3>1, <4>1, <1>1
    <3>3. QED
      BY <3>1, <3>2
  <2>4. QED
    BY <2>1, <2>2, <2>3, <1>2
<1>4. QED
  BY <1>3 DEF Ascending, u

\* A stretch of an array in order.
LEMMA AscendingCut ==
  ASSUME NEW s \in Seq(Nat), NEW m \in 0..Len(s), NEW n \in m..Len(s), Ascending(s)
  PROVE  /\ SubSeq(s, m + 1, n) \in Seq(Nat) /\ Len(SubSeq(s, m + 1, n)) = n - m
         /\ \A j \in 1..(n - m) : SubSeq(s, m + 1, n)[j] = s[m + j]
         /\ Ascending(SubSeq(s, m + 1, n))
<1> DEFINE t == SubSeq(s, m + 1, n)
<1>0. Len(s) \in Nat /\ m + 1 \in Int /\ n \in Int /\ n - (m + 1) + 1 = n - m
  OBVIOUS
<1>1. t \in Seq(Nat) /\ Len(t) = n - m
  BY <1>0, SubSeqProperties
<1>2. \A j \in 1..(n - m) : t[j] = s[m + j]
  <2>1. \A j \in 1..(n - m) : (m + 1) + j - 1 = m + j /\ j \in 1..(n - (m + 1) + 1)
    BY <1>0
  <2>2. QED
    BY <2>1, <1>0, SubSeqProperties
<1> HIDE DEF t
<1>3. ASSUME NEW p \in 1..Len(t), NEW q \in 1..Len(t), p < q
      PROVE  t[p] < t[q]
  <2>1. /\ p \in 1..(n - m) /\ q \in 1..(n - m)
        /\ m + p \in 1..Len(s) /\ m + q \in 1..Len(s) /\ m + p < m + q
    BY <1>0, <1>1, <1>3
  <2>2. QED
    BY <1>2, <2>1 DEF Ascending
<1>4. QED
  BY <1>1, <1>2, <1>3 DEF Ascending, t

-----------------------------------------------------------------------------
(* Blocks and the ranges of their keys *)

\* A leaf or node whose arrays are in step; it may hold one key too many, as
\* between array_insert and the split.
Shaped(b) ==
  /\ b.keys \in Seq(Nat) /\ b.values \in Seq(Nat)
  /\ \/ b.tag = "leaf" /\ Len(b.values) = Len(b.keys)
     \/ b.tag = "node" /\ Len(b.values) = Len(b.keys) + 1

\* The ends of the range of the child at slot j of a node with the range l to h
\* and the keys ks, len of them.
LeftOf(ks, l, j)       == IF j = 1 THEN l ELSE ks[j - 1]
RightOf(ks, len, h, j) == IF j = len + 1 THEN h ELSE ks[j]

Bounds(lo, hi) == lo \in [Nat -> Nat] /\ hi \in [Nat -> Int]

\* The keys of a node are the ends of the ranges of its children.
Fences(ks, vs, len, lo, hi, l, h) ==
  \A j \in 1..(len + 1) :
    lo[vs[j]] = LeftOf(ks, l, j) /\ hi[vs[j]] = RightOf(ks, len, h, j)

\* The keys of b lie in the range from l to h, in order.
Ranged(b, lo, hi, l, h) ==
  /\ Shaped(b) /\ Ascending(b.keys) /\ Under(l, h)
  /\ b.tag = "leaf" => b.keys \in Seq(Span(l, h))
  /\ b.tag = "node" => /\ b.keys \in Seq(Span(l + 1, h))
                       /\ Fences(b.keys, b.values, Len(b.keys), lo, hi, l, h)

\* The arrays with k and n inserted, and the range of child i + 1 divided at k.
Divided(ks, vs, len, i, k, n, ek, ev, lo, hi, lo2, hi2) ==
  /\ \A j \in 1..(len + 1) :
       ek[j] = IF j <= i THEN ks[j] ELSE IF j = i + 1 THEN k ELSE ks[j - 1]
  /\ \A j \in 1..(len + 2) :
       ev[j] = IF j <= i + 1 THEN vs[j] ELSE IF j = i + 2 THEN n ELSE vs[j - 1]
  /\ \A j \in 1..(len + 1) : /\ lo2[vs[j]] = lo[vs[j]]
                              /\ hi2[vs[j]] = IF j = i + 1 THEN k ELSE hi[vs[j]]
  /\ lo2[n] = k /\ hi2[n] = hi[vs[i + 1]]

LEMMA FenceInserted ==
  ASSUME NEW len \in Nat, NEW ks, NEW vs, NEW i \in 0..len, NEW k, NEW n, NEW l, NEW h,
         NEW lo, NEW hi, Fences(ks, vs, len, lo, hi, l, h), NEW ek, NEW ev, NEW lo2, NEW hi2,
         Divided(ks, vs, len, i, k, n, ek, ev, lo, hi, lo2, hi2)
  PROVE  Fences(ek, ev, len + 1, lo2, hi2, l, h)
<1>0. /\ \A j \in 1..(len + 1) :
           ek[j] = IF j <= i THEN ks[j] ELSE IF j = i + 1 THEN k ELSE ks[j - 1]
      /\ \A j \in 1..(len + 2) :
           ev[j] = IF j <= i + 1 THEN vs[j] ELSE IF j = i + 2 THEN n ELSE vs[j - 1]
      /\ \A j \in 1..(len + 1) : /\ lo2[vs[j]] = lo[vs[j]]
                                  /\ hi2[vs[j]] = IF j = i + 1 THEN k ELSE hi[vs[j]]
      /\ lo2[n] = k /\ hi2[n] = hi[vs[i + 1]]
  BY DEF Divided
<1>1. ASSUME NEW j \in 1..(len + 2)
      PROVE  lo2[ev[j]] = LeftOf(ek, l, j) /\ hi2[ev[j]] = RightOf(ek, len + 1, h, j)
  <2>1. CASE j <= i
    <3>1. j \in 1..(len + 1) /\ ev[j] = vs[j] /\ j # i + 1
      BY <1>0, <2>1
    <3>2. LeftOf(ek, l, j) = LeftOf(ks, l, j)
      <4>1. j # 1 => j - 1 \in 1..(len + 1) /\ j - 1 <= i
        BY <1>0, <2>1
      <4>2. QED
        BY <1>0, <4>1 DEF LeftOf
    <3>3. RightOf(ek, len + 1, h, j) = RightOf(ks, len, h, j)
      <4>1. j # len + 1 /\ j # (len + 1) + 1
        BY <1>0, <2>1
      <4>2. QED
        BY <1>0, <4>1, <3>1, <2>1 DEF RightOf
    <3>4. QED
      BY <1>0, <3>1, <3>2, <3>3 DEF Fences
  <2>2. CASE j = i + 1
    <3>1. j \in 1..(len + 1) /\ ev[j] = vs[j] /\ j # (len + 1) + 1 /\ ~(j <= i)
      BY <1>0, <2>2
    <3>2. LeftOf(ek, l, j) = LeftOf(ks, l, j)
      <4>1. j # 1 => j - 1 \in 1..(len + 1) /\ j - 1 <= i
        BY <1>0, <2>2
      <4>2. QED
        BY <1>0, <4>1 DEF LeftOf
    <3>3. RightOf(ek, len + 1, h, j) = k
      BY <1>0, <3>1, <2>2 DEF RightOf
    <3>4. QED
      BY <1>0, <3>1, <3>2, <3>3, <2>2 DEF Fences
  <2>3. CASE j = i + 2
    <3>1. ev[j] = n /\ j # 1 /\ j - 1 = i + 1 /\ i + 1 \in 1..(len + 1) /\ ~(i + 1 <= i)
      BY <1>0, <2>3
    <3>2. LeftOf(ek, l, j) = k
      BY <1>0, <3>1 DEF LeftOf
    <3>3. RightOf(ek, len + 1, h, j) = RightOf(ks, len, h, i + 1)
      <4>1. CASE i = len
        BY <1>0, <4>1, <2>3 DEF RightOf
      <4>2. CASE i # len
        <5>1. j \in 1..(len + 1) /\ ~(j <= i) /\ j # i + 1 /\ j # (len + 1) + 1 /\ i + 1 # len + 1
          BY <1>0, <4>2, <2>3
        <5>2. QED
          BY <1>0, <5>1, <3>1 DEF RightOf
      <4>3. QED
        BY <1>0, <4>1, <4>2
    <3>4. QED
      BY <1>0, <3>1, <3>2, <3>3 DEF Fences
  <2>4. CASE j > i + 2
    <3>1. /\ j - 1 \in 1..(len + 1) /\ ev[j] = vs[j - 1] /\ ~(j - 1 <= i) /\ j - 1 # i + 1
          /\ j # 1 /\ j - 1 # 1
      BY <1>0, <2>4
    <3>2. LeftOf(ek, l, j) = LeftOf(ks, l, j - 1)
      BY <1>0, <3>1 DEF LeftOf
    <3>3. RightOf(ek, len + 1, h, j) = RightOf(ks, len, h, j - 1)
      <4>1. CASE j = len + 2
        BY <1>0, <4>1 DEF RightOf
      <4>2. CASE j # len + 2
        <5>1. j \in 1..(len + 1) /\ ~(j <= i) /\ j # i + 1 /\ j # (len + 1) + 1 /\ j - 1 # len + 1
          BY <1>0, <4>2, <2>4
        <5>2. QED
          BY <1>0, <5>1 DEF RightOf
      <4>3. QED
        BY <1>0, <4>1, <4>2
    <3>4. QED
      BY <1>0, <3>1, <3>2, <3>3 DEF Fences
  <2>5. QED
    BY <2>1, <2>2, <2>3, <2>4
<1>2. (len + 1) + 1 = len + 2
  OBVIOUS
<1>3. QED
  BY <1>1, <1>2 DEF Fences

\* Two neighbouring children become one: the second goes, its range is the first's.
United(ks, vs, len, i, ek, ev, lo, hi, lo2, hi2) ==
  /\ \A j \in 1..(len - 1) : ek[j] = IF j <= i THEN ks[j] ELSE ks[j + 1]
  /\ \A j \in 1..len : ev[j] = IF j <= i + 1 THEN vs[j] ELSE vs[j + 1]
  /\ \A j \in 1..(len + 1) : j # i + 2 =>
       /\ lo2[vs[j]] = lo[vs[j]]
       /\ hi2[vs[j]] = IF j = i + 1 THEN hi[vs[i + 2]] ELSE hi[vs[j]]

LEMMA FenceRemoved ==
  ASSUME NEW len \in Nat, NEW ks, NEW vs, NEW i \in 0..(len - 1), NEW l, NEW h,
         NEW lo, NEW hi, Fences(ks, vs, len, lo, hi, l, h), NEW ek, NEW ev, NEW lo2, NEW hi2,
         United(ks, vs, len, i, ek, ev, lo, hi, lo2, hi2)
  PROVE  Fences(ek, ev, len - 1, lo2, hi2, l, h)
<1>0. /\ \A j \in 1..(len - 1) : ek[j] = IF j <= i THEN ks[j] ELSE ks[j + 1]
      /\ \A j \in 1..len : ev[j] = IF j <= i + 1 THEN vs[j] ELSE vs[j + 1]
      /\ \A j \in 1..(len + 1) : j # i + 2 =>
           /\ lo2[vs[j]] = lo[vs[j]]
           /\ hi2[vs[j]] = IF j = i + 1 THEN hi[vs[i + 2]] ELSE hi[vs[j]]
  BY DEF United
<1>1. ASSUME NEW j \in 1..len
      PROVE  lo2[ev[j]] = LeftOf(ek, l, j) /\ hi2[ev[j]] = RightOf(ek, len - 1, h, j)
  <2>1. CASE j <= i
    <3>1. /\ j \in 1..(len + 1) /\ ev[j] = vs[j] /\ j # i + 1 /\ j # i + 2
          /\ j \in 1..(len - 1) /\ j # (len - 1) + 1 /\ j # len + 1
      BY <1>0, <2>1
    <3>2. LeftOf(ek, l, j) = LeftOf(ks, l, j)
      <4>1. j # 1 => j - 1 \in 1..(len - 1) /\ j - 1 <= i
        BY <1>0, <2>1
      <4>2. QED
        BY <1>0, <4>1 DEF LeftOf
    <3>3. RightOf(ek, len - 1, h, j) = RightOf(ks, len, h, j)
      BY <1>0, <3>1, <2>1 DEF RightOf
    <3>4. QED
      BY <1>0, <3>1, <3>2, <3>3 DEF Fences
  <2>2. CASE j = i + 1
    <3>1. /\ j \in 1..(len + 1) /\ ev[j] = vs[j] /\ j # i + 2 /\ i + 2 \in 1..(len + 1)
      BY <1>0, <2>2
    <3>2. LeftOf(ek, l, j) = LeftOf(ks, l, j)
      <4>1. j # 1 => j - 1 \in 1..(len - 1) /\ j - 1 <= i
        BY <1>0, <2>2
      <4>2. QED
        BY <1>0, <4>1 DEF LeftOf
    <3>3. RightOf(ek, len - 1, h, j) = RightOf(ks, len, h, i + 2)
      <4>1. CASE i = len - 1
        BY <1>0, <4>1, <2>2 DEF RightOf
      <4>2. CASE i # len - 1
        <5>1. /\ j \in 1..(len - 1) /\ ~(j <= i) /\ j # (len - 1) + 1 /\ i + 2 # len + 1
              /\ j + 1 = i + 2
          BY <1>0, <4>2, <2>2
        <5>2. QED
          BY <1>0, <5>1 DEF RightOf
      <4>3. QED
        BY <1>0, <4>1, <4>2
    <3>4. QED
      BY <1>0, <3>1, <3>2, <3>3, <2>2 DEF Fences
  <2>3. CASE j > i + 1
    <3>1. /\ j + 1 \in 1..(len + 1) /\ ev[j] = vs[j + 1] /\ j + 1 # i + 1 /\ j + 1 # i + 2
          /\ j # 1 /\ j + 1 # 1 /\ (j + 1) - 1 = j
      BY <1>0, <2>3
    <3>2. LeftOf(ek, l, j) = LeftOf(ks, l, j + 1)
      <4>1. j - 1 \in 1..(len - 1) /\ ~(j - 1 <= i) /\ (j - 1) + 1 = j
        BY <1>0, <2>3
      <4>2. QED
        BY <1>0, <4>1, <3>1 DEF LeftOf
    <3>3. RightOf(ek, len - 1, h, j) = RightOf(ks, len, h, j + 1)
      <4>1. CASE j = len
        BY <1>0, <4>1 DEF RightOf
      <4>2. CASE j # len
        <5>1. j \in 1..(len - 1) /\ ~(j <= i) /\ j # (len - 1) + 1 /\ j + 1 # len + 1
          BY <1>0, <4>2, <2>3
        <5>2. QED
          BY <1>0, <5>1 DEF RightOf
      <4>3. QED
        BY <1>0, <4>1, <4>2
    <3>4. QED
      BY <1>0, <3>1, <3>2, <3>3 DEF Fences
  <2>4. QED
    BY <2>1, <2>2, <2>3
<1>2. (len - 1) + 1 = len
  OBVIOUS
<1>3. QED
  BY <1>1, <1>2 DEF Fences

\* The boundary between two neighbouring children is moved.
Shifted(ks, vs, len, i, k, ek, lo, hi, lo2, hi2) ==
  /\ \A j \in 1..len : ek[j] = IF j = i THEN k ELSE ks[j]
  /\ lo2[vs[i + 1]] = k /\ hi2[vs[i]] = k
  /\ \A j \in 1..(len + 1) : (j # i + 1 => lo2[vs[j]] = lo[vs[j]])
                              /\ (j # i => hi2[vs[j]] = hi[vs[j]])

LEMMA FenceMoved ==
  ASSUME NEW len \in Nat, NEW ks, NEW vs, NEW i \in 1..len, NEW k, NEW l, NEW h,
         NEW lo, NEW hi, Fences(ks, vs, len, lo, hi, l, h), NEW ek, NEW lo2, NEW hi2,
         Shifted(ks, vs, len, i, k, ek, lo, hi, lo2, hi2)
  PROVE  Fences(ek, vs, len, lo2, hi2, l, h)
<1>0. /\ \A j \in 1..len : ek[j] = IF j = i THEN k ELSE ks[j]
      /\ lo2[vs[i + 1]] = k /\ hi2[vs[i]] = k
      /\ \A j \in 1..(len + 1) : (j # i + 1 => lo2[vs[j]] = lo[vs[j]])
                                  /\ (j # i => hi2[vs[j]] = hi[vs[j]])
  BY DEF Shifted
<1>1. ASSUME NEW j \in 1..(len + 1)
      PROVE  lo2[vs[j]] = LeftOf(ek, l, j) /\ hi2[vs[j]] = RightOf(ek, len, h, j)
  <2>1. lo[vs[j]] = LeftOf(ks, l, j) /\ hi[vs[j]] = RightOf(ks, len, h, j)
    BY DEF Fences
  <2>2. CASE j = i + 1
    <3>1. LeftOf(ek, l, j) = k
      <4>1. j # 1 /\ j - 1 = i
        BY <2>2
      <4>2. QED
        BY <1>0, <4>1 DEF LeftOf
    <3>2. lo2[vs[j]] = k
      BY <1>0, <2>2
    <3>3. QED
      <4>1. j # i /\ (j # len + 1 => j \in 1..len)
        BY <2>2
      <4>2. hi2[vs[j]] = hi[vs[j]]
        BY <1>0, <4>1
      <4>3. RightOf(ek, len, h, j) = RightOf(ks, len, h, j)
        BY <1>0, <4>1 DEF RightOf
      <4>4. QED
        BY <2>1, <3>1, <3>2, <4>2, <4>3
  <2>3. CASE j # i + 1
    <3>1. lo2[vs[j]] = lo[vs[j]]
      BY <1>0, <2>3
    <3>2. LeftOf(ek, l, j) = LeftOf(ks, l, j)
      <4>1. j # 1 => j - 1 \in 1..len /\ j - 1 # i
        BY <2>3
      <4>2. QED
        BY <1>0, <4>1 DEF LeftOf
    <3>3. CASE j = i
      <4>1. RightOf(ek, len, h, j) = k
        <5>1. j # len + 1 /\ j \in 1..len
          BY <3>3
        <5>2. QED
          BY <1>0, <5>1, <3>3 DEF RightOf
      <4>2. hi2[vs[j]] = k
        BY <1>0, <3>3
      <4>3. QED
        BY <2>1, <3>1, <3>2, <4>1, <4>2
    <3>4. CASE j # i
      <4>1. hi2[vs[j]] = hi[vs[j]]
        BY <1>0, <3>4
      <4>2. RightOf(ek, len, h, j) = RightOf(ks, len, h, j)
        <5>1. j # len + 1 => j \in 1..len
          OBVIOUS
        <5>2. QED
          BY <1>0, <5>1, <3>4 DEF RightOf
      <4>3. QED
        BY <2>1, <3>1, <3>2, <4>1, <4>2
    <3>5. QED
      BY <3>3, <3>4
  <2>4. QED
    BY <2>2, <2>3
<1>2. QED
  BY <1>1 DEF Fences

\* The children before and behind the key at m + 1.
LEMMA FenceCut ==
  ASSUME NEW len \in Nat, NEW ks, NEW vs, NEW m \in 0..(len - 1), NEW l, NEW h,
         NEW lo, NEW hi, Fences(ks, vs, len, lo, hi, l, h)
  PROVE  /\ \A ek, ev :
              /\ \A j \in 1..m : ek[j] = ks[j]
              /\ \A j \in 1..(m + 1) : ev[j] = vs[j]
              => Fences(ek, ev, m, lo, hi, l, ks[m + 1])
         /\ \A ek, ev :
              /\ \A j \in 1..(len - (m + 1)) : ek[j] = ks[(m + 1) + j]
              /\ \A j \in 1..(len - m) : ev[j] = vs[(m + 1) + j]
              => Fences(ek, ev, len - (m + 1), lo, hi, ks[m + 1], h)
<1>1. ASSUME NEW ek, NEW ev, \A j \in 1..m : ek[j] = ks[j],
             \A j \in 1..(m + 1) : ev[j] = vs[j]
      PROVE  Fences(ek, ev, m, lo, hi, l, ks[m + 1])
  <2>1. ASSUME NEW j \in 1..(m + 1)
        PROVE  /\ lo[ev[j]] = LeftOf(ek, l, j)
               /\ hi[ev[j]] = RightOf(ek, m, ks[m + 1], j)
    <3>1. j \in 1..(len + 1) /\ j # len + 1 /\ ev[j] = vs[j]
      BY <1>1
    <3>2. LeftOf(ek, l, j) = LeftOf(ks, l, j)
      <4>1. j # 1 => j - 1 \in 1..m
        OBVIOUS
      <4>2. QED
        BY <4>1, <1>1 DEF LeftOf
    <3>3. RightOf(ek, m, ks[m + 1], j) = RightOf(ks, len, h, j)
      <4>1. j # m + 1 => j \in 1..m
        OBVIOUS
      <4>2. QED
        BY <4>1, <3>1, <1>1 DEF RightOf
    <3>4. QED
      BY <3>1, <3>2, <3>3 DEF Fences
  <2>2. QED
    BY <2>1 DEF Fences
<1>2. ASSUME NEW ek, NEW ev, \A j \in 1..(len - (m + 1)) : ek[j] = ks[(m + 1) + j],
             \A j \in 1..(len - m) : ev[j] = vs[(m + 1) + j]
      PROVE  Fences(ek, ev, len - (m + 1), lo, hi, ks[m + 1], h)
  <2>1. ASSUME NEW j \in 1..(len - m)
        PROVE  /\ lo[ev[j]] = LeftOf(ek, ks[m + 1], j)
               /\ hi[ev[j]] = RightOf(ek, len - (m + 1), h, j)
    <3>1. /\ (m + 1) + j \in 1..(len + 1) /\ (m + 1) + j # 1 /\ ev[j] = vs[(m + 1) + j]
      BY <1>2
    <3>2. LeftOf(ek, ks[m + 1], j) = LeftOf(ks, l, (m + 1) + j)
      <4>1. ((m + 1) + j) - 1 = (m + 1) + (j - 1) /\ (j = 1 => ((m + 1) + j) - 1 = m + 1)
        OBVIOUS
      <4>2. j # 1 => j - 1 \in 1..(len - (m + 1))
        OBVIOUS
      <4>3. QED
        BY <4>1, <4>2, <3>1, <1>2 DEF LeftOf
    <3>3. RightOf(ek, len - (m + 1), h, j) = RightOf(ks, len, h, (m + 1) + j)
      <4>1. j = (len - (m + 1)) + 1 <=> (m + 1) + j = len + 1
        OBVIOUS
      <4>2. j # (len - (m + 1)) + 1 => j \in 1..(len - (m + 1))
        OBVIOUS
      <4>3. QED
        BY <4>1, <4>2, <1>2 DEF RightOf
    <3>4. QED
      BY <3>1, <3>2, <3>3 DEF Fences
  <2>2. (len - (m + 1)) + 1 = len - m
    OBVIOUS
  <2>3. QED
    BY <2>1, <2>2 DEF Fences
<1>3. QED
  BY <1>1, <1>2

\* The children of two neighbours under one node, the key between them pulled down.
Joined(s, len, x, t, rlen, e) ==
  /\ \A j \in 1..len : e[j] = s[j]
  /\ e[len + 1] = x
  /\ \A j \in 1..rlen : e[(len + 1) + j] = t[j]

LEMMA FenceJoined ==
  ASSUME NEW len \in Nat, NEW ks, NEW vs, NEW rlen \in Nat, NEW rks, NEW rvs,
         NEW l, NEW s, NEW h, NEW lo, NEW hi,
         Fences(ks, vs, len, lo, hi, l, s), Fences(rks, rvs, rlen, lo, hi, s, h),
         NEW ek, Joined(ks, len, s, rks, rlen, ek),
         NEW ev, Joined(vs, len, vs[len + 1], rvs, rlen + 1, ev)
  PROVE  Fences(ek, ev, (len + 1) + rlen, lo, hi, l, h)
<1>0. /\ \A j \in 1..len : ek[j] = ks[j]
      /\ ek[len + 1] = s
      /\ \A j \in 1..rlen : ek[(len + 1) + j] = rks[j]
      /\ \A j \in 1..(len + 1) : ev[j] = vs[j]
      /\ \A j \in 1..(rlen + 1) : ev[(len + 1) + j] = rvs[j]
  <2>1. \A j \in 1..(len + 1) : j \in 1..len \/ j = len + 1
    OBVIOUS
  <2>2. QED
    BY <2>1 DEF Joined
<1>1. ASSUME NEW j \in 1..(len + 1)
      PROVE  /\ lo[ev[j]] = LeftOf(ek, l, j)
             /\ hi[ev[j]] = RightOf(ek, (len + 1) + rlen, h, j)
  <2>1. ev[j] = vs[j] /\ j # ((len + 1) + rlen) + 1
    BY <1>0
  <2>2. LeftOf(ek, l, j) = LeftOf(ks, l, j)
    <3>1. j # 1 => j - 1 \in 1..len
      OBVIOUS
    <3>2. QED
      BY <1>0, <3>1 DEF LeftOf
  <2>3. RightOf(ek, (len + 1) + rlen, h, j) = RightOf(ks, len, s, j)
    <3>1. j # len + 1 => j \in 1..len
      OBVIOUS
    <3>2. QED
      BY <1>0, <3>1, <2>1 DEF RightOf
  <2>4. QED
    BY <2>1, <2>2, <2>3 DEF Fences
<1>2. ASSUME NEW i \in 1..(rlen + 1)
      PROVE  /\ lo[ev[(len + 1) + i]] = LeftOf(ek, l, (len + 1) + i)
             /\ hi[ev[(len + 1) + i]] = RightOf(ek, (len + 1) + rlen, h, (len + 1) + i)
  <2>1. ev[(len + 1) + i] = rvs[i] /\ (len + 1) + i # 1
    BY <1>0
  <2>2. LeftOf(ek, l, (len + 1) + i) = LeftOf(rks, s, i)
    <3>1. /\ i # 1 => i - 1 \in 1..rlen /\ ((len + 1) + i) - 1 = (len + 1) + (i - 1)
          /\ i = 1 => ((len + 1) + i) - 1 = len + 1
      OBVIOUS
    <3>2. QED
      BY <1>0, <3>1, <2>1 DEF LeftOf
  <2>3. RightOf(ek, (len + 1) + rlen, h, (len + 1) + i) = RightOf(rks, rlen, h, i)
    <3>1. /\ (len + 1) + i = ((len + 1) + rlen) + 1 <=> i = rlen + 1
          /\ i # rlen + 1 => i \in 1..rlen
      OBVIOUS
    <3>2. QED
      BY <1>0, <3>1 DEF RightOf
  <2>4. QED
    BY <2>1, <2>2, <2>3 DEF Fences
<1>3. ASSUME NEW j \in 1..(((len + 1) + rlen) + 1)
      PROVE  /\ lo[ev[j]] = LeftOf(ek, l, j)
             /\ hi[ev[j]] = RightOf(ek, (len + 1) + rlen, h, j)
  <2>1. CASE j <= len + 1
    <3>1. j \in 1..(len + 1)
      BY <2>1
    <3>2. QED
      BY <3>1, <1>1
  <2>2. CASE j > len + 1
    <3>1. j - (len + 1) \in 1..(rlen + 1) /\ (len + 1) + (j - (len + 1)) = j
      BY <2>2
    <3>2. QED
      BY <3>1, <1>2
  <2>3. QED
    BY <2>1, <2>2
<1>4. QED
  BY <1>3 DEF Fences

-----------------------------------------------------------------------------
(* What the operations of a node do to the ranges *)

\* An array of elements of a set.
LEMMA ArrayOf ==
  ASSUME NEW S, NEW s \in Seq(S)
  PROVE  /\ Len(s) \in Nat /\ \A j \in 1..Len(s) : s[j] \in S
         /\ \A P : (\A j \in 1..Len(s) : s[j] \in P) => s \in Seq(P)
<1>1. Len(s) \in Nat /\ \A j \in 1..Len(s) : s[j] \in S
  OBVIOUS
<1>2. ASSUME NEW P, \A j \in 1..Len(s) : s[j] \in P
      PROVE  s \in Seq(P)
  <2>1. s = [j \in 1..Len(s) |-> s[j]]
    OBVIOUS
  <2>2. s \in [1..Len(s) -> P]
    BY <1>2, <2>1
  <2>3. QED
    BY <1>1, <2>2
<1>3. QED
  BY <1>1, <1>2

LEMMA SpanIs ==
  ASSUME NEW l, NEW h, NEW k
  PROVE  k \in Span(l, h) <=> k \in Nat /\ l <= k /\ Under(k, h)
BY DEF Span

LEMMA LeafRanged ==
  ASSUME NEW l, NEW h, NEW ks \in Seq(Span(l, h)), Ascending(ks), Under(l, h),
         NEW vs \in Seq(Nat), Len(vs) = Len(ks), NEW next, NEW lo, NEW hi
  PROVE  Ranged(Leaf(ks, vs, next), lo, hi, l, h)
<1>1. ks \in Seq(Nat)
  BY ArrayOf, SpanIs
<1>2. QED
  BY <1>1 DEF Ranged, Shaped, Leaf

LEMMA NodeRanged ==
  ASSUME NEW l, NEW h, NEW ks \in Seq(Span(l + 1, h)), Ascending(ks), Under(l, h),
         NEW vs \in Seq(Nat), Len(vs) = Len(ks) + 1, NEW lo, NEW hi,
         Fences(ks, vs, Len(ks), lo, hi, l, h)
  PROVE  Ranged(Node(ks, vs), lo, hi, l, h)
<1>1. ks \in Seq(Nat)
  BY ArrayOf, SpanIs
<1>2. QED
  BY <1>1 DEF Ranged, Shaped, Node

\* What it says of a block that its keys are in range.
LEMMA RangedIs ==
  ASSUME NEW b, NEW lo, NEW hi, NEW l, NEW h, Ranged(b, lo, hi, l, h)
  PROVE  /\ Len(b.keys) \in Nat /\ b.keys \in Seq(Nat) /\ b.values \in Seq(Nat)
         /\ \A j \in 1..Len(b.keys) : b.keys[j] \in Nat
         /\ \A j \in 1..Len(b.values) : b.values[j] \in Nat
         /\ Ascending(b.keys) /\ Under(l, h)
         /\ b.tag = "leaf" => Len(b.values) = Len(b.keys) /\ b.keys \in Seq(Span(l, h))
         /\ b.tag = "node" => /\ Len(b.values) = Len(b.keys) + 1
                              /\ b.keys \in Seq(Span(l + 1, h))
                              /\ Fences(b.keys, b.values, Len(b.keys), lo, hi, l, h)
<1>1. b.keys \in Seq(Nat) /\ b.values \in Seq(Nat)
  BY DEF Ranged, Shaped
<1>2. /\ Len(b.keys) \in Nat
      /\ \A j \in 1..Len(b.keys) : b.keys[j] \in Nat
      /\ \A j \in 1..Len(b.values) : b.values[j] \in Nat
  BY <1>1, ArrayOf
<1>3. QED
  BY <1>1, <1>2 DEF Ranged, Shaped

\* A key between its neighbours is in its place and in the range of the node.
LEMMA PlaceOf ==
  ASSUME NEW l \in Nat, NEW h \in Int, NEW s \in Seq(Span(l + 1, h)), Ascending(s),
         NEW i \in 0..Len(s), NEW k \in Nat,
         LeftOf(s, l, i + 1) < k, Under(k, RightOf(s, Len(s), h, i + 1))
  PROVE  Place(s, i, k) /\ k \in Span(l + 1, h)
<1>1. Len(s) \in Nat /\ \A j \in 1..Len(s) : s[j] \in Nat /\ l < s[j] /\ Under(s[j], h)
  BY ArrayOf, SpanIs
<1>2. i # 0 => i \in 1..Len(s) /\ s[i] < k
  BY <1>1 DEF LeftOf
<1>3. i # Len(s) => i + 1 \in 1..Len(s) /\ k < s[i + 1]
  <2>1. i # Len(s) => i + 1 \in 1..Len(s) /\ s[i + 1] # -1
    BY <1>1
  <2>2. QED
    BY <2>1, <1>1 DEF RightOf, Under
<1>4. Place(s, i, k)
  <2>1. ASSUME NEW j \in 1..Len(s), j <= i
        PROVE  s[j] < k
    <3>1. i \in 1..Len(s) /\ s[i] < k /\ s[i] \in Nat /\ s[j] \in Nat
      BY <1>1, <1>2, <2>1
    <3>2. j = i \/ s[j] < s[i]
      BY <2>1, <3>1 DEF Ascending
    <3>3. QED
      BY <3>1, <3>2
  <2>2. ASSUME NEW j \in 1..Len(s), ~(j <= i)
        PROVE  k < s[j]
    <3>1. i + 1 \in 1..Len(s) /\ k < s[i + 1] /\ s[i + 1] \in Nat /\ s[j] \in Nat /\ i + 1 <= j
      BY <1>1, <1>3, <2>2
    <3>2. j = i + 1 \/ s[i + 1] < s[j]
      BY <2>2, <3>1 DEF Ascending
    <3>3. QED
      BY <3>1, <3>2
  <2>3. QED
    BY <2>1, <2>2 DEF Place
<1>5. l < k
  <2>1. CASE i = 0
    BY <2>1 DEF LeftOf
  <2>2. CASE i # 0
    BY <2>2, <1>1, <1>2
  <2>3. QED
    BY <2>1, <2>2
<1>6. Under(k, h)
  <2>1. CASE i = Len(s)
    BY <2>1 DEF RightOf
  <2>2. CASE i # Len(s)
    <3>1. i + 1 \in 1..Len(s) /\ k < s[i + 1] /\ s[i + 1] \in Nat /\ Under(s[i + 1], h)
      BY <2>2, <1>1, <1>3
    <3>2. QED
      BY <3>1 DEF Under
  <2>3. QED
    BY <2>1, <2>2
<1>7. QED
  BY <1>4, <1>5, <1>6 DEF Span

\* The range of the child c now ends at k.
Narrowed(C, lo, hi, lo2, hi2, c, k) ==
  \A d \in C : lo2[d] = lo[d] /\ hi2[d] = IF d = c THEN k ELSE hi[d]

\* A child was split at k: its right part is the new child behind it.
LEMMA ChildInserted ==
  ASSUME NEW b, b.tag = "node", Distinct(b.values),
         NEW lo, NEW hi, NEW l \in Nat, NEW h \in Int, Ranged(b, lo, hi, l, h),
         NEW i \in 0..Len(b.keys), NEW k \in Nat, NEW n \in Nat,
         LeftOf(b.keys, l, i + 1) < k, Under(k, RightOf(b.keys, Len(b.keys), h, i + 1)),
         NEW c, c = b.values[i + 1], NEW lo2, NEW hi2,
         Narrowed(Kids(b), lo, hi, lo2, hi2, c, k), lo2[n] = k, hi2[n] = hi[c]
  PROVE  Ranged(node_insert(b, i, i + 1, k, n), lo2, hi2, l, h)
<1> USE DEF Narrowed
<1> DEFINE ks == b.keys
           vs == b.values
           ek == array_insert(ks, i, k)
           ev == array_insert(vs, i + 1, n)
<1>1. /\ ks \in Seq(Nat) /\ vs \in Seq(Nat) /\ Len(ks) \in Nat
      /\ Ascending(ks) /\ Under(l, h) /\ Len(vs) = Len(ks) + 1
      /\ ks \in Seq(Span(l + 1, h)) /\ Fences(ks, vs, Len(ks), lo, hi, l, h)
  BY RangedIs
<1>2. Place(ks, i, k) /\ k \in Span(l + 1, h)
  BY <1>1, PlaceOf
<1>3. ek \in Seq(Span(l + 1, h)) /\ Len(ek) = Len(ks) + 1 /\ Ascending(ek)
  BY <1>1, <1>2, ArrayInsert, AscendingInsert
<1>4. \A j \in 1..(Len(ks) + 1) :
        ek[j] = IF j <= i THEN ks[j] ELSE IF j = i + 1 THEN k ELSE ks[j - 1]
  BY <1>1, NatInserted
<1>5. /\ i + 1 \in 0..Len(vs) /\ Len(vs) + 1 = Len(ks) + 2 /\ (i + 1) + 1 = i + 2
      /\ i + 1 \in 1..Len(vs)
  BY <1>1
<1>6. /\ ev \in Seq(Nat) /\ Len(ev) = Len(ks) + 2
      /\ \A j \in 1..(Len(ks) + 2) :
           ev[j] = IF j <= i + 1 THEN vs[j] ELSE IF j = i + 2 THEN n ELSE vs[j - 1]
  <2>1. i + 1 \in 0..Len(vs) /\ vs \in Seq(Nat) /\ n \in Nat
    BY <1>1, <1>5
  <2>2. InsertedAt(ev, vs, i + 1, n)
    BY ONLY <2>1, WordInserted DEF ev
  <2>3. QED
    BY <1>5, <2>2 DEF InsertedAt
<1>7. \A j \in 1..(Len(ks) + 1) :
        /\ lo2[vs[j]] = lo[vs[j]]
        /\ hi2[vs[j]] = IF j = i + 1 THEN k ELSE hi[vs[j]]
  <2>1. ASSUME NEW j \in 1..(Len(ks) + 1)
        PROVE  vs[j] \in Kids(b) /\ (vs[j] = c <=> j = i + 1)
    BY <1>1, <1>5 DEF Kids, Members, Distinct
  <2>2. QED
    BY <2>1
<1>8. node_insert(b, i, i + 1, k, n) = Node(ek, ev)
  BY DEF node_insert
<1> HIDE DEF ek, ev, ks, vs
<1>9. hi2[n] = hi[vs[i + 1]]
  BY DEF vs
<1>10. Fences(ek, ev, Len(ks) + 1, lo2, hi2, l, h)
  <2>1. Divided(ks, vs, Len(ks), i, k, n, ek, ev, lo, hi, lo2, hi2)
    BY <1>4, <1>6, <1>7, <1>9 DEF Divided
  <2>2. i \in 0..Len(ks)
    BY DEF ks
  <2>3. QED
    BY <1>1, <2>1, <2>2, FenceInserted
<1>11. Len(ev) = Len(ek) + 1
  BY <1>1, <1>3, <1>6
<1>12. Fences(ek, ev, Len(ek), lo2, hi2, l, h)
  BY ONLY <1>3, <1>10
<1>13. /\ ek \in Seq(Span(l + 1, h)) /\ Ascending(ek) /\ Under(l, h)
       /\ ev \in Seq(Nat) /\ Len(ev) = Len(ek) + 1
  BY ONLY <1>1, <1>3, <1>6, <1>11
<1>14. Ranged(Node(ek, ev), lo2, hi2, l, h)
  BY ONLY <1>12, <1>13, NodeRanged
<1>15. QED
  BY ONLY <1>8, <1>14

\* t is s with the element at i (from 0) left out.
DeletedAt(t, s, i) ==
  /\ t \in Seq(Nat) /\ Len(t) = Len(s) - 1
  /\ \A j \in 1..(Len(s) - 1) : t[j] = IF j <= i THEN s[j] ELSE s[j + 1]

LEMMA WordDeleted ==
  ASSUME NEW s \in Seq(Nat), NEW i, i \in 0..(Len(s) - 1)
  PROVE  DeletedAt(array_delete(s, i), s, i)
<1>1. array_delete(s, i) \in Seq(Nat)
  BY DeletedIs
<1>2. QED
  BY <1>1, DeletedIs DEF DeletedAt

\* t is the n elements of s behind the first `from`.
PartOf(t, s, from, n) ==
  t \in Seq(Nat) /\ Len(t) = n /\ \A j \in 1..n : t[j] = s[from + j]

LEMMA PartAscending ==
  ASSUME NEW s \in Seq(Nat), Ascending(s), NEW from \in Nat, NEW n \in Nat,
         from + n <= Len(s), NEW t, PartOf(t, s, from, n)
  PROVE  Ascending(t)
<1>1. ASSUME NEW i \in 1..Len(t), NEW j \in 1..Len(t), i < j
      PROVE  t[i] < t[j]
  <2>1. /\ i \in 1..n /\ j \in 1..n
        /\ from + i \in 1..Len(s) /\ from + j \in 1..Len(s) /\ from + i < from + j
    <3>1. i \in 1..n /\ j \in 1..n /\ i < j
      BY <1>1 DEF PartOf
    <3>2. PICK len : len = Len(s) /\ len \in Nat /\ from + n <= len
      OBVIOUS
    <3>3. from \in Nat /\ n \in Nat
      OBVIOUS
    <3>4. from + i \in 1..len /\ from + j \in 1..len /\ from + i < from + j
      BY ONLY <3>1, <3>2, <3>3
    <3>5. QED
      BY ONLY <3>1, <3>2, <3>4
  <2>2. QED
    BY <2>1 DEF PartOf, Ascending
<1>2. QED
  BY <1>1 DEF Ascending

LEMMA SubSeqIsPart ==
  ASSUME NEW s \in Seq(Nat), NEW m, NEW n, m \in 0..n, n \in 0..Len(s)
  PROVE  PartOf(SubSeq(s, m + 1, n), s, m, n - m)
<1> DEFINE t == SubSeq(s, m + 1, n)
<1>0. Len(s) \in Nat /\ m + 1 \in Int /\ n \in Int /\ n - (m + 1) + 1 = n - m
      /\ m \in Nat /\ n \in Nat
  OBVIOUS
<1>1. t \in Seq(Nat) /\ Len(t) = n - m
  BY <1>0, SubSeqProperties
<1>2. \A j \in 1..(n - m) : t[j] = s[m + j]
  <2>1. \A j \in 1..(n - m) : (m + 1) + j - 1 = m + j /\ j \in 1..(n - (m + 1) + 1)
    BY <1>0
  <2>2. QED
    BY <2>1, <1>0, SubSeqProperties
<1>3. QED
  BY <1>1, <1>2 DEF PartOf

\* The first or the last element of an array is left out.
LEMMA EndsDeleted ==
  ASSUME NEW s \in Seq(Nat), Len(s) >= 1
  PROVE  /\ PartOf(array_delete(s, 0), s, 1, Len(s) - 1)
         /\ PartOf(array_delete(s, Len(s) - 1), s, 0, Len(s) - 1)
<1>1. Len(s) \in Nat /\ 0 \in 0..(Len(s) - 1) /\ Len(s) - 1 \in 0..(Len(s) - 1)
  OBVIOUS
<1>2. DeletedAt(array_delete(s, 0), s, 0) /\ DeletedAt(array_delete(s, Len(s) - 1), s, Len(s) - 1)
  BY <1>1, WordDeleted
<1>3. \A j \in 1..(Len(s) - 1) : ~(j <= 0) /\ j <= Len(s) - 1 /\ 0 + j = j /\ j + 1 = 1 + j
  BY <1>1
<1>4. QED
  BY <1>2, <1>3 DEF DeletedAt, PartOf

\* A node cut at its key m + 1, which belongs to neither part.
LEMMA NodeCut ==
  ASSUME NEW b, b.tag = "node", NEW lo, NEW hi, NEW l \in Nat, NEW h \in Int,
         Ranged(b, lo, hi, l, h),
         NEW len, len = Len(b.keys), NEW m, m \in 0..(len - 1), NEW s, s = b.keys[m + 1],
         NEW rest, rest = len - (m + 1)
  PROVE  /\ s \in Nat /\ l < s /\ Under(s, h)
         /\ \A ks, vs : PartOf(ks, b.keys, 0, m) /\ PartOf(vs, b.values, 0, m + 1)
                        => Ranged(Node(ks, vs), lo, hi, l, s)
         /\ \A ks, vs : PartOf(ks, b.keys, m + 1, rest) /\ PartOf(vs, b.values, m + 1, rest + 1)
                        => Ranged(Node(ks, vs), lo, hi, s, h)
<1>0. /\ len \in Nat /\ b.keys \in Seq(Nat) /\ Ascending(b.keys)
      /\ b.keys \in Seq(Span(l + 1, h))
      /\ Fences(b.keys, b.values, len, lo, hi, l, h)
  BY RangedIs
<1>1. \A j \in 1..len : b.keys[j] \in Nat /\ l < b.keys[j] /\ Under(b.keys[j], h)
  BY SMTT(30), ZenonT(30), <1>0, ArrayOf, SpanIs
<1>2. m \in Nat /\ m + 1 \in Nat /\ m + 1 \in 1..len /\ rest \in Nat /\ (m + 1) + rest <= len
      /\ 0 + m <= len
  BY ONLY <1>0, m \in 0..(len - 1), rest = len - (m + 1)
<1>3. s \in Nat /\ l < s /\ Under(s, h) /\ Under(l, s)
  BY <1>1, <1>2 DEF Under
<1>4. ASSUME NEW ks, NEW vs, PartOf(ks, b.keys, 0, m), PartOf(vs, b.values, 0, m + 1)
      PROVE  Ranged(Node(ks, vs), lo, hi, l, s)
  <2>1. /\ ks \in Seq(Nat) /\ Len(ks) = m /\ vs \in Seq(Nat) /\ Len(vs) = m + 1
        /\ \A j \in 1..m : ks[j] = b.keys[j]
        /\ \A j \in 1..(m + 1) : vs[j] = b.values[j]
    <3>2. \A j \in 1..m : 0 + j = j
      BY <1>2
    <3>3. \A j \in 1..(m + 1) : 0 + j = j
      BY <1>2
    <3>4. /\ ks \in Seq(Nat) /\ Len(ks) = m /\ vs \in Seq(Nat) /\ Len(vs) = m + 1
          /\ \A j \in 1..m : ks[j] = b.keys[0 + j]
          /\ \A j \in 1..(m + 1) : vs[j] = b.values[0 + j]
      BY <1>4 DEF PartOf
    <3>5. QED
      BY ONLY <3>2, <3>3, <3>4
  <2>2. Ascending(ks)
    BY ONLY <1>0, <1>2, <1>4, len = Len(b.keys), 0 \in Nat, PartAscending
  <2>3. ks \in Seq(Span(l + 1, s))
    <3>1. ASSUME NEW j \in 1..Len(ks)
          PROVE  ks[j] \in Span(l + 1, s)
      <4>1. j \in 1..len /\ j < m + 1 /\ ks[j] = b.keys[j] /\ m + 1 \in 1..Len(b.keys) /\ j \in 1..Len(b.keys)
        BY <1>2, <2>1
      <4>2. b.keys[j] < s
        BY <4>1, <1>0 DEF Ascending
      <4>3. QED
        BY <4>1, <4>2, <1>1 DEF Span, Under
    <3>2. QED
      BY <2>1, <3>1, ArrayOf
  <2>4. Fences(ks, vs, m, lo, hi, l, s)
    <3>1. m \in 0..(len - 1)
      BY <1>2
    <3>2. \A ek, ev :
            /\ \A j \in 1..m : ek[j] = b.keys[j]
            /\ \A j \in 1..(m + 1) : ev[j] = b.values[j]
            => Fences(ek, ev, m, lo, hi, l, b.keys[m + 1])
      <4>1. /\ len \in Nat /\ m \in 0..(len - 1)
            /\ Fences(b.keys, b.values, len, lo, hi, l, h)
        BY ONLY <1>0, <3>1
      <4>2. QED
        BY ONLY <4>1, FenceCut, ZenonT(120)
    <3>3. QED
      BY ONLY <2>1, <3>2, s = b.keys[m + 1]
  <2>5. QED
    BY <1>3, <2>1, <2>2, <2>3, <2>4, NodeRanged
<1>5. ASSUME NEW ks, NEW vs, PartOf(ks, b.keys, m + 1, rest),
             PartOf(vs, b.values, m + 1, rest + 1)
      PROVE  Ranged(Node(ks, vs), lo, hi, s, h)
  <2>1. /\ ks \in Seq(Nat) /\ Len(ks) = rest /\ vs \in Seq(Nat)
        /\ Len(vs) = rest + 1
        /\ \A j \in 1..rest : ks[j] = b.keys[(m + 1) + j]
        /\ \A j \in 1..(rest + 1) : vs[j] = b.values[(m + 1) + j]
    BY <1>5 DEF PartOf
  <2>2. Ascending(ks)
    BY ONLY <1>0, <1>2, <1>5, len = Len(b.keys), PartAscending
  <2>3. ks \in Seq(Span(s + 1, h))
    <3>1. ASSUME NEW j \in 1..Len(ks)
          PROVE  ks[j] \in Span(s + 1, h)
      <4>1. /\ (m + 1) + j \in 1..len /\ m + 1 < (m + 1) + j
            /\ ks[j] = b.keys[(m + 1) + j] /\ m + 1 \in 1..Len(b.keys)
            /\ (m + 1) + j \in 1..Len(b.keys)
        BY <1>2, <2>1
      <4>2. s < b.keys[(m + 1) + j]
        BY <4>1, <1>0 DEF Ascending
      <4>3. b.keys[(m + 1) + j] \in Nat /\ Under(b.keys[(m + 1) + j], h)
        BY <4>1, <1>1
      <4>4. QED
        <5>1. s + 1 <= b.keys[(m + 1) + j]
          BY ONLY <4>2, <4>3, <1>3
        <5>2. QED
          BY ONLY <4>1, <4>3, <5>1, SpanIs
    <3>2. QED
      BY <2>1, <3>1, ArrayOf
  <2>4. Fences(ks, vs, rest, lo, hi, s, h)
    <3>1. m \in 0..(len - 1) /\ rest = len - (m + 1) /\ rest + 1 = len - m
      BY <1>2
    <3>2. \A ek, ev :
            /\ \A j \in 1..(len - (m + 1)) : ek[j] = b.keys[(m + 1) + j]
            /\ \A j \in 1..(len - m) : ev[j] = b.values[(m + 1) + j]
            => Fences(ek, ev, len - (m + 1), lo, hi, b.keys[m + 1], h)
      BY ONLY SMTT(30), ZenonT(30), <1>0, <3>1, FenceCut
    <3>3. QED
      BY ONLY <2>1, <3>1, <3>2, s = b.keys[m + 1]
  <2>5. QED
    BY <1>3, <2>1, <2>2, <2>3, <2>4, NodeRanged
<1>6. QED
  BY <1>3, <1>4, <1>5

\* A leaf cut before its key m + 1.
LEMMA LeafCut ==
  ASSUME NEW b, b.tag = "leaf", NEW lo, NEW hi, NEW l \in Nat, NEW h \in Int,
         Ranged(b, lo, hi, l, h), NEW len, len = Len(b.keys),
         NEW m, m \in 1..(len - 1), NEW s, s = b.keys[m + 1], NEW rest, rest = len - m
  PROVE  /\ s \in Nat /\ l < s /\ Under(s, h)
         /\ \A ks, vs, next : PartOf(ks, b.keys, 0, m) /\ PartOf(vs, b.values, 0, m)
                              => Ranged(Leaf(ks, vs, next), lo, hi, l, s)
         /\ \A ks, vs, next : PartOf(ks, b.keys, m, rest) /\ PartOf(vs, b.values, m, rest)
                              => Ranged(Leaf(ks, vs, next), lo, hi, s, h)
<1>0. /\ len \in Nat /\ b.keys \in Seq(Nat) /\ Ascending(b.keys) /\ b.keys \in Seq(Span(l, h))
  BY RangedIs
<1>1. \A j \in 1..len : b.keys[j] \in Nat /\ l <= b.keys[j] /\ Under(b.keys[j], h)
  BY <1>0, ArrayOf, SpanIs
<1>2. /\ m \in Nat /\ m \in 1..len /\ m + 1 \in 1..len /\ m < m + 1
      /\ rest \in Nat /\ m + rest <= len /\ 0 + m <= len
  BY ONLY <1>0, m \in 1..(len - 1), rest = len - m
<1>3. s \in Nat /\ l < s /\ Under(s, h) /\ Under(l, s)
  <2>1. b.keys[m] < b.keys[m + 1]
    BY <1>0, <1>2 DEF Ascending
  <2>2. b.keys[m] \in Nat /\ l <= b.keys[m] /\ b.keys[m + 1] \in Nat /\ Under(b.keys[m + 1], h)
    BY <1>1, <1>2
  <2>3. QED
    BY <2>1, <2>2 DEF Under
<1>4. ASSUME NEW ks, NEW vs, NEW next, PartOf(ks, b.keys, 0, m), PartOf(vs, b.values, 0, m)
      PROVE  Ranged(Leaf(ks, vs, next), lo, hi, l, s)
  <2>1. /\ ks \in Seq(Nat) /\ Len(ks) = m /\ vs \in Seq(Nat) /\ Len(vs) = m
        /\ \A j \in 1..m : ks[j] = b.keys[0 + j]
    BY <1>4 DEF PartOf
  <2>2. Ascending(ks)
    BY ONLY <1>0, <1>2, <1>4, len = Len(b.keys), 0 \in Nat, PartAscending
  <2>3. ks \in Seq(Span(l, s))
    <3>1. ASSUME NEW j \in 1..Len(ks)
          PROVE  ks[j] \in Span(l, s)
      <4>1. j \in 1..Len(b.keys) /\ j < m + 1 /\ ks[j] = b.keys[0 + j] /\ 0 + j = j
            /\ m + 1 \in 1..Len(b.keys) /\ j \in 1..len
        BY <1>2, <2>1
      <4>2. b.keys[j] < s
        BY <4>1, <1>0 DEF Ascending
      <4>3. QED
        BY <4>1, <4>2, <1>1 DEF Span, Under
    <3>2. QED
      BY <2>1, <3>1, ArrayOf
  <2>4. QED
    BY <1>3, <2>1, <2>2, <2>3, LeafRanged
<1>5. ASSUME NEW ks, NEW vs, NEW next, PartOf(ks, b.keys, m, rest), PartOf(vs, b.values, m, rest)
      PROVE  Ranged(Leaf(ks, vs, next), lo, hi, s, h)
  <2>1. /\ ks \in Seq(Nat) /\ Len(ks) = rest /\ vs \in Seq(Nat) /\ Len(vs) = rest
        /\ \A j \in 1..rest : ks[j] = b.keys[m + j]
    BY <1>5 DEF PartOf
  <2>2. Ascending(ks)
    BY ONLY <1>0, <1>2, <1>5, len = Len(b.keys), PartAscending
  <2>3. ks \in Seq(Span(s, h))
    <3>1. ASSUME NEW j \in 1..Len(ks)
          PROVE  ks[j] \in Span(s, h)
      <4>1. /\ m + j \in 1..len /\ (j = 1 \/ m + 1 < m + j) /\ m + 1 \in 1..Len(b.keys)
            /\ m + j \in 1..Len(b.keys) /\ ks[j] = b.keys[m + j]
        BY SMTT(30), ZenonT(30), <1>2, <2>1
      <4>2. j = 1 \/ s < b.keys[m + j]
        BY <4>1, <1>0 DEF Ascending
      <4>3. b.keys[m + j] \in Nat /\ Under(b.keys[m + j], h)
        BY <4>1, <1>1
      <4>4. s <= b.keys[m + j]
        BY SMTT(30), ZenonT(30), <4>2, <4>3, <1>3
      <4>5. QED
        BY ONLY <4>1, <4>3, <4>4, SpanIs
    <3>2. QED
      BY <2>1, <3>1, ArrayOf
  <2>4. QED
    BY <1>3, <2>1, <2>2, <2>3, LeafRanged
<1>6. QED
  BY <1>3, <1>4, <1>5

\* Bounds that agree on the children of a block.
LEMMA RangedSame ==
  ASSUME NEW b, NEW lo, NEW hi, NEW l, NEW h, Ranged(b, lo, hi, l, h), NEW lo2, NEW hi2,
         b.tag = "node" => \A d \in Kids(b) : lo2[d] = lo[d] /\ hi2[d] = hi[d]
  PROVE  Ranged(b, lo2, hi2, l, h)
<1>1. CASE b.tag = "node"
  <2>1. /\ Len(b.keys) \in Nat /\ Len(b.values) = Len(b.keys) + 1
        /\ Fences(b.keys, b.values, Len(b.keys), lo, hi, l, h)
    BY <1>1, RangedIs
  <2>2. \A j \in 1..(Len(b.keys) + 1) : b.values[j] \in Kids(b)
    BY <2>1 DEF Kids, Members
  <2>3. Fences(b.keys, b.values, Len(b.keys), lo2, hi2, l, h)
    BY <1>1, <2>1, <2>2 DEF Fences
  <2>4. QED
    BY <2>3, <1>1 DEF Ranged
<1>2. CASE b.tag # "node"
  BY <1>2 DEF Ranged
<1>3. QED
  BY <1>1, <1>2

\* The range of the child c now ends where that of y, its neighbour, ended.
Widened(C, lo, hi, lo2, hi2, c, y) ==
  \A d \in C : d # y => lo2[d] = lo[d] /\ hi2[d] = IF d = c THEN hi[y] ELSE hi[d]


\* The child behind key i + 1 is gone with the key, its range is that of the
\* child before it.
LEMMA ChildRemoved ==
  ASSUME NEW b, b.tag = "node", Distinct(b.values),
         NEW lo, NEW hi, NEW l \in Nat, NEW h \in Int, Ranged(b, lo, hi, l, h),
         NEW i, i \in 0..(Len(b.keys) - 1),
         NEW c, c = b.values[i + 1], NEW y, y = b.values[i + 2], NEW lo2, NEW hi2,
         Widened(Kids(b), lo, hi, lo2, hi2, c, y)
  PROVE  Ranged(node_pop(b, i, i + 1), lo2, hi2, l, h)
<1> USE DEF Widened
<1> DEFINE ks == b.keys
           vs == b.values
           ek == array_delete(ks, i)
           ev == array_delete(vs, i + 1)
<1>1. /\ ks \in Seq(Nat) /\ vs \in Seq(Nat) /\ Len(ks) \in Nat
      /\ Ascending(ks) /\ Under(l, h) /\ Len(vs) = Len(ks) + 1
      /\ ks \in Seq(Span(l + 1, h)) /\ Fences(ks, vs, Len(ks), lo, hi, l, h)
  BY RangedIs
<1>2. /\ i \in 0..(Len(ks) - 1) /\ i + 1 \in 0..(Len(vs) - 1) /\ Len(vs) - 1 = Len(ks)
      /\ i + 1 \in 1..Len(vs) /\ i + 2 \in 1..Len(vs) /\ i + 1 # i + 2
  <2>1. PICK m \in Nat : m = Len(ks)
    BY ONLY <1>1
  <2>2. i \in 0..(m - 1) /\ Len(vs) = m + 1
    BY ONLY <2>1, <1>1, i \in 0..(Len(b.keys) - 1)
  <2>3. /\ i + 1 \in 0..m /\ (m + 1) - 1 = m /\ i + 1 \in 1..(m + 1)
        /\ i + 2 \in 1..(m + 1) /\ i + 1 # i + 2
    BY ONLY <2>1, <2>2
  <2>4. QED
    BY ONLY <2>1, <2>2, <2>3
<1>3. DeletedAt(ek, ks, i) /\ DeletedAt(ev, vs, i + 1)
  <2>1. DeletedAt(ek, ks, i)
    <3>1. ks \in Seq(Nat) /\ i \in 0..(Len(ks) - 1)
      BY ONLY <1>1, <1>2
    <3>2. QED
      BY ONLY <3>1, WordDeleted
  <2>2. DeletedAt(ev, vs, i + 1)
    <3>1. PICK j : j = i + 1
      OBVIOUS
    <3>2. vs \in Seq(Nat) /\ j \in 0..(Len(vs) - 1)
      BY ONLY <1>1, <1>2, <3>1
    <3>3. DeletedAt(array_delete(vs, j), vs, j)
      BY ONLY <3>2, WordDeleted
    <3>4. QED
      BY ONLY <3>1, <3>3
  <2>3. QED
    BY ONLY <2>1, <2>2
<1>4. Ascending(ek) /\ ek \in Seq(Span(l + 1, h))
  BY <1>1, <1>2, AscendingDelete, DeletedIs
<1>5. \A j \in 1..(Len(ks) + 1) : j # i + 2 =>
        /\ lo2[vs[j]] = lo[vs[j]]
        /\ hi2[vs[j]] = IF j = i + 1 THEN hi[vs[i + 2]] ELSE hi[vs[j]]
  <2>1. ASSUME NEW j \in 1..(Len(ks) + 1)
        PROVE  vs[j] \in Kids(b) /\ (vs[j] = c <=> j = i + 1) /\ (vs[j] = y <=> j = i + 2)
    BY <1>1, <1>2 DEF Kids, Members, Distinct
  <2>2. QED
    BY <2>1
<1>6. node_pop(b, i, i + 1) = Node(ek, ev)
  BY DEF node_pop
<1> HIDE DEF ek, ev, ks, vs
<1>7. United(ks, vs, Len(ks), i, ek, ev, lo, hi, lo2, hi2)
  BY <1>2, <1>3, <1>5 DEF DeletedAt, United
<1>8. Fences(ek, ev, Len(ks) - 1, lo2, hi2, l, h)
  BY <1>1, <1>2, <1>7, FenceRemoved
<1>9. Len(ek) = Len(ks) - 1 /\ ev \in Seq(Nat) /\ Len(ev) = Len(ek) + 1
  BY <1>1, <1>2, <1>3 DEF DeletedAt
<1>10. Fences(ek, ev, Len(ek), lo2, hi2, l, h)
  BY ONLY <1>8, <1>9
<1>11. /\ ek \in Seq(Span(l + 1, h)) /\ Ascending(ek) /\ Under(l, h)
       /\ ev \in Seq(Nat) /\ Len(ev) = Len(ek) + 1
  BY ONLY <1>1, <1>4, <1>9
<1>12. Ranged(Node(ek, ev), lo2, hi2, l, h)
  BY ONLY <1>10, <1>11, NodeRanged
<1>13. QED
  BY ONLY <1>6, <1>12

LEMMA WordChanged ==
  ASSUME NEW s \in Seq(Nat), NEW i, i \in 1..Len(s), NEW k \in Nat
  PROVE  /\ [s EXCEPT ![i] = k] \in Seq(Nat) /\ Len([s EXCEPT ![i] = k]) = Len(s)
         /\ \A j \in 1..Len(s) : [s EXCEPT ![i] = k][j] = IF j = i THEN k ELSE s[j]
OBVIOUS

\* The key i + 1 of a node changed: the boundary between its children i + 1 and i + 2.
MovedKey(b, len, lo, hi, l, h, i, k, x, y, lo2, hi2) ==
  /\ b.tag = "node" /\ Distinct(b.values) /\ len = Len(b.keys)
  /\ l \in Nat /\ h \in Int /\ Ranged(b, lo, hi, l, h)
  /\ i \in 0..(len - 1) /\ k \in Nat /\ x = b.values[i + 1] /\ y = b.values[i + 2]
  /\ lo[x] < k /\ Under(k, hi[y])
  /\ \A d \in Kids(b) : lo2[d] = IF d = y THEN k ELSE lo[d]
  /\ \A d \in Kids(b) : hi2[d] = IF d = x THEN k ELSE hi[d]

LEMMA KeyMoved ==
  ASSUME NEW b, NEW len, NEW lo, NEW hi, NEW l, NEW h, NEW i, NEW k, NEW x, NEW y, NEW lo2, NEW hi2,
         MovedKey(b, len, lo, hi, l, h, i, k, x, y, lo2, hi2)
  PROVE  Ranged([b EXCEPT !.keys[i + 1] = k], lo2, hi2, l, h)
<1>0. /\ b.tag = "node" /\ Distinct(b.values) /\ len = Len(b.keys)
      /\ l \in Nat /\ h \in Int /\ Ranged(b, lo, hi, l, h)
      /\ i \in 0..(len - 1) /\ k \in Nat /\ x = b.values[i + 1] /\ y = b.values[i + 2]
      /\ lo[x] < k /\ Under(k, hi[y])
      /\ \A d \in Kids(b) : lo2[d] = IF d = y THEN k ELSE lo[d]
      /\ \A d \in Kids(b) : hi2[d] = IF d = x THEN k ELSE hi[d]
  BY DEF MovedKey
<1> DEFINE ks == b.keys
           vs == b.values
           e == [b EXCEPT !.keys[i + 1] = k]
           ek == [ks EXCEPT ![i + 1] = k]
<1>1. /\ ks \in Seq(Nat) /\ vs \in Seq(Nat) /\ len \in Nat
      /\ Ascending(ks) /\ Under(l, h) /\ Len(vs) = len + 1
      /\ ks \in Seq(Span(l + 1, h)) /\ Fences(ks, vs, len, lo, hi, l, h)
  BY <1>0, RangedIs
<1>2. /\ i \in 0..(len - 1) /\ i + 1 \in 1..len /\ i + 1 \in 1..(len + 1) /\ i + 2 \in 1..(len + 1)
      /\ (i + 1) + 1 = i + 2 /\ i + 1 # i + 2 /\ i + 2 # 1 /\ (i + 2) - 1 = i + 1
      /\ i + 1 # len + 1 /\ i \in Nat
  <2>1. len \in Nat /\ i \in 0..(len - 1)
    BY <1>0, <1>1
  <2>2. QED
    BY ONLY <2>1
<1>3. \A j \in 1..len : ks[j] \in Nat /\ l < ks[j] /\ Under(ks[j], h)
  <2>1. ks \in Seq(Span(l + 1, h)) /\ len = Len(ks) /\ l \in Nat
    BY <1>0, <1>1
  <2> HIDE DEF ks
  <2>2. \A j \in 1..len : ks[j] \in Span(l + 1, h)
    BY ONLY <2>1, ArrayOf
  <2>3. QED
    BY ONLY <2>1, <2>2, SpanIs
<1>4. \A j \in 1..(len + 1) : vs[j] \in Kids(b) /\ (vs[j] = x <=> j = i + 1) /\ (vs[j] = y <=> j = i + 2)
  BY <1>0, <1>1, <1>2 DEF Kids, Members, Distinct
<1>5. /\ e.tag = "node" /\ e.keys = ek /\ e.values = vs
      /\ ek \in Seq(Nat) /\ Len(ek) = len /\ \A j \in 1..len : ek[j] = IF j = i + 1 THEN k ELSE ks[j]
  <2>1. ek \in Seq(Nat) /\ Len(ek) = len /\ \A j \in 1..len : ek[j] = IF j = i + 1 THEN k ELSE ks[j]
    <3>1. ks \in Seq(Nat) /\ Len(ks) = len /\ i + 1 \in 1..len /\ k \in Nat
      BY <1>0, <1>1, <1>2
    <3>2. PICK m : m = i + 1
      OBVIOUS
    <3>3. ek = [ks EXCEPT ![m] = k] /\ m \in 1..Len(ks)
      BY <3>1, <3>2
    <3> HIDE DEF ks, ek
    <3>4. QED
      BY ONLY <3>1, <3>2, <3>3, WordChanged
  <2>2. b.keys \in Seq(Nat) /\ b.tag = "node" /\ b.values = vs
    BY <1>0, <1>1
  <2>3. e.tag = "node" /\ e.keys = ek /\ e.values = vs
    <3>1. "keys" \in DOMAIN b \/ "keys" \notin DOMAIN b
      OBVIOUS
    <3>2. QED
      BY <1>0, <2>2
  <2>4. QED
    BY <1>0, <2>1, <2>3
<1>50. len = Len(ks)
  BY <1>0
<1> HIDE DEF ek, ks, vs, e
<1>6. lo[x] = LeftOf(ks, l, i + 1) /\ hi[y] = RightOf(ks, len, h, i + 2)
  BY <1>0, <1>1, <1>2 DEF Fences, vs
<1>7. /\ i # 0 => i \in 1..len /\ ks[i] < k
      /\ i = 0 => l < k
      /\ i + 2 # len + 1 => i + 2 \in 1..len /\ k < ks[i + 2]
      /\ i + 2 = len + 1 => Under(k, h)
  <2>1. i # 0 => i + 1 # 1 /\ (i + 1) - 1 = i /\ i \in 1..len
    BY ONLY <1>2, <1>1
  <2>2. i + 2 # len + 1 => i + 2 \in 1..len
    BY ONLY <1>2, <1>1
  <2>3. i + 2 # len + 1 => ks[i + 2] # -1
    BY <1>0, <2>2, <1>3
  <2>4. QED
    BY <1>0, <1>6, <2>1, <2>2, <2>3 DEF LeftOf, RightOf, Under
<1>8. l < k /\ Under(k, h)
  <2>1. l < k
    <3>1. CASE i = 0
      BY <1>0, <3>1, <1>7
    <3>2. CASE i # 0
      <4>1. ks[i] \in Nat /\ l < ks[i] /\ ks[i] < k
        BY <1>0, <3>2, <1>7, <1>3
      <4>2. QED
        BY <1>0, <4>1
    <3>3. QED
      BY <1>0, <3>1, <3>2
  <2>2. Under(k, h)
    <3>1. CASE i + 2 = len + 1
      BY <1>0, <3>1, <1>7
    <3>2. CASE i + 2 # len + 1
      <4>1. ks[i + 2] \in Nat /\ Under(ks[i + 2], h) /\ k < ks[i + 2]
        BY <1>0, <3>2, <1>7, <1>3
      <4>2. QED
        BY <1>0, <4>1 DEF Under
    <3>3. QED
      BY <1>0, <3>1, <3>2
  <2>3. QED
    BY <1>0, <2>1, <2>2
<1>9. ek \in Seq(Span(l + 1, h))
  <2>1. ASSUME NEW j \in 1..Len(ek)
        PROVE  ek[j] \in Span(l + 1, h)
    <3>1. j \in 1..len /\ ek[j] = IF j = i + 1 THEN k ELSE ks[j]
      BY <1>0, <1>5
    <3>2. ek[j] \in Nat /\ l < ek[j] /\ Under(ek[j], h)
      BY <1>0, <3>1, <1>3, <1>8
    <3>3. l + 1 <= ek[j]
      BY <1>0, <3>2
    <3>4. QED
      BY <1>0, <3>2, <3>3, SpanIs
  <2>2. QED
    BY <1>0, <2>1, <1>5, ArrayOf
<1>10. Ascending(ek)
  <2>1. ASSUME NEW p \in 1..len, NEW q \in 1..len, p < q
        PROVE  ek[p] < ek[q]
    <3>1. ks[p] < ks[q] /\ ks[p] \in Nat /\ ks[q] \in Nat
      BY <1>0, <1>1, <1>3, <2>1, <1>50 DEF Ascending
    <3>2. CASE q = i + 1
      <4>1. ek[q] = k /\ ek[p] = ks[p] /\ i \in 1..len /\ i # 0
        BY SMTT(30), ZenonT(30), <1>0, <3>2, <2>1, <1>2, <1>5
      <4>2. p = i \/ ks[p] < ks[i]
        <5>1. p = i \/ p < i
          BY <1>0, <3>2, <2>1, <1>2
        <5>2. QED
          BY <1>0, <5>1, <4>1, <1>1, <2>1, <1>50 DEF Ascending
      <4>3. ks[i] < k /\ ks[i] \in Nat
        BY <1>0, <4>1, <1>7, <1>3
      <4>4. QED
        BY <1>0, <4>1, <4>2, <4>3, <3>1
    <3>3. CASE p = i + 1
      <4>1. ek[p] = k /\ ek[q] = ks[q] /\ i + 2 \in 1..len /\ i + 2 # len + 1
        BY SMTT(30), ZenonT(30), <1>0, <3>3, <2>1, <1>2, <1>5
      <4>2. q = i + 2 \/ ks[i + 2] < ks[q]
        <5>1. q = i + 2 \/ i + 2 < q
          BY <1>0, <3>3, <2>1, <1>2
        <5>2. QED
          BY <1>0, <5>1, <4>1, <1>1, <2>1, <1>50 DEF Ascending
      <4>3. k < ks[i + 2] /\ ks[i + 2] \in Nat
        BY <1>0, <4>1, <1>7, <1>3
      <4>4. QED
        BY <1>0, <4>1, <4>2, <4>3, <3>1
    <3>4. CASE p # i + 1 /\ q # i + 1
      BY <1>0, <3>4, <3>1, <1>5
    <3>5. QED
      BY <1>0, <3>2, <3>3, <3>4
  <2>2. QED
    BY <1>0, <2>1, <1>5 DEF Ascending
<1>11. Fences(ek, vs, len, lo2, hi2, l, h)
  <2>1. Shifted(ks, vs, len, i + 1, k, ek, lo, hi, lo2, hi2)
    BY <1>0, <1>2, <1>4, <1>5 DEF Shifted
  <2>2. QED
    BY <1>0, <1>1, <1>2, <2>1, FenceMoved
<1>12. QED
  <2>1. Ranged(e, lo2, hi2, l, h)
    BY <1>0, <1>1, <1>5, <1>9, <1>10, <1>11 DEF Ranged, Shaped
  <2>2. QED
    BY <1>0, <2>1 DEF e

\* Two neighbouring nodes under one, with the key between them.
LEMMA NodesJoined ==
  ASSUME NEW a, a.tag = "node", NEW b, b.tag = "node", NEW lo, NEW hi,
         NEW l \in Nat, NEW s \in Nat, NEW h \in Int,
         Ranged(a, lo, hi, l, s), Ranged(b, lo, hi, s, h),
         NEW len, len = Len(a.keys), NEW rlen, rlen = Len(b.keys),
         NEW ks \in Seq(Nat), Len(ks) = (len + 1) + rlen, Joined(a.keys, len, s, b.keys, rlen, ks),
         NEW vs \in Seq(Nat), Len(vs) = Len(ks) + 1,
         Joined(a.values, len, a.values[len + 1], b.values, rlen + 1, vs)
  PROVE  Ranged(Node(ks, vs), lo, hi, l, h)
<1>1. /\ len \in Nat /\ Ascending(a.keys) /\ a.keys \in Seq(Span(l + 1, s)) /\ Under(l, s)
      /\ Fences(a.keys, a.values, len, lo, hi, l, s)
  BY RangedIs
<1>2. /\ rlen \in Nat /\ Ascending(b.keys) /\ b.keys \in Seq(Span(s + 1, h)) /\ Under(s, h)
      /\ Fences(b.keys, b.values, rlen, lo, hi, s, h)
  BY RangedIs
<1>3. /\ \A j \in 1..len : a.keys[j] \in Nat /\ l < a.keys[j] /\ a.keys[j] < s
      /\ \A j \in 1..rlen : b.keys[j] \in Nat /\ s < b.keys[j] /\ Under(b.keys[j], h)
  <2>1. \A j \in 1..len : a.keys[j] \in Nat /\ l + 1 <= a.keys[j] /\ Under(a.keys[j], s)
    <3>1. a.keys \in Seq(Span(l + 1, s)) /\ len = Len(a.keys)
      BY <1>1
    <3>2. \A j \in 1..len : a.keys[j] \in Span(l + 1, s)
      BY ONLY <3>1, ArrayOf
    <3>3. QED
      BY ONLY <3>2, SpanIs
  <2>2. \A j \in 1..rlen : b.keys[j] \in Nat /\ s + 1 <= b.keys[j] /\ Under(b.keys[j], h)
    <3>1. b.keys \in Seq(Span(s + 1, h)) /\ rlen = Len(b.keys)
      BY <1>2
    <3>2. \A j \in 1..rlen : b.keys[j] \in Span(s + 1, h)
      BY ONLY <3>1, ArrayOf
    <3>3. QED
      BY ONLY <3>2, SpanIs
  <2>3. \A k : k \in Nat /\ l + 1 <= k /\ Under(k, s) => k \in Nat /\ l < k /\ k < s
    BY DEF Under
  <2>4. \A k \in Nat : s + 1 <= k => s < k
    OBVIOUS
  <2>5. QED
    BY ONLY <2>1, <2>2, <2>3, <2>4
<1>4. /\ \A j \in 1..len : ks[j] = a.keys[j]
      /\ ks[len + 1] = s
      /\ \A j \in 1..rlen : ks[(len + 1) + j] = b.keys[j]
  BY DEF Joined
<1>5. l < s /\ Under(s, h) /\ Under(l, h)
  BY <1>1, <1>2 DEF Under
<1>6. ASSUME NEW j \in 1..Len(ks)
      PROVE  \/ j \in 1..len /\ ks[j] = a.keys[j]
             \/ j = len + 1 /\ ks[j] = s
             \/ j - (len + 1) \in 1..rlen /\ ks[j] = b.keys[j - (len + 1)]
  <2>0. len \in Nat /\ rlen \in Nat /\ j \in 1..((len + 1) + rlen)
    BY <1>1, <1>2
  <2>1. CASE j > len + 1
    <3>1. j - (len + 1) \in 1..rlen /\ (len + 1) + (j - (len + 1)) = j
      BY ONLY <2>0, <2>1
    <3>2. QED
      BY <3>1, <1>4
  <2>2. CASE j <= len + 1
    <3>1. j \in 1..len \/ j = len + 1
      BY ONLY <2>0, <2>2
    <3>2. QED
      BY <3>1, <1>4
  <2>3. j > len + 1 \/ j <= len + 1
    BY ONLY <2>0
  <2>4. QED
    BY <2>1, <2>2, <2>3
<1>7. ks \in Seq(Span(l + 1, h))
  <2>1. ASSUME NEW j \in 1..Len(ks)
        PROVE  ks[j] \in Span(l + 1, h)
    <3>1. CASE j \in 1..len /\ ks[j] = a.keys[j]
      <4>1. ks[j] \in Nat /\ l < ks[j] /\ ks[j] < s
        BY <3>1, <1>3
      <4>2. QED
        BY <4>1, <1>5 DEF Span, Under
    <3>2. CASE ks[j] = s
      BY <3>2, <1>5 DEF Span
    <3>3. CASE j - (len + 1) \in 1..rlen /\ ks[j] = b.keys[j - (len + 1)]
      <4>1. ks[j] \in Nat /\ s < ks[j] /\ Under(ks[j], h)
        BY <3>3, <1>3
      <4>2. QED
        BY <4>1, <1>5 DEF Span
    <3>4. QED
      BY <1>6, <3>1, <3>2, <3>3
  <2>2. QED
    BY <2>1, ArrayOf
<1>8. Ascending(ks)
  <2>1. ASSUME NEW p \in 1..Len(ks), NEW q \in 1..Len(ks), p < q
        PROVE  ks[p] < ks[q]
    <3>1. CASE q \in 1..len /\ ks[q] = a.keys[q]
      <4>1. p \in 1..len
        BY <3>1, <2>1
      <4>2. a.keys[p] < a.keys[q]
        BY <4>1, <3>1, <2>1, <1>1 DEF Ascending
      <4>3. QED
        BY <4>1, <4>2, <3>1, <1>4
    <3>2. CASE q = len + 1 /\ ks[q] = s
      <4>1. p \in 1..len
        BY <3>2, <2>1, <1>1
      <4>2. QED
        BY <4>1, <3>2, <1>3, <1>4
    <3>3. CASE q - (len + 1) \in 1..rlen /\ ks[q] = b.keys[q - (len + 1)]
      <4>1. s < ks[q] /\ ks[q] \in Nat
        BY <3>3, <1>3
      <4>2. CASE p \in 1..len /\ ks[p] = a.keys[p]
        <5>1. ks[p] < s /\ ks[p] \in Nat
          BY <4>2, <1>3
        <5>2. QED
          BY <4>1, <5>1
      <4>3. CASE ks[p] = s
        BY <4>1, <4>3
      <4>4. CASE p - (len + 1) \in 1..rlen /\ ks[p] = b.keys[p - (len + 1)]
        <5>1. p - (len + 1) < q - (len + 1)
          BY <2>1, <1>1
        <5>2. QED
          BY <5>1, <4>4, <3>3, <1>2 DEF Ascending
      <4>5. QED
        BY <1>6, <4>2, <4>3, <4>4
    <3>4. QED
      BY <1>6, <3>1, <3>2, <3>3
  <2>2. QED
    BY <2>1 DEF Ascending
<1>9. Fences(ks, vs, Len(ks), lo, hi, l, h)
  BY <1>1, <1>2, FenceJoined
<1>10. ks \in Seq(Span(l + 1, h)) /\ Ascending(ks) /\ Under(l, h)
  BY <1>5, <1>7, <1>8
<1>11. vs \in Seq(Nat) /\ Len(vs) = Len(ks) + 1
  BY <1>5, <1>7, <1>8
<1>12. QED
  BY ONLY <1>9, <1>10, <1>11, NodeRanged

-----------------------------------------------------------------------------
(* Searches in an array in order *)

LEMMA DownCounts ==
  ASSUME NEW n \in Nat, NEW S \in SUBSET (1..n), \A i, j \in 1..n : i < j /\ j \in S => i \in S
  PROVE  Cardinality(S) \in 0..n /\ S = 1..Cardinality(S)
<1> DEFINE G == {m \in Nat : m <= n => (1..m \subseteq S \/ \E q \in 0..n : S = 1..q)}
<1>1. 0 \in G
  OBVIOUS
<1>2. ASSUME NEW m \in Nat, m \in G
      PROVE  m + 1 \in G
  <2> SUFFICES ASSUME m + 1 <= n, 1..m \subseteq S
               PROVE  1..(m + 1) \subseteq S \/ \E q \in 0..n : S = 1..q
    BY <1>2
  <2>1. CASE m + 1 \in S
    <3>1. \A j \in 1..(m + 1) : j \in 1..m \/ j = m + 1
      OBVIOUS
    <3>2. QED
      BY <3>1, <2>1
  <2>2. CASE m + 1 \notin S
    <3>1. ASSUME NEW j \in S
          PROVE  j \in 1..m
      <4>1. j \in 1..n /\ m + 1 \in 1..n /\ j # m + 1 /\ ~(m + 1 < j)
        BY <2>2
      <4>2. QED
        BY <4>1
    <3>2. S = 1..m /\ m \in 0..n
      <4>1. S \subseteq 1..m
        BY ONLY <3>1
      <4>2. m \in 0..n
        OBVIOUS
      <4>3. S = 1..m
        BY ONLY <4>1, 1..m \subseteq S
      <4>4. QED
        BY ONLY <4>2, <4>3
    <3>3. QED
      BY <3>2
  <2>3. QED
    BY <2>1, <2>2
<1>3. n \in G
  <2> HIDE DEF G
  <2>1. QED
    BY <1>1, <1>2, SetInduction
<1>4. PICK q \in 0..n : S = 1..q
  <2>1. n \in 0..n /\ (1..n \subseteq S => S = 1..n)
    <3>1. n \in 0..n
      OBVIOUS
    <3>2. S \subseteq 1..n
      OBVIOUS
    <3>3. QED
      BY ONLY <3>1, <3>2
  <2>2. QED
    BY <1>3, <2>1
<1>5. Cardinality(1..q) = q
  <2>1. 1 \in Int /\ q \in Int /\ (1 > q => q = 0) /\ q - 1 + 1 = q
    OBVIOUS
  <2>2. QED
    BY <2>1, FS_Interval
<1>6. QED
  BY <1>4, <1>5

\* search_leaf is the number of keys below k, which come first; search_node that
\* of the keys up to k.
LEMMA SearchIs ==
  ASSUME NEW b, b.keys \in Seq(Nat), Ascending(b.keys), NEW k \in Int, NEW len, len = Len(b.keys)
  PROVE  /\ search_leaf(b, k) \in 0..len
         /\ \A j \in 1..len : b.keys[j] < k <=> j <= search_leaf(b, k)
         /\ search_node(b, k) \in 0..len
         /\ \A j \in 1..len : b.keys[j] <= k <=> j <= search_node(b, k)
<1> DEFINE S == {j \in 1..len : b.keys[j] < k}
           T == {j \in 1..len : b.keys[j] <= k}
<1>1. len \in Nat /\ \A j \in 1..len : b.keys[j] \in Nat
  OBVIOUS
<1>2. \A i, j \in 1..len : i < j => b.keys[i] < b.keys[j]
  BY DEF Ascending
<1>3. /\ S \in SUBSET (1..len) /\ \A i, j \in 1..len : i < j /\ j \in S => i \in S
      /\ T \in SUBSET (1..len) /\ \A i, j \in 1..len : i < j /\ j \in T => i \in T
  BY SMTT(30), ZenonT(30), <1>1, <1>2
<1>4. search_leaf(b, k) = Cardinality(S) /\ search_node(b, k) = Cardinality(T)
  BY DEF search_leaf, search_node, nkeys
<1>5. \A j \in 1..len : (j \in S <=> b.keys[j] < k) /\ (j \in T <=> b.keys[j] <= k)
  OBVIOUS
<1> HIDE DEF S, T
<1>6. /\ Cardinality(S) \in 0..len /\ S = 1..Cardinality(S)
      /\ Cardinality(T) \in 0..len /\ T = 1..Cardinality(T)
  BY <1>1, <1>3, DownCounts
<1>7. \A q \in 0..len : \A j \in 1..len : j \in 1..q <=> j <= q
  BY <1>1
<1>8. \A j \in 1..len : (j \in S <=> j <= Cardinality(S)) /\ (j \in T <=> j <= Cardinality(T))
  BY <1>6, <1>7
<1>9. QED
  BY <1>4, <1>5, <1>6, <1>8

\* Where an insert puts a key that is not there, and where a key that is there is.
LEMMA PlaceFound ==
  ASSUME NEW b, b.keys \in Seq(Nat), Ascending(b.keys), NEW k \in Int,
         NEW i, i = search_leaf(b, k)
  PROVE  /\ i \in 0..Len(b.keys)
         /\ ~Found(b, k) => Place(b.keys, i, k)
         /\ Found(b, k) => i + 1 \in 1..Len(b.keys) /\ b.keys[i + 1] = k
<1>1. /\ i \in 0..Len(b.keys) /\ Len(b.keys) \in Nat
      /\ \A j \in 1..Len(b.keys) : b.keys[j] < k <=> j <= i
      /\ \A j \in 1..Len(b.keys) : b.keys[j] \in Nat
  <2>1. /\ search_leaf(b, k) \in 0..Len(b.keys)
        /\ \A j \in 1..Len(b.keys) : b.keys[j] < k <=> j <= search_leaf(b, k)
    BY SearchIs
  <2>2. Len(b.keys) \in Nat /\ \A j \in 1..Len(b.keys) : b.keys[j] \in Nat
    OBVIOUS
  <2>3. QED
    BY ONLY <2>1, <2>2, i = search_leaf(b, k)
<1>2. ~Found(b, k) => Place(b.keys, i, k)
  <2> SUFFICES ASSUME ~Found(b, k), NEW j \in 1..Len(b.keys)
               PROVE  IF j <= i THEN b.keys[j] < k ELSE k < b.keys[j]
    BY DEF Place
  <2>1. b.keys[j] # k
    BY DEF Found, nkeys
  <2>2. QED
    BY <1>1, <2>1
<1>3. ASSUME NEW j \in 1..Len(b.keys), b.keys[j] = k
      PROVE  j = i + 1
  <2>1. ~(j <= i)
    BY <1>1, <1>3
  <2>2. CASE j # i + 1
    <3>1. i + 1 \in 1..Len(b.keys) /\ i + 1 < j /\ ~(i + 1 <= i)
      BY <1>1, <2>1, <2>2
    <3>2. b.keys[i + 1] < k
      BY <1>3, <3>1 DEF Ascending
    <3>3. QED
      BY <3>1, <3>2, <1>1
  <2>3. QED
    BY <2>2
<1>4. QED
  BY <1>1, <1>2, <1>3 DEF Found, nkeys

-----------------------------------------------------------------------------
(* The changes of a leaf *)

LEMMA LeafChanged ==
  ASSUME NEW b, b.tag = "leaf", NEW lo, NEW hi, NEW l, NEW h, Ranged(b, lo, hi, l, h),
         NEW i, NEW v \in Nat
  PROVE  /\ \A k \in Span(l, h) : i \in 0..Len(b.keys) /\ Place(b.keys, i, k)
                                  => Ranged(leaf_insert(b, i, k, v), lo, hi, l, h)
         /\ i \in 0..(Len(b.keys) - 1) => Ranged(leaf_pop(b, i), lo, hi, l, h)
         /\ i \in 0..(Len(b.keys) - 1) => Ranged(update_leaf(b, i, v), lo, hi, l, h)
<1>1. /\ b.keys \in Seq(Nat) /\ b.values \in Seq(Nat) /\ Len(b.keys) \in Nat
      /\ Len(b.values) = Len(b.keys) /\ Ascending(b.keys) /\ Under(l, h)
      /\ b.keys \in Seq(Span(l, h))
  BY RangedIs
<1>2. ASSUME NEW k \in Span(l, h), i \in 0..Len(b.keys), Place(b.keys, i, k)
      PROVE  Ranged(leaf_insert(b, i, k, v), lo, hi, l, h)
  <2>1. k \in Nat
    BY SpanIs
  <2>2. /\ array_insert(b.keys, i, k) \in Seq(Span(l, h))
        /\ Len(array_insert(b.keys, i, k)) = Len(b.keys) + 1
    BY <1>1, <1>2, ArrayInsert
  <2>3. Ascending(array_insert(b.keys, i, k))
    BY <1>1, <1>2, <2>1, AscendingInsert
  <2>4. /\ array_insert(b.values, i, v) \in Seq(Nat)
        /\ Len(array_insert(b.values, i, v)) = Len(b.keys) + 1
    <3>1. i \in 0..Len(b.values)
      BY <1>1, <1>2
    <3>2. InsertedAt(array_insert(b.values, i, v), b.values, i, v)
      BY <1>1, <3>1, WordInserted
    <3>3. QED
      BY <1>1, <3>2 DEF InsertedAt
  <2>5. QED
    BY <1>1, <2>2, <2>3, <2>4, LeafRanged DEF leaf_insert
<1>3. ASSUME i \in 0..(Len(b.keys) - 1)
      PROVE  Ranged(leaf_pop(b, i), lo, hi, l, h)
  <2>1. /\ array_delete(b.keys, i) \in Seq(Span(l, h))
        /\ Len(array_delete(b.keys, i)) = Len(b.keys) - 1
    BY <1>1, <1>3, DeletedIs
  <2>2. Ascending(array_delete(b.keys, i))
    BY <1>1, <1>3, AscendingDelete
  <2>3. /\ array_delete(b.values, i) \in Seq(Nat)
        /\ Len(array_delete(b.values, i)) = Len(b.keys) - 1
    BY SMTT(30), ZenonT(30), <1>1, <1>3, DeletedIs
  <2>4. QED
    BY <1>1, <2>1, <2>2, <2>3, LeafRanged DEF leaf_pop
<1>4. ASSUME i \in 0..(Len(b.keys) - 1)
      PROVE  Ranged(update_leaf(b, i, v), lo, hi, l, h)
  <2> DEFINE e == update_leaf(b, i, v)
             ev == [b.values EXCEPT ![i + 1] = v]
  <2>1. ev \in Seq(Nat) /\ Len(ev) = Len(b.keys)
    <3>1. i + 1 \in 1..Len(b.values)
      BY <1>1, <1>4
    <3>2. QED
      BY <1>1, <3>1, WordChanged
  <2>2. e.tag = "leaf" /\ e.keys = b.keys /\ e.values = ev
    <3>1. b.values # <<>> /\ b.tag = "leaf"
      BY <1>1, <1>4
    <3>2. QED
      BY DEF update_leaf
  <2> HIDE DEF e, ev
  <2>3. Ranged(e, lo, hi, l, h)
    BY <1>1, <2>1, <2>2 DEF Ranged, Shaped
  <2>4. QED
    BY <2>3 DEF e
<1>5. QED
  BY <1>2, <1>3, <1>4

-----------------------------------------------------------------------------
(* Splits *)

\* Two blocks for a block with the range l to h: the first below s, the second from s on.
Halves(a, b, lo, hi, l, s, h) ==
  /\ s \in Nat /\ l < s /\ Under(s, h)
  /\ Ranged(a, lo, hi, l, s) /\ Ranged(b, lo, hi, s, h)

LEMMA SplitLeafRanged ==
  ASSUME NEW b, b.tag = "leaf", NEW lo, NEW hi, NEW l \in Nat, NEW h \in Int, Ranged(b, lo, hi, l, h),
         Len(b.keys) >= 2, NEW i, i \in 0..Len(b.keys), NEW k \in Span(l, h), Place(b.keys, i, k),
         NEW v \in Nat, NEW addr, NEW p, p = split_leaf(b, i, k, v, addr)
  PROVE  /\ Halves(p.old, p.new, lo, hi, l, p.new.keys[1], h)
         /\ p.old.tag = "leaf" /\ p.new.tag = "leaf"
         /\ p.old.next = addr /\ p.new.next = b.next
<1> DEFINE e == leaf_insert(b, i, k, v)
           ek == array_insert(b.keys, i, k)
           ev == array_insert(b.values, i, v)
           n == Len(b.keys)
           m == (n + 2) \div 2
           ol == Leaf(SubSeq(ek, 1, m), SubSeq(ev, 1, m), addr)
           ne == Leaf(SubSeq(ek, m + 1, n + 1), SubSeq(ev, m + 1, n + 1), b.next)
<1>1. Ranged(e, lo, hi, l, h) /\ e = Leaf(ek, ev, b.next) /\ e.tag = "leaf" /\ e.keys = ek /\ e.values = ev
  BY LeafChanged DEF leaf_insert, Leaf
<1>2. /\ n \in Nat /\ n >= 2 /\ Len(b.values) = n /\ b.keys \in Seq(Nat) /\ b.values \in Seq(Nat)
      /\ k \in Nat
  BY RangedIs, SpanIs
<1>3. m \in 1..n /\ m \in Nat /\ m + 1 \in 1..(n + 1) /\ (n + 1) - m \in Nat /\ (n + 1) - m >= 1
  <2>1. ASSUME NEW z \in Nat, z >= 2, NEW q, q = (z + 2) \div 2
        PROVE  q \in Nat /\ 1 <= q /\ q <= z
    BY ONLY z \in Nat, z >= 2, q = (z + 2) \div 2
  <2>2. m \in Nat /\ 1 <= m /\ m <= n
    BY ONLY <1>2, <2>1
  <2> HIDE DEF m, n
  <2>3. QED
    BY ONLY <1>2, <2>2
<1>4. p = [old |-> ol, new |-> ne]
  BY <1>2 DEF split_leaf, split_low, split_high, nkeys
<1>5. /\ ek \in Seq(Nat) /\ Len(ek) = n + 1 /\ ev \in Seq(Nat) /\ Len(ev) = n + 1
  <2>1. i \in 0..Len(b.values)
    BY <1>2
  <2>2. InsertedAt(ek, b.keys, i, k) /\ InsertedAt(ev, b.values, i, v)
    BY <1>2, <2>1, WordInserted
  <2>3. QED
    BY <1>2, <2>2 DEF InsertedAt
<1> HIDE DEF e, ek, ev, n, m
<1>6. /\ \A t : t \in Seq(Nat) /\ Len(t) = n + 1 =>
           /\ PartOf(SubSeq(t, 1, m), t, 0, m)
           /\ PartOf(SubSeq(t, m + 1, n + 1), t, m, (n + 1) - m)
  <2> SUFFICES ASSUME NEW t \in Seq(Nat), Len(t) = n + 1
               PROVE  /\ PartOf(SubSeq(t, 1, m), t, 0, m)
                      /\ PartOf(SubSeq(t, m + 1, n + 1), t, m, (n + 1) - m)
    OBVIOUS
  <2>1. 0 \in 0..m /\ m \in 0..Len(t) /\ 0 + 1 = 1 /\ m - 0 = m /\ m \in 0..(n + 1) /\ n + 1 \in 0..Len(t)
    BY <1>2, <1>3
  <2>2. PartOf(SubSeq(t, 0 + 1, m), t, 0, m - 0)
    BY ONLY <2>1, t \in Seq(Nat), SubSeqIsPart
  <2>3. PartOf(SubSeq(t, m + 1, n + 1), t, m, (n + 1) - m)
    BY ONLY <2>1, t \in Seq(Nat), SubSeqIsPart
  <2>4. PartOf(SubSeq(t, 1, m), t, 0, m)
    BY ONLY <2>1, <2>2
  <2>5. QED
    BY ONLY <2>3, <2>4
<1>7. /\ ek[m + 1] \in Nat /\ l < ek[m + 1] /\ Under(ek[m + 1], h)
      /\ Ranged(ol, lo, hi, l, ek[m + 1]) /\ Ranged(ne, lo, hi, ek[m + 1], h)
  <2>1. n + 1 = Len(e.keys) /\ m \in 1..((n + 1) - 1) /\ e.keys = ek /\ e.values = ev
        /\ e.tag = "leaf" /\ Ranged(e, lo, hi, l, h) /\ l \in Nat /\ h \in Int
        /\ ek[m + 1] = e.keys[m + 1] 
    BY <1>1, <1>2, <1>3, <1>5
  <2>2. /\ ek[m + 1] \in Nat /\ l < ek[m + 1] /\ Under(ek[m + 1], h)
        /\ \A ks, vs, next : PartOf(ks, e.keys, 0, m) /\ PartOf(vs, e.values, 0, m)
                              => Ranged(Leaf(ks, vs, next), lo, hi, l, ek[m + 1])
        /\ \A ks, vs, next : PartOf(ks, e.keys, m, (n + 1) - m) /\ PartOf(vs, e.values, m, (n + 1) - m)
                              => Ranged(Leaf(ks, vs, next), lo, hi, ek[m + 1], h)
    BY ONLY <2>1, LeafCut
  <2>3. QED
    BY <2>1, <2>2, <1>5, <1>6
<1>8. ne.keys[1] = ek[m + 1]
  <2>1. PartOf(SubSeq(ek, m + 1, n + 1), ek, m, (n + 1) - m) /\ 1 \in 1..((n + 1) - m)
    BY <1>3, <1>5, <1>6
  <2>2. QED
    BY <2>1 DEF PartOf, Leaf
<1>9. ol.tag = "leaf" /\ ne.tag = "leaf" /\ ol.next = addr /\ ne.next = b.next
  BY DEF Leaf
<1> HIDE DEF ol, ne
<1>10. QED
  BY <1>4, <1>7, <1>8, <1>9 DEF Halves

\* What a part of an array of children holds.
LEMMA PartMembers ==
  ASSUME NEW s, NEW from \in Nat, NEW n \in Nat, from + n <= Len(s), Len(s) \in Nat,
         NEW t, PartOf(t, s, from, n)
  PROVE  Members(t) \subseteq Members(s)
<1>1. ASSUME NEW j \in 1..Len(t)
      PROVE  t[j] \in Members(s)
  <2>1. j \in 1..n /\ from + j \in 1..Len(s) /\ t[j] = s[from + j]
    BY DEF PartOf
  <2>2. QED
    BY <2>1 DEF Members
<1>2. QED
  BY <1>1 DEF Members

LEMMA SplitNodeRanged ==
  ASSUME NEW b, Branch(b), nkeys(b) = MAX_NKEYS, NEW i, i \in 0..nkeys(b), NEW k \in Nat, NEW c \in Nat,
         NEW e, e = node_insert(b, i, i + 1, k, c),
         NEW lo, NEW hi, NEW l \in Nat, NEW h \in Int, Ranged(e, lo, hi, l, h),
         NEW p, p = split_node(b, i, k, c)
  PROVE  /\ Halves(p.old, p.new, lo, hi, l, p.key, h)
         /\ p.old.tag = "node" /\ p.new.tag = "node"
         /\ Kids(p.old) \subseteq Kids(e) /\ Kids(p.new) \subseteq Kids(e)
<1> DEFINE n == Len(b.keys)
           m == (MAX_NKEYS + 1) \div 2
           ek == array_insert(b.keys, i, k)
           ev == array_insert(b.values, i + 1, c)
           low == SubSeq(ek, 1, m + 1)
           ol == Node(SubSeq(low, 1, m), SubSeq(ev, 1, m + 1))
           ne == Node(SubSeq(ek, (m + 1) + 1, n + 1), SubSeq(ev, (m + 1) + 1, n + 2))
<1>1. /\ n \in Nat /\ n = MAX_NKEYS /\ Len(b.values) = n + 1 /\ b.keys \in Seq(Nat)
      /\ b.values \in Seq(Nat) /\ i \in 0..n
  BY BranchArrays DEF nkeys
<1>2. e.keys = ek /\ e.values = ev /\ e.tag = "node"
  BY DEF node_insert, Node
<1>3. /\ m \in Nat /\ m + 1 \in Nat /\ m \in 0..n /\ m + 1 <= n + 1 /\ MAX_NKEYS >= 2
  BY <1>1, MaxNkeysAssumption
<1>4. p = [old |-> ol, new |-> ne, key |-> low[m + 1]]
  <2>1. Len(b.values) + 1 = n + 2
    BY <1>1
  <2>2. QED
    BY <2>1 DEF split_node, split_low, split_high
<1>5. /\ ek \in Seq(Nat) /\ Len(ek) = n + 1 /\ ev \in Seq(Nat) /\ Len(ev) = n + 2
  <2>1. i + 1 \in 0..Len(b.values) /\ Len(b.values) + 1 = n + 2
    BY <1>1
  <2>2. InsertedAt(ek, b.keys, i, k) /\ InsertedAt(ev, b.values, i + 1, c)
    BY <1>1, <2>1, WordInserted
  <2>3. QED
    BY <1>1, <2>1, <2>2 DEF InsertedAt
<1> HIDE DEF ek, ev, n, m
<1>6. PartOf(low, ek, 0, m + 1) /\ PartOf(SubSeq(low, 1, m), low, 0, m)
  <2>1. 0 \in 0..(m + 1) /\ m + 1 \in 0..Len(ek) /\ 0 + 1 = 1 /\ (m + 1) - 0 = m + 1 /\ m - 0 = m
        /\ 0 \in 0..m /\ m \in 0..(m + 1)
    BY <1>3, <1>5, <1>1
  <2>2. PartOf(SubSeq(ek, 0 + 1, m + 1), ek, 0, (m + 1) - 0)
    BY ONLY <2>1, <1>5, SubSeqIsPart
  <2>3. PartOf(low, ek, 0, m + 1)
    BY ONLY <2>1, <2>2
  <2> HIDE DEF low
  <2>4. low \in Seq(Nat) /\ m \in 0..Len(low)
    BY <2>1, <2>3 DEF PartOf
  <2>5. PartOf(SubSeq(low, 0 + 1, m), low, 0, m - 0)
    BY ONLY <2>1, <2>4, SubSeqIsPart
  <2>6. QED
    BY ONLY <2>1, <2>3, <2>5
<1>7. PartOf(SubSeq(low, 1, m), ek, 0, m) /\ low[m + 1] = ek[m + 1]
  <2> HIDE DEF low
  <2>1. \A j \in 1..m : j \in 1..(m + 1) /\ 0 + j = j
    BY <1>3
  <2>2. m + 1 \in 1..(m + 1) /\ 0 + (m + 1) = m + 1
    BY <1>3
  <2>3. /\ \A j \in 1..(m + 1) : low[j] = ek[0 + j]
        /\ \A j \in 1..m : SubSeq(low, 1, m)[j] = low[0 + j]
        /\ SubSeq(low, 1, m) \in Seq(Nat) /\ Len(SubSeq(low, 1, m)) = m
    BY <1>6 DEF PartOf
  <2>4. \A j \in 1..m : SubSeq(low, 1, m)[j] = ek[0 + j]
    <3>1. ASSUME NEW j \in 1..m
          PROVE  SubSeq(low, 1, m)[j] = ek[0 + j]
      <4>1. SubSeq(low, 1, m)[j] = low[0 + j]
        BY <2>3
      <4>2. low[0 + j] = low[j] /\ low[j] = ek[0 + j]
        BY <2>1, <2>3
      <4>3. QED
        BY ONLY <4>1, <4>2
    <3>2. QED
      BY <3>1
  <2>5. QED
    BY ONLY <2>2, <2>3, <2>4 DEF PartOf
<1>8. /\ PartOf(SubSeq(ev, 1, m + 1), ev, 0, m + 1)
      /\ PartOf(SubSeq(ek, (m + 1) + 1, n + 1), ek, m + 1, n - m)
      /\ PartOf(SubSeq(ev, (m + 1) + 1, n + 2), ev, m + 1, (n - m) + 1)
  <2>1. /\ 0 \in 0..(m + 1) /\ m + 1 \in 0..Len(ev) /\ 0 + 1 = 1 /\ (m + 1) - 0 = m + 1
        /\ m + 1 \in 0..(n + 1) /\ n + 1 \in 0..Len(ek) /\ (n + 1) - (m + 1) = n - m
        /\ m + 1 \in 0..(n + 2) /\ n + 2 \in 0..Len(ev) /\ (n + 2) - (m + 1) = (n - m) + 1
    BY <1>3, <1>5, <1>1
  <2>2. PartOf(SubSeq(ev, 0 + 1, m + 1), ev, 0, (m + 1) - 0)
    BY ONLY <2>1, <1>5, SubSeqIsPart
  <2>3. PartOf(SubSeq(ek, (m + 1) + 1, n + 1), ek, m + 1, (n + 1) - (m + 1))
    BY ONLY <2>1, <1>5, SubSeqIsPart
  <2>4. PartOf(SubSeq(ev, (m + 1) + 1, n + 2), ev, m + 1, (n + 2) - (m + 1))
    BY ONLY <2>1, <1>5, SubSeqIsPart
  <2>5. QED
    BY ONLY <2>1, <2>2, <2>3, <2>4
<1> HIDE DEF low
<1>9. /\ low[m + 1] \in Nat /\ l < low[m + 1] /\ Under(low[m + 1], h)
      /\ Ranged(ol, lo, hi, l, low[m + 1]) /\ Ranged(ne, lo, hi, low[m + 1], h)
  <2>1. /\ e.tag = "node" /\ l \in Nat /\ h \in Int /\ Ranged(e, lo, hi, l, h)
        /\ n + 1 = Len(e.keys) /\ m \in 0..((n + 1) - 1) /\ low[m + 1] = e.keys[m + 1]
        /\ n - m = (n + 1) - (m + 1)
    <3>1. n + 1 = Len(e.keys) /\ low[m + 1] = e.keys[m + 1] /\ e.tag = "node"
      BY <1>2, <1>5, <1>7
    <3>2. m \in 0..((n + 1) - 1) /\ n - m = (n + 1) - (m + 1)
      BY ONLY <1>1, <1>3
    <3>3. QED
      BY <3>1, <3>2
  <2>2. /\ low[m + 1] \in Nat /\ l < low[m + 1] /\ Under(low[m + 1], h)
        /\ \A ks, vs : PartOf(ks, e.keys, 0, m) /\ PartOf(vs, e.values, 0, m + 1)
                        => Ranged(Node(ks, vs), lo, hi, l, low[m + 1])
        /\ \A ks, vs : PartOf(ks, e.keys, m + 1, n - m) /\ PartOf(vs, e.values, m + 1, (n - m) + 1)
                        => Ranged(Node(ks, vs), lo, hi, low[m + 1], h)
    BY ONLY <2>1, NodeCut
  <2>3. QED
    BY <1>2, <1>7, <1>8, <2>2
<1>10. Kids(ol) \subseteq Kids(e) /\ Kids(ne) \subseteq Kids(e)
  <2>1. Members(SubSeq(ev, 1, m + 1)) \subseteq Members(ev)
    <3>1. /\ 0 \in Nat /\ m + 1 \in Nat /\ 0 + (m + 1) <= Len(ev) /\ Len(ev) \in Nat
          /\ PartOf(SubSeq(ev, 1, m + 1), ev, 0, m + 1)
      BY <1>1, <1>3, <1>5, <1>8
    <3>2. QED
      BY ONLY <3>1, PartMembers
  <2>2. Members(SubSeq(ev, (m + 1) + 1, n + 2)) \subseteq Members(ev)
    <3>1. /\ m + 1 \in Nat /\ (n - m) + 1 \in Nat /\ (m + 1) + ((n - m) + 1) <= Len(ev) /\ Len(ev) \in Nat
          /\ PartOf(SubSeq(ev, (m + 1) + 1, n + 2), ev, m + 1, (n - m) + 1)
      BY <1>1, <1>3, <1>5, <1>8
    <3>2. QED
      BY ONLY <3>1, PartMembers
  <2>3. QED
    BY <2>1, <2>2, <1>2 DEF Kids, Node
<1>11. ol.tag = "node" /\ ne.tag = "node"
  BY DEF Node
<1> HIDE DEF ol, ne
<1>12. QED
  BY <1>4, <1>9, <1>10, <1>11 DEF Halves

-----------------------------------------------------------------------------
(* Moves between siblings, and merges *)

LEMMA JoinHolds ==
  ASSUME NEW S, NEW s \in Seq(S), NEW t \in Seq(S)
  PROVE  Members(s \o t) \subseteq Members(s) \cup Members(t)
<1>1. /\ Len(s \o t) = Len(s) + Len(t) /\ Len(s) \in Nat /\ Len(t) \in Nat
      /\ \A j \in 1..Len(s) : (s \o t)[j] = s[j]
      /\ \A j \in 1..Len(t) : (s \o t)[Len(s) + j] = t[j]
  BY ConcatIs
<1>2. ASSUME NEW j \in 1..Len(s \o t)
      PROVE  (s \o t)[j] \in Members(s) \cup Members(t)
  <2>1. CASE j <= Len(s)
    <3>1. j \in 1..Len(s) /\ (s \o t)[j] = s[j]
      BY <2>1, <1>1
    <3>2. QED
      BY <3>1 DEF Members
  <2>2. CASE j > Len(s)
    <3>1. j - Len(s) \in 1..Len(t) /\ Len(s) + (j - Len(s)) = j
      BY ONLY <2>2, <1>1, j \in 1..Len(s \o t)
    <3>2. (s \o t)[j] = t[j - Len(s)]
      BY ONLY <3>1, <1>1
    <3>3. QED
      BY <3>1, <3>2 DEF Members
  <2>3. QED
    BY <2>1, <2>2, <1>1
<1>3. QED
  BY <1>2 DEF Members

LEMMA WordsJoined ==
  ASSUME NEW s, NEW t, s \in Seq(Nat), t \in Seq(Nat)
  PROVE  /\ s \o t \in Seq(Nat) /\ Len(s \o t) = Len(s) + Len(t)
         /\ \A j \in 1..Len(s) : (s \o t)[j] = s[j]
         /\ \A j \in 1..Len(t) : (s \o t)[Len(s) + j] = t[j]
BY ConcatIs

\* The array without its first, and without its last element.
LEMMA EndsDeletedOf ==
  ASSUME NEW s, s \in Seq(Nat), NEW n, n = Len(s), n >= 1
  PROVE  /\ PartOf(array_delete(s, 0), s, 1, n - 1)
         /\ PartOf(array_delete(s, n - 1), s, 0, n - 1)
BY EndsDeleted

\* e is s followed by t.
JoinOf(e, s, t) ==
  /\ e \in Seq(Nat) /\ Len(e) = Len(s) + Len(t)
  /\ \A j \in 1..Len(s) : e[j] = s[j]
  /\ \A j \in 1..Len(t) : e[Len(s) + j] = t[j]

LEMMA JoinedIs ==
  ASSUME NEW s, NEW t, s \in Seq(Nat), t \in Seq(Nat)
  PROVE  JoinOf(s \o t, s, t)
BY WordsJoined DEF JoinOf

LEMMA LeavesMergedRanged ==
  ASSUME NEW a, a.tag = "leaf", NEW b, b.tag = "leaf", NEW lo, NEW hi,
         NEW l \in Nat, NEW s \in Nat, NEW h \in Int,
         Ranged(a, lo, hi, l, s), Ranged(b, lo, hi, s, h), NEW c, c = merge_leaves(a, b)
  PROVE  Ranged(c, lo, hi, l, h) /\ c.tag = "leaf" /\ c.next = b.next
<1>1. /\ a.keys \in Seq(Nat) /\ a.values \in Seq(Nat) /\ Len(a.values) = Len(a.keys)
      /\ Ascending(a.keys) /\ a.keys \in Seq(Span(l, s)) /\ Under(l, s)
  BY RangedIs
<1>2. /\ b.keys \in Seq(Nat) /\ b.values \in Seq(Nat) /\ Len(b.values) = Len(b.keys)
      /\ Ascending(b.keys) /\ b.keys \in Seq(Span(s, h)) /\ Under(s, h)
  BY RangedIs
<1>3. /\ \A j \in 1..Len(a.keys) : a.keys[j] \in Nat /\ l <= a.keys[j] /\ a.keys[j] < s
      /\ \A j \in 1..Len(b.keys) : b.keys[j] \in Nat /\ s <= b.keys[j] /\ Under(b.keys[j], h)
  <2>1. \A j \in 1..Len(a.keys) : a.keys[j] \in Nat /\ l <= a.keys[j] /\ Under(a.keys[j], s)
    BY <1>1, ArrayOf, SpanIs
  <2>2. \A j \in 1..Len(b.keys) : b.keys[j] \in Nat /\ s <= b.keys[j] /\ Under(b.keys[j], h)
    BY <1>2, ArrayOf, SpanIs
  <2>3. QED
    BY <2>1, <2>2 DEF Under
<1>4. Under(l, h) /\ l < s
  BY <1>1, <1>2 DEF Under
<1>5. /\ \A j \in 1..Len(a.keys) : a.keys[j] \in Span(l, h)
      /\ \A j \in 1..Len(b.keys) : b.keys[j] \in Span(l, h)
  BY SMTT(30), ZenonT(30), <1>2, <1>3, <1>4 DEF Span, Under
<1>6. a.keys \in Seq(Span(l, h)) /\ b.keys \in Seq(Span(l, h))
  BY <1>1, <1>2, <1>5, ArrayOf
<1>7. a.keys \o b.keys \in Seq(Span(l, h)) /\ Len(a.keys \o b.keys) = Len(a.keys) + Len(b.keys)
  BY <1>6, ConcatIs
<1>8. a.values \o b.values \in Seq(Nat) /\ Len(a.values \o b.values) = Len(a.keys) + Len(b.keys)
  <2>1. a.values \in Seq(Nat) /\ b.values \in Seq(Nat) /\ Len(a.values) = Len(a.keys) /\ Len(b.values) = Len(b.keys)
    BY <1>1, <1>2
  <2>2. a.values \o b.values \in Seq(Nat) /\ Len(a.values \o b.values) = Len(a.values) + Len(b.values)
    BY ONLY <2>1, WordsJoined, Zenon
  <2>3. QED
    BY ONLY <2>1, <2>2
<1>9. Ascending(a.keys \o b.keys)
  <2>1. \A i \in 1..Len(a.keys), j \in 1..Len(b.keys) : a.keys[i] < b.keys[j]
    BY <1>3
  <2>2. QED
    BY <2>1, <1>1, <1>2, AscendingJoin
<1>10. c = Leaf(a.keys \o b.keys, a.values \o b.values, b.next)
  BY <1>1, <1>2, SlotsAll DEF merge_leaves, array_merge_append, nkeys
<1>11. QED
  <2>1. Len(a.values \o b.values) = Len(a.keys \o b.keys)
    BY <1>7, <1>8
  <2>2. Ranged(Leaf(a.keys \o b.keys, a.values \o b.values, b.next), lo, hi, l, h)
    BY ONLY <2>1, <1>4, <1>7, <1>8, <1>9, LeafRanged
  <2>3. QED
    BY ONLY <2>2, <1>10 DEF Leaf

LEMMA NodesMergedRanged ==
  ASSUME NEW a, a.tag = "node", NEW b, b.tag = "node", NEW lo, NEW hi,
         NEW l \in Nat, NEW s \in Nat, NEW h \in Int,
         Ranged(a, lo, hi, l, s), Ranged(b, lo, hi, s, h), NEW c, c = merge_nodes(a, s, b)
  PROVE  Ranged(c, lo, hi, l, h) /\ c.tag = "node" /\ Kids(c) \subseteq Kids(a) \cup Kids(b)
<1> DEFINE len == Len(a.keys)
           rlen == Len(b.keys)
           ks == Append(a.keys, s) \o b.keys
           vs == a.values \o b.values
<1>1. /\ a.keys \in Seq(Nat) /\ a.values \in Seq(Nat) /\ Len(a.values) = len + 1
      /\ b.keys \in Seq(Nat) /\ b.values \in Seq(Nat) /\ Len(b.values) = rlen + 1
      /\ len \in Nat /\ rlen \in Nat
  BY RangedIs
<1>2. /\ Append(a.keys, s) \in Seq(Nat) /\ Len(Append(a.keys, s)) = len + 1
      /\ \A j \in 1..len : Append(a.keys, s)[j] = a.keys[j]
      /\ Append(a.keys, s)[len + 1] = s
  BY <1>1
<1>3. /\ ks \in Seq(Nat) /\ Len(ks) = (len + 1) + rlen
      /\ \A j \in 1..(len + 1) : ks[j] = Append(a.keys, s)[j]
      /\ \A j \in 1..rlen : ks[(len + 1) + j] = b.keys[j]
  <2>1. JoinOf(ks, Append(a.keys, s), b.keys)
    <3>1. Append(a.keys, s) \in Seq(Nat) /\ b.keys \in Seq(Nat)
      BY <1>1, <1>2
    <3>2. QED
      BY <3>1, JoinedIs
  <2>2. QED
    BY ONLY <2>1, <1>2 DEF JoinOf
<1>4. Joined(a.keys, len, s, b.keys, rlen, ks)
  <2>1. \A j \in 1..len : j \in 1..(len + 1)
    BY <1>1
  <2>2. len + 1 \in 1..(len + 1)
    BY <1>1
  <2> HIDE DEF ks, len, rlen
  <2>3. QED
    BY <2>1, <2>2, <1>2, <1>3 DEF Joined
<1>5. /\ vs \in Seq(Nat) /\ Len(vs) = Len(ks) + 1
      /\ Joined(a.values, len, a.values[len + 1], b.values, rlen + 1, vs)
  <2>1. JoinOf(vs, a.values, b.values)
    <3>1. a.values \in Seq(Nat) /\ b.values \in Seq(Nat)
      BY <1>1
    <3>2. QED
      BY <3>1, JoinedIs
  <2>2. \A j \in 1..len : j \in 1..(len + 1)
    BY <1>1
  <2>3. len + 1 \in 1..(len + 1) /\ ((len + 1) + rlen) + 1 = (len + 1) + (rlen + 1)
    <3>1. len \in Nat /\ rlen \in Nat
      BY <1>1
    <3> HIDE DEF len, rlen
    <3>2. QED
      BY ONLY <3>1
  <2> HIDE DEF ks, vs, len, rlen
  <2>4. QED
    BY <2>1, <2>2, <2>3, <1>1, <1>3 DEF Joined, JoinOf
<1>6. c = Node(ks, vs)
  BY <1>1, SlotsAll DEF merge_nodes, array_merge_append, nkeys
<1>7. Kids(c) \subseteq Kids(a) \cup Kids(b)
  BY <1>1, <1>6, JoinHolds DEF Kids, Node
<1> HIDE DEF ks, vs
<1>8. Ranged(Node(ks, vs), lo, hi, l, h)
  BY <1>3, <1>4, <1>5, NodesJoined
<1>9. QED
  BY <1>6, <1>7, <1>8 DEF Node

\* A leaf whose keys are in a range has them in every range around it.
LEMMA LeafWider ==
  ASSUME NEW b, b.tag = "leaf", NEW lo, NEW hi, NEW l \in Nat, NEW h \in Int, Ranged(b, lo, hi, l, h),
         NEW l2 \in Nat, l2 <= l, NEW h2 \in Int, h2 = -1 \/ (h # -1 /\ h <= h2)
  PROVE  Ranged(b, lo, hi, l2, h2)
<1>1. Shaped(b) /\ Ascending(b.keys) /\ Under(l, h) /\ b.keys \in Seq(Span(l, h))
  BY DEF Ranged
<1>2. \A k \in Span(l, h) : k \in Span(l2, h2)
  BY DEF Span, Under
<1>3. b.keys \in Seq(Span(l2, h2))
  BY <1>1, <1>2, ArrayOf
<1>4. Under(l2, h2)
  BY <1>1 DEF Under
<1>5. QED
  BY <1>1, <1>3, <1>4 DEF Ranged

\* The last pair of the left leaf becomes the first of the right one.
LEMMA LeafFromLeft ==
  ASSUME NEW y, y.tag = "leaf", NEW x, x.tag = "leaf", NEW lo, NEW hi,
         NEW l \in Nat, NEW s \in Nat, NEW h \in Int,
         Ranged(y, lo, hi, l, s), Ranged(x, lo, hi, s, h),
         NEW n, n = Len(y.keys), n >= 2, NEW k, k = y.keys[n], NEW v, v = y.values[n]
  PROVE  Halves(leaf_pop(y, n - 1), leaf_insert(x, 0, k, v), lo, hi, l, k, h)
<1>1. /\ y.keys \in Seq(Nat) /\ y.values \in Seq(Nat) /\ n \in Nat /\ Len(y.values) = n
      /\ v \in Nat
  <2>1. /\ y.keys \in Seq(Nat) /\ y.values \in Seq(Nat) /\ n \in Nat /\ Len(y.values) = n
        /\ \A j \in 1..Len(y.values) : y.values[j] \in Nat
    BY RangedIs
  <2>2. n \in 1..n
    BY <2>1
  <2>3. QED
    BY <2>1, <2>2
<1>2. /\ PartOf(array_delete(y.keys, n - 1), y.keys, 0, n - 1)
      /\ PartOf(array_delete(y.values, n - 1), y.values, 0, n - 1)
  <2>1. y.keys \in Seq(Nat) /\ y.values \in Seq(Nat) /\ n = Len(y.keys) /\ n = Len(y.values) /\ n >= 1
    BY <1>1
  <2>2. QED
    BY ONLY <2>1, EndsDeletedOf
<1>3. /\ k \in Nat /\ l < k /\ Under(k, s)
      /\ Ranged(Leaf(array_delete(y.keys, n - 1), array_delete(y.values, n - 1), y.next), lo, hi, l, k)
  <2>1. n - 1 \in 1..(n - 1) /\ k = y.keys[(n - 1) + 1] /\ n - (n - 1) = 1
    BY <1>1
  <2>2. /\ k \in Nat /\ l < k /\ Under(k, s)
        /\ \A ks, vs, next : PartOf(ks, y.keys, 0, n - 1) /\ PartOf(vs, y.values, 0, n - 1)
                              => Ranged(Leaf(ks, vs, next), lo, hi, l, k)
    <3>1. /\ y.tag = "leaf" /\ l \in Nat /\ s \in Int /\ Ranged(y, lo, hi, l, s) /\ n = Len(y.keys)
          /\ n - 1 \in 1..(n - 1) /\ k = y.keys[(n - 1) + 1]
      BY <2>1
    <3>2. QED
      BY ONLY <3>1, LeafCut
  <2>3. QED
    BY <2>2, <1>2
<1>4. k < s /\ Under(s, h) /\ Under(k, h)
  <2>1. Under(s, h)
    BY RangedIs
  <2>2. QED
    BY <2>1, <1>3 DEF Under
<1>5. Ranged(x, lo, hi, k, h)
  <2>1. h = -1 \/ (h # -1 /\ h <= h)
    OBVIOUS
  <2>2. k <= s
    BY <1>3, <1>4
  <2>3. QED
    BY <2>1, <2>2, <1>3, LeafWider
<1>6. Ranged(leaf_insert(x, 0, k, v), lo, hi, k, h)
  <2>1. /\ Len(x.keys) \in Nat /\ 0 \in 0..Len(x.keys)
        /\ \A j \in 1..Len(x.keys) : x.keys[j] \in Nat /\ s <= x.keys[j]
    <3>1. Len(x.keys) \in Nat /\ x.keys \in Seq(Span(s, h))
      BY RangedIs
    <3>2. QED
      BY <3>1, ArrayOf, SpanIs
  <2>2. Place(x.keys, 0, k)
    <3>1. \A j \in 1..Len(x.keys) : ~(j <= 0) /\ k < x.keys[j]
      BY SMTT(30), ZenonT(30), <2>1, <1>3, <1>4
    <3>2. QED
      BY <3>1 DEF Place
  <2>3. k \in Span(k, h)
    BY <1>3, <1>4 DEF Span
  <2>4. QED
    BY <1>1, <1>5, <2>1, <2>2, <2>3, LeafChanged
<1>7. QED
  BY <1>3, <1>4, <1>6 DEF Halves, leaf_pop

\* The first pair of the right leaf becomes the last of the left one.
LEMMA LeafFromRight ==
  ASSUME NEW x, x.tag = "leaf", NEW y, y.tag = "leaf", NEW lo, NEW hi,
         NEW l \in Nat, NEW s \in Nat, NEW h \in Int,
         Ranged(x, lo, hi, l, s), Ranged(y, lo, hi, s, h), Len(y.keys) >= 2,
         NEW rest, rest = leaf_pop(y, 0), NEW k, k = rest.keys[1],
         NEW i, i = Len(x.keys)
  PROVE  Halves(leaf_insert(x, i, y.keys[1], y.values[1]), rest, lo, hi, l, k, h)
<1> DEFINE n == Len(y.keys)
           e == y.keys[1]
<1>1. /\ y.keys \in Seq(Nat) /\ y.values \in Seq(Nat) /\ n \in Nat /\ Len(y.values) = n
      /\ y.values[1] \in Nat /\ e \in Nat /\ s <= e /\ e < y.keys[2] /\ y.keys[2] \in Nat
  <2>1. /\ y.keys \in Seq(Nat) /\ y.values \in Seq(Nat) /\ n \in Nat /\ Len(y.values) = n
        /\ \A j \in 1..Len(y.values) : y.values[j] \in Nat
        /\ Ascending(y.keys) /\ y.keys \in Seq(Span(s, h))
    BY RangedIs
  <2>2. 1 \in 1..n /\ 2 \in 1..n
    BY <2>1
  <2>3. \A j \in 1..n : y.keys[j] \in Nat /\ s <= y.keys[j]
    BY <2>1, ArrayOf, SpanIs
  <2>4. y.keys[1] < y.keys[2]
    <3>1. 1 \in 1..Len(y.keys) /\ 2 \in 1..Len(y.keys) /\ 1 < 2
      BY <2>2
    <3>2. QED
      BY ONLY <3>1, <2>1 DEF Ascending
  <2>5. QED
    BY <2>1, <2>2, <2>3, <2>4
<1>2. /\ PartOf(array_delete(y.keys, 0), y.keys, 1, n - 1)
      /\ PartOf(array_delete(y.values, 0), y.values, 1, n - 1)
  <2>1. y.keys \in Seq(Nat) /\ y.values \in Seq(Nat) /\ n = Len(y.keys) /\ n = Len(y.values) /\ n >= 1
    BY <1>1
  <2>2. QED
    BY ONLY <2>1, EndsDeletedOf
<1>3. rest = Leaf(array_delete(y.keys, 0), array_delete(y.values, 0), y.next)
  BY DEF leaf_pop
<1>4. k = y.keys[2]
  <2>1. 1 \in 1..(n - 1) /\ 1 + 1 = 2
    BY <1>1
  <2>2. k = array_delete(y.keys, 0)[1]
    BY <1>3 DEF Leaf
  <2>3. array_delete(y.keys, 0)[1] = y.keys[1 + 1]
    BY ONLY <2>1, <1>2 DEF PartOf
  <2>4. QED
    BY <2>1, <2>2, <2>3
<1>5. s < k /\ Under(k, h) /\ Ranged(rest, lo, hi, k, h)
  <2>1. 1 \in 1..(n - 1) /\ k = y.keys[1 + 1]
    BY SMTT(30), ZenonT(30), <1>1, <1>4
  <2>2. /\ s < k /\ Under(k, h)
        /\ \A ks, vs, next : PartOf(ks, y.keys, 1, n - 1) /\ PartOf(vs, y.values, 1, n - 1)
                              => Ranged(Leaf(ks, vs, next), lo, hi, k, h)
    BY <2>1, LeafCut
  <2>3. QED
    BY <2>2, <1>2, <1>3
<1>6. Under(l, s) /\ l < s
  <2>1. Under(l, s)
    BY RangedIs
  <2>2. QED
    BY <2>1 DEF Under
<1>7. Ranged(x, lo, hi, l, k)
  <2>1. k \in Int /\ s # -1 /\ s <= k /\ l <= l
    <3>1. k \in Nat /\ s < k
      BY <1>1, <1>4, <1>5
    <3>2. QED
      BY ONLY <3>1, s \in Nat, l \in Nat
  <2>2. QED
    BY <2>1, LeafWider
<1>8. Ranged(leaf_insert(x, i, e, y.values[1]), lo, hi, l, k)
  <2>1. /\ Len(x.keys) \in Nat /\ i \in 0..Len(x.keys)
        /\ \A j \in 1..Len(x.keys) : j <= i /\ x.keys[j] \in Nat /\ x.keys[j] < s
    <3>1. Len(x.keys) \in Nat /\ x.keys \in Seq(Span(l, s))
      BY RangedIs
    <3>2. \A j \in 1..Len(x.keys) : x.keys[j] \in Nat /\ Under(x.keys[j], s)
      BY <3>1, ArrayOf, SpanIs
    <3>3. QED
      BY <3>1, <3>2 DEF Under
  <2>2. Place(x.keys, i, e)
    <3>1. \A j \in 1..Len(x.keys) : j <= i /\ x.keys[j] < e
      <4>1. e \in Nat /\ s <= e
        BY <1>1
      <4> HIDE DEF e
      <4>2. QED
        BY ONLY <4>1, <2>1, s \in Nat
    <3>2. QED
      BY <3>1 DEF Place
  <2>3. e \in Span(l, k)
    BY SMTT(30), ZenonT(30), <1>1, <1>4, <1>6 DEF Span, Under
  <2>4. QED
    BY <1>1, <1>7, <2>1, <2>2, <2>3, LeafChanged
<1>9. k \in Nat /\ l < k
  <2>1. e \in Nat /\ l < s /\ s < k /\ k \in Nat
    BY <1>1, <1>4, <1>5, <1>6
  <2>2. QED
    BY ONLY <2>1, s \in Nat, l \in Nat
<1>10. Halves(leaf_insert(x, i, e, y.values[1]), rest, lo, hi, l, k, h)
  BY ONLY <1>5, <1>8, <1>9 DEF Halves
<1>11. QED
  BY <1>1, <1>4, <1>10

-----------------------------------------------------------------------------
(* A child moved between nodes *)

\* t is the n elements of s with k put before them, and behind them.
Headed(t, s, n, k) ==
  t \in Seq(Nat) /\ Len(t) = n + 1 /\ t[1] = k /\ \A j \in 1..n : t[(0 + 1) + j] = s[j]
Ended(t, s, n, k) ==
  t \in Seq(Nat) /\ Len(t) = n + 1 /\ t[n + 1] = k /\ \A j \in 1..n : t[j] = s[j]

LEMMA EndsInserted ==
  ASSUME NEW s, s \in Seq(Nat), NEW n, n = Len(s), NEW k \in Nat
  PROVE  /\ n \in Nat
         /\ Headed(array_insert(s, 0, k), s, n, k)
         /\ Ended(array_insert(s, n, k), s, n, k)
<1>1. n \in Nat /\ 0 \in 0..Len(s) /\ n \in 0..Len(s)
  OBVIOUS
<1>2. InsertedAt(array_insert(s, 0, k), s, 0, k)
  BY <1>1, WordInserted
<1>3. InsertedAt(array_insert(s, n, k), s, n, k)
  BY <1>1, WordInserted
<1>4. /\ array_insert(s, 0, k)[1] = k
      /\ \A j \in 1..n : array_insert(s, 0, k)[(0 + 1) + j] = s[j]
  <2>1. 1 \in 1..(n + 1) /\ ~(1 <= 0) /\ 1 = 0 + 1
    BY <1>1
  <2>2. \A j \in 1..n : /\ (0 + 1) + j \in 1..(n + 1) /\ ~((0 + 1) + j <= 0)
                        /\ (0 + 1) + j # 0 + 1 /\ ((0 + 1) + j) - 1 = j
    BY <1>1
  <2>3. n = Len(s)
    OBVIOUS
  <2>4. QED
    BY ONLY <2>1, <2>2, <2>3, <1>2 DEF InsertedAt
<1>5. /\ \A j \in 1..n : array_insert(s, n, k)[j] = s[j]
      /\ array_insert(s, n, k)[n + 1] = k
  <2>1. n + 1 \in 1..(n + 1) /\ ~(n + 1 <= n)
    BY <1>1
  <2>2. \A j \in 1..n : j \in 1..(n + 1) /\ j <= n
    BY <1>1
  <2>3. n = Len(s)
    OBVIOUS
  <2>4. QED
    BY ONLY <2>1, <2>2, <2>3, <1>3 DEF InsertedAt
<1>6. QED
  BY <1>1, <1>2, <1>3, <1>4, <1>5 DEF InsertedAt, Headed, Ended

\* array_insert puts nothing else into an array.
LEMMA InsertHolds ==
  ASSUME NEW s, s \in Seq(Nat), NEW i, i \in 0..Len(s), NEW k \in Nat
  PROVE  Members(array_insert(s, i, k)) \subseteq Members(s) \cup {k}
<1>1. InsertedAt(array_insert(s, i, k), s, i, k) /\ Len(s) \in Nat
  BY WordInserted
<1>2. ASSUME NEW j \in 1..(Len(s) + 1)
      PROVE  array_insert(s, i, k)[j] \in Members(s) \cup {k}
  <2>1. /\ j <= i => j \in 1..Len(s)
        /\ ~(j <= i) /\ j # i + 1 => j - 1 \in 1..Len(s)
    BY <1>1
  <2>2. QED
    BY <2>1, <1>1 DEF InsertedAt, Members
<1>3. QED
  BY <1>1, <1>2 DEF InsertedAt, Members

\* Two nodes that share the keys and the children of x and y another way.
NodesLent(a, b, x, y, lo, hi, l, k, h) ==
  /\ Halves(a, b, lo, hi, l, k, h) /\ a.tag = "node" /\ b.tag = "node"
  /\ Kids(a) \cup Kids(b) \subseteq Kids(x) \cup Kids(y)

\* The last child of the left node becomes the first of the right one.
LEMMA NodeFromLeft ==
  ASSUME NEW y, y.tag = "node", NEW x, x.tag = "node", NEW lo, NEW hi,
         NEW l \in Nat, NEW s \in Nat, NEW h \in Int,
         Ranged(y, lo, hi, l, s), Ranged(x, lo, hi, s, h),
         NEW n, n = Len(y.keys), n >= 1, NEW k, k = y.keys[n], NEW c, c = y.values[n + 1],
         NEW a, a = node_pop(y, n - 1, n), NEW b, b = node_insert(x, 0, 0, s, c)
  PROVE  NodesLent(a, b, y, x, lo, hi, l, k, h)
<1>1. /\ y.keys \in Seq(Nat) /\ y.values \in Seq(Nat) /\ n \in Nat /\ Len(y.values) = n + 1
      /\ c \in Nat /\ n + 1 \in 1..(n + 1) /\ c \in Kids(y)
  <2>1. /\ y.keys \in Seq(Nat) /\ y.values \in Seq(Nat) /\ n \in Nat /\ Len(y.values) = n + 1
        /\ \A j \in 1..Len(y.values) : y.values[j] \in Nat
    BY RangedIs
  <2>2. n + 1 \in 1..(n + 1)
    BY <2>1
  <2>3. QED
    BY <2>1, <2>2 DEF Kids, Members
<1>2. PartOf(a.keys, y.keys, 0, n - 1) /\ PartOf(a.values, y.values, 0, n) /\ a = Node(a.keys, a.values)
  <2>1. PartOf(array_delete(y.keys, n - 1), y.keys, 0, n - 1)
    <3>1. y.keys \in Seq(Nat) /\ n = Len(y.keys) /\ n >= 1
      BY <1>1
    <3>2. QED
      BY ONLY <3>1, EndsDeletedOf
  <2>2. PartOf(array_delete(y.values, n), y.values, 0, n)
    <3>1. y.values \in Seq(Nat) /\ n + 1 = Len(y.values) /\ n + 1 >= 1 /\ (n + 1) - 1 = n
      BY <1>1
    <3>2. PartOf(array_delete(y.values, (n + 1) - 1), y.values, 0, (n + 1) - 1)
      BY ONLY <3>1, EndsDeletedOf
    <3>3. QED
      BY ONLY <3>1, <3>2
  <2>3. QED
    BY <2>1, <2>2 DEF node_pop, Node
<1>3. /\ PartOf(<<>>, y.keys, n, 0) /\ PartOf(<<c>>, y.values, n, 1)
  <2>1. <<>> \in Seq(Nat) /\ Len(<<>>) = 0 /\ <<c>> \in Seq(Nat) /\ Len(<<c>>) = 1 /\ <<c>>[1] = c
    BY <1>1
  <2>2. \A j \in 1..1 : j = 1
    OBVIOUS
  <2>3. QED
    BY <2>1, <2>2 DEF PartOf
<1>4. /\ k \in Nat /\ l < k /\ Under(k, s) /\ Ranged(a, lo, hi, l, k)
      /\ Ranged(Node(<<>>, <<c>>), lo, hi, k, s)
  <2>1. n - 1 \in 0..(n - 1) /\ k = y.keys[(n - 1) + 1] /\ (n - 1) + 1 = n /\ 0 = n - ((n - 1) + 1) /\ 0 + 1 = 1
    BY <1>1
  <2>2. /\ k \in Nat /\ l < k /\ Under(k, s)
        /\ \A ks, vs : PartOf(ks, y.keys, 0, n - 1) /\ PartOf(vs, y.values, 0, n)
                       => Ranged(Node(ks, vs), lo, hi, l, k)
        /\ \A ks, vs : PartOf(ks, y.keys, n, 0) /\ PartOf(vs, y.values, n, 1)
                       => Ranged(Node(ks, vs), lo, hi, k, s)
    <3>1. /\ y.tag = "node" /\ l \in Nat /\ s \in Int /\ Ranged(y, lo, hi, l, s) /\ n = Len(y.keys)
          /\ n - 1 \in 0..(n - 1) /\ k = y.keys[(n - 1) + 1]
      BY <2>1
    <3>2. /\ k \in Nat /\ l < k /\ Under(k, s)
          /\ \A ks, vs : PartOf(ks, y.keys, 0, n - 1) /\ PartOf(vs, y.values, 0, (n - 1) + 1)
                         => Ranged(Node(ks, vs), lo, hi, l, k)
          /\ \A ks, vs : PartOf(ks, y.keys, (n - 1) + 1, 0) /\ PartOf(vs, y.values, (n - 1) + 1, 0 + 1)
                         => Ranged(Node(ks, vs), lo, hi, k, s)
      BY ONLY <3>1, <2>1, NodeCut
    <3>3. QED
      BY ONLY <3>2, <2>1
  <2>3. QED
    BY ONLY <2>2, <1>2, <1>3
<1>5. k < s /\ Under(s, h) /\ Under(k, h)
  <2>1. Under(s, h)
    BY RangedIs
  <2>2. QED
    BY <2>1, <1>4 DEF Under
<1>6. b = Node(array_insert(x.keys, 0, s), array_insert(x.values, 0, c))
  BY DEF node_insert
<1>7. /\ x.keys \in Seq(Nat) /\ x.values \in Seq(Nat) /\ Len(x.values) = Len(x.keys) + 1
      /\ Len(x.keys) \in Nat
  BY RangedIs
<1>8. Ranged(b, lo, hi, k, h)
  <2>1. /\ array_insert(x.keys, 0, s) \in Seq(Nat)
        /\ Len(array_insert(x.keys, 0, s)) = (0 + 1) + Len(x.keys)
        /\ Joined(<<>>, 0, s, x.keys, Len(x.keys), array_insert(x.keys, 0, s))
    <3>1. x.keys \in Seq(Nat) /\ s \in Nat
      BY <1>7
    <3>2. Headed(array_insert(x.keys, 0, s), x.keys, Len(x.keys), s)
      BY ONLY <3>1, EndsInserted
    <3>3. Len(x.keys) + 1 = (0 + 1) + Len(x.keys) /\ 0 + 1 = 1 /\ \A j \in 1..0 : FALSE
      BY ONLY <1>7
    <3>4. QED
      BY ONLY <3>2, <3>3 DEF Joined, Headed
  <2>2. /\ array_insert(x.values, 0, c) \in Seq(Nat)
        /\ Len(array_insert(x.values, 0, c)) = Len(array_insert(x.keys, 0, s)) + 1
        /\ Joined(<<c>>, 0, c, x.values, Len(x.keys) + 1, array_insert(x.values, 0, c))
    <3>1. x.values \in Seq(Nat) /\ c \in Nat /\ Len(x.keys) + 1 = Len(x.values)
      BY <1>1, <1>7
    <3>2. Headed(array_insert(x.values, 0, c), x.values, Len(x.values), c)
      BY ONLY <3>1, EndsInserted
    <3>3. (Len(x.keys) + 1) + 1 = ((0 + 1) + Len(x.keys)) + 1 /\ 0 + 1 = 1 /\ \A j \in 1..0 : FALSE
      BY ONLY <1>7
    <3>4. QED
      BY ONLY <3>1, <3>2, <3>3, <2>1 DEF Joined, Headed
  <2>3. /\ Node(<<>>, <<c>>).tag = "node" /\ Node(<<>>, <<c>>).keys = <<>>
        /\ Node(<<>>, <<c>>).values = <<c>> /\ <<c>>[0 + 1] = c /\ Len(<<>>) = 0
    BY DEF Node
  <2>4. /\ Ranged(Node(<<>>, <<c>>), lo, hi, k, s) /\ Ranged(x, lo, hi, s, h) /\ x.tag = "node"
        /\ k \in Nat /\ s \in Nat /\ h \in Int
    BY <1>4
  <2> DEFINE u == Node(<<>>, <<c>>)
             ks == array_insert(x.keys, 0, s)
             vs == array_insert(x.values, 0, c)
  <2>5. /\ u.tag = "node" /\ u.keys = <<>> /\ Ranged(u, lo, hi, k, s)
        /\ 0 = Len(u.keys) /\ u.values[0 + 1] = c
        /\ ks \in Seq(Nat) /\ Len(ks) = (0 + 1) + Len(x.keys) /\ Joined(u.keys, 0, s, x.keys, Len(x.keys), ks)
        /\ vs \in Seq(Nat) /\ Len(vs) = Len(ks) + 1
        /\ Joined(u.values, 0, u.values[0 + 1], x.values, Len(x.keys) + 1, vs)
    BY ONLY <2>1, <2>2, <2>3, <2>4
  <2>6. b = Node(ks, vs)
    BY ONLY <1>6
  <2> HIDE DEF u, ks, vs
  <2>7. QED
    BY ONLY <2>4, <2>5, <2>6, NodesJoined
<1>9. Kids(a) \subseteq Kids(y)
  <2>1. 0 \in Nat /\ 0 + n <= Len(y.values) /\ Len(y.values) \in Nat
    BY SMTT(30), ZenonT(30), <1>1
  <2>2. QED
    BY <2>1, <1>1, <1>2, PartMembers DEF Kids
<1>10. Kids(b) \subseteq Kids(x) \cup Kids(y)
  <2>1. b.values = array_insert(x.values, 0, c) /\ 0 \in 0..Len(x.values)
    BY <1>6, <1>7 DEF Node
  <2>2. QED
    <3>1. x.values \in Seq(Nat) /\ c \in Nat /\ 0 \in 0..Len(x.values)
      BY <2>1, <1>1, <1>7
    <3>2. Members(array_insert(x.values, 0, c)) \subseteq Members(x.values) \cup {c}
      BY ONLY <3>1, InsertHolds
    <3>3. QED
      BY ONLY <2>1, <3>2, <1>1 DEF Kids
<1>11. a.tag = "node" /\ b.tag = "node"
  BY <1>6 DEF node_pop, Node
<1>12. QED
  BY <1>4, <1>5, <1>8, <1>9, <1>10, <1>11 DEF Halves, NodesLent

\* The first child of the right node becomes the last of the left one.
LEMMA NodeFromRight ==
  ASSUME NEW x, x.tag = "node", NEW y, y.tag = "node", NEW lo, NEW hi,
         NEW l \in Nat, NEW s \in Nat, NEW h \in Int,
         Ranged(x, lo, hi, l, s), Ranged(y, lo, hi, s, h),
         NEW n, n = Len(y.keys), n >= 1, NEW k, k = y.keys[1], NEW c, c = y.values[1],
         NEW m, m = Len(x.keys),
         NEW b, b = node_insert(x, m, m + 1, s, c), NEW a, a = node_pop(y, 0, 0)
  PROVE  NodesLent(b, a, x, y, lo, hi, l, k, h)
<1>1. /\ y.keys \in Seq(Nat) /\ y.values \in Seq(Nat) /\ n \in Nat /\ Len(y.values) = n + 1
      /\ c \in Nat /\ c \in Kids(y)
  <2>1. /\ y.keys \in Seq(Nat) /\ y.values \in Seq(Nat) /\ n \in Nat /\ Len(y.values) = n + 1
        /\ \A j \in 1..Len(y.values) : y.values[j] \in Nat
    BY RangedIs
  <2>2. 1 \in 1..(n + 1)
    BY <2>1
  <2>3. QED
    BY <2>1, <2>2 DEF Kids, Members
<1>2. PartOf(a.keys, y.keys, 1, n - 1) /\ PartOf(a.values, y.values, 1, n) /\ a = Node(a.keys, a.values)
  <2>1. PartOf(array_delete(y.keys, 0), y.keys, 1, n - 1)
    <3>1. y.keys \in Seq(Nat) /\ n = Len(y.keys) /\ n >= 1
      BY <1>1
    <3>2. QED
      BY ONLY <3>1, EndsDeletedOf
  <2>2. PartOf(array_delete(y.values, 0), y.values, 1, n)
    <3>1. y.values \in Seq(Nat) /\ n + 1 = Len(y.values) /\ n + 1 >= 1 /\ (n + 1) - 1 = n
      BY <1>1
    <3>2. PartOf(array_delete(y.values, 0), y.values, 1, (n + 1) - 1)
      BY ONLY <3>1, EndsDeletedOf
    <3>3. QED
      BY ONLY <3>1, <3>2
  <2>3. QED
    BY <2>1, <2>2 DEF node_pop, Node
<1>3. /\ PartOf(<<>>, y.keys, 0, 0) /\ PartOf(<<c>>, y.values, 0, 1)
  <2>1. <<>> \in Seq(Nat) /\ Len(<<>>) = 0 /\ <<c>> \in Seq(Nat) /\ Len(<<c>>) = 1 /\ <<c>>[1] = c
    BY <1>1
  <2>2. \A j \in 1..1 : j = 1 /\ 0 + j = 1
    OBVIOUS
  <2>3. QED
    BY <2>1, <2>2 DEF PartOf
<1>4. /\ k \in Nat /\ s < k /\ Under(k, h) /\ Ranged(a, lo, hi, k, h)
      /\ Ranged(Node(<<>>, <<c>>), lo, hi, s, k)
  <2>1. 0 \in 0..(n - 1) /\ k = y.keys[0 + 1] /\ 0 + 1 = 1 /\ n - 1 = n - (0 + 1) /\ (n - 1) + 1 = n
    BY <1>1
  <2>2. /\ k \in Nat /\ s < k /\ Under(k, h)
        /\ \A ks, vs : PartOf(ks, y.keys, 0, 0) /\ PartOf(vs, y.values, 0, 1)
                       => Ranged(Node(ks, vs), lo, hi, s, k)
        /\ \A ks, vs : PartOf(ks, y.keys, 1, n - 1) /\ PartOf(vs, y.values, 1, n)
                       => Ranged(Node(ks, vs), lo, hi, k, h)
    <3>1. /\ y.tag = "node" /\ s \in Nat /\ h \in Int /\ Ranged(y, lo, hi, s, h) /\ n = Len(y.keys)
          /\ 0 \in 0..(n - 1) /\ k = y.keys[0 + 1]
      BY <2>1
    <3>2. /\ k \in Nat /\ s < k /\ Under(k, h)
          /\ \A ks, vs : PartOf(ks, y.keys, 0, 0) /\ PartOf(vs, y.values, 0, 0 + 1)
                         => Ranged(Node(ks, vs), lo, hi, s, k)
          /\ \A ks, vs : PartOf(ks, y.keys, 0 + 1, n - 1) /\ PartOf(vs, y.values, 0 + 1, (n - 1) + 1)
                         => Ranged(Node(ks, vs), lo, hi, k, h)
      BY ONLY <3>1, <2>1, NodeCut
    <3>3. QED
      BY ONLY <3>2, <2>1
  <2>3. QED
    BY ONLY <2>2, <1>2, <1>3
<1>5. l < k
  <2>1. Under(l, s)
    BY RangedIs
  <2>2. QED
    BY <2>1, <1>4 DEF Under
<1>6. b = Node(array_insert(x.keys, m, s), array_insert(x.values, m + 1, c))
  BY DEF node_insert
<1>7. /\ x.keys \in Seq(Nat) /\ x.values \in Seq(Nat) /\ Len(x.values) = m + 1
      /\ m \in Nat
  BY RangedIs
<1> DEFINE u == Node(<<>>, <<c>>)
           ks == array_insert(x.keys, m, s)
           vs == array_insert(x.values, m + 1, c)
<1>8. Ranged(b, lo, hi, l, k)
  <2>1. Ended(ks, x.keys, m, s)
    <3>1. x.keys \in Seq(Nat) /\ s \in Nat /\ m = Len(x.keys)
      BY <1>7
    <3>2. QED
      BY <3>1, EndsInserted
  <2>2. Ended(vs, x.values, m + 1, c)
    <3>1. x.values \in Seq(Nat) /\ c \in Nat /\ m + 1 = Len(x.values)
      BY <1>1, <1>7
    <3>2. QED
      BY <3>1, EndsInserted
  <2>3. u.tag = "node" /\ u.keys = <<>> /\ u.values = <<c>> /\ <<c>>[1] = c /\ Len(<<>>) = 0
    BY DEF Node
  <2>4. /\ Ranged(u, lo, hi, s, k) /\ Ranged(x, lo, hi, l, s) /\ x.tag = "node"
        /\ l \in Nat /\ s \in Nat /\ k \in Int /\ m = Len(x.keys)
    BY <1>4
  <2>5. b = Node(ks, vs)
    BY <1>6
  <2> HIDE DEF u, ks, vs
  <2>6. /\ ks \in Seq(Nat) /\ Len(ks) = (m + 1) + 0 /\ Joined(x.keys, m, s, u.keys, 0, ks)
    <3>1. (m + 1) + 0 = m + 1 /\ \A j \in 1..0 : FALSE
      BY <1>7
    <3>2. QED
      BY ONLY <2>1, <3>1 DEF Ended, Joined
  <2>7. /\ vs \in Seq(Nat) /\ Len(vs) = Len(ks) + 1
        /\ Joined(x.values, m, x.values[m + 1], u.values, 0 + 1, vs)
    <3>1. /\ (m + 1) + 1 = Len(ks) + 1 /\ m + 1 \in 1..(m + 1)
          /\ \A j \in 1..m : j \in 1..(m + 1)
          /\ \A j \in 1..(0 + 1) : j = 1
      BY <1>7, <2>6
    <3>2. QED
      BY ONLY <2>2, <2>3, <3>1 DEF Ended, Joined
  <2>8. u.tag = "node" /\ 0 = Len(u.keys)
    BY <2>3
  <2>9. Ranged(Node(ks, vs), lo, hi, l, k)
    BY ONLY <2>4, <2>6, <2>7, <2>8, NodesJoined
  <2>10. QED
    BY <2>5, <2>9
<1>9. Kids(a) \subseteq Kids(y)
  <2>1. 1 \in Nat /\ 1 + n <= Len(y.values) /\ Len(y.values) \in Nat
    BY <1>1
  <2>2. QED
    BY <2>1, <1>1, <1>2, PartMembers DEF Kids
<1>10. Kids(b) \subseteq Kids(x) \cup Kids(y)
  <2>1. b.values = array_insert(x.values, m + 1, c) /\ m + 1 \in 0..Len(x.values)
    BY <1>6, <1>7 DEF Node
  <2>2. x.values \in Seq(Nat) /\ c \in Nat /\ m + 1 \in 0..Len(x.values)
    BY <2>1, <1>1, <1>7
  <2>3. Members(array_insert(x.values, m + 1, c)) \subseteq Members(x.values) \cup {c}
    BY ONLY <2>2, InsertHolds
  <2>4. QED
    BY ONLY <2>1, <2>3, <1>1 DEF Kids
<1>11. a.tag = "node" /\ b.tag = "node"
  BY <1>6 DEF node_pop, Node
<1>12. QED
  BY <1>4, <1>5, <1>8, <1>9, <1>10, <1>11 DEF Halves, NodesLent

-----------------------------------------------------------------------------
(* Files and the ranges of their blocks *)

RangedAll(v, lo, hi) ==
  Bounds(lo, hi) /\ \A a \in Live(v) : Ranged(v[a], lo, hi, lo[a], hi[a])

LeavesOf(v) == {a \in Live(v) : v[a].tag = "leaf"}

\* The range of one of a and b ends before that of the other begins.
Apart(lo, hi, a, b) == (hi[a] # -1 /\ hi[a] <= lo[b]) \/ (hi[b] # -1 /\ hi[b] <= lo[a])

\* The ranges of the leaves are apart; a leaf points to the one whose range begins
\* where its own ends; the first one is block 1.
Listed(v, lo, hi) ==
  /\ \A a \in LeavesOf(v) : v[a].next = 0 => hi[a] = -1
  /\ \A a \in LeavesOf(v) : v[a].next # 0 => v[a].next \in LeavesOf(v) /\ lo[v[a].next] = hi[a]
  /\ \A a, b \in LeavesOf(v) : a # b => Apart(lo, hi, a, b)
  /\ 1 \in LeavesOf(v) /\ lo[1] = 0

Good(v, lo, hi) == RangedAll(v, lo, hi) /\ Listed(v, lo, hi)

LEMMA LeafOrNode ==
  ASSUME NEW f
  PROVE  /\ LeavesOf(f) \subseteq Live(f) /\ Inner(f) \subseteq Live(f)
         /\ Live(f) = LeavesOf(f) \cup Inner(f) /\ LeavesOf(f) \cap Inner(f) = {}
         /\ \A a \in Live(f) : f[a].tag \in {"leaf", "node"}
         /\ \A a \in Live(f) : (a \in LeavesOf(f) <=> f[a].tag = "leaf") /\ (a \in Inner(f) <=> f[a].tag = "node")
         /\ Live(f) \subseteq DOMAIN f
BY DEF LeavesOf, Live, Inner, IsLive

LEMMA GoodSame ==
  ASSUME NEW f, NEW g, SameLive(f, g), NEW lo, NEW hi, Good(f, lo, hi)
  PROVE  Good(g, lo, hi)
<1>1. Live(g) = Live(f) /\ \A a \in Live(f) : g[a] = f[a]
  BY DEF SameLive
<1>2. LeavesOf(g) = LeavesOf(f) /\ LeavesOf(f) \subseteq Live(f)
  BY <1>1 DEF LeavesOf
<1>3. RangedAll(g, lo, hi)
  BY <1>1 DEF Good, RangedAll
<1>4. \A a \in LeavesOf(f) : g[a] = f[a]
  BY <1>1, <1>2
<1>5. Listed(g, lo, hi)
  BY <1>2, <1>4 DEF Good, Listed
<1>6. QED
  BY <1>3, <1>5 DEF Good

\* The bounds of the blocks in C have changed.
OnlyFor(C, lo, hi, lo2, hi2) == \A a \in Nat : a \notin C => lo2[a] = lo[a] /\ hi2[a] = hi[a]

\* A block that is as it was, and its children have their old bounds.
Untouched(v, a, C) == a \notin C /\ (v[a].tag = "node" => Kids(v[a]) \cap C = {})

LEMMA RangesCarried ==
  ASSUME NEW v, NEW lo, NEW hi, RangedAll(v, lo, hi), NEW w, NEW lo2, NEW hi2, Bounds(lo2, hi2),
         NEW C, OnlyFor(C, lo, hi, lo2, hi2), Live(v) \subseteq Nat,
         NEW T, \A a \in Live(w) \ T : a \in Live(v) /\ w[a] = v[a] /\ Untouched(v, a, C),
         \A a \in Live(w) \cap T : Ranged(w[a], lo2, hi2, lo2[a], hi2[a])
  PROVE  RangedAll(w, lo2, hi2)
<1>1. ASSUME NEW a \in Live(w)
      PROVE  Ranged(w[a], lo2, hi2, lo2[a], hi2[a])
  <2>1. CASE a \in T
    BY <2>1
  <2>2. CASE a \notin T
    <3>1. a \in Live(v) /\ w[a] = v[a] /\ a \notin C /\ (v[a].tag = "node" => Kids(v[a]) \cap C = {})
      BY <2>2 DEF Untouched
    <3>2. a \in Nat /\ lo2[a] = lo[a] /\ hi2[a] = hi[a]
      BY <3>1 DEF OnlyFor
    <3>3. Ranged(v[a], lo, hi, lo[a], hi[a])
      BY <3>1 DEF RangedAll
    <3>4. v[a].tag = "node" => \A d \in Kids(v[a]) : lo2[d] = lo[d] /\ hi2[d] = hi[d]
      <4>1. \A j \in 1..Len(v[a].values) : v[a].values[j] \in Nat
        BY <3>3, RangedIs
      <4>2. \A d \in Kids(v[a]) : d \in Nat
        BY <4>1 DEF Kids, Members
      <4>3. QED
        BY <4>2, <3>1 DEF OnlyFor
    <3>5. Ranged(v[a], lo2, hi2, lo[a], hi[a])
      BY <3>3, <3>4, RangedSame
    <3>6. QED
      BY <3>1, <3>2, <3>5
  <2>3. QED
    BY <2>1, <2>2
<1>2. QED
  BY <1>1 DEF RangedAll

LEMMA SameBounds ==
  ASSUME NEW lo, NEW hi, Bounds(lo, hi), NEW a \in Nat
  PROVE  lo[a] \in Nat /\ hi[a] \in Int
BY DEF Bounds

\* The same leaves, with the same bounds and the same list.
LEMMA ListedSame ==
  ASSUME NEW v, NEW lo, NEW hi, Listed(v, lo, hi), NEW w, LeavesOf(w) = LeavesOf(v),
         \A a \in LeavesOf(v) : w[a].next = v[a].next, NEW lo2, NEW hi2,
         \A a \in LeavesOf(v) : lo2[a] = lo[a] /\ hi2[a] = hi[a]
  PROVE  Listed(w, lo2, hi2)
<1>1. \A a \in LeavesOf(w) : w[a].next = 0 => hi2[a] = -1
  BY DEF Listed
<1>2. \A a \in LeavesOf(w) : w[a].next # 0 => w[a].next \in LeavesOf(w) /\ lo2[w[a].next] = hi2[a]
  BY DEF Listed
<1>3. \A a, b \in LeavesOf(w) : a # b => Apart(lo2, hi2, a, b)
  BY DEF Listed, Apart
<1>4. 1 \in LeavesOf(w) /\ lo2[1] = 0
  BY DEF Listed
<1>5. QED
  BY <1>1, <1>2, <1>3, <1>4 DEF Listed

\* One block is written over, in its range.
LEMMA Rewritten ==
  ASSUME NEW v, NEW lo, NEW hi, Good(v, lo, hi), NEW x \in Live(v), NEW w, Live(w) = Live(v),
         \A a \in Live(v) : a # x => w[a] = v[a],
         Ranged(w[x], lo, hi, lo[x], hi[x]), w[x].tag = v[x].tag,
         v[x].tag = "leaf" => w[x].next = v[x].next
  PROVE  Good(w, lo, hi)
<1>1. RangedAll(w, lo, hi)
  BY DEF Good, RangedAll
<1>2. LeavesOf(w) = LeavesOf(v) /\ \A a \in LeavesOf(v) : w[a].next = v[a].next
  BY DEF LeavesOf
<1>3. Listed(w, lo, hi)
  BY <1>2, ListedSame DEF Good
<1>4. QED
  BY <1>1, <1>3 DEF Good

-----------------------------------------------------------------------------
(* A block is cut in two *)

\* The range of x ends at k now, and n has the rest of it.
CutAt(lo, hi, x, n, k, lo2, hi2) ==
  /\ Bounds(lo2, hi2)
  /\ lo2[n] = k /\ hi2[n] = hi[x] /\ hi2[x] = k
  /\ \A a \in Nat : a # n => lo2[a] = lo[a]
  /\ \A a \in Nat : a # n /\ a # x => hi2[a] = hi[a]

LEMMA CutExists ==
  ASSUME NEW lo, NEW hi, Bounds(lo, hi), NEW x \in Nat, NEW n \in Nat, x # n, NEW k \in Nat
  PROVE  \E lo2, hi2 : CutAt(lo, hi, x, n, k, lo2, hi2)
<1> DEFINE l == [lo EXCEPT ![n] = k]
           h == [hi EXCEPT ![x] = k, ![n] = hi[x]]
<1>1. CutAt(lo, hi, x, n, k, l, h)
  BY DEF CutAt, Bounds
<1>2. QED
  BY <1>1

\* Two blocks b and c for the block x, with a part of its children each.
TwoFor(b, c, v, x) ==
  /\ b.tag = v[x].tag /\ c.tag = v[x].tag
  /\ KidsIn(b) \subseteq KidsIn(v[x]) /\ KidsIn(c) \subseteq KidsIn(v[x])

LEMMA CutListed ==
  ASSUME NEW v, NEW lo, NEW hi, Listed(v, lo, hi), Bounds(lo, hi), Live(v) \subseteq Nat,
         NEW x \in Live(v), NEW n \in Nat \ Live(v), n # 0, NEW k \in Nat, lo[x] < k, Under(k, hi[x]),
         NEW lo2, NEW hi2, CutAt(lo, hi, x, n, k, lo2, hi2),
         NEW w, v[x].tag = "leaf" => /\ LeavesOf(w) = LeavesOf(v) \cup {n}
                                     /\ w[x].next = n /\ w[n].next = v[x].next,
         v[x].tag # "leaf" => LeavesOf(w) = LeavesOf(v),
         \A a \in LeavesOf(v) : a # x => w[a].next = v[a].next
  PROVE  Listed(w, lo2, hi2)
<1>1. /\ \A a \in LeavesOf(v) : v[a].next = 0 => hi[a] = -1
      /\ \A a \in LeavesOf(v) : v[a].next # 0 => v[a].next \in LeavesOf(v) /\ lo[v[a].next] = hi[a]
      /\ \A a, b \in LeavesOf(v) : a # b => Apart(lo, hi, a, b)
      /\ 1 \in LeavesOf(v) /\ lo[1] = 0
  BY DEF Listed
<1>2. /\ lo2[n] = k /\ hi2[n] = hi[x] /\ hi2[x] = k
      /\ \A a \in LeavesOf(v) : a # n /\ lo2[a] = lo[a]
      /\ \A a \in LeavesOf(v) : a # x => hi2[a] = hi[a]
  BY DEF CutAt, LeavesOf
<1>3. \A a \in LeavesOf(v) : lo[a] \in Nat /\ hi[a] \in Int
  BY SameBounds DEF LeavesOf
<1>4. CASE v[x].tag # "leaf"
  <2>1. x \notin LeavesOf(v)
    BY <1>4 DEF LeavesOf
  <2>2. \A a \in LeavesOf(v) : a # x
    BY <2>1
  <2>3. /\ LeavesOf(w) = LeavesOf(v) /\ \A a \in LeavesOf(v) : w[a].next = v[a].next
        /\ \A a \in LeavesOf(v) : lo2[a] = lo[a] /\ hi2[a] = hi[a]
    BY <2>2, <1>2, <1>4
  <2>4. QED
    BY <2>3, ListedSame
<1>5. CASE v[x].tag = "leaf"
  <2>0. /\ x \in LeavesOf(v) /\ LeavesOf(w) = LeavesOf(v) \cup {n} /\ w[x].next = n
        /\ w[n].next = v[x].next /\ \A a \in LeavesOf(v) : a # x => w[a].next = v[a].next
        /\ lo[x] \in Nat /\ hi[x] \in Int
    BY <1>5, <1>3 DEF LeavesOf
  <2>1. ASSUME NEW a \in LeavesOf(w), w[a].next = 0
        PROVE  hi2[a] = -1
    <3>1. CASE a = n
      BY <3>1, <2>0, <2>1, <1>1, <1>2
    <3>2. CASE a # n
      BY <3>2, <2>0, <2>1, <1>1, <1>2
    <3>3. QED
      BY <3>1, <3>2
  <2>2. ASSUME NEW a \in LeavesOf(w), w[a].next # 0
        PROVE  w[a].next \in LeavesOf(w) /\ lo2[w[a].next] = hi2[a]
    <3>1. CASE a = n
      <4>1. v[x].next # 0 /\ w[a].next = v[x].next
        BY <3>1, <2>0, <2>2
      <4>2. v[x].next \in LeavesOf(v) /\ lo[v[x].next] = hi[x]
        BY <4>1, <2>0, <1>1
      <4>3. lo2[v[x].next] = lo[v[x].next] /\ hi2[a] = hi[x]
        BY <4>2, <3>1, <1>2
      <4>4. QED
        BY <4>1, <4>2, <4>3, <2>0
    <3>2. CASE a = x
      BY <3>2, <2>0, <1>2
    <3>3. CASE a # n /\ a # x
      <4>1. a \in LeavesOf(v) /\ w[a].next = v[a].next
        BY <3>3, <2>0
      <4>2. v[a].next # 0 /\ v[a].next \in LeavesOf(v) /\ lo[v[a].next] = hi[a]
        BY <4>1, <2>2, <1>1
      <4>3. lo2[v[a].next] = lo[v[a].next] /\ hi2[a] = hi[a]
        BY <4>1, <4>2, <3>3, <1>2
      <4>4. QED
        BY <4>1, <4>2, <4>3, <2>0
    <3>4. QED
      BY <3>1, <3>2, <3>3
  <2>3. \A b \in LeavesOf(v) : b # x => Apart(lo2, hi2, x, b) /\ Apart(lo2, hi2, n, b)
    <3>1. ASSUME NEW b \in LeavesOf(v), b # x
          PROVE  Apart(lo2, hi2, x, b) /\ Apart(lo2, hi2, n, b)
      <4>1. (hi[x] # -1 /\ hi[x] <= lo[b]) \/ (hi[b] # -1 /\ hi[b] <= lo[x])
        BY <3>1, <2>0, <1>1 DEF Apart
      <4>2. /\ lo2[x] = lo[x] /\ hi2[x] = k /\ lo2[n] = k /\ hi2[n] = hi[x]
            /\ lo2[b] = lo[b] /\ hi2[b] = hi[b] /\ lo[b] \in Nat /\ hi[b] \in Int
        BY <3>1, <2>0, <1>2, <1>3
      <4>3. QED
        BY ONLY <4>1, <4>2, <2>0, k \in Nat, lo[x] < k, Under(k, hi[x]) DEF Apart, Under
    <3>2. QED
      BY <3>1
  <2>4. Apart(lo2, hi2, x, n)
    BY <2>0, <1>2 DEF Apart
  <2>5. \A a, b : Apart(lo2, hi2, a, b) <=> Apart(lo2, hi2, b, a)
    BY DEF Apart
  <2>6. ASSUME NEW a \in LeavesOf(w), NEW b \in LeavesOf(w), a # b
        PROVE  Apart(lo2, hi2, a, b)
    <3>1. CASE a \in {x, n} \/ b \in {x, n}
      BY <3>1, <2>0, <2>3, <2>4, <2>5, <2>6
    <3>2. CASE a \notin {x, n} /\ b \notin {x, n}
      <4>1. /\ a \in LeavesOf(v) /\ b \in LeavesOf(v) /\ Apart(lo, hi, a, b)
            /\ lo2[a] = lo[a] /\ hi2[a] = hi[a] /\ lo2[b] = lo[b] /\ hi2[b] = hi[b]
        BY <3>2, <2>0, <2>6, <1>1, <1>2
      <4>2. QED
        BY <4>1 DEF Apart
    <3>3. QED
      BY <3>1, <3>2
  <2>7. 1 \in LeavesOf(w) /\ lo2[1] = 0
    BY <2>0, <1>1, <1>2
  <2>8. QED
    BY <2>1, <2>2, <2>6, <2>7 DEF Listed
<1>6. QED
  BY <1>4, <1>5

\* The tree v, and the blocks b and c that its block x is cut into.
Cutting(v, lv, lo, hi, x, n, k, b, c, lo2, hi2) ==
  /\ Forest(v, lv, {}) /\ lv \in [Nat -> Nat] /\ Live(v) \subseteq Nat /\ Good(v, lo, hi)
  /\ x \in Live(v) /\ n \in Nat \ Live(v) /\ n # 0
  /\ Halves(b, c, lo, hi, lo[x], k, hi[x]) /\ TwoFor(b, c, v, x)
  /\ v[x].tag = "leaf" => b.next = n /\ c.next = v[x].next
  /\ CutAt(lo, hi, x, n, k, lo2, hi2)

\* The tree w has b at x and c at n, and is v but for the blocks in T.
CutDone(v, w, x, n, b, c, T) ==
  /\ Live(w) = Live(v) \cup {n} /\ w[x] = b /\ w[n] = c
  /\ \A a \in Live(v) : a \notin T /\ a # x => w[a] = v[a]

\* The parent of x is in T.
Over(v, x, T) == T \subseteq Inner(v) \ {x} /\ \A a \in Inner(v) \ T : x \notin Kids(v[a])

LEMMA Cut ==
  ASSUME NEW v, NEW lv, NEW lo, NEW hi, NEW x, NEW n, NEW k, NEW b, NEW c, NEW lo2, NEW hi2,
         Cutting(v, lv, lo, hi, x, n, k, b, c, lo2, hi2), NEW T, Over(v, x, T),
         NEW w, CutDone(v, w, x, n, b, c, T),
         \A a \in T : w[a].tag = "node" /\ Ranged(w[a], lo2, hi2, lo2[a], hi2[a])
  PROVE  Good(w, lo2, hi2)
<1>0. /\ Forest(v, lv, {}) /\ lv \in [Nat -> Nat] /\ Live(v) \subseteq Nat /\ Good(v, lo, hi)
      /\ x \in Live(v) /\ n \in Nat \ Live(v) /\ n # 0
      /\ Halves(b, c, lo, hi, lo[x], k, hi[x]) /\ TwoFor(b, c, v, x)
      /\ v[x].tag = "leaf" => b.next = n /\ c.next = v[x].next
      /\ CutAt(lo, hi, x, n, k, lo2, hi2)
      /\ Live(w) = Live(v) \cup {n} /\ w[x] = b /\ w[n] = c
      /\ \A a \in Live(v) : a \notin T /\ a # x => w[a] = v[a]
      /\ T \subseteq Inner(v) \ {x} /\ \A a \in Inner(v) \ T : x \notin Kids(v[a])
  BY DEF Cutting, CutDone, Over
<1>1. /\ k \in Nat /\ lo[x] < k /\ Under(k, hi[x])
      /\ Ranged(b, lo, hi, lo[x], k) /\ Ranged(c, lo, hi, k, hi[x])
  BY <1>0 DEF Halves
<1>2. /\ RangedAll(v, lo, hi) /\ Bounds(lo, hi) /\ Listed(v, lo, hi) /\ x \in Nat /\ n \in Nat /\ x # n
  BY <1>0 DEF Good, RangedAll
<1>3. \A a \in Inner(v) : Kids(v[a]) \subseteq Live(v) /\ a \notin Kids(v[a])
  <2>1. \A a \in Inner(v) : \A d \in Kids(v[a]) : d \in Live(v) /\ lv[a] = lv[d] + 1
    BY <1>0 DEF Forest
  <2>2. \A a \in Inner(v) : lv[a] \in Nat
    BY <1>0, LeafOrNode
  <2>3. QED
    BY <1>0, <2>1, <2>2
<1>4. /\ lo2[n] = k /\ hi2[n] = hi[x] /\ hi2[x] = k /\ lo2[x] = lo[x] /\ Bounds(lo2, hi2)
      /\ OnlyFor({x, n}, lo, hi, lo2, hi2)
  BY <1>0, <1>2 DEF CutAt, OnlyFor
<1>5. \A d \in KidsIn(v[x]) : d # x /\ d # n /\ d \in Nat
  <2>1. v[x].tag = "node" => x \in Inner(v)
    BY <1>0, LeafOrNode
  <2>2. QED
    BY <1>0, <2>1, <1>3 DEF KidsIn
<1>6. \A d \in KidsIn(b) \cup KidsIn(c) : lo2[d] = lo[d] /\ hi2[d] = hi[d]
  BY <1>0, <1>4, <1>5 DEF TwoFor, OnlyFor
<1>7. Ranged(b, lo2, hi2, lo2[x], hi2[x]) /\ Ranged(c, lo2, hi2, lo2[n], hi2[n])
  <2>1. /\ b.tag = "node" => \A d \in Kids(b) : lo2[d] = lo[d] /\ hi2[d] = hi[d]
        /\ c.tag = "node" => \A d \in Kids(c) : lo2[d] = lo[d] /\ hi2[d] = hi[d]
    BY <1>0, <1>6 DEF KidsIn
  <2>2. Ranged(b, lo2, hi2, lo[x], k)
    BY <1>0, <2>1, <1>1, RangedSame
  <2>3. Ranged(c, lo2, hi2, k, hi[x])
    BY <1>0, <2>1, <1>1, RangedSame
  <2>4. QED
    BY <1>0, <2>2, <2>3, <1>4
<1> DEFINE U == T \cup {x, n}
<1>8. \A a \in Live(w) \cap U : Ranged(w[a], lo2, hi2, lo2[a], hi2[a])
  BY <1>0, <1>7
<1>9. \A a \in Live(w) \ U : a \in Live(v) /\ w[a] = v[a] /\ Untouched(v, a, {x, n})
  <2>1. ASSUME NEW a \in Live(w) \ U
        PROVE  a \in Live(v) /\ w[a] = v[a] /\ Untouched(v, a, {x, n})
    <3>1. a \in Live(v) /\ w[a] = v[a] /\ a \notin {x, n}
      BY <1>0
    <3>2. v[a].tag = "node" => a \in Inner(v) \ T
      BY <1>0, <3>1, LeafOrNode
    <3>3. v[a].tag = "node" => x \notin Kids(v[a]) /\ n \notin Kids(v[a])
      BY <1>0, <3>2, <1>3
    <3>4. QED
      BY <1>0, <3>1, <3>3 DEF Untouched
  <2>2. QED
    BY <1>0, <2>1
<1>10. RangedAll(w, lo2, hi2)
  <2> HIDE DEF U
  <2>1. QED
    BY <1>0, <1>2, <1>4, <1>8, <1>9, RangesCarried
<1>11. Listed(w, lo2, hi2)
  <2>1. \A a \in LeavesOf(v) : a # x => w[a] = v[a] /\ a \in LeavesOf(w)
    <3>1. \A a \in LeavesOf(v) : a \notin T /\ a \in Live(v)
      BY <1>0, LeafOrNode
    <3>2. QED
      BY <1>0, <3>1 DEF LeavesOf
  <2>2. \A a \in Live(w) : a \notin {x, n} => (w[a].tag = v[a].tag /\ a \in Live(v))
    <3>1. \A a \in T : v[a].tag = "node"
      BY <1>0, LeafOrNode
    <3>2. QED
      BY <1>0, <3>1
  <2>3. v[x].tag = "leaf" => LeavesOf(w) = LeavesOf(v) \cup {n} /\ w[x].next = n /\ w[n].next = v[x].next
    BY <1>0, <2>2 DEF LeavesOf, TwoFor
  <2>4. v[x].tag # "leaf" => LeavesOf(w) = LeavesOf(v)
    BY <1>0, <2>2 DEF LeavesOf, TwoFor
  <2>5. \A a \in LeavesOf(v) : a # x => w[a].next = v[a].next
    BY <1>0, <2>1
  <2>6. QED
    BY <1>0, <2>3, <2>4, <2>5, <1>1, <1>2, CutListed
<1>12. QED
  BY <1>0, <1>10, <1>11 DEF Good

\* A child has one parent.
LEMMA OneParent ==
  ASSUME NEW v, NEW lv, Forest(v, lv, {}), lv \in [Nat -> Nat], Live(v) \subseteq Nat,
         NEW p \in Inner(v)
  PROVE  /\ p \in Live(v) /\ p \in Nat /\ v[p].tag = "node" /\ Distinct(v[p].values)
         /\ \A x \in Kids(v[p]) : /\ x \in Live(v) /\ x # p
                                  /\ \A a \in Inner(v) : a # p => x \notin Kids(v[a])
<1>1. p \in Live(v) /\ p \in Nat /\ v[p].tag = "node"
  BY LeafOrNode
<1>2. Distinct(v[p].values)
  BY DEF Forest
<1>3. ASSUME NEW x \in Kids(v[p])
      PROVE  x \in Live(v) /\ x # p /\ \A a \in Inner(v) : a # p => x \notin Kids(v[a])
  <2>1. x \in Live(v) /\ lv[p] = lv[x] + 1
    BY DEF Forest
  <2>2. lv[p] \in Nat
    BY <1>1
  <2>3. \A a \in Inner(v) : a # p => Kids(v[a]) \cap Kids(v[p]) = {}
    BY DEF Forest
  <2>4. QED
    BY <2>1, <2>2, <2>3
<1>4. QED
  BY <1>1, <1>2, <1>3

\* The range of a child, from the keys of its parent.
LEMMA ChildRange ==
  ASSUME NEW b, b.tag = "node", NEW lo, NEW hi, NEW l, NEW h, Ranged(b, lo, hi, l, h),
         NEW len, len = Len(b.keys), NEW i, i \in 0..len
  PROVE  /\ len \in Nat /\ b.values[i + 1] \in Kids(b)
         /\ lo[b.values[i + 1]] = LeftOf(b.keys, l, i + 1)
         /\ hi[b.values[i + 1]] = RightOf(b.keys, len, h, i + 1)
<1>1. len \in Nat /\ Len(b.values) = len + 1 /\ Fences(b.keys, b.values, len, lo, hi, l, h)
  BY RangedIs
<1>2. i + 1 \in 1..(len + 1)
  BY <1>1
<1>3. QED
  BY <1>1, <1>2 DEF Fences, Kids, Members

LEMMA CutUnder ==
  ASSUME NEW v, NEW lv, NEW lo, NEW hi, NEW x, NEW n, NEW k, NEW b, NEW c, NEW lo2, NEW hi2,
         Cutting(v, lv, lo, hi, x, n, k, b, c, lo2, hi2),
         NEW p \in Inner(v), NEW i, i \in 0..Len(v[p].keys), x = v[p].values[i + 1],
         NEW w, CutDone(v, w, x, n, b, c, {p}), w[p] = node_insert(v[p], i, i + 1, k, n)
  PROVE  Good(w, lo2, hi2)
<1>0. /\ Forest(v, lv, {}) /\ lv \in [Nat -> Nat] /\ Live(v) \subseteq Nat /\ Good(v, lo, hi)
      /\ x \in Live(v) /\ n \in Nat \ Live(v) /\ n # 0
      /\ Halves(b, c, lo, hi, lo[x], k, hi[x]) /\ CutAt(lo, hi, x, n, k, lo2, hi2)
  BY DEF Cutting
<1>1. /\ p \in Live(v) /\ p \in Nat /\ v[p].tag = "node" /\ Distinct(v[p].values)
      /\ \A d \in Kids(v[p]) : /\ d \in Live(v) /\ d # p
                               /\ \A a \in Inner(v) : a # p => d \notin Kids(v[a])
  BY <1>0, OneParent
<1>2. /\ Ranged(v[p], lo, hi, lo[p], hi[p]) /\ lo[p] \in Nat /\ hi[p] \in Int
      /\ Bounds(lo, hi)
  BY <1>0, <1>1, SameBounds DEF Good, RangedAll
<1>3. /\ x \in Kids(v[p]) /\ lo[x] = LeftOf(v[p].keys, lo[p], i + 1)
      /\ hi[x] = RightOf(v[p].keys, Len(v[p].keys), hi[p], i + 1)
  <2> DEFINE e == v[p]
  <2>1. /\ e.tag = "node" /\ Ranged(e, lo, hi, lo[p], hi[p]) /\ i \in 0..Len(e.keys)
        /\ x = e.values[i + 1]
    BY <1>1, <1>2
  <2> HIDE DEF e
  <2>2. /\ e.values[i + 1] \in Kids(e) /\ lo[e.values[i + 1]] = LeftOf(e.keys, lo[p], i + 1)
        /\ hi[e.values[i + 1]] = RightOf(e.keys, Len(e.keys), hi[p], i + 1)
    BY ONLY <2>1, ChildRange
  <2>3. QED
    BY <2>1, <2>2 DEF e
<1>4. k \in Nat /\ lo[x] < k /\ Under(k, hi[x])
  BY <1>0 DEF Halves
<1>5. /\ lo2[n] = k /\ hi2[n] = hi[x] /\ hi2[x] = k /\ lo2[p] = lo[p] /\ hi2[p] = hi[p]
      /\ \A d \in Kids(v[p]) : lo2[d] = lo[d] /\ hi2[d] = IF d = x THEN k ELSE hi[d]
  BY <1>0, <1>1, <1>3 DEF CutAt
<1>6. Ranged(node_insert(v[p], i, i + 1, k, n), lo2, hi2, lo[p], hi[p])
  <2> DEFINE e == v[p]
             l == lo[p]
             h == hi[p]
  <2>1. /\ e.tag = "node" /\ Distinct(e.values) /\ l \in Nat /\ h \in Int /\ Ranged(e, lo, hi, l, h)
        /\ i \in 0..Len(e.keys) /\ k \in Nat /\ n \in Nat
        /\ LeftOf(e.keys, l, i + 1) < k /\ Under(k, RightOf(e.keys, Len(e.keys), h, i + 1))
        /\ x = e.values[i + 1] /\ lo2[n] = k /\ hi2[n] = hi[x]
        /\ Narrowed(Kids(e), lo, hi, lo2, hi2, x, k)
    BY <1>0, <1>1, <1>2, <1>3, <1>4, <1>5 DEF Narrowed
  <2> HIDE DEF e, l, h
  <2>2. Ranged(node_insert(e, i, i + 1, k, n), lo2, hi2, l, h)
    BY ONLY <2>1, ChildInserted
  <2>3. QED
    BY <2>2 DEF e, l, h
<1>7. w[p].tag = "node" /\ Ranged(w[p], lo2, hi2, lo2[p], hi2[p])
  BY <1>5, <1>6 DEF node_insert, Node
<1>8. Over(v, x, {p})
  BY <1>1, <1>3 DEF Over
<1>9. QED
  BY <1>7, <1>8, Cut

LEMMA CutTop ==
  ASSUME NEW v, NEW lv, NEW lo, NEW hi, NEW x, NEW n, NEW k, NEW b, NEW c, NEW lo2, NEW hi2,
         Cutting(v, lv, lo, hi, x, n, k, b, c, lo2, hi2), Loose(v, x),
         NEW w, CutDone(v, w, x, n, b, c, {})
  PROVE  Good(w, lo2, hi2)
<1>1. Over(v, x, {})
  BY DEF Loose, Over
<1>2. QED
  BY <1>1, Cut

-----------------------------------------------------------------------------
(* Two neighbours under one node *)

\* x and y are the children at slots i + 1 and i + 2 of p.
Beside(v, lv, lo, hi, p, i, x, y) ==
  /\ Forest(v, lv, {}) /\ lv \in [Nat -> Nat] /\ Live(v) \subseteq Nat /\ Good(v, lo, hi)
  /\ p \in Inner(v) /\ i \in 0..(Len(v[p].keys) - 1)
  /\ x = v[p].values[i + 1] /\ y = v[p].values[i + 2]

LEMMA Neighbours ==
  ASSUME NEW v, NEW lv, NEW lo, NEW hi, NEW p, NEW i, NEW x, NEW y,
         Beside(v, lv, lo, hi, p, i, x, y)
  PROVE  /\ p \in Live(v) /\ p \in Nat /\ v[p].tag = "node" /\ Distinct(v[p].values)
         /\ x \in Live(v) /\ y \in Live(v) /\ x # p /\ y # p /\ x # y
         /\ x \in Kids(v[p]) /\ y \in Kids(v[p])
         /\ \A a \in Inner(v) : a # p => x \notin Kids(v[a]) /\ y \notin Kids(v[a])
         /\ Ranged(v[p], lo, hi, lo[p], hi[p]) /\ lo[p] \in Nat /\ hi[p] \in Int
         /\ lo[y] = hi[x] /\ lo[x] \in Nat /\ lo[y] \in Nat /\ hi[y] \in Int
         /\ lo[x] < lo[y] /\ Under(lo[y], hi[y])
         /\ \A d \in KidsIn(v[x]) \cup KidsIn(v[y]) : d \in Nat /\ d # x /\ d # y
<1>0. /\ Forest(v, lv, {}) /\ lv \in [Nat -> Nat] /\ Live(v) \subseteq Nat /\ Good(v, lo, hi)
      /\ p \in Inner(v) /\ i \in 0..(Len(v[p].keys) - 1)
      /\ x = v[p].values[i + 1] /\ y = v[p].values[i + 2]
  BY DEF Beside
<1>1. /\ p \in Live(v) /\ p \in Nat /\ v[p].tag = "node" /\ Distinct(v[p].values)
      /\ \A d \in Kids(v[p]) : /\ d \in Live(v) /\ d # p
                               /\ \A a \in Inner(v) : a # p => d \notin Kids(v[a])
  BY <1>0, OneParent
<1>2. /\ RangedAll(v, lo, hi) /\ Bounds(lo, hi) /\ Ranged(v[p], lo, hi, lo[p], hi[p])
      /\ lo[p] \in Nat /\ hi[p] \in Int
  BY <1>0, <1>1, SameBounds DEF Good, RangedAll
<1> DEFINE e == v[p]
           len == Len(e.keys)
<1>3. len \in Nat /\ Len(e.values) = len + 1
  BY <1>1, <1>2, RangedIs
<1>4. /\ i \in 0..len /\ i + 1 \in 0..len /\ (i + 1) + 1 = i + 2
      /\ i + 2 # 1 /\ (i + 2) - 1 = i + 1 /\ i + 1 # len + 1
      /\ i + 1 \in 1..(len + 1) /\ i + 2 \in 1..(len + 1) /\ i + 1 # i + 2
  <2>1. len \in Nat /\ i \in 0..(len - 1)
    BY <1>0, <1>3
  <2> HIDE DEF len
  <2>2. QED
    BY ONLY <2>1
<1>5. /\ x \in Kids(e) /\ hi[x] = RightOf(e.keys, len, hi[p], i + 1)
      /\ y \in Kids(e) /\ lo[y] = LeftOf(e.keys, lo[p], i + 2)
  <2>1. e.tag = "node" /\ Ranged(e, lo, hi, lo[p], hi[p]) /\ x = e.values[i + 1] /\ y = e.values[(i + 1) + 1]
        /\ len = Len(e.keys)
    BY <1>0, <1>1, <1>2, <1>4
  <2> HIDE DEF e, len
  <2>2. x \in Kids(e) /\ hi[x] = RightOf(e.keys, len, hi[p], i + 1)
    BY ONLY <2>1, <1>4, ChildRange
  <2>3. y \in Kids(e) /\ lo[y] = LeftOf(e.keys, lo[p], (i + 1) + 1)
    BY ONLY <2>1, <1>4, ChildRange
  <2>4. QED
    BY <2>2, <2>3, <1>4
<1>6. lo[y] = hi[x]
  <2> HIDE DEF e, len
  <2>2. QED
    BY ONLY <1>4, <1>5 DEF LeftOf, RightOf
<1>7. x # y
  <2>1. i + 1 \in 1..Len(e.values) /\ i + 2 \in 1..Len(e.values) /\ i + 1 # i + 2
    <3>1. Len(e.values) = len + 1
      BY <1>3
    <3> HIDE DEF e, len
    <3>2. QED
      BY ONLY <3>1, <1>4
  <2>2. Distinct(e.values) /\ x = e.values[i + 1] /\ y = e.values[i + 2]
    BY <1>0, <1>1
  <2>3. QED
    BY ONLY <2>1, <2>2 DEF Distinct
<1>8. x \in Live(v) /\ y \in Live(v) /\ x # p /\ y # p
  BY <1>1, <1>5
<1>9. /\ lo[x] \in Nat /\ lo[y] \in Nat /\ hi[x] \in Int /\ hi[y] \in Int
      /\ Under(lo[x], hi[x]) /\ Under(lo[y], hi[y])
  <2>1. Ranged(v[x], lo, hi, lo[x], hi[x]) /\ Ranged(v[y], lo, hi, lo[y], hi[y])
    BY <1>2, <1>8 DEF RangedAll
  <2>2. x \in Nat /\ y \in Nat
    BY <1>0, <1>8
  <2>3. QED
    BY <2>1, <2>2, <1>2, SameBounds, RangedIs
<1>10. lo[x] < lo[y]
  BY <1>6, <1>9 DEF Under
<1>11. \A d \in KidsIn(v[x]) \cup KidsIn(v[y]) : d \in Nat /\ d # x /\ d # y
  <2>1. lv[p] = lv[x] + 1 /\ lv[p] = lv[y] + 1
    BY <1>0, <1>5 DEF Forest
  <2>2. lv[x] \in Nat /\ lv[y] \in Nat
    BY <1>0, <1>8
  <2>3. \A z \in {x, y} : v[z].tag = "node" => \A d \in Kids(v[z]) : d \in Live(v) /\ lv[z] = lv[d] + 1
    <3>1. \A a \in Inner(v) : \A d \in Kids(v[a]) : d \in Live(v) /\ lv[a] = lv[d] + 1
      BY <1>0 DEF Forest
    <3>2. \A z \in {x, y} : v[z].tag = "node" => z \in Inner(v)
      BY <1>8, LeafOrNode
    <3>3. QED
      BY ONLY <3>1, <3>2
  <2>4. \A d \in KidsIn(v[x]) \cup KidsIn(v[y]) : d \in Live(v) /\ lv[x] = lv[d] + 1
    BY <2>1, <2>2, <2>3 DEF KidsIn
  <2>5. QED
    <3>1. lv[x] = lv[y]
      BY <2>1, <2>2
    <3>2. \A d \in Live(v) : d \in Nat /\ lv[d] \in Nat
      BY <1>0
    <3>3. QED
      BY ONLY <2>2, <2>4, <3>1, <3>2
<1>12. QED
  BY <1>1, <1>2, <1>5, <1>6, <1>7, <1>8, <1>9, <1>10, <1>11

\* The leaf behind x is the one whose range begins where that of x ends.
LEMMA LeafBehind ==
  ASSUME NEW v, NEW lo, NEW hi, Good(v, lo, hi), Live(v) \subseteq Nat,
         NEW x \in LeavesOf(v), NEW y \in LeavesOf(v), lo[y] = hi[x]
  PROVE  v[x].next = y /\ \A a \in LeavesOf(v) : a # x => v[a].next # y
<1>1. \A a \in LeavesOf(v) : lo[a] \in Nat /\ hi[a] \in Int /\ Under(lo[a], hi[a])
  <2>1. \A a \in LeavesOf(v) : a \in Nat /\ Ranged(v[a], lo, hi, lo[a], hi[a])
    BY LeafOrNode DEF Good, RangedAll
  <2>2. Bounds(lo, hi)
    BY DEF Good, RangedAll
  <2>3. QED
    BY <2>1, <2>2, SameBounds, RangedIs
<1>2. /\ \A a \in LeavesOf(v) : v[a].next = 0 => hi[a] = -1
      /\ \A a \in LeavesOf(v) : v[a].next # 0 => v[a].next \in LeavesOf(v) /\ lo[v[a].next] = hi[a]
      /\ \A a, b \in LeavesOf(v) : a # b => Apart(lo, hi, a, b)
  BY DEF Good, Listed
<1>3. \A a, b \in LeavesOf(v) : lo[a] = lo[b] => a = b
  BY <1>1, <1>2 DEF Apart, Under
<1>4. \A a, b \in LeavesOf(v) : hi[a] = hi[b] => a = b
  BY <1>1, <1>2 DEF Apart, Under
<1>5. hi[x] # -1
  BY <1>1
<1>6. v[x].next = y
  BY <1>2, <1>3, <1>5
<1>7. ASSUME NEW a \in LeavesOf(v), a # x, v[a].next = y
      PROVE  FALSE
  <2>1. CASE y = 0
    <3>1. hi[a] = -1 /\ hi[x] = -1
      BY <2>1, <1>2, <1>6, <1>7
    <3>2. QED
      BY <3>1, <1>5
  <2>2. CASE y # 0
    <3>1. lo[y] = hi[a]
      BY <2>2, <1>2, <1>7
    <3>2. QED
      BY <3>1, <1>4, <1>7
  <2>3. QED
    BY <2>1, <2>2
<1>8. QED
  BY <1>6, <1>7

\* The end of the range of x and the beginning of that of y are k now.
ShiftAt(lo, hi, x, y, k, lo2, hi2) ==
  /\ Bounds(lo2, hi2) /\ lo2[y] = k /\ hi2[x] = k
  /\ \A a \in Nat : a # y => lo2[a] = lo[a]
  /\ \A a \in Nat : a # x => hi2[a] = hi[a]

LEMMA ShiftExists ==
  ASSUME NEW lo, NEW hi, Bounds(lo, hi), NEW x \in Nat, NEW y \in Nat, NEW k \in Nat
  PROVE  \E lo2, hi2 : ShiftAt(lo, hi, x, y, k, lo2, hi2)
<1> DEFINE l == [lo EXCEPT ![y] = k]
           h == [hi EXCEPT ![x] = k]
<1>1. ShiftAt(lo, hi, x, y, k, l, h)
  BY DEF ShiftAt, Bounds
<1>2. QED
  BY <1>1

LEMMA ShiftListed ==
  ASSUME NEW v, NEW lo, NEW hi, Good(v, lo, hi), Live(v) \subseteq Nat,
         NEW x \in LeavesOf(v), NEW y \in LeavesOf(v), x # y, lo[y] = hi[x],
         NEW k \in Nat, lo[x] < k, Under(k, hi[y]),
         NEW lo2, NEW hi2, ShiftAt(lo, hi, x, y, k, lo2, hi2),
         NEW w, LeavesOf(w) = LeavesOf(v), \A a \in LeavesOf(v) : w[a].next = v[a].next
  PROVE  Listed(w, lo2, hi2)
<1>1. \A a \in LeavesOf(v) : lo[a] \in Nat /\ hi[a] \in Int /\ Under(lo[a], hi[a])
  <2>1. \A a \in LeavesOf(v) : a \in Nat /\ Ranged(v[a], lo, hi, lo[a], hi[a])
    BY LeafOrNode DEF Good, RangedAll
  <2>2. Bounds(lo, hi)
    BY DEF Good, RangedAll
  <2>3. QED
    BY <2>1, <2>2, SameBounds, RangedIs
<1>2. /\ \A a \in LeavesOf(v) : v[a].next = 0 => hi[a] = -1
      /\ \A a \in LeavesOf(v) : v[a].next # 0 => v[a].next \in LeavesOf(v) /\ lo[v[a].next] = hi[a]
      /\ \A a, b \in LeavesOf(v) : a # b => Apart(lo, hi, a, b)
      /\ 1 \in LeavesOf(v) /\ lo[1] = 0
  BY DEF Good, Listed
<1>3. v[x].next = y /\ \A a \in LeavesOf(v) : a # x => v[a].next # y
  BY LeafBehind
<1>4. /\ lo2[y] = k /\ hi2[x] = k
      /\ \A a \in LeavesOf(v) : a # y => lo2[a] = lo[a]
      /\ \A a \in LeavesOf(v) : a # x => hi2[a] = hi[a]
  BY DEF ShiftAt, LeavesOf
<1>5. hi[x] # -1 /\ lo[y] \in Nat
  BY <1>1
<1>6. y # 0
  BY <1>2, <1>3, <1>5
<1>7. \A a \in LeavesOf(w) : w[a].next = 0 => hi2[a] = -1
  BY <1>2, <1>3, <1>4, <1>6
<1>8. ASSUME NEW a \in LeavesOf(w), w[a].next # 0
      PROVE  w[a].next \in LeavesOf(w) /\ lo2[w[a].next] = hi2[a]
  <2>1. CASE a = x
    BY <2>1, <1>3, <1>4
  <2>2. CASE a # x
    <3>1. v[a].next # 0 /\ v[a].next # y /\ v[a].next \in LeavesOf(v) /\ w[a].next = v[a].next
      BY <2>2, <1>2, <1>3, <1>8
    <3>2. lo[v[a].next] = hi[a]
      BY <3>1, <1>2
    <3>3. lo2[v[a].next] = lo[v[a].next] /\ hi2[a] = hi[a]
      BY <3>1, <2>2, <1>4
    <3>4. QED
      BY <3>1, <3>2, <3>3
  <2>3. QED
    BY <2>1, <2>2
<1>9. ASSUME NEW a \in LeavesOf(w), NEW b \in LeavesOf(w), a # b
      PROVE  Apart(lo2, hi2, a, b)
  <2>1. \A c \in LeavesOf(v) : c # x /\ c # y => Apart(lo2, hi2, x, c) /\ Apart(lo2, hi2, y, c)
    <3>1. ASSUME NEW c \in LeavesOf(v), c # x, c # y
          PROVE  Apart(lo2, hi2, x, c) /\ Apart(lo2, hi2, y, c)
      <4>1. Apart(lo, hi, x, c) /\ Apart(lo, hi, y, c)
        BY <3>1, <1>2
      <4>2. /\ lo2[x] = lo[x] /\ hi2[x] = k /\ lo2[y] = k /\ hi2[y] = hi[y]
            /\ lo2[c] = lo[c] /\ hi2[c] = hi[c] /\ lo[c] \in Nat /\ hi[c] \in Int
            /\ lo[x] \in Nat /\ hi[x] \in Nat /\ hi[y] \in Int /\ lo[y] = hi[x]
            /\ Under(lo[c], hi[c]) /\ lo[x] < hi[x] /\ Under(lo[y], hi[y])
        BY <3>1, <1>1, <1>4, <1>5 DEF Under
      <4>3. QED
        BY ONLY <4>1, <4>2, k \in Nat, lo[x] < k, Under(k, hi[y]) DEF Apart, Under
    <3>2. QED
      BY <3>1
  <2>2. Apart(lo2, hi2, x, y)
    BY <1>4 DEF Apart
  <2>3. \A c, d : Apart(lo2, hi2, c, d) <=> Apart(lo2, hi2, d, c)
    BY DEF Apart
  <2>4. CASE a \in {x, y} \/ b \in {x, y}
    BY <2>1, <2>2, <2>3, <2>4, <1>9
  <2>5. CASE a \notin {x, y} /\ b \notin {x, y}
    <3>1. /\ Apart(lo, hi, a, b) /\ lo2[a] = lo[a] /\ hi2[a] = hi[a]
          /\ lo2[b] = lo[b] /\ hi2[b] = hi[b]
      BY <2>5, <1>2, <1>4, <1>9
    <3>2. QED
      BY <3>1 DEF Apart
  <2>6. QED
    BY <2>4, <2>5
<1>10. 1 \in LeavesOf(w) /\ lo2[1] = 0
  <2>1. 1 # y
    <3>1. lo[x] \in Nat /\ hi[x] \in Int /\ lo[x] < hi[x] /\ lo[y] = hi[x] /\ lo[1] = 0
      BY <1>1, <1>2, <1>5 DEF Under
    <3>2. QED
      BY ONLY <3>1
  <2>2. QED
    BY <2>1, <1>2, <1>4
<1>11. QED
  BY <1>7, <1>8, <1>9, <1>10 DEF Listed

Moving(v, lv, lo, hi, p, i, x, y, k, b, c, lo2, hi2) ==
  /\ Beside(v, lv, lo, hi, p, i, x, y)
  /\ Halves(b, c, lo, hi, lo[x], k, hi[y])
  /\ v[y].tag = v[x].tag /\ b.tag = v[x].tag /\ c.tag = v[x].tag
  /\ KidsIn(b) \cup KidsIn(c) \subseteq KidsIn(v[x]) \cup KidsIn(v[y])
  /\ v[x].tag = "leaf" => b.next = v[x].next /\ c.next = v[y].next
  /\ ShiftAt(lo, hi, x, y, k, lo2, hi2)

LEMMA Share ==
  ASSUME NEW v, NEW lv, NEW lo, NEW hi, NEW p, NEW i, NEW x, NEW y, NEW k, NEW b, NEW c,
         NEW lo2, NEW hi2, Moving(v, lv, lo, hi, p, i, x, y, k, b, c, lo2, hi2),
         NEW w, Live(w) = Live(v), w[x] = b, w[y] = c, w[p] = [v[p] EXCEPT !.keys[i + 1] = k],
         \A a \in Live(v) : a \notin {x, y, p} => w[a] = v[a]
  PROVE  Good(w, lo2, hi2)
<1>0. /\ Forest(v, lv, {}) /\ lv \in [Nat -> Nat] /\ Live(v) \subseteq Nat /\ Good(v, lo, hi)
      /\ p \in Inner(v) /\ i \in 0..(Len(v[p].keys) - 1)
      /\ x = v[p].values[i + 1] /\ y = v[p].values[i + 2]
      /\ RangedAll(v, lo, hi) /\ Bounds(lo, hi)
  BY DEF Moving, Beside, Good, RangedAll
<1>1. /\ v[y].tag = v[x].tag /\ b.tag = v[x].tag /\ c.tag = v[x].tag
      /\ KidsIn(b) \cup KidsIn(c) \subseteq KidsIn(v[x]) \cup KidsIn(v[y])
      /\ v[x].tag = "leaf" => b.next = v[x].next /\ c.next = v[y].next
      /\ k \in Nat /\ lo[x] < k /\ Under(k, hi[y])
      /\ Ranged(b, lo, hi, lo[x], k) /\ Ranged(c, lo, hi, k, hi[y])
      /\ ShiftAt(lo, hi, x, y, k, lo2, hi2)
  BY DEF Moving, Halves
<1>2. /\ p \in Live(v) /\ p \in Nat /\ v[p].tag = "node" /\ Distinct(v[p].values)
      /\ x \in Live(v) /\ y \in Live(v) /\ x # p /\ y # p /\ x # y
      /\ x \in Kids(v[p]) /\ y \in Kids(v[p])
      /\ \A a \in Inner(v) : a # p => x \notin Kids(v[a]) /\ y \notin Kids(v[a])
      /\ Ranged(v[p], lo, hi, lo[p], hi[p]) /\ lo[p] \in Nat /\ hi[p] \in Int
      /\ lo[y] = hi[x]
      /\ \A d \in KidsIn(v[x]) \cup KidsIn(v[y]) : d \in Nat /\ d # x /\ d # y
  <2>1. Beside(v, lv, lo, hi, p, i, x, y)
    BY DEF Moving
  <2>2. QED
    BY <2>1, Neighbours
<1>3. /\ lo2[y] = k /\ hi2[x] = k /\ lo2[x] = lo[x] /\ hi2[y] = hi[y] /\ Bounds(lo2, hi2)
      /\ lo2[p] = lo[p] /\ hi2[p] = hi[p]
      /\ OnlyFor({x, y}, lo, hi, lo2, hi2)
      /\ \A d \in Kids(v[p]) : lo2[d] = IF d = y THEN k ELSE lo[d]
      /\ \A d \in Kids(v[p]) : hi2[d] = IF d = x THEN k ELSE hi[d]
  <2>1. Kids(v[p]) \subseteq Nat
    BY <1>0, OneParent
  <2>2. x \in Nat /\ y \in Nat
    BY <1>0, <1>2
  <2>3. QED
    BY <2>1, <2>2, <1>1, <1>2 DEF ShiftAt, OnlyFor
<1>4. Ranged(b, lo2, hi2, lo2[x], hi2[x]) /\ Ranged(c, lo2, hi2, lo2[y], hi2[y])
  <2>1. \A d \in KidsIn(b) \cup KidsIn(c) : lo2[d] = lo[d] /\ hi2[d] = hi[d]
    BY <1>1, <1>2, <1>3 DEF OnlyFor
  <2>2. /\ b.tag = "node" => \A d \in Kids(b) : lo2[d] = lo[d] /\ hi2[d] = hi[d]
        /\ c.tag = "node" => \A d \in Kids(c) : lo2[d] = lo[d] /\ hi2[d] = hi[d]
    BY <2>1 DEF KidsIn
  <2>3. Ranged(b, lo2, hi2, lo[x], k)
    BY <2>2, <1>1, RangedSame
  <2>4. Ranged(c, lo2, hi2, k, hi[y])
    BY <2>2, <1>1, RangedSame
  <2>5. QED
    BY <2>3, <2>4, <1>3
<1>5. Ranged(w[p], lo2, hi2, lo2[p], hi2[p])
  <2> DEFINE e == v[p]
             l == lo[p]
             h == hi[p]
             len == Len(v[p].keys)
  <2>1. /\ e.tag = "node" /\ Distinct(e.values) /\ l \in Nat /\ h \in Int /\ Ranged(e, lo, hi, l, h)
        /\ len = Len(e.keys) /\ i \in 0..(len - 1) /\ k \in Nat
        /\ x = e.values[i + 1] /\ y = e.values[i + 2]
        /\ lo[x] < k /\ Under(k, hi[y])
        /\ \A d \in Kids(e) : lo2[d] = IF d = y THEN k ELSE lo[d]
        /\ \A d \in Kids(e) : hi2[d] = IF d = x THEN k ELSE hi[d]
    BY <1>0, <1>1, <1>2, <1>3
  <2> HIDE DEF e, l, h, len
  <2>2. Ranged([e EXCEPT !.keys[i + 1] = k], lo2, hi2, l, h)
    <3>1. MovedKey(e, len, lo, hi, l, h, i, k, x, y, lo2, hi2)
      BY ONLY <2>1 DEF MovedKey
    <3>2. QED
      BY ONLY <3>1, KeyMoved
  <2>3. QED
    BY <2>2, <1>3 DEF e, l, h
<1>6. RangedAll(w, lo2, hi2)
  <2>1. \A a \in Live(w) \cap {x, y, p} : Ranged(w[a], lo2, hi2, lo2[a], hi2[a])
    BY <1>4, <1>5
  <2>2. ASSUME NEW a \in Live(w) \ {x, y, p}
        PROVE  a \in Live(v) /\ w[a] = v[a] /\ Untouched(v, a, {x, y})
    <3>1. a \in Live(v) /\ w[a] = v[a] /\ a \notin {x, y} /\ a # p
      OBVIOUS
    <3>2. v[a].tag = "node" => x \notin Kids(v[a]) /\ y \notin Kids(v[a])
      BY <3>1, <1>2, LeafOrNode
    <3>3. QED
      BY <3>1, <3>2 DEF Untouched
  <2>3. \A a \in Live(w) \ {x, y, p} : a \in Live(v) /\ w[a] = v[a] /\ Untouched(v, a, {x, y})
    BY <2>2
  <2>4. RangedAll(v, lo, hi) /\ Bounds(lo2, hi2) /\ OnlyFor({x, y}, lo, hi, lo2, hi2) /\ Live(v) \subseteq Nat
    BY <1>0, <1>3
  <2>5. QED
    BY ONLY <2>1, <2>3, <2>4, RangesCarried
<1>7. w[p].tag = "node" /\ v[p].tag = "node" /\ p \notin LeavesOf(v)
  BY <1>2 DEF LeavesOf
<1>8. LeavesOf(w) = LeavesOf(v) /\ \A a \in LeavesOf(v) : w[a].next = v[a].next
  <2>1. \A a \in Live(v) : w[a].tag = v[a].tag
    BY <1>1, <1>7
  <2>2. \A a \in LeavesOf(v) : w[a].next = v[a].next
    BY <1>1, <1>7 DEF LeavesOf
  <2>3. QED
    BY <2>1, <2>2 DEF LeavesOf
<1>9. Listed(w, lo2, hi2)
  <2>1. CASE v[x].tag = "leaf"
    <3>1. x \in LeavesOf(v) /\ y \in LeavesOf(v)
      BY <2>1, <1>1, <1>2 DEF LeavesOf
    <3>2. /\ Good(v, lo, hi) /\ Live(v) \subseteq Nat /\ x # y /\ lo[y] = hi[x]
          /\ k \in Nat /\ lo[x] < k /\ Under(k, hi[y]) /\ ShiftAt(lo, hi, x, y, k, lo2, hi2)
      BY <1>0, <1>1, <1>2
    <3>3. QED
      BY ONLY <3>1, <3>2, <1>8, ShiftListed
  <2>2. CASE v[x].tag # "leaf"
    <3>1. \A a \in LeavesOf(v) : a # x /\ a # y /\ a \in Nat
      BY <2>2, <1>0, <1>1 DEF LeavesOf
    <3>2. \A a \in LeavesOf(v) : lo2[a] = lo[a] /\ hi2[a] = hi[a]
      BY <3>1, <1>3 DEF OnlyFor
    <3>3. Listed(v, lo, hi)
      BY <1>0 DEF Good
    <3>4. QED
      BY ONLY <3>2, <3>3, <1>8, ListedSame
  <2>3. QED
    BY <2>1, <2>2
<1>10. QED
  BY <1>6, <1>9 DEF Good

\* Mid-call, x and y are merged into the block b at x, and y is no block of the tree any more.
Uniting(v, lv, lo, hi, p, i, x, y, b, hi2) ==
  /\ Beside(v, lv, lo, hi, p, i, x, y)
  /\ Ranged(b, lo, hi, lo[x], hi[y])
  /\ v[y].tag = v[x].tag /\ b.tag = v[x].tag
  /\ KidsIn(b) \subseteq KidsIn(v[x]) \cup KidsIn(v[y])
  /\ v[x].tag = "leaf" => b.next = v[y].next
  /\ Bounds(lo, hi2) /\ hi2[x] = hi[y] /\ \A a \in Nat : a # x => hi2[a] = hi[a]

LEMMA MergedListed ==
  ASSUME NEW v, NEW lo, NEW hi, Good(v, lo, hi), Live(v) \subseteq Nat,
         NEW x \in LeavesOf(v), NEW y \in LeavesOf(v), x # y, lo[y] = hi[x],
         NEW hi2, hi2[x] = hi[y], \A a \in Nat : a # x => hi2[a] = hi[a],
         NEW w, LeavesOf(w) = LeavesOf(v) \ {y}, w[x].next = v[y].next,
         \A a \in LeavesOf(v) : a # x /\ a # y => w[a].next = v[a].next
  PROVE  Listed(w, lo, hi2)
<1>1. \A a \in LeavesOf(v) : lo[a] \in Nat /\ hi[a] \in Int /\ Under(lo[a], hi[a])
  <2>1. \A a \in LeavesOf(v) : a \in Nat /\ Ranged(v[a], lo, hi, lo[a], hi[a])
    BY LeafOrNode DEF Good, RangedAll
  <2>2. Bounds(lo, hi)
    BY DEF Good, RangedAll
  <2>3. QED
    BY <2>1, <2>2, SameBounds, RangedIs
<1>2. /\ \A a \in LeavesOf(v) : v[a].next = 0 => hi[a] = -1
      /\ \A a \in LeavesOf(v) : v[a].next # 0 => v[a].next \in LeavesOf(v) /\ lo[v[a].next] = hi[a]
      /\ \A a, b \in LeavesOf(v) : a # b => Apart(lo, hi, a, b)
      /\ 1 \in LeavesOf(v) /\ lo[1] = 0
  BY DEF Good, Listed
<1>3. v[x].next = y /\ \A a \in LeavesOf(v) : a # x => v[a].next # y
  BY LeafBehind
<1>4. hi2[x] = hi[y] /\ \A a \in LeavesOf(v) : a # x => hi2[a] = hi[a]
  BY DEF LeavesOf
<1>5. /\ hi[x] # -1 /\ lo[y] \in Nat /\ lo[x] < lo[y] /\ lo[x] \in Nat
  BY <1>1 DEF Under
<1>6. 1 # y
  <2>1. lo[1] = 0 /\ lo[x] \in Nat /\ lo[y] \in Nat /\ lo[x] < lo[y]
    BY <1>2, <1>5
  <2>2. QED
    BY ONLY <2>1
<1>7. v[y].next # y
  BY <1>3
<1>8. \A a \in LeavesOf(w) : w[a].next = 0 => hi2[a] = -1
  BY <1>2, <1>3, <1>4
<1>9. \A a \in LeavesOf(w) : w[a].next # 0 => w[a].next \in LeavesOf(w) /\ lo[w[a].next] = hi2[a]
  BY <1>2, <1>3, <1>4, <1>7
<1>10. ASSUME NEW a \in LeavesOf(w), NEW b \in LeavesOf(w), a # b
       PROVE  Apart(lo, hi2, a, b)
  <2>1. \A c \in LeavesOf(v) : c # x /\ c # y => Apart(lo, hi2, x, c)
    <3>1. ASSUME NEW c \in LeavesOf(v), c # x, c # y
          PROVE  Apart(lo, hi2, x, c)
      <4>1. Apart(lo, hi, x, c) /\ Apart(lo, hi, y, c)
        BY <3>1, <1>2
      <4>2. /\ hi2[x] = hi[y] /\ hi2[c] = hi[c] /\ lo[c] \in Nat /\ hi[c] \in Int
            /\ lo[x] \in Nat /\ hi[x] \in Nat /\ hi[y] \in Int /\ lo[y] = hi[x]
            /\ Under(lo[c], hi[c]) /\ lo[x] < hi[x] /\ Under(lo[y], hi[y])
        BY <3>1, <1>1, <1>4, <1>5 DEF Under
      <4>3. QED
        BY ONLY <4>1, <4>2 DEF Apart, Under
    <3>2. QED
      BY <3>1
  <2>2. \A c, d : Apart(lo, hi2, c, d) <=> Apart(lo, hi2, d, c)
    BY DEF Apart
  <2>3. CASE a = x \/ b = x
    BY <2>1, <2>2, <2>3, <1>10
  <2>4. CASE a # x /\ b # x
    <3>1. Apart(lo, hi, a, b) /\ hi2[a] = hi[a] /\ hi2[b] = hi[b]
      BY <2>4, <1>2, <1>4, <1>10
    <3>2. QED
      BY <3>1 DEF Apart
  <2>5. QED
    BY <2>3, <2>4
<1>11. 1 \in LeavesOf(w) /\ lo[1] = 0
  BY <1>2, <1>6
<1>12. QED
  BY <1>8, <1>9, <1>10, <1>11 DEF Listed

LEMMA MergeExists ==
  ASSUME NEW lo, NEW hi, Bounds(lo, hi), NEW x \in Nat, NEW h \in Int
  PROVE  \E hi2 : Bounds(lo, hi2) /\ hi2[x] = h /\ \A a \in Nat : a # x => hi2[a] = hi[a]
<1> DEFINE g == [hi EXCEPT ![x] = h]
<1>1. Bounds(lo, g) /\ g[x] = h /\ \A a \in Nat : a # x => g[a] = hi[a]
  BY DEF Bounds
<1>2. QED
  BY <1>1

LEMMA Merge ==
  ASSUME NEW v, NEW lv, NEW lo, NEW hi, NEW p, NEW i, NEW x, NEW y, NEW b, NEW hi2,
         Uniting(v, lv, lo, hi, p, i, x, y, b, hi2),
         NEW w, Live(w) = Live(v) \ {y}, w[x] = b, w[p] = node_pop(v[p], i, i + 1),
         \A a \in Live(v) : a \notin {x, y, p} => w[a] = v[a]
  PROVE  Good(w, lo, hi2)
<1>0. /\ Forest(v, lv, {}) /\ lv \in [Nat -> Nat] /\ Live(v) \subseteq Nat /\ Good(v, lo, hi)
      /\ p \in Inner(v) /\ i \in 0..(Len(v[p].keys) - 1)
      /\ x = v[p].values[i + 1] /\ y = v[p].values[i + 2]
      /\ RangedAll(v, lo, hi) /\ Bounds(lo, hi) /\ Bounds(lo, hi2)
  BY DEF Uniting, Beside, Good, RangedAll
<1>1. /\ v[y].tag = v[x].tag /\ b.tag = v[x].tag
      /\ KidsIn(b) \subseteq KidsIn(v[x]) \cup KidsIn(v[y])
      /\ v[x].tag = "leaf" => b.next = v[y].next
      /\ Ranged(b, lo, hi, lo[x], hi[y])
      /\ hi2[x] = hi[y] /\ \A a \in Nat : a # x => hi2[a] = hi[a]
  BY DEF Uniting
<1>2. /\ p \in Live(v) /\ p \in Nat /\ v[p].tag = "node" /\ Distinct(v[p].values)
      /\ x \in Live(v) /\ y \in Live(v) /\ x # p /\ y # p /\ x # y
      /\ x \in Kids(v[p]) /\ y \in Kids(v[p])
      /\ \A a \in Inner(v) : a # p => x \notin Kids(v[a]) /\ y \notin Kids(v[a])
      /\ Ranged(v[p], lo, hi, lo[p], hi[p]) /\ lo[p] \in Nat /\ hi[p] \in Int
      /\ lo[y] = hi[x]
      /\ \A d \in KidsIn(v[x]) \cup KidsIn(v[y]) : d \in Nat /\ d # x /\ d # y
  <2>1. Beside(v, lv, lo, hi, p, i, x, y)
    BY DEF Uniting
  <2>2. QED
    BY <2>1, Neighbours
<1>3. /\ hi2[p] = hi[p] /\ x \in Nat /\ y \in Nat
      /\ OnlyFor({x}, lo, hi, lo, hi2)
      /\ \A d \in Kids(v[p]) : d # y => lo[d] = lo[d] /\ hi2[d] = IF d = x THEN hi[y] ELSE hi[d]
  <2>1. Kids(v[p]) \subseteq Nat
    BY <1>0, OneParent
  <2>2. x \in Nat /\ y \in Nat
    BY <1>0, <1>2
  <2>3. QED
    BY <2>1, <2>2, <1>1, <1>2 DEF OnlyFor
<1>4. Ranged(b, lo, hi2, lo[x], hi2[x])
  <2>1. \A d \in KidsIn(b) : lo[d] = lo[d] /\ hi2[d] = hi[d]
    BY <1>1, <1>2, <1>3 DEF OnlyFor
  <2>2. b.tag = "node" => \A d \in Kids(b) : lo[d] = lo[d] /\ hi2[d] = hi[d]
    BY <2>1 DEF KidsIn
  <2>3. Ranged(b, lo, hi2, lo[x], hi[y])
    BY <2>2, <1>1, RangedSame
  <2>4. QED
    BY <2>3, <1>1
<1>5. Ranged(w[p], lo, hi2, lo[p], hi2[p]) /\ w[p].tag = "node"
  <2> DEFINE e == v[p]
             l == lo[p]
             h == hi[p]
  <2>1. /\ e.tag = "node" /\ Distinct(e.values) /\ l \in Nat /\ h \in Int /\ Ranged(e, lo, hi, l, h)
        /\ i \in 0..(Len(e.keys) - 1)
        /\ x = e.values[i + 1] /\ y = e.values[i + 2]
        /\ Widened(Kids(e), lo, hi, lo, hi2, x, y)
    BY <1>0, <1>1, <1>2, <1>3 DEF Widened
  <2> HIDE DEF e, l, h
  <2>2. Ranged(node_pop(e, i, i + 1), lo, hi2, l, h)
    BY ONLY <2>1, ChildRemoved
  <2>3. QED
    BY <2>2, <1>3 DEF e, l, h, node_pop, Node
<1>6. RangedAll(w, lo, hi2)
  <2>1. \A a \in Live(w) \cap {x, y, p} : Ranged(w[a], lo, hi2, lo[a], hi2[a])
    BY <1>4, <1>5
  <2>2. ASSUME NEW a \in Live(w) \ {x, y, p}
        PROVE  a \in Live(v) /\ w[a] = v[a] /\ Untouched(v, a, {x})
    <3>1. a \in Live(v) /\ w[a] = v[a] /\ a # x /\ a # p
      OBVIOUS
    <3>2. v[a].tag = "node" => x \notin Kids(v[a])
      BY <3>1, <1>2, LeafOrNode
    <3>3. QED
      BY <3>1, <3>2 DEF Untouched
  <2>3. \A a \in Live(w) \ {x, y, p} : a \in Live(v) /\ w[a] = v[a] /\ Untouched(v, a, {x})
    BY <2>2
  <2>4. RangedAll(v, lo, hi) /\ Bounds(lo, hi2) /\ OnlyFor({x}, lo, hi, lo, hi2) /\ Live(v) \subseteq Nat
    BY <1>0, <1>3
  <2>5. QED
    BY ONLY <2>1, <2>3, <2>4, RangesCarried
<1>7. \A a \in Live(w) : a \in Live(v) /\ a # y /\ w[a].tag = v[a].tag
  BY <1>1, <1>2, <1>5
<1>8. LeavesOf(w) = LeavesOf(v) \ {y} /\ p \notin LeavesOf(v)
  BY <1>2, <1>7 DEF LeavesOf
<1>9. Listed(w, lo, hi2)
  <2>1. CASE v[x].tag = "leaf"
    <3>1. x \in LeavesOf(v) /\ y \in LeavesOf(v)
      BY <2>1, <1>1, <1>2 DEF LeavesOf
    <3>2. \A a \in LeavesOf(v) : a # x /\ a # y => w[a].next = v[a].next
      BY <1>8 DEF LeavesOf
    <3>3. w[x].next = v[y].next
      BY <1>1, <2>1
    <3>4. /\ Good(v, lo, hi) /\ Live(v) \subseteq Nat /\ x # y /\ lo[y] = hi[x]
          /\ hi2[x] = hi[y] /\ \A a \in Nat : a # x => hi2[a] = hi[a]
          /\ LeavesOf(w) = LeavesOf(v) \ {y}
      BY <1>0, <1>1, <1>2, <1>8
    <3>5. QED
      BY ONLY <3>1, <3>2, <3>3, <3>4, MergedListed
  <2>2. CASE v[x].tag # "leaf"
    <3>1. \A a \in LeavesOf(v) : a # x /\ a # y /\ a \in Nat /\ a \in Live(v) /\ a # p
      BY <2>2, <1>0, <1>1, <1>8 DEF LeavesOf
    <3>2. \A a \in LeavesOf(v) : lo[a] = lo[a] /\ hi2[a] = hi[a]
      BY <3>1, <1>1
    <3>3. Listed(v, lo, hi)
      BY <1>0 DEF Good
    <3>4. LeavesOf(w) = LeavesOf(v) /\ \A a \in LeavesOf(v) : w[a].next = v[a].next
      BY <3>1, <1>8
    <3>5. QED
      BY ONLY <3>2, <3>3, <3>4, ListedSame
  <2>3. QED
    BY <2>1, <2>2
<1>10. QED
  BY <1>6, <1>9 DEF Good

-----------------------------------------------------------------------------
(* The root *)

\* Two blocks that share the keys, and no node above them.
Topless(v, lo, hi, x, y, k) ==
  /\ Good(v, lo, hi) /\ Live(v) \subseteq Nat
  /\ x \in Live(v) /\ y \in Live(v) /\ Loose(v, x) /\ Loose(v, y) /\ x # y
  /\ lo[x] = 0 /\ hi[x] = k /\ lo[y] = k /\ hi[y] = -1

LEMMA TwoUnderOne ==
  ASSUME NEW x \in Nat, NEW y \in Nat, NEW k \in Nat, k > 0, NEW lo, NEW hi,
         lo[x] = 0, hi[x] = k, lo[y] = k, hi[y] = -1
  PROVE  Ranged(Node(<<k>>, <<x, y>>), lo, hi, 0, -1)
<1>1. k \in Span(0 + 1, -1) /\ Under(0, -1)
  BY DEF Span, Under
<1>2. <<k>> \in Seq(Span(0 + 1, -1)) /\ Len(<<k>>) = 1 /\ <<k>>[1] = k
  BY <1>1
<1>3. <<x, y>> \in Seq(Nat) /\ Len(<<x, y>>) = 2 /\ <<x, y>>[1] = x /\ <<x, y>>[2] = y
  OBVIOUS
<1>4. Ascending(<<k>>)
  BY <1>2 DEF Ascending
<1>5. Fences(<<k>>, <<x, y>>, Len(<<k>>), lo, hi, 0, -1)
  <2>1. ASSUME NEW j \in 1..(1 + 1)
        PROVE  lo[<<x, y>>[j]] = LeftOf(<<k>>, 0, j) /\ hi[<<x, y>>[j]] = RightOf(<<k>>, 1, -1, j)
    <3>1. CASE j = 1
      BY <3>1, <1>2, <1>3 DEF LeftOf, RightOf
    <3>2. CASE j = 2
      BY <3>2, <1>2, <1>3 DEF LeftOf, RightOf
    <3>3. QED
      BY <3>1, <3>2
  <2>2. QED
    BY <2>1, <1>2 DEF Fences
<1> DEFINE ks == <<k>>
           vs == <<x, y>>
           h  == -1
<1>6. /\ ks \in Seq(Span(0 + 1, h)) /\ Ascending(ks) /\ Under(0, h)
      /\ vs \in Seq(Nat) /\ Len(vs) = Len(ks) + 1 /\ Fences(ks, vs, Len(ks), lo, hi, 0, h)
  BY <1>1, <1>2, <1>3, <1>4, <1>5
<1> HIDE DEF ks, vs, h
<1>7. Ranged(Node(ks, vs), lo, hi, 0, h)
  BY ONLY <1>6, NodeRanged
<1>8. QED
  BY <1>7 DEF ks, vs, h

\* The block n has all keys.
Topped(lo, hi, n, lo2, hi2) ==
  Bounds(lo2, hi2) /\ lo2[n] = 0 /\ hi2[n] = -1 /\ OnlyFor({n}, lo, hi, lo2, hi2)

LEMMA TopExists ==
  ASSUME NEW lo, NEW hi, Bounds(lo, hi), NEW n, n \in Nat
  PROVE  \E lo2, hi2 : Topped(lo, hi, n, lo2, hi2)
<1> DEFINE f == [lo EXCEPT ![n] = 0]
           g == [hi EXCEPT ![n] = -1]
<1>1. Topped(lo, hi, n, f, g)
  BY DEF Bounds, OnlyFor, Topped
<1>2. QED
  BY <1>1

LEMMA TopPut ==
  ASSUME NEW v, NEW lo, NEW hi, NEW x, NEW y, NEW k, Topless(v, lo, hi, x, y, k),
         NEW n \in Nat \ Live(v), \A a \in Inner(v) : n \notin Kids(v[a]),
         NEW lo2, NEW hi2, Bounds(lo2, hi2), lo2[n] = 0, hi2[n] = -1, OnlyFor({n}, lo, hi, lo2, hi2),
         NEW w, Live(w) = Live(v) \cup {n}, w[n] = Node(<<k>>, <<x, y>>),
         \A a \in Live(v) : w[a] = v[a]
  PROVE  Good(w, lo2, hi2)
<1>0. /\ Good(v, lo, hi) /\ Live(v) \subseteq Nat
      /\ x \in Live(v) /\ y \in Live(v) /\ Loose(v, x) /\ Loose(v, y) /\ x # y
      /\ lo[x] = 0 /\ hi[x] = k /\ lo[y] = k /\ hi[y] = -1
      /\ RangedAll(v, lo, hi) /\ Bounds(lo, hi) /\ x \in Nat /\ y \in Nat /\ x # n /\ y # n
  BY DEF Topless, Good, RangedAll
<1>1. k \in Nat /\ k > 0
  <2>1. Ranged(v[x], lo, hi, lo[x], hi[x]) /\ lo[y] \in Nat
    BY <1>0, SameBounds DEF RangedAll
  <2>2. Under(lo[x], hi[x])
    BY <2>1, RangedIs
  <2>3. QED
    BY <2>1, <2>2, <1>0 DEF Under
<1>2. lo2[x] = 0 /\ hi2[x] = k /\ lo2[y] = k /\ hi2[y] = -1
  BY <1>0 DEF OnlyFor
<1>3. Ranged(w[n], lo2, hi2, lo2[n], hi2[n])
  BY <1>0, <1>1, <1>2, TwoUnderOne
<1>4. \A a \in Live(w) \ {n} : a \in Live(v) /\ w[a] = v[a] /\ Untouched(v, a, {n})
  <2>1. \A a \in Live(v) : v[a].tag = "node" => n \notin Kids(v[a])
    BY LeafOrNode
  <2>2. QED
    BY <2>1 DEF Untouched
<1>5. RangedAll(w, lo2, hi2)
  <2>1. \A a \in Live(w) \cap {n} : Ranged(w[a], lo2, hi2, lo2[a], hi2[a])
    BY <1>3
  <2>2. QED
    BY ONLY <1>0, <1>4, <2>1, Bounds(lo2, hi2), OnlyFor({n}, lo, hi, lo2, hi2), RangesCarried
<1>6. LeavesOf(w) = LeavesOf(v) /\ \A a \in LeavesOf(v) : w[a].next = v[a].next
  <2>1. w[n].tag = "node" /\ n \notin Live(v)
    BY DEF Node
  <2>2. QED
    BY <2>1 DEF LeavesOf
<1>7. \A a \in LeavesOf(v) : lo2[a] = lo[a] /\ hi2[a] = hi[a]
  BY <1>0 DEF LeavesOf, OnlyFor
<1>8. Listed(w, lo2, hi2)
  BY <1>0, <1>6, <1>7, ListedSame DEF Good
<1>9. QED
  BY <1>5, <1>8 DEF Good

\* A root without keys is dropped: its one child has its range.
LEMMA TopDropped ==
  ASSUME NEW v, NEW lo, NEW hi, Good(v, lo, hi), NEW t \in Inner(v), nkeys(v[t]) = 0,
         NEW w, Live(w) = Live(v) \ {t}, \A a \in Live(w) : w[a] = v[a]
  PROVE  /\ Good(w, lo, hi)
         /\ lo[v[t].values[1]] = lo[t] /\ hi[v[t].values[1]] = hi[t]
<1>1. t \in Live(v) /\ v[t].tag = "node" /\ Ranged(v[t], lo, hi, lo[t], hi[t])
  BY LeafOrNode DEF Good, RangedAll
<1>2. Fences(v[t].keys, v[t].values, 0, lo, hi, lo[t], hi[t])
  BY <1>1, RangedIs DEF nkeys
<1>3. lo[v[t].values[1]] = lo[t] /\ hi[v[t].values[1]] = hi[t]
  <2>1. 1 \in 1..(0 + 1)
    OBVIOUS
  <2>2. QED
    BY <1>2, <2>1 DEF Fences, LeftOf, RightOf
<1>4. RangedAll(w, lo, hi)
  BY DEF Good, RangedAll
<1>5. LeavesOf(w) = LeavesOf(v) /\ \A a \in LeavesOf(v) : w[a].next = v[a].next
  BY <1>1 DEF LeavesOf
<1>6. Listed(w, lo, hi)
  BY <1>5, ListedSame DEF Good
<1>7. QED
  BY <1>3, <1>4, <1>6 DEF Good

-----------------------------------------------------------------------------
(* The invariant *)

\* The node the code is at on its way up, with what is left to do to it.
Edited ==
  IF pc = "insert_up" THEN node_insert(Top.block, Top.i, Top.i + 1, rv.key, rv.addr)
  ELSE IF rv.ind = None THEN Top.block
  ELSE node_pop(Top.block, rv.ind, rv.ind + 1)

\* The file with that node in it.
InHand(f) == IF pc \in {"insert_up", "delete_up"} THEN Put(f, Top.addr, Edited) ELSE f

\* The root has all keys; two halves of a root share them.
Ends(f, lo, hi) ==
  IF pc = "new_root"
  THEN lo[RootOf(f)] = 0 /\ hi[RootOf(f)] = rv.key /\ lo[rv.addr] = rv.key /\ hi[rv.addr] = -1
  ELSE lo[Apex(f)] = 0 /\ hi[Apex(f)] = -1

\* What the code has in memory is what the file has, but for the node whose key
\* a borrow has changed.
Truth(f) ==
  /\ Updating => \A j \in 1..Len(path) :
                   j < Len(path) \/ pc # "delete_up" => path[j].block = f[path[j].addr]
  /\ pc = "search" => Top.addr \in Live(f) /\ Top.block = f[Top.addr]

InRange(k, l, h) == (l = 0 \/ l <= k) /\ Under(k, h)

\* A search is at a block whose range has the key; a range without a lower bound
\* is at one that begins at the left end.
Aim(lo, hi) ==
  pc = "search" => IF op.k = None THEN lo[Top.addr] = 0
                   ELSE InRange(op.k, lo[Top.addr], hi[Top.addr])

Order(f, lo, hi) ==
  /\ After(f, disk, writes)
  /\ DOMAIN f # {} => Good(InHand(f), lo, hi) /\ Ends(f, lo, hi) /\ Truth(f) /\ Aim(lo, hi)

OrderInv == \E f, lo, hi : Order(f, lo, hi)

LEMMA OrderNow ==
  ASSUME IInv, ShapeInv, OrderInv, writes = <<>>, pc # "closed"
  PROVE  \E lo, hi : Good(InHand(disk), lo, hi) /\ Ends(disk, lo, hi) /\ Truth(disk) /\ Aim(lo, hi)
<1>1. PICK f, lo, hi : Order(f, lo, hi)
  BY DEF OrderInv
<1>2. disk = [a \in DOMAIN disk |-> disk[a]] /\ DOMAIN disk # {}
  BY AtRest
<1>3. f = disk
  BY <1>1, <1>2, AfterNone DEF Order
<1>4. QED
  BY <1>1, <1>2, <1>3 DEF Order

LEMMA InHandPlain ==
  ASSUME NEW f, pc \notin {"insert_up", "delete_up"}
  PROVE  InHand(f) = f
BY DEF InHand

\* The call is over.
LEMMA DoneOrder ==
  ASSUME NEW g, NEW lo, NEW hi, After(g, disk', writes'), Good(g, lo, hi),
         lo[RootOf(g)] = 0, hi[RootOf(g)] = -1, pc' = "return"
  PROVE  OrderInv'
<1>1. InHand(g)' = g /\ Apex(g)' = RootOf(g)
  BY DEF InHand, Apex
<1>2. Ends(g, lo, hi)'
  BY <1>1 DEF Ends
<1>3. Truth(g)' /\ Aim(lo, hi)'
  BY DEF Truth, Aim, Updating
<1>4. QED
  BY <1>1, <1>2, <1>3 DEF OrderInv, Order

LEMMA RootOrder ==
  ASSUME NEW g, NEW lo, NEW hi, After(g, disk', writes'), Good(g, lo, hi),
         lo[rv'.addr] = 0, hi[rv'.addr] = -1, pc' = "set_root"
  PROVE  OrderInv'
<1>1. InHand(g)' = g /\ Apex(g)' = rv'.addr
  BY DEF InHand, Apex
<1>2. Ends(g, lo, hi)'
  BY <1>1 DEF Ends
<1>3. Truth(g)' /\ Aim(lo, hi)'
  BY DEF Truth, Aim, Updating
<1>4. QED
  BY <1>1, <1>2, <1>3 DEF OrderInv, Order

LEMMA HalvesOrder ==
  ASSUME NEW g, NEW lo, NEW hi, After(g, disk', writes'), Good(g, lo, hi),
         lo[RootOf(g)] = 0, hi[RootOf(g)] = rv'.key, lo[rv'.addr] = rv'.key, hi[rv'.addr] = -1,
         pc' = "new_root"
  PROVE  OrderInv'
<1>1. InHand(g)' = g
  BY DEF InHand
<1>2. Ends(g, lo, hi)'
  BY <1>1 DEF Ends
<1>3. Truth(g)' /\ Aim(lo, hi)'
  BY DEF Truth, Aim, Updating
<1>4. QED
  BY <1>1, <1>2, <1>3 DEF OrderInv, Order

LEMMA UpOrder ==
  ASSUME NEW g, NEW lo, NEW hi, After(g, disk', writes'), Good(InHand(g)', lo, hi),
         lo[RootOf(g)] = 0, hi[RootOf(g)] = -1, pc' \in {"insert_up", "delete_up"},
         \A j \in 1..Len(path') : j < Len(path') \/ pc' # "delete_up" => path'[j].block = g[path'[j].addr]
  PROVE  OrderInv'
<1>1. Apex(g)' = RootOf(g)
  BY DEF Apex
<1>2. Ends(g, lo, hi)'
  BY <1>1 DEF Ends
<1>3. Truth(g)' /\ Aim(lo, hi)'
  BY DEF Truth, Aim
<1>4. QED
  BY <1>2, <1>3 DEF OrderInv, Order

\* Nothing is written, and no search goes on.
LEMMA QuietOrder ==
  ASSUME IInv, ShapeInv, OrderInv, writes = <<>>, pc \in {"idle", "return", "search", "scan"},
         UNCHANGED <<disk, writes>>, pc' \in {"closed", "idle", "return", "scan"}
  PROVE  OrderInv'
<1>1. PICK lo, hi : Good(InHand(disk), lo, hi) /\ Ends(disk, lo, hi)
  BY OrderNow
<1>2. Good(disk, lo, hi) /\ lo[RootOf(disk)] = 0 /\ hi[RootOf(disk)] = -1
  BY <1>1 DEF InHand, Ends, Apex
<1>3. PICK g : g = disk
  OBVIOUS
<1>4. After(g, disk', writes')
  BY <1>3, AtRest, AfterSame
<1>5. InHand(g)' = g /\ Apex(g)' = RootOf(g)
  BY DEF InHand, Apex
<1>6. Ends(g, lo, hi)' /\ Truth(g)' /\ Aim(lo, hi)'
  BY <1>2, <1>3, <1>5 DEF Ends, Truth, Aim, Updating
<1>7. QED
  BY <1>2, <1>3, <1>4, <1>5, <1>6 DEF OrderInv, Order

-----------------------------------------------------------------------------
(* The nodes above *)

\* The blocks of C are on the level of the node in hand, and g is the file but for them.
AtLevel(C, lv) == \A c \in C : c \in Live(disk) => lv[c] = lv[Top.addr]
SameBut(g, C) == \A a \in Live(disk) \ C : g[a] = disk[a]

LEMMA AboveTop ==
  ASSUME IInv, Updating, NEW lv, NEW s, Tree(disk, lv, s), Truth(disk),
         NEW C, AtLevel(C, lv)
  PROVE  /\ Len(path) \in Nat /\ Len(path) >= 1
         /\ \A j \in 1..(Len(path) - 1) : /\ path[j].addr \in Live(disk) \ C
                                          /\ path[j].block = disk[path[j].addr]
<1>1. /\ OnPath(disk, lv, path) /\ Len(path) \in Nat /\ Len(path) >= 1
      /\ lv \in [Nat -> Nat] /\ Live(disk) \subseteq Nat
  <2>1. Standing(disk, lv, s, Hole, Apex(disk))
    BY DEF Tree
  <2>2. lv \in [Nat -> Nat] /\ Live(disk) \subseteq Nat
    BY <2>1, HeaderOf DEF Standing, Woods
  <2>3. QED
    BY <2>2, TopOnFile
<1>2. \A j \in 1..Len(path) : /\ path[j].addr \in Live(disk) /\ lv[path[j].addr] \in Nat
                              /\ lv[path[j].addr] + j = lv[RootOf(disk)] + 1
  BY <1>1 DEF OnPath
<1>3. Len(path) \in 1..Len(path) /\ Top = path[Len(path)]
  BY <1>1 DEF Top
<1>4. ASSUME NEW j \in 1..(Len(path) - 1)
      PROVE  path[j].addr \in Live(disk) \ C /\ path[j].block = disk[path[j].addr]
  <2>1. j \in 1..Len(path) /\ j < Len(path) /\ j \in Nat
    BY SMTT(30), ZenonT(30), <1>1
  <2>2. lv[path[j].addr] # lv[Top.addr]
    <3>1. /\ lv[path[j].addr] + j = lv[RootOf(disk)] + 1 /\ lv[path[j].addr] \in Nat
          /\ lv[Top.addr] + Len(path) = lv[RootOf(disk)] + 1 /\ lv[Top.addr] \in Nat
      BY <1>2, <1>3, <2>1
    <3> DEFINE a == lv[path[j].addr]
               b == lv[Top.addr]
               n == Len(path)
    <3>2. a + j = b + n /\ a \in Nat /\ b \in Nat /\ n \in Nat /\ j \in Nat /\ j < n
      BY <3>1, <2>1, <1>1
    <3> HIDE DEF a, b, n
    <3>3. a # b
      BY ONLY <3>2
    <3>4. QED
      BY <3>3 DEF a, b
  <2>3. path[j].block = disk[path[j].addr]
    BY <2>1 DEF Truth
  <2>4. QED
    BY <1>2, <2>1, <2>2, <2>3 DEF AtLevel
<1>5. QED
  BY <1>1, <1>4

\* The node above is in memory as on file, and is not one of those in C.
LEMMA ParentTrue ==
  ASSUME IInv, Updating, ~AtRoot, NEW lv, NEW s, Tree(disk, lv, s), Truth(disk)
  PROVE  /\ Parent.addr \in Inner(disk) /\ disk[Parent.addr] = Parent.block
         /\ Parent.addr \in Live(disk) /\ Parent.addr \in Nat /\ Parent.addr # 0
         /\ Parent.addr # Top.addr /\ lv[Parent.addr] = lv[Top.addr] + 1
         /\ lv[Top.addr] \in Nat
         /\ Top.addr = Parent.block.values[Parent.i + 1]
         /\ Parent.i \in 0..Len(Parent.block.keys) /\ Len(Parent.block.keys) \in Nat
<1>1. /\ Len(path) >= 2 /\ Parent.addr \in Inner(disk)
      /\ Parent.addr # Top.addr /\ lv[Parent.addr] = lv[Top.addr] + 1
      /\ Top.addr = Parent.block.values[Parent.i + 1]
  BY ParentOnFile
<1>2. Len(path) - 1 \in 1..(Len(path) - 1) /\ Parent = path[Len(path) - 1]
  BY <1>1, AboveTop DEF Parent
<1>3. disk[Parent.addr] = Parent.block
  <2>1. AtLevel({}, lv)
    BY DEF AtLevel
  <2>2. QED
    BY <1>2, <2>1, AboveTop
<1>4. Standing(disk, lv, s, Hole, Apex(disk))
  BY DEF Tree
<1>5. Parent.addr \in Live(disk) /\ Live(disk) \subseteq Nat /\ 0 \notin Live(disk) /\ lv \in [Nat -> Nat]
  BY <1>1, <1>4, HeaderOf, LeafOrNode DEF Standing, Woods
<1>6. Top.addr \in Live(disk)
  BY TopOnFile
<1>7. Parent.i \in 0..Len(Parent.block.keys) /\ Len(Parent.block.keys) \in Nat
  <2>1. pc \in {"search", "insert_up", "delete_up"}
    BY DEF Updating
  <2>2. QED
    BY <2>1, ParentFrame, SoundArrays DEF nkeys
<1>8. QED
  BY <1>1, <1>3, <1>5, <1>6, <1>7

\* After a split or a merge the path is shorter by one, and true of the new file.
LEMMA FrontTrue ==
  ASSUME IInv, Updating, ~AtRoot, NEW lv, NEW s, Tree(disk, lv, s), Truth(disk),
         NEW C, AtLevel(C, lv),
         NEW g, SameBut(g, C), path' = Front(path)
  PROVE  Top' = Parent /\ \A j \in 1..Len(path') : path'[j].block = g[path'[j].addr]
<1>1. pc \in {"search", "insert_up", "delete_up"}
  BY DEF Updating
<1>2. Top' = Parent
  BY <1>1, FrontKept
<1>3. Len(path') = Len(path) - 1 /\ \A j \in 1..(Len(path) - 1) : path'[j] = path[j]
  BY <1>1, TopFrame, ParentFrame
<1>4. \A j \in 1..(Len(path) - 1) : path[j].addr \in Live(disk) \ C /\ path[j].block = disk[path[j].addr]
  BY AboveTop
<1>5. QED
  BY <1>2, <1>3, <1>4 DEF SameBut

\* A borrow shortens the path by the node in hand, and gives the last node left the
\* key k; the others have the blocks they have in g.
Lent(g, ind, k) ==
  /\ Top'.addr = Parent.addr /\ Top'.block = [Parent.block EXCEPT !.keys[ind + 1] = k]
  /\ \A j \in 1..Len(path') : j < Len(path') => path'[j].block = g[path'[j].addr]

\* After a borrow the last node of the shorter path has the key k in its place.
LEMMA BorrowTrue ==
  ASSUME IInv, Updating, ~AtRoot, NEW lv, NEW s, Tree(disk, lv, s), Truth(disk),
         NEW C, AtLevel(C, lv),
         NEW g, SameBut(g, C),
         pc \in {"search", "delete_up"},
         NEW ind, ind \in Nat, ind < nkeys(Parent.block), NEW k, k \in Nat,
         NEW ws, ReturnBorrow(ind, k, ws)
  PROVE  Lent(g, ind, k)
<1> DEFINE n    == Len(path) - 1
           rest == Front(path)
           b    == [Parent.block EXCEPT !.keys[ind + 1] = k]
<1>1. rest \in Seq(Frames) /\ Len(rest) = n /\ n \in Nat /\ n >= 1 /\ \A j \in 1..n : rest[j] = path[j]
  BY TopFrame, ParentFrame
<1>2. path' = [rest EXCEPT ![n].block.keys[ind + 1] = k]
  BY DEF ReturnBorrow
<1>3. n \in 1..n /\ rest[n] = Parent
  BY <1>1 DEF Parent
<1>4. Len(path') = n /\ path'[n] = [Parent EXCEPT !.block.keys[ind + 1] = k]
      /\ \A j \in 1..n : j # n => path'[j] = rest[j]
  <2> HIDE DEF rest, n
  <2>1. DOMAIN rest = 1..n
    BY <1>1
  <2>2. QED
    BY <1>1, <1>2, <1>3, <2>1
<1>5. Top'.addr = Parent.addr /\ Top'.block = b
  <2>1. Top' = path'[n]
    BY <1>4 DEF Top
  <2>2. Parent \in Frames
    BY ParentFrame
  <2>3. QED
    BY <1>4, <2>1, <2>2 DEF Frames
<1>6. \A j \in 1..n : path[j].addr \in Live(disk) \ C /\ path[j].block = disk[path[j].addr]
  BY AboveTop
<1>7. \A j \in 1..n : j < n => path'[j].block = g[path'[j].addr]
  BY <1>1, <1>4, <1>6 DEF SameBut
<1>8. QED
  BY <1>4, <1>5, <1>7 DEF Lent

-----------------------------------------------------------------------------
(* The file with the node in hand is a tree *)

\* The tree v is what is on file, but for the block at x.
Hand(v, lv, x) ==
  /\ Forest(v, lv, {}) /\ lv \in [Nat -> Nat] /\ Live(v) = Live(disk) /\ Live(v) \subseteq Nat
  /\ \A a \in Live(disk) : a # x => v[a] = disk[a]
  /\ RootOf(disk) \in Live(disk) /\ Loose(v, RootOf(disk))

LEMMA StandingIs ==
  ASSUME NEW f, NEW lv, NEW s, NEW H, NEW t, Standing(f, lv, s, H, t)
  PROVE  /\ Forest(f, lv, H) /\ lv \in [Nat -> Nat] /\ Live(f) \subseteq Nat /\ 0 \notin Live(f)
         /\ t \in Live(f) /\ Loose(f, t) /\ File(f)
BY HeaderOf DEF Standing, Woods, Rooted

\* A node is written over.
LEMMA PutNode ==
  ASSUME NEW f, NEW x \in Inner(f), NEW b, b.tag = "node"
  PROVE  /\ Live(Put(f, x, b)) = Live(f) /\ Inner(Put(f, x, b)) = Inner(f) /\ x \in Live(f)
         /\ Put(f, x, b)[x] = b /\ \A a \in Live(f) : a # x => Put(f, x, b)[a] = f[a]
<1>1. IsLive(b) /\ x \in Live(f)
  BY LeafOrNode DEF IsLive
<1>2. /\ Live(Put(f, x, b)) = Live(f) \cup {x} /\ Inner(Put(f, x, b)) = Inner(f) \cup {x}
      /\ Put(f, x, b)[x] = b /\ \A a \in Live(f) : a # x => Put(f, x, b)[a] = f[a]
  BY <1>1, PutLive
<1>3. QED
  BY <1>1, <1>2

LEMMA HandAtSearch ==
  ASSUME IInv, ShapeInv, writes = <<>>, pc = "search"
  PROVE  \E lv, s : Tree(disk, lv, s) /\ Standing(disk, lv, s, {}, RootOf(disk)) /\ Hand(disk, lv, Top.addr)
<1>1. PICK lv, s : Tree(disk, lv, s) /\ Standing(disk, lv, s, Hole, RootOf(disk))
  BY HandlerFinds
<1>2. Hole = {}
  BY DEF Hole
<1>3. Hand(disk, lv, Top.addr)
  BY <1>1, <1>2, StandingIs DEF Hand
<1>4. QED
  BY <1>1, <1>2, <1>3

LEMMA HandAtInsert ==
  ASSUME IInv, ShapeInv, writes = <<>>, pc = "insert_up"
  PROVE  /\ \E lv, s : /\ Tree(disk, lv, s) /\ Standing(disk, lv, s, {}, RootOf(disk))
                       /\ Hand(InHand(disk), lv, Top.addr)
         /\ InHand(disk)[Top.addr] = node_insert(Top.block, Top.i, Top.i + 1, rv.key, rv.addr)
         /\ Top.addr \in Live(disk) /\ Top.addr # 0
         /\ KidsIn(InHand(disk)[Top.addr]) = Kids(InHand(disk)[Top.addr])
<1>1. Top.block.tag = "node"
  BY TopFrame
<1> DEFINE x == Top.addr
           b == Top.block
           e == node_insert(b, Top.i, Top.i + 1, rv.key, rv.addr)
           c == rv.addr
<1>2. /\ x \in Inner(disk) /\ x \in Nat /\ x # 0 /\ Branch(b) /\ Kids(b) = Kids(disk[x])
      /\ Top.i \in 0..nkeys(b) /\ nkeys(b) \in Nat /\ c \in Nat /\ rv.key \in Nat /\ c \notin Kids(b)
  BY <1>1, NodeToChange
<1>3. PICK lv, s : /\ Tree(disk, lv, s) /\ Standing(disk, lv, s, {}, RootOf(disk))
                   /\ Orphans(disk, lv, RootOf(disk), x, {c})
  BY <1>1, NodeToChange
<1>4. /\ Forest(disk, lv, {}) /\ lv \in [Nat -> Nat] /\ Live(disk) \subseteq Nat
      /\ RootOf(disk) \in Live(disk) /\ Loose(disk, RootOf(disk))
  BY <1>3, StandingIs
<1>5. InHand(disk) = Put(disk, x, e)
  BY DEF InHand, Edited
<1>6. e.tag = "node" /\ e.values = array_insert(b.values, Top.i + 1, c)
  BY DEF node_insert, Node
<1>7. Distinct(e.values) /\ Kids(e) = Kids(disk[x]) \cup {c}
  <2>1. b.values \in Seq(Nat) /\ Len(b.values) = nkeys(b) + 1 /\ Distinct(b.values)
    BY <1>2, BranchArrays DEF Branch
  <2>2. Top.i + 1 \in 0..Len(b.values)
    BY <1>2, <2>1
  <2>3. c \notin Members(b.values)
    BY <1>2 DEF Kids
  <2>4. /\ Distinct(array_insert(b.values, Top.i + 1, c))
        /\ Members(array_insert(b.values, Top.i + 1, c)) = Members(b.values) \cup {c}
    BY <2>1, <2>2, <2>3, <1>2, InsertedMembers
  <2>5. QED
    BY <2>4, <1>2, <1>6 DEF Kids
<1> HIDE DEF e, b, x, c
<1>8. c # RootOf(disk) /\ c \in Live(disk) /\ Loose(disk, c) /\ lv[x] = lv[c] + 1
  BY <1>3 DEF Orphans
<1>9. Adoptable(disk, lv, {}, x, e, lv[x])
  <2>1. ASSUME NEW d \in Kids(e)
        PROVE  (d \in Live(disk) /\ lv[x] = lv[d] + 1) /\ \A a \in Inner(disk) \ {x} : d \notin Kids(disk[a])
    <3>1. CASE d = c
      BY <3>1, <1>8 DEF Loose
    <3>2. CASE d \in Kids(disk[x])
      BY <3>2, <1>2, <1>4 DEF Forest
    <3>3. QED
      BY <2>1, <3>1, <3>2, <1>7
  <2>2. QED
    BY <2>1 DEF Adoptable
<1>10. Forest(Put(disk, x, e), lv, {})
  BY <1>2, <1>4, <1>6, <1>7, <1>9, NodeKept
<1>11. /\ Live(Put(disk, x, e)) = Live(disk) /\ Put(disk, x, e)[x] = e /\ x \in Live(disk)
       /\ \A a \in Live(disk) : a # x => Put(disk, x, e)[a] = disk[a]
  BY <1>2, <1>6, PutNode
<1>12. Loose(Put(disk, x, e), RootOf(disk))
  <2>1. RootOf(disk) \notin Kids(e)
    BY <1>2, <1>4, <1>7, <1>8 DEF Loose
  <2>2. QED
    BY <2>1, <1>4, LoosePut
<1>13. Hand(InHand(disk), lv, x)
  BY <1>4, <1>5, <1>10, <1>11, <1>12 DEF Hand
<1>14. QED
  BY <1>2, <1>3, <1>5, <1>6, <1>11, <1>13 DEF x, e, b, c, KidsIn

LEMMA HandAtDelete ==
  ASSUME IInv, ShapeInv, AtDeleteNode
  PROVE  /\ \E lv, s : /\ Tree(disk, lv, s) /\ Hand(InHand(disk), lv, Top.addr)
         /\ InHand(disk)[Top.addr] = popped_node /\ InHand(disk) = Put(disk, Top.addr, popped_node)
         /\ Top.addr \in Live(disk) /\ Top.addr # 0 /\ Branch(popped_node)
<1> DEFINE x == Top.addr
           e == popped_node
<1>1. pc = "delete_up" /\ rv.ind # None /\ Updating
  BY NodeWithHole DEF AtDeleteNode
<1>2. PICK lv, s, h : /\ Tree(disk, lv, s) /\ Standing(disk, lv, s, {h}, RootOf(disk))
                      /\ h \in Kids(disk[x]) /\ Kids(e) = Kids(disk[x]) \ {h}
  BY NodeWithHole
<1>3. x \in Inner(disk) /\ x # 0 /\ Branch(e)
  BY NodeWithHole
<1>4. /\ Forest(disk, lv, {h}) /\ lv \in [Nat -> Nat] /\ Live(disk) \subseteq Nat
      /\ RootOf(disk) \in Live(disk) /\ Loose(disk, RootOf(disk))
  BY <1>2, StandingIs
<1>5. InHand(disk) = Put(disk, x, e)
  BY <1>1 DEF InHand, Edited, popped_node
<1> HIDE DEF e, x
<1>6. e.tag = "node" /\ Distinct(e.values)
  BY <1>3 DEF Branch
<1>7. Adoptable(disk, lv, {h}, x, e, lv[x])
  BY <1>2, <1>3, <1>4 DEF Adoptable, Forest
<1>8. Forest(Put(disk, x, e), lv, {h})
  BY <1>3, <1>4, <1>6, <1>7, NodeKept
<1>9. /\ Live(Put(disk, x, e)) = Live(disk) /\ Put(disk, x, e)[x] = e /\ x \in Live(disk)
      /\ \A a \in Live(disk) : a # x => Put(disk, x, e)[a] = disk[a]
      /\ Inner(Put(disk, x, e)) = Inner(disk)
  BY <1>3, <1>6, PutNode
<1>10. Forest(Put(disk, x, e), lv, {})
  <2>1. ASSUME NEW a \in Inner(Put(disk, x, e)), NEW c \in Kids(Put(disk, x, e)[a]), c = h
        PROVE  FALSE
    <3>1. CASE a = x
      BY <3>1, <2>1, <1>2, <1>9
    <3>2. CASE a # x
      <4>1. a \in Inner(disk) /\ h \in Kids(disk[a])
        BY <3>2, <2>1, <1>3, <1>9, LeafOrNode
      <4>2. QED
        BY <4>1, <3>2, <1>2, <1>3, <1>4 DEF Forest
    <3>3. QED
      BY <3>1, <3>2
  <2>2. \A a \in Inner(Put(disk, x, e)) : \A c \in Kids(Put(disk, x, e)[a]) : c \in {h} => c \in {}
    BY <2>1
  <2>3. QED
    BY <1>8, <2>2, HolesGone
<1>11. Loose(Put(disk, x, e), RootOf(disk))
  <2>1. RootOf(disk) \notin Kids(e)
    BY <1>2, <1>3, <1>4 DEF Loose
  <2>2. QED
    BY <2>1, <1>4, LoosePut
<1>12. Hand(InHand(disk), lv, x)
  BY <1>4, <1>5, <1>9, <1>10, <1>11 DEF Hand
<1>13. QED
  BY <1>2, <1>3, <1>5, <1>9, <1>12 DEF x, e

-----------------------------------------------------------------------------
(* The steps that write nothing *)

LEMMA LookupOrder ==
  IInv /\ ShapeInv /\ OrderInv /\ (Get \/ InsertDuplicate \/ DeleteMissing \/ Return \/ Close)
    => OrderInv'
<1> SUFFICES ASSUME IInv, ShapeInv, OrderInv, Get \/ InsertDuplicate \/ DeleteMissing \/ Return \/ Close
             PROVE  OrderInv'
  OBVIOUS
<1>1. /\ pc \in {"idle", "return", "search"} /\ writes = <<>>
      /\ pc' \in {"closed", "idle", "return"} /\ UNCHANGED <<disk, writes>>
  BY DEF Get, InsertDuplicate, DeleteMissing, Return, Close, At, AtLeaf, Finish
<1>2. QED
  BY <1>1, QuietOrder

LEMMA ScanLeafOrder == IInv /\ ShapeInv /\ OrderInv /\ ScanLeaf => OrderInv'
<1> SUFFICES ASSUME IInv, ShapeInv, OrderInv, ScanLeaf PROVE OrderInv'
  OBVIOUS
<1>1. pc \in {"search", "scan"} /\ writes = <<>>
  BY DEF ScanLeaf, At, AtLeaf
<1>2. UNCHANGED <<disk, writes>> /\ pc' \in {"return", "scan"}
  BY <1>1 DEF ScanLeaf, Finish
<1>3. QED
  BY <1>1, <1>2, QuietOrder

\* Nothing is written and a search goes on.
LEMMA SearchOrder ==
  ASSUME IInv, ShapeInv, writes = <<>>, UNCHANGED <<disk, writes>>, pc # "closed",
         pc' = "search", NEW lo, NEW hi, Good(disk, lo, hi), lo[RootOf(disk)] = 0, hi[RootOf(disk)] = -1,
         Top'.addr \in Live(disk), Top'.block = disk[Top'.addr],
         Updating' => \A j \in 1..Len(path') : path'[j].block = disk[path'[j].addr],
         IF op'.k = None THEN lo[Top'.addr] = 0 ELSE InRange(op'.k, lo[Top'.addr], hi[Top'.addr])
  PROVE  OrderInv'
<1>1. PICK g : g = disk
  OBVIOUS
<1>2. After(g, disk', writes')
  BY <1>1, AtRest, AfterSame
<1>3. InHand(g)' = g /\ Apex(g)' = RootOf(g)
  BY DEF InHand, Apex
<1>4. Ends(g, lo, hi)' /\ Truth(g)' /\ Aim(lo, hi)'
  BY <1>1, <1>3 DEF Ends, Truth, Aim
<1>5. QED
  BY <1>1, <1>2, <1>3, <1>4 DEF OrderInv, Order

LEMMA CallOrder == IInv /\ ShapeInv /\ OrderInv /\ (\E o \in Ops : Call(o)) => OrderInv'
<1> SUFFICES ASSUME IInv, ShapeInv, OrderInv, NEW o \in Ops, Call(o) PROVE OrderInv'
  OBVIOUS
<1>1. pc = "idle" /\ writes = <<>> /\ pc' = "search" /\ op' = o /\ path' = <<Frame(root_ptr)>>
      /\ UNCHANGED <<disk, writes>>
  BY DEF Call, At
<1>2. PICK lo, hi : Good(disk, lo, hi) /\ lo[RootOf(disk)] = 0 /\ hi[RootOf(disk)] = -1
  BY <1>1, OrderNow DEF InHand, Ends, Apex
<1>3. PICK lv, s : Standing(disk, lv, s, Hole, RootOf(disk))
  BY <1>1, HandlerFinds
<1>4. RootOf(disk) \in Live(disk) /\ RootOf(disk) \in DOMAIN disk
  BY <1>3, StandingIs, LeafOrNode
<1>5. Frame(root_ptr) = [addr |-> RootOf(disk), block |-> disk[RootOf(disk)], i |-> 0]
  BY <1>4, Pointers DEF Frame, Read
<1>6. path'[1].addr = RootOf(disk) /\ path'[1].block = disk[RootOf(disk)] /\ Len(path') = 1 /\ Top' = path'[1]
  BY <1>1, <1>5 DEF Top
<1>7. \A j \in 1..Len(path') : path'[j].block = disk[path'[j].addr]
  BY <1>6
<1>8. InRange(op'.k, lo[Top'.addr], hi[Top'.addr]) /\ lo[Top'.addr] = 0
  BY <1>2, <1>6 DEF InRange, Under
<1>9. QED
  BY <1>1, <1>2, <1>4, <1>6, <1>7, <1>8, SearchOrder

\* The child a search goes to.
LEMMA ChildAimed ==
  ASSUME NEW b, b.tag = "node", NEW lo, NEW hi, NEW l \in Nat, NEW h \in Int, Ranged(b, lo, hi, l, h),
         NEW k \in Int, InRange(k, l, h), NEW i, i = search_node(b, k)
  PROVE  /\ i \in 0..Len(b.keys) /\ b.values[i + 1] \in Kids(b)
         /\ InRange(k, lo[b.values[i + 1]], hi[b.values[i + 1]])
<1>1. /\ Len(b.keys) \in Nat /\ b.keys \in Seq(Nat) /\ Ascending(b.keys)
      /\ \A j \in 1..Len(b.keys) : b.keys[j] \in Nat
  BY RangedIs
<1> DEFINE len == Len(b.keys)
           ks  == b.keys
<1>2. i \in 0..len /\ \A j \in 1..len : ks[j] <= k <=> j <= i
  BY <1>1, SearchIs
<1>3. /\ b.values[i + 1] \in Kids(b)
      /\ lo[b.values[i + 1]] = LeftOf(ks, l, i + 1)
      /\ hi[b.values[i + 1]] = RightOf(ks, len, h, i + 1)
  BY SMTT(30), ZenonT(30), <1>2, ChildRange
<1> HIDE DEF len, ks
<1>4. len \in Nat /\ \A j \in 1..len : ks[j] \in Nat
  BY <1>1 DEF len, ks
<1>5. InRange(k, LeftOf(ks, l, i + 1), RightOf(ks, len, h, i + 1))
  <2>1. LeftOf(ks, l, i + 1) = 0 \/ LeftOf(ks, l, i + 1) <= k
    <3>1. CASE i = 0
      BY <3>1 DEF LeftOf, InRange
    <3>2. CASE i # 0
      <4>1. i \in 1..len /\ i + 1 # 1 /\ i + 1 - 1 = i
        BY <3>2, <1>2, <1>4
      <4>2. ks[i] <= k
        BY <4>1, <1>2
      <4>3. QED
        BY <4>1, <4>2 DEF LeftOf
    <3>3. QED
      BY <3>1, <3>2
  <2>2. Under(k, RightOf(ks, len, h, i + 1))
    <3>1. CASE i = len
      BY <3>1 DEF RightOf, InRange
    <3>2. CASE i # len
      <4>1. i + 1 \in 1..len /\ i + 1 # len + 1 /\ ~(i + 1 <= i)
        BY <3>2, <1>2, <1>4
      <4>2. ks[i + 1] \in Nat /\ ~(ks[i + 1] <= k)
        BY <4>1, <1>2, <1>4
      <4>3. k < ks[i + 1]
        BY <4>2
      <4>4. QED
        BY <4>1, <4>3 DEF RightOf, Under
    <3>3. QED
      BY <3>1, <3>2
  <2>3. QED
    BY <2>1, <2>2 DEF InRange
<1>6. QED
  BY <1>2, <1>3, <1>5 DEF len

LEMMA DescendOrder == IInv /\ ShapeInv /\ OrderInv /\ Descend => OrderInv'
<1> SUFFICES ASSUME IInv, ShapeInv, OrderInv, Descend PROVE OrderInv'
  OBVIOUS
<1> DEFINE b    == Top.block
           i    == child_index(b)
           addr == b.values[i + 1]
           fr   == Frame(addr)
           down == [path EXCEPT ![Len(path)].i = i]
<1>1. /\ pc = "search" /\ pc' = "search" /\ writes = <<>> /\ b.tag = "node"
      /\ UNCHANGED <<disk, file_size, op, writes>>
      /\ path' = IF op.kind \in {"get", "range"} THEN <<fr>> ELSE Append(down, fr)
  BY DEF Descend, At
<1>2. PICK lo, hi : Good(disk, lo, hi) /\ Ends(disk, lo, hi) /\ Truth(disk) /\ Aim(lo, hi)
  BY <1>1, OrderNow DEF InHand
<1>3. lo[RootOf(disk)] = 0 /\ hi[RootOf(disk)] = -1
  BY <1>1, <1>2 DEF Ends, Apex
<1>4. Top.addr \in Live(disk) /\ b = disk[Top.addr]
  BY <1>1, <1>2 DEF Truth
<1>5. PICK lv, s : Standing(disk, lv, s, {}, RootOf(disk))
  BY <1>1, HandAtSearch
<1>6. Top.addr \in Nat /\ Live(disk) \subseteq Nat /\ Forest(disk, lv, {}) /\ Top.addr \in Inner(disk)
  BY <1>1, <1>4, <1>5, StandingIs, LeafOrNode
<1>7. Ranged(b, lo, hi, lo[Top.addr], hi[Top.addr]) /\ lo[Top.addr] \in Nat /\ hi[Top.addr] \in Int
  BY <1>2, <1>4, <1>6, SameBounds DEF Good, RangedAll
<1>8. op \in Ops
  BY <1>1 DEF IInv, CallInv
<1>9. /\ i \in 0..Len(b.keys) /\ addr \in Kids(b)
      /\ IF op.k = None THEN lo[addr] = 0 ELSE InRange(op.k, lo[addr], hi[addr])
  <2>1. CASE op.kind = "range" /\ op.k = None
    <3>1. i = 0 /\ lo[Top.addr] = 0
      BY <2>1, <1>1, <1>2 DEF child_index, Aim
    <3>2. Len(b.keys) \in Nat
      BY <1>7, RangedIs
    <3>3. i \in 0..Len(b.keys)
      BY <3>1, <3>2
    <3>4. addr \in Kids(b) /\ lo[addr] = LeftOf(b.keys, 0, i + 1)
      BY <3>1, <3>3, <1>1, <1>7, ChildRange
    <3>5. QED
      BY <3>1, <3>3, <3>4, <2>1 DEF LeftOf
  <2>2. CASE ~(op.kind = "range" /\ op.k = None)
    <3>1. op.k \in Int /\ op.k # None
      BY <2>2, <1>8, OpsAssumption, NoneAssumption DEF Op, IntOrNone
    <3>2. i = search_node(b, op.k)
      BY <2>2 DEF child_index
    <3>3. InRange(op.k, lo[Top.addr], hi[Top.addr])
      BY <3>1, <1>1, <1>2 DEF Aim
    <3>4. QED
      BY <3>1, <3>2, <3>3, <1>1, <1>7, ChildAimed
  <2>3. QED
    BY <2>1, <2>2
<1> HIDE DEF i
<1>10. addr \in Live(disk)
  BY <1>4, <1>6, <1>9 DEF Forest
<1>11. fr = [addr |-> addr, block |-> disk[addr], i |-> 0]
  BY <1>10, LeafOrNode DEF Frame, Read
<1> HIDE DEF addr, fr
<1>12. Top' = fr /\ (Updating' => \A j \in 1..Len(path') : path'[j].block = disk[path'[j].addr])
  <2>1. CASE op.kind \in {"get", "range"}
    BY <2>1, <1>1 DEF Top, Updating
  <2>2. CASE op.kind \notin {"get", "range"}
    <3>1. path \in Seq(Frames) /\ Len(path) \in Nat /\ Len(path) >= 1
      BY <1>1, TopFrame DEF IInv, PathInv
    <3>2. DOMAIN path = 1..Len(path) /\ \A j \in 1..Len(path) : path[j] \in Frames
      BY <3>1
    <3>3. op.kind \in {"insert", "update", "delete"} /\ Updating
      BY <2>2, <1>1, <1>8, OpsAssumption DEF Op, Updating
    <3>4. /\ Len(down) = Len(path)
          /\ \A j \in 1..Len(path) : down[j].block = path[j].block /\ down[j].addr = path[j].addr
      <4> HIDE DEF i
      <4>1. DOMAIN down = 1..Len(path) /\ \A j \in 1..Len(path) :
                down[j] = IF j = Len(path) THEN [path[j] EXCEPT !.i = i] ELSE path[j]
        BY <3>1, <3>2
      <4>2. down = [j \in 1..Len(path) |-> down[j]]
        BY <4>1
      <4>3. Len(down) = Len(path)
        BY <4>1, <3>1
      <4>4. \A j \in 1..Len(path) : down[j].block = path[j].block /\ down[j].addr = path[j].addr
        BY <4>1, <3>2 DEF Frames
      <4>5. QED
        BY <4>3, <4>4
    <3>5. path' = Append(down, fr)
      BY <2>2, <1>1
    <3>6. /\ Len(path') = Len(path) + 1 /\ path'[Len(path) + 1] = fr
          /\ \A j \in 1..Len(path) : path'[j] = down[j]
      <4>1. PICK d, n : d = down /\ n = Len(path) /\ n \in Nat /\ Len(d) = n
        BY <3>1, <3>4
      <4>2. /\ Len(Append(d, fr)) = n + 1 /\ Append(d, fr)[n + 1] = fr
            /\ \A j \in 1..n : Append(d, fr)[j] = d[j]
        BY <4>1
      <4>3. QED
        BY <4>1, <4>2, <3>5
    <3>7. \A j \in 1..Len(path) : path[j].block = disk[path[j].addr]
      BY <1>1, <1>2, <3>3 DEF Truth
    <3>8. Top' = fr
      BY <3>6 DEF Top
    <3>9. ASSUME NEW j \in 1..Len(path')
          PROVE  path'[j].block = disk[path'[j].addr]
      <4>1. CASE j = Len(path) + 1
        BY <4>1, <3>6, <1>11
      <4>2. CASE j \in 1..Len(path)
        BY SMTT(30), ZenonT(30), <4>2, <3>4, <3>6, <3>7
      <4>3. QED
        BY <4>1, <4>2, <3>1, <3>6
    <3>10. QED
      BY <3>8, <3>9
  <2>3. QED
    BY <2>1, <2>2
<1>13. Top'.addr = addr /\ Top'.block = disk[addr]
  BY <1>11, <1>12
<1>14. QED
  BY <1>1, <1>2, <1>3, <1>9, <1>10, <1>12, <1>13, SearchOrder DEF addr

-----------------------------------------------------------------------------
(* Opening the file, and its writes *)

LEMMA WriteBlockOrder == IInv /\ OrderInv /\ WriteBlock => OrderInv'
<1> SUFFICES ASSUME IInv, OrderInv, WriteBlock PROVE OrderInv'
  OBVIOUS
<1>1. PICK f, lo, hi : Order(f, lo, hi)
  BY DEF OrderInv
<1>2. /\ disk' = Put(disk, writes[1].addr, writes[1].block) /\ writes' = Tail(writes)
      /\ writes # <<>> /\ UNCHANGED <<file_size, pc, op, path, rv, ret>>
  BY DEF WriteBlock, Put
<1>3. writes \in Seq(Writes)
  BY DEF IInv, CallInv
<1>4. After(f, disk', writes')
  BY <1>1, <1>2, <1>3, AfterFirst DEF Order
<1>5. InHand(f)' = InHand(f)
  BY <1>2 DEF InHand, Edited, Top
<1>6. /\ Ends(f, lo, hi)' <=> Ends(f, lo, hi)
      /\ Truth(f)' <=> Truth(f)
      /\ Aim(lo, hi)' <=> Aim(lo, hi)
  BY <1>2 DEF Ends, Apex, Truth, Aim, Updating, Top
<1>7. Order(f, lo, hi)'
  BY <1>1, <1>4, <1>5, <1>6 DEF Order
<1>8. QED
  BY <1>7 DEF OrderInv

LEMMA StutterOrder == OrderInv /\ UNCHANGED vars => OrderInv'
<1> SUFFICES ASSUME OrderInv, UNCHANGED vars PROVE OrderInv'
  OBVIOUS
<1>1. PICK f, lo, hi : Order(f, lo, hi)
  BY DEF OrderInv
<1>2. UNCHANGED <<disk, pc, op, path, rv, writes>>
  BY DEF vars
<1>3. InHand(f)' = InHand(f)
  BY <1>2 DEF InHand, Edited, Top
<1>4. /\ Ends(f, lo, hi)' <=> Ends(f, lo, hi)
      /\ Truth(f)' <=> Truth(f)
      /\ Aim(lo, hi)' <=> Aim(lo, hi)
  BY <1>2 DEF Ends, Apex, Truth, Aim, Updating, Top
<1>5. Order(f, lo, hi)'
  BY <1>1, <1>2, <1>3, <1>4 DEF Order
<1>6. QED
  BY <1>5 DEF OrderInv

LEMMA OpenExistingOrder == IInv /\ OrderInv /\ OpenExisting => OrderInv'
<1> SUFFICES ASSUME IInv, OrderInv, OpenExisting PROVE OrderInv'
  OBVIOUS
<1>1. PICK f, lo, hi : Order(f, lo, hi)
  BY DEF OrderInv
<1>2. /\ pc = "closed" /\ pc' = "return" /\ writes = <<>> /\ UNCHANGED <<disk, writes, rv, path>>
      /\ DOMAIN disk # {}
  BY DEF OpenExisting, At
<1>3. disk = [a \in DOMAIN disk |-> disk[a]]
  BY DEF IInv, DiskInv
<1>4. f = disk
  BY <1>1, <1>2, <1>3, AfterNone DEF Order
<1>5. Good(disk, lo, hi) /\ lo[RootOf(disk)] = 0 /\ hi[RootOf(disk)] = -1
  BY <1>1, <1>2, <1>4 DEF Order, InHand, Ends, Apex
<1>6. PICK g : g = disk
  OBVIOUS
<1>7. After(g, disk', writes')
  BY <1>2, <1>3, <1>6, AfterSame
<1>8. QED
  BY <1>2, <1>5, <1>6, <1>7, DoneOrder

\* A new file is an empty leaf, whose range is everything.
LEMMA OpenNewOrder == IInv /\ OpenNew => OrderInv'
<1> SUFFICES ASSUME IInv, OpenNew PROVE OrderInv'
  OBVIOUS
<1>1. /\ DOMAIN disk = {} /\ pc' = "return" /\ disk' = disk
      /\ writes' = <<W(0, Header(1, 0)), W(1, Leaf(<<>>, <<>>, 0))>>
  BY DEF OpenNew
<1>2. PICK g : g = Put(Put(disk, 0, Header(1, 0)), 1, Leaf(<<>>, <<>>, 0))
  OBVIOUS
<1>3. After(g, disk', writes')
  BY <1>1, <1>2, AfterTwo
<1>4. DOMAIN g = {0, 1} /\ g[0] = Header(1, 0) /\ g[1] = Leaf(<<>>, <<>>, 0)
  BY <1>1, <1>2 DEF Put
<1>5. RootOf(g) = 1
  BY <1>4 DEF RootOf, BlockAt, Header
<1>6. Live(g) = {1} /\ LeavesOf(g) = {1} /\ g[1].tag = "leaf" /\ g[1].next = 0
  BY <1>4 DEF Live, LeavesOf, IsLive, Header, Leaf
<1>7. PICK lo, hi : lo = [a \in Nat |-> 0] /\ hi = [a \in Nat |-> -1]
  OBVIOUS
<1>8. Bounds(lo, hi) /\ lo[1] = 0 /\ hi[1] = -1
  BY <1>7 DEF Bounds
<1>9. Ranged(g[1], lo, hi, 0, -1)
  <2> DEFINE none == <<>>
  <2>1. none \in Seq(Nat) /\ Len(none) = 0 /\ none \in Seq(Span(0, -1))
    OBVIOUS
  <2> HIDE DEF none
  <2>2. Ascending(none) /\ Under(0, -1)
    BY <2>1 DEF Ascending, Under
  <2>3. Ranged(Leaf(none, none, 0), lo, hi, 0, -1)
    BY <2>1, <2>2, LeafRanged
  <2>4. QED
    BY <2>3, <1>4 DEF none
<1>10. Good(g, lo, hi)
  <2>1. RangedAll(g, lo, hi)
    BY <1>6, <1>8, <1>9 DEF RangedAll
  <2>2. Listed(g, lo, hi)
    BY <1>6, <1>8 DEF Listed
  <2>3. QED
    BY <2>1, <2>2 DEF Good
<1>11. QED
  BY <1>1, <1>3, <1>5, <1>8, <1>10, DoneOrder

LEMMA InitOrder == Init => OrderInv
<1> SUFFICES ASSUME Init PROVE OrderInv
  OBVIOUS
<1>1. /\ disk = [a \in DOMAIN disk |-> disk[a]] /\ DOMAIN disk = {} /\ writes = <<>>
  BY DEF Init
<1>2. After(disk, disk, writes)
  BY <1>1, AfterSame
<1>3. PICK f : f = disk
  OBVIOUS
<1>4. \A lo, hi : Order(f, lo, hi)
  BY <1>1, <1>2, <1>3 DEF Order
<1>5. QED
  BY <1>4 DEF OrderInv

-----------------------------------------------------------------------------
(* The steps that end a call with one write *)

LEMMA PutRoot ==
  ASSUME NEW f, NEW x, x # 0, NEW b
  PROVE  RootOf(Put(f, x, b)) = RootOf(f)
BY DEF RootOf, BlockAt, Put

\* c may be put in the place of b, where k belongs.
Replaces(b, c, k) ==
  \A lo, hi : \A l \in Nat, h \in Int :
    Ranged(b, lo, hi, l, h) /\ InRange(k, l, h) => Ranged(c, lo, hi, l, h)

LEMMA LeafFinishOrder ==
  ASSUME IInv, ShapeInv, OrderInv, writes = <<>>, pc = "search", Top.block.tag = "leaf",
         NEW b, b.tag = "leaf", b.next = Top.block.next, op.k # None, Replaces(Top.block, b, op.k),
         NEW r, Finish(r, <<W(Top.addr, b)>>)
  PROVE  OrderInv'
<1>1. PICK lo, hi : Good(disk, lo, hi) /\ Ends(disk, lo, hi) /\ Truth(disk) /\ Aim(lo, hi)
  BY OrderNow DEF InHand
<1>2. PICK x : x = Top.addr
  OBVIOUS
<1>3. /\ lo[RootOf(disk)] = 0 /\ hi[RootOf(disk)] = -1 /\ x \in Live(disk) /\ disk[x] = Top.block
      /\ InRange(op.k, lo[x], hi[x])
  BY <1>1, <1>2 DEF Ends, Apex, Truth, Aim
<1>4. PICK lv, s : Standing(disk, lv, s, {}, RootOf(disk))
  BY HandAtSearch
<1>5. x \in Nat /\ x # 0 /\ lo[x] \in Nat /\ hi[x] \in Int
  BY <1>1, <1>3, <1>4, StandingIs, SameBounds DEF Good, RangedAll
<1>6. Ranged(b, lo, hi, lo[x], hi[x])
  BY <1>1, <1>3, <1>5 DEF Good, RangedAll, Replaces
<1>7. PICK g : g = Put(disk, x, b)
  OBVIOUS
<1>8. After(g, disk', writes') /\ pc' = "return"
  BY <1>2, <1>7, AfterOne DEF Finish
<1>9. Live(g) = Live(disk) /\ g[x] = b /\ \A a \in Live(disk) : a # x => g[a] = disk[a]
  <2>1. IsLive(b) /\ x \in Live(disk)
    BY ONLY b.tag = "leaf", <1>3 DEF IsLive
  <2>2. /\ Live(g) = Live(disk) \cup {x} /\ g[x] = b
        /\ \A a \in Live(disk) : a # x => g[a] = disk[a]
    BY ONLY <2>1, <1>7, PutLive
  <2>3. QED
    BY ONLY <2>1, <2>2
<1>10. Good(g, lo, hi)
  BY <1>1, <1>3, <1>6, <1>9, Rewritten
<1>11. RootOf(g) = RootOf(disk)
  BY <1>5, <1>7, PutRoot
<1>12. QED
  BY <1>3, <1>8, <1>10, <1>11, DoneOrder

LEMMA LeafReplaced ==
  ASSUME NEW b, b.tag = "leaf", NEW k \in Int, NEW i, i = search_leaf(b, k)
  PROVE  /\ \A v \in Nat : Found(b, k) => Replaces(b, update_leaf(b, i, v), k)
         /\ \A v \in Nat : ~Found(b, k) /\ k \in Nat => Replaces(b, leaf_insert(b, i, k, v), k)
         /\ Found(b, k) => Replaces(b, leaf_pop(b, i), k)
<1>1. ASSUME NEW lo, NEW hi, NEW l \in Nat, NEW h \in Int, Ranged(b, lo, hi, l, h), InRange(k, l, h),
             NEW v \in Nat
      PROVE  /\ Found(b, k) => Ranged(update_leaf(b, i, v), lo, hi, l, h)
             /\ ~Found(b, k) /\ k \in Nat => Ranged(leaf_insert(b, i, k, v), lo, hi, l, h)
             /\ Found(b, k) => Ranged(leaf_pop(b, i), lo, hi, l, h)
  <2>1. b.keys \in Seq(Nat) /\ Ascending(b.keys) /\ Len(b.keys) \in Nat
    BY <1>1, RangedIs
  <2>2. /\ i \in 0..Len(b.keys)
        /\ ~Found(b, k) => Place(b.keys, i, k)
        /\ Found(b, k) => i + 1 \in 1..Len(b.keys)
    BY <2>1, PlaceFound
  <2>3. Found(b, k) => i \in 0..(Len(b.keys) - 1)
    <3>1. PICK n : n = Len(b.keys)
      OBVIOUS
    <3>2. n \in Nat /\ i \in 0..n /\ (Found(b, k) => i + 1 \in 1..n)
      BY <2>1, <2>2, <3>1
    <3>3. Found(b, k) => i \in 0..(n - 1)
      BY ONLY <3>2
    <3>4. QED
      BY <3>1, <3>3
  <2>4. k \in Nat => k \in Span(l, h)
    BY <1>1 DEF InRange, Span
  <2>5. /\ k \in Span(l, h) /\ i \in 0..Len(b.keys) /\ Place(b.keys, i, k)
             => Ranged(leaf_insert(b, i, k, v), lo, hi, l, h)
        /\ i \in 0..(Len(b.keys) - 1) => Ranged(leaf_pop(b, i), lo, hi, l, h)
        /\ i \in 0..(Len(b.keys) - 1) => Ranged(update_leaf(b, i, v), lo, hi, l, h)
    BY <1>1, LeafChanged
  <2>6. QED
    BY <2>2, <2>3, <2>4, <2>5
<1>2. 0 \in Nat
  OBVIOUS
<1>3. QED
  BY <1>1, <1>2 DEF Replaces

LEMMA RaisedOrder ==
  ASSUME IInv, ShapeInv, OrderInv, writes = <<>>, pc = "search", NEW r, Finish(r, <<>>)
  PROVE  OrderInv'
<1>1. UNCHANGED <<disk, writes>> /\ pc' = "return"
  BY DEF Finish
<1>2. QED
  BY <1>1, QuietOrder

LEMMA LeafOrder ==
  IInv /\ ShapeInv /\ OrderInv /\ (UpdateLeaf \/ InsertLeaf \/ DeleteFromLeaf) => OrderInv'
<1> SUFFICES ASSUME IInv, ShapeInv, OrderInv, UpdateLeaf \/ InsertLeaf \/ DeleteFromLeaf PROVE OrderInv'
  OBVIOUS
<1> DEFINE b == Top.block
           i == search_leaf(b, op.k)
<1>1. /\ pc = "search" /\ writes = <<>> /\ b.tag = "leaf"
      /\ op.kind \in {"insert", "update", "delete"}
  BY DEF UpdateLeaf, InsertLeaf, DeleteFromLeaf, AtInsertLeaf, AtDeleteLeaf, AtLeaf, At
<1>2. op \in Ops
  BY <1>1 DEF IInv, CallInv
<1>3. op.k \in Int /\ op.k # None
  BY <1>1, <1>2, CallArguments, NoneAssumption
<1>4. CASE UpdateLeaf
  <2> DEFINE n == update_leaf(b, i, op.v)
  <2>1. CASE Packable(op.v)
    <3>1. n.tag = "leaf" /\ n.next = b.next
      BY <1>1 DEF update_leaf
    <3>2. Finish(Done, <<W(Top.addr, n)>>) /\ Found(b, op.k)
      BY <1>4, <2>1 DEF UpdateLeaf
    <3>3. Replaces(b, n, op.k)
      BY <1>1, <1>3, <2>1, <3>2, LeafReplaced, PackableNat
    <3> HIDE DEF n
    <3>4. QED
      BY <1>1, <1>3, <3>1, <3>2, <3>3, LeafFinishOrder
  <2>2. CASE ~Packable(op.v)
    <3>1. Finish(Raised, <<>>)
      BY <1>4, <2>2 DEF UpdateLeaf
    <3>2. QED
      BY <1>1, <3>1, RaisedOrder
  <2>3. QED
    BY <2>1, <2>2
<1>5. CASE InsertLeaf
  <2> DEFINE n == leaf_insert(b, i, op.k, op.v)
  <2>1. CASE Fits
    <3>1. n.tag = "leaf" /\ n.next = b.next
      BY DEF leaf_insert, Leaf
    <3>2. Finish(Done, <<W(Top.addr, n)>>) /\ ~Found(b, op.k)
      BY <1>5, <2>1 DEF InsertLeaf, AtInsertLeaf
    <3>3. Replaces(b, n, op.k)
      BY <1>1, <1>3, <2>1, <3>2, LeafReplaced, PackableNat DEF Fits
    <3> HIDE DEF n
    <3>4. QED
      BY <1>1, <1>3, <3>1, <3>2, <3>3, LeafFinishOrder
  <2>2. CASE ~Fits
    <3>1. Finish(Raised, <<>>)
      BY <1>5, <2>2 DEF InsertLeaf
    <3>2. QED
      BY <1>1, <3>1, RaisedOrder
  <2>3. QED
    BY <2>1, <2>2
<1>6. CASE DeleteFromLeaf
  <2> DEFINE n == leaf_pop(b, i)
  <2>1. n.tag = "leaf" /\ n.next = b.next
    BY DEF leaf_pop, Leaf
  <2>2. Finish(Done, <<W(Top.addr, n)>>) /\ Found(b, op.k)
    BY <1>6 DEF DeleteFromLeaf, AtDeleteLeaf, popped_leaf
  <2>3. Replaces(b, n, op.k)
    BY <1>1, <1>3, <2>2, LeafReplaced
  <2> HIDE DEF n
  <2>4. QED
    BY <1>1, <1>3, <2>1, <2>2, <2>3, LeafFinishOrder
<1>7. QED
  BY <1>4, <1>5, <1>6

LEMMA InsertLeafSplitRaisesOrder == IInv /\ ShapeInv /\ OrderInv /\ InsertLeafSplitRaises => OrderInv'
<1> SUFFICES ASSUME IInv, ShapeInv, OrderInv, InsertLeafSplitRaises PROVE OrderInv'
  OBVIOUS
<1>1. /\ pc = "search" /\ writes = <<>> /\ Finish(Raised, new_node_writes)
  BY DEF InsertLeafSplitRaises, AtInsertLeaf, AtLeaf, At
<1>2. PICK lo, hi : Good(disk, lo, hi) /\ Ends(disk, lo, hi)
  BY <1>1, OrderNow DEF InHand
<1>3. lo[RootOf(disk)] = 0 /\ hi[RootOf(disk)] = -1
  BY <1>1, <1>2 DEF Ends, Apex
<1>4. PICK lv, s : Standing(disk, lv, s, {}, RootOf(disk))
  BY <1>1, HandAtSearch
<1>5. /\ Within(disk, file_size) /\ file_size \in Nat /\ file_size # 0
      /\ disk = [a \in DOMAIN disk |-> disk[a]]
  BY <1>1, HandlerFinds
<1>6. PICK g : g = Taken(disk)
  OBVIOUS
<1>7. SameLive(disk, g) /\ RootOf(g) = RootOf(disk)
  BY <1>4, <1>5, <1>6, StandingTaken
<1>8. After(g, disk', writes') /\ pc' = "return"
  BY <1>1, <1>5, <1>6, TakenWritten DEF Finish
<1>9. Good(g, lo, hi)
  BY <1>2, <1>7, GoodSame
<1>10. QED
  BY <1>3, <1>7, <1>8, <1>9, DoneOrder

LEMMA SetRootOrder == IInv /\ ShapeInv /\ OrderInv /\ SetRoot => OrderInv'
<1> SUFFICES ASSUME IInv, ShapeInv, OrderInv, SetRoot PROVE OrderInv'
  OBVIOUS
<1>1. /\ pc = "set_root" /\ writes = <<>> /\ pc' = "return" /\ disk' = disk
      /\ writes' = set_root_writes(rv.addr)
  BY DEF SetRoot, At, Finish
<1>2. PICK lo, hi : Good(disk, lo, hi) /\ Ends(disk, lo, hi)
  BY <1>1, OrderNow DEF InHand
<1>3. lo[rv.addr] = 0 /\ hi[rv.addr] = -1
  BY <1>1, <1>2 DEF Ends, Apex
<1>4. PICK lv, s : Standing(disk, lv, s, {}, rv.addr)
  <2>1. PICK lv, s : Tree(disk, lv, s)
    BY <1>1, AtRest
  <2>2. Hole = {} /\ Apex(disk) = rv.addr
    BY <1>1 DEF Hole, Apex
  <2>3. QED
    BY <2>1, <2>2 DEF Tree
<1>5. PICK r \in Nat : r = rv.addr
  BY DEF IInv, CallInv, ReturnValues
<1>6. PICK g, h : h = Header(r, FreeOf(disk)) /\ g = Put(disk, 0, h)
  OBVIOUS
<1>7. RootOf(g) = r
  <2>1. LET k == Put(disk, 0, Header(r, FreeOf(disk)))
        IN  Standing(k, lv, s, {}, r) /\ RootOf(k) = r /\ DOMAIN k = DOMAIN disk
    BY <1>4, <1>5, RootSet
  <2>2. QED
    BY <1>6, <2>1
<1>8. writes' = <<W(0, h)>>
  BY <1>1, <1>5, <1>6, Pointers DEF set_root_writes
<1>9. After(g, disk', writes')
  BY <1>1, <1>6, <1>8, AfterOne
<1>10. SameLive(disk, g)
  <2>1. ~IsLive(h) /\ 0 \notin Live(disk)
    BY <1>4, <1>6, LiveTags, StandingIs
  <2>2. Live(g) = Live(disk) \ {0} /\ \A a \in Live(disk) : a # 0 => g[a] = disk[a]
    BY <2>1, <1>6, PutLive
  <2>3. Live(g) = Live(disk)
    BY <2>1, <2>2
  <2>4. QED
    BY <2>1, <2>2, <2>3 DEF SameLive
<1>11. Good(g, lo, hi)
  BY <1>2, <1>10, GoodSame
<1>12. QED
  BY <1>1, <1>3, <1>5, <1>7, <1>9, <1>11, DoneOrder

\* The node in hand is written, and that is all.
LEMMA NodeFinishOrder ==
  ASSUME IInv, ShapeInv, OrderInv, writes = <<>>, pc \in {"insert_up", "delete_up"}, Top.addr # 0,
         NEW r, Finish(r, <<W(Top.addr, Edited)>>)
  PROVE  OrderInv'
<1>1. PICK lo, hi : Good(InHand(disk), lo, hi) /\ Ends(disk, lo, hi)
  BY OrderNow
<1>2. lo[RootOf(disk)] = 0 /\ hi[RootOf(disk)] = -1
  BY <1>1 DEF Ends, Apex
<1>3. PICK g, b, x : g = InHand(disk) /\ b = Edited /\ x = Top.addr
  OBVIOUS
<1>4. g = Put(disk, x, b)
  BY <1>3 DEF InHand
<1>5. After(g, disk', writes') /\ pc' = "return"
  BY <1>3, <1>4, AfterOne DEF Finish
<1>6. RootOf(g) = RootOf(disk)
  BY <1>3, <1>4, PutRoot
<1>7. QED
  BY <1>1, <1>2, <1>3, <1>5, <1>6, DoneOrder

LEMMA NodeOrder ==
  IInv /\ ShapeInv /\ OrderInv /\ (InsertNode \/ WriteModifiedNode \/ DeleteFromNode) => OrderInv'
<1> SUFFICES ASSUME IInv, ShapeInv, OrderInv, InsertNode \/ WriteModifiedNode \/ DeleteFromNode PROVE OrderInv'
  OBVIOUS
<1>1. /\ pc \in {"insert_up", "delete_up"} /\ writes = <<>>
      /\ Finish(Done, <<W(Top.addr, Edited)>>)
  BY DEF InsertNode, WriteModifiedNode, DeleteFromNode, AtDeleteNode, At, Edited, popped_node
<1>2. PICK lv, s : Tree(disk, lv, s) /\ Standing(disk, lv, s, Hole, RootOf(disk))
  BY <1>1, HandlerFinds
<1>3. Updating
  BY <1>1 DEF Updating
<1>4. Top.addr # 0
  BY <1>2, <1>3, TopOnFile, StandingIs
<1>5. QED
  BY <1>1, <1>4, NodeFinishOrder

-----------------------------------------------------------------------------
(* Splits *)

LEMMA SplitLive ==
  ASSUME NEW f, SameLive(f, Taken(f)), RootOf(Taken(f)) = RootOf(f),
         NEW x \in Live(f), x # 0, NEW n, n \notin Live(f), n # 0,
         NEW b, IsLive(b), NEW c, IsLive(c), NEW g, g = Split(f, x, b, n, c)
  PROVE  /\ Live(g) = Live(f) \cup {n} /\ g[x] = b /\ g[n] = c
         /\ \A a \in Live(f) : a # x => g[a] = f[a]
         /\ RootOf(g) = RootOf(f)
<1>1. PICK t : t = Taken(f)
  OBVIOUS
<1>2. Live(t) = Live(f) /\ (\A a \in Live(f) : t[a] = f[a]) /\ RootOf(t) = RootOf(f)
  BY <1>1 DEF SameLive
<1>3. PICK h : h = Put(t, x, b)
  OBVIOUS
<1>4. Live(h) = Live(t) \cup {x} /\ h[x] = b /\ \A a \in Live(t) : a # x => h[a] = t[a]
  BY <1>3, PutLive
<1>5. Live(h) = Live(f) /\ \A a \in Live(f) : a # x => h[a] = f[a]
  BY <1>2, <1>4
<1>6. g = Put(h, n, c)
  BY <1>1, <1>3 DEF Split
<1>7. Live(g) = Live(h) \cup {n} /\ g[n] = c /\ \A a \in Live(h) : a # n => g[a] = h[a]
  BY <1>6, PutLive
<1>8. x # n
  OBVIOUS
<1>9. RootOf(g) = RootOf(h) /\ RootOf(h) = RootOf(t)
  BY <1>3, <1>6, PutRoot
<1>10. QED
  BY <1>2, <1>4, <1>5, <1>7, <1>8, <1>9

\* The block in hand of a split, b and c for it, and k between them.
SplitInHand(v, lo, hi, x, n, k, b, c) ==
  /\ Good(v, lo, hi)
  /\ IsLive(b) /\ IsLive(c) /\ Halves(b, c, lo, hi, lo[x], k, hi[x]) /\ TwoFor(b, c, v, x)
  /\ v[x].tag = "leaf" => b.next = n /\ c.next = v[x].next

\* ReturnSplit, of a block that is cut in two.
LEMMA SplitOrder ==
  ASSUME IInv, ShapeInv, writes = <<>>, Updating, pc \in {"search", "insert_up"}, Truth(disk),
         NEW lv, NEW s, Tree(disk, lv, s), Standing(disk, lv, s, {}, RootOf(disk)),
         NEW v, Hand(v, lv, Top.addr), NEW lo, NEW hi, lo[RootOf(disk)] = 0, hi[RootOf(disk)] = -1,
         NEW k, NEW b, NEW c, SplitInHand(v, lo, hi, Top.addr, new_addr, k, b, c),
         NEW ws, After(Split(disk, Top.addr, b, new_addr, c), disk, ws), ReturnSplit(new_addr, k, ws)
  PROVE  OrderInv'
<1>1. PICK x, n, r : x = Top.addr /\ n = new_addr /\ r = RootOf(disk)
  OBVIOUS
<1>2. /\ Within(disk, file_size) /\ file_size \in Nat /\ file_size # 0
      /\ disk = [a \in DOMAIN disk |-> disk[a]]
  BY HandlerFinds
<1>3. /\ SameLive(disk, Taken(disk)) /\ RootOf(Taken(disk)) = RootOf(disk)
      /\ n \in Nat /\ n # 0 /\ n \notin Live(disk)
  <2>1. /\ SameLive(disk, Taken(disk)) /\ RootOf(Taken(disk)) = RootOf(disk)
        /\ Fresh(disk, file_size) \in Nat /\ Fresh(disk, file_size) # 0
        /\ Fresh(disk, file_size) \notin Live(disk)
    BY <1>2, StandingTaken
  <2>2. n = Fresh(disk, file_size)
    BY <1>1, Pointers
  <2>3. QED
    BY <2>1, <2>2
<1>4. x \in Live(disk) /\ x \in Nat /\ x # 0 /\ Live(disk) \subseteq Nat /\ r \in Live(disk)
  BY <1>1, TopOnFile, StandingIs
<1>5. PICK g : g = Split(disk, x, b, n, c)
  OBVIOUS
<1>6. IsLive(b) /\ IsLive(c) /\ Good(v, lo, hi) /\ Bounds(lo, hi)
  BY DEF SplitInHand, Good, RangedAll
<1>7. /\ Live(g) = Live(disk) \cup {n} /\ g[x] = b /\ g[n] = c
      /\ \A a \in Live(disk) : a # x => g[a] = disk[a]
      /\ RootOf(g) = r
  BY <1>1, <1>3, <1>4, <1>5, <1>6, SplitLive
<1>8. /\ disk' = disk /\ writes' = ws /\ rv'.addr = n /\ rv'.key = k
      /\ AtRoot => pc' = "new_root"
      /\ ~AtRoot => pc' = "insert_up" /\ path' = Front(path)
  BY <1>1 DEF ReturnSplit, SplitOff
<1>9. After(g, disk', writes')
  BY <1>1, <1>5, <1>8
<1>10. /\ Forest(v, lv, {}) /\ lv \in [Nat -> Nat] /\ Live(v) = Live(disk)
       /\ \A a \in Live(disk) : a # x => v[a] = disk[a]
       /\ Loose(v, r)
  BY <1>1 DEF Hand
<1>11. k \in Nat
  BY DEF SplitInHand, Halves
<1>12. PICK lo2, hi2 : CutAt(lo, hi, x, n, k, lo2, hi2)
  BY <1>3, <1>4, <1>6, <1>11, CutExists
<1>13. Cutting(v, lv, lo, hi, x, n, k, b, c, lo2, hi2)
  BY <1>1, <1>3, <1>4, <1>10, <1>12 DEF Cutting, SplitInHand
<1>14. /\ lo2[n] = k /\ hi2[n] = hi[x] /\ hi2[x] = k /\ lo2[r] = lo[r]
       /\ r # x => hi2[r] = hi[r]
  BY <1>3, <1>4, <1>12 DEF CutAt
<1>15. CASE AtRoot
  <2>1. x = r
    BY <1>1, <1>15, TopOnFile
  <2>2. CutDone(v, g, x, n, b, c, {})
    BY <1>7, <1>10 DEF CutDone
  <2>3. Good(g, lo2, hi2)
    BY <2>1, <2>2, <1>10, <1>13, CutTop
  <2>4. QED
    BY <2>1, <2>3, <1>1, <1>7, <1>8, <1>9, <1>14, <1>15, HalvesOrder
<1>16. CASE ~AtRoot
  <2>1. /\ Parent.addr \in Inner(disk) /\ disk[Parent.addr] = Parent.block
        /\ Parent.addr \in Live(disk) /\ Parent.addr # x
        /\ x = Parent.block.values[Parent.i + 1]
        /\ Parent.i \in 0..Len(Parent.block.keys)
    BY <1>1, <1>16, ParentTrue
  <2>2. x # r
    BY <1>1, <1>16, ParentOnFile DEF Sibling
  <2>3. PICK p, i, e : p = Parent.addr /\ i = Parent.i /\ e = node_insert(Parent.block, i, i + 1, k, n)
    OBVIOUS
  <2>4. p \in Inner(v) /\ v[p] = Parent.block /\ p \in Live(v) /\ p # x /\ p # n
    <3>1. p \in Live(disk) /\ p \in Inner(disk) /\ p # x /\ disk[p] = Parent.block
      BY <2>1, <2>3
    <3>2. v[p] = disk[p] /\ p \in Live(v) /\ p # n
      BY <3>1, <1>3, <1>10
    <3>3. v[p].tag = "node"
      BY <3>1, <3>2, LeafOrNode
    <3>4. QED
      BY <3>1, <3>2, <3>3, LeafOrNode
  <2>5. PICK C : C = {x, n}
    OBVIOUS
  <2>6. Top' = Parent /\ \A j \in 1..Len(path') : path'[j].block = g[path'[j].addr]
    <3>1. AtLevel(C, lv)
      BY <2>5, <1>1, <1>3 DEF AtLevel
    <3>2. SameBut(g, C)
      BY <2>5, <1>7 DEF SameBut
    <3>3. QED
      BY <3>1, <3>2, <1>8, <1>16, FrontTrue
  <2>7. Edited' = e
    BY <2>3, <2>6, <1>8, <1>16 DEF Edited
  <2>8. PICK w : w = Put(g, p, e)
    OBVIOUS
  <2>9. InHand(g)' = w
    BY <2>3, <2>6, <2>7, <2>8, <1>8, <1>16 DEF InHand
  <2>10. Live(w) = Live(g) \cup {p} /\ w[p] = e /\ \A a \in Live(g) : a # p => w[a] = g[a]
    <3>1. IsLive(e)
      BY <2>3 DEF IsLive, node_insert, Node
    <3>2. QED
      BY <3>1, <2>8, PutLive
  <2>11. CutDone(v, w, x, n, b, c, {p})
    <3>1. Live(w) = Live(v) \cup {n}
      BY <2>4, <2>10, <1>7, <1>10
    <3>2. w[x] = b /\ w[n] = c
      BY <2>4, <2>10, <1>4, <1>7
    <3>3. \A a \in Live(v) : a # p /\ a # x => w[a] = v[a]
      BY <2>10, <1>7, <1>10
    <3>4. QED
      BY <3>1, <3>2, <3>3 DEF CutDone
  <2>12. Good(w, lo2, hi2)
    <3>1. i \in 0..Len(v[p].keys) /\ x = v[p].values[i + 1] /\ w[p] = node_insert(v[p], i, i + 1, k, n)
      BY <2>1, <2>3, <2>4, <2>10
    <3>2. QED
      BY <3>1, <2>4, <2>11, <1>13, CutUnder
  <2>13. QED
    BY <2>2, <2>6, <2>9, <2>12, <1>1, <1>7, <1>8, <1>9, <1>14, <1>16, UpOrder
<1>17. QED
  BY <1>15, <1>16

LEMMA NewBlock ==
  ASSUME IInv, ShapeInv, writes = <<>>, pc \in {"search", "insert_up", "new_root"},
         NEW lv, NEW s, NEW t, Standing(disk, lv, s, {}, t)
  PROVE  /\ new_addr \in Nat /\ new_addr # 0 /\ new_addr \notin Live(disk)
         /\ disk = [a \in DOMAIN disk |-> disk[a]]
         /\ SameLive(disk, Taken(disk)) /\ RootOf(Taken(disk)) = RootOf(disk)
         /\ Loose(Taken(disk), new_addr)
<1>1. /\ Within(disk, file_size) /\ file_size \in Nat /\ file_size # 0
      /\ disk = [a \in DOMAIN disk |-> disk[a]]
  BY HandlerFinds
<1>2. /\ SameLive(disk, Taken(disk)) /\ RootOf(Taken(disk)) = RootOf(disk)
      /\ Fresh(disk, file_size) \in Nat /\ Fresh(disk, file_size) # 0
      /\ Fresh(disk, file_size) \notin Live(disk)
      /\ Loose(Taken(disk), Fresh(disk, file_size))
  BY <1>1, StandingTaken
<1>3. new_addr = Fresh(disk, file_size)
  BY Pointers
<1>4. QED
  BY <1>1, <1>2, <1>3

LEMMA InsertLeafSplitOrder == IInv /\ ShapeInv /\ OrderInv /\ InsertLeafSplit => OrderInv'
<1> SUFFICES ASSUME IInv, ShapeInv, OrderInv, InsertLeafSplit PROVE OrderInv'
  OBVIOUS
<1> DEFINE b == Top.block
           i == search_leaf(b, op.k)
           sp == split_leaf(b, i, op.k, op.v, new_addr)
           ws == new_node_writes \o <<W(Top.addr, sp.old), W(new_addr, sp.new)>>
<1>1. /\ pc = "search" /\ writes = <<>> /\ b.tag = "leaf" /\ nkeys(b) >= MAX_NKEYS /\ Fits
      /\ op.kind \in {"insert", "update"} /\ ReturnSplit(new_addr, sp.new.keys[1], ws)
      /\ ~Found(b, op.k)
  BY DEF InsertLeafSplit, AtInsertLeaf, AtLeaf, At
<1>2. Updating
  BY <1>1 DEF Updating
<1>3. op.k \in Nat /\ op.v \in Nat /\ op.k \in Int /\ op.k # None
  <2>1. op.k \in Nat /\ op.v \in Nat
    BY <1>1, PackableNat DEF Fits
  <2>2. op.k \in Int
    BY <2>1
  <2>3. QED
    BY <2>1, <2>2, NoneAssumption
<1>4. PICK lo, hi : Good(disk, lo, hi) /\ Ends(disk, lo, hi) /\ Truth(disk) /\ Aim(lo, hi)
  BY <1>1, OrderNow DEF InHand
<1>5. PICK x : x = Top.addr
  OBVIOUS
<1>6. /\ lo[RootOf(disk)] = 0 /\ hi[RootOf(disk)] = -1 /\ x \in Live(disk) /\ disk[x] = b
      /\ InRange(op.k, lo[x], hi[x])
  BY <1>1, <1>3, <1>4, <1>5 DEF Ends, Apex, Truth, Aim
<1>7. PICK lv, s : Tree(disk, lv, s) /\ Standing(disk, lv, s, {}, RootOf(disk)) /\ Hand(disk, lv, x)
  BY <1>1, <1>5, HandAtSearch
<1>8. x \in Nat /\ x # 0 /\ lo[x] \in Nat /\ hi[x] \in Int
  BY <1>4, <1>6, <1>7, StandingIs, SameBounds DEF Good, RangedAll
<1>9. /\ new_addr \in Nat /\ new_addr # 0 /\ new_addr \notin Live(disk)
      /\ disk = [a \in DOMAIN disk |-> disk[a]]
  BY <1>1, <1>7, NewBlock
<1>10. Ranged(b, lo, hi, lo[x], hi[x])
  BY <1>4, <1>6 DEF Good, RangedAll
<1> HIDE DEF b
<1>11. b.keys \in Seq(Nat) /\ Ascending(b.keys) /\ Len(b.keys) \in Nat /\ Len(b.keys) >= 2
  BY <1>1, <1>10, RangedIs, MaxNkeysAssumption DEF nkeys
<1>12. i \in 0..Len(b.keys) /\ Place(b.keys, i, op.k)
  BY <1>1, <1>3, <1>11, PlaceFound
<1>13. op.k \in Span(lo[x], hi[x])
  BY <1>3, <1>6, <1>8 DEF InRange, Span
<1> HIDE DEF i
<1>14. PICK p : p = sp
  OBVIOUS
<1>15. /\ Halves(p.old, p.new, lo, hi, lo[x], p.new.keys[1], hi[x])
       /\ p.old.tag = "leaf" /\ p.new.tag = "leaf"
       /\ p.old.next = new_addr /\ p.new.next = b.next
  <2>1. PICK j, nk, nv, na : j = i /\ nk = op.k /\ nv = op.v /\ na = new_addr
    OBVIOUS
  <2>2. /\ b.tag = "leaf" /\ Len(b.keys) >= 2 /\ j \in 0..Len(b.keys) /\ nk \in Span(lo[x], hi[x])
        /\ Place(b.keys, j, nk) /\ nv \in Nat /\ lo[x] \in Nat /\ hi[x] \in Int
        /\ Ranged(b, lo, hi, lo[x], hi[x]) /\ p = split_leaf(b, j, nk, nv, na)
    BY <2>1, <1>1, <1>3, <1>8, <1>10, <1>11, <1>12, <1>13, <1>14
  <2>3. /\ Halves(p.old, p.new, lo, hi, lo[x], p.new.keys[1], hi[x])
        /\ p.old.tag = "leaf" /\ p.new.tag = "leaf"
        /\ p.old.next = na /\ p.new.next = b.next
    BY ONLY <2>2, SplitLeafRanged
  <2>4. QED
    BY <2>1, <2>3
<1> HIDE DEF sp
<1>16. PICK o, c, k : o = p.old /\ c = p.new /\ k = p.new.keys[1]
  OBVIOUS
<1>17. SplitInHand(disk, lo, hi, x, new_addr, k, o, c)
  BY <1>1, <1>4, <1>6, <1>15, <1>16 DEF SplitInHand, TwoFor, KidsIn, IsLive
<1>18. ReturnSplit(new_addr, k, ws) /\ ws = new_node_writes \o <<W(x, o), W(new_addr, c)>>
  BY <1>1, <1>5, <1>14, <1>16
<1>19. After(Split(disk, x, o, new_addr, c), disk, ws)
  <2>1. LET vs == new_node_writes \o <<W(x, o), W(new_addr, c)>>
        IN  After(Split(disk, x, o, new_addr, c), disk, vs) /\ Ordered(vs)
    BY <1>6, <1>8, <1>9, <1>17, SplitWritten DEF SplitInHand
  <2>2. QED
    BY <1>18, <2>1
<1> HIDE DEF ws
<1>20. PICK q : q = ws
  OBVIOUS
<1>21. QED
  BY <1>1, <1>2, <1>4, <1>5, <1>6, <1>7, <1>17, <1>18, <1>19, <1>20, SplitOrder

LEMMA InsertNodeSplitOrder == IInv /\ ShapeInv /\ OrderInv /\ InsertNodeSplit => OrderInv'
<1> SUFFICES ASSUME IInv, ShapeInv, OrderInv, InsertNodeSplit PROVE OrderInv'
  OBVIOUS
<1> DEFINE b == Top.block
           e == node_insert(b, Top.i, Top.i + 1, rv.key, rv.addr)
           sp == split_node(b, Top.i, rv.key, rv.addr)
           ws == new_node_writes \o <<W(Top.addr, sp.old), W(new_addr, sp.new)>>
           v == InHand(disk)
<1>1. /\ pc = "insert_up" /\ writes = <<>> /\ b.tag = "node" /\ nkeys(b) >= MAX_NKEYS
      /\ ReturnSplit(new_addr, sp.key, ws)
  BY DEF InsertNodeSplit, At
<1>2. /\ Branch(b) /\ Top.i \in 0..nkeys(b) /\ nkeys(b) \in Nat
      /\ rv.addr \in Nat /\ rv.key \in Nat
  BY <1>1, NodeToChange
<1>3. Updating
  BY <1>1 DEF Updating
<1>4. PICK lo, hi : Good(v, lo, hi) /\ Ends(disk, lo, hi) /\ Truth(disk)
  BY <1>1, OrderNow
<1>5. PICK x : x = Top.addr
  OBVIOUS
<1>6. PICK lv, s : Tree(disk, lv, s) /\ Standing(disk, lv, s, {}, RootOf(disk)) /\ Hand(v, lv, x)
  BY <1>1, <1>5, HandAtInsert
<1>7. v[x] = e /\ x \in Live(disk) /\ x # 0 /\ KidsIn(v[x]) = Kids(v[x])
  BY <1>1, <1>5, HandAtInsert
<1>8. lo[RootOf(disk)] = 0 /\ hi[RootOf(disk)] = -1
  BY <1>1, <1>4 DEF Ends, Apex
<1>9. e.tag = "node"
  BY DEF node_insert, Node
<1> HIDE DEF v
<1>10. Live(v) = Live(disk) /\ Live(v) \subseteq Nat
  BY <1>6 DEF Hand
<1>11. x \in Nat /\ lo[x] \in Nat /\ hi[x] \in Int /\ Ranged(e, lo, hi, lo[x], hi[x])
  BY <1>4, <1>7, <1>10, SameBounds DEF Good, RangedAll
<1>12. /\ new_addr \in Nat /\ new_addr # 0 /\ new_addr \notin Live(disk)
       /\ disk = [a \in DOMAIN disk |-> disk[a]]
  BY <1>1, <1>6, NewBlock
<1>13. nkeys(b) = MAX_NKEYS
  <2>1. nkeys(b) <= MAX_NKEYS
    BY <1>2 DEF Branch, Sound, Fitting
  <2>2. PICK n, m : n = nkeys(b) /\ m = MAX_NKEYS
    OBVIOUS
  <2>3. n \in Nat /\ m \in Nat /\ n <= m /\ n >= m
    BY <1>1, <1>2, <2>1, <2>2, MaxNkeysAssumption
  <2>4. n = m
    BY ONLY <2>3
  <2>5. QED
    BY <2>2, <2>4
<1> HIDE DEF b
<1>14. PICK p, j, nk, na, f : p = sp /\ j = Top.i /\ nk = rv.key /\ na = rv.addr /\ f = e
  OBVIOUS
<1>15. /\ Halves(p.old, p.new, lo, hi, lo[x], p.key, hi[x])
       /\ p.old.tag = "node" /\ p.new.tag = "node"
       /\ Kids(p.old) \subseteq Kids(f) /\ Kids(p.new) \subseteq Kids(f)
  <2>1. /\ Branch(b) /\ nkeys(b) = MAX_NKEYS /\ j \in 0..nkeys(b) /\ nk \in Nat /\ na \in Nat
        /\ f = node_insert(b, j, j + 1, nk, na) /\ lo[x] \in Nat /\ hi[x] \in Int
        /\ Ranged(f, lo, hi, lo[x], hi[x]) /\ p = split_node(b, j, nk, na)
    BY <1>2, <1>11, <1>13, <1>14
  <2>2. QED
    BY ONLY <2>1, SplitNodeRanged
<1> HIDE DEF sp, e
<1>16. PICK o, c, k : o = p.old /\ c = p.new /\ k = p.key
  OBVIOUS
<1>17. SplitInHand(v, lo, hi, x, new_addr, k, o, c)
  BY <1>4, <1>7, <1>9, <1>14, <1>15, <1>16 DEF SplitInHand, TwoFor, KidsIn, IsLive
<1>18. ReturnSplit(new_addr, k, ws) /\ ws = new_node_writes \o <<W(x, o), W(new_addr, c)>>
  BY <1>1, <1>5, <1>14, <1>16
<1>19. After(Split(disk, x, o, new_addr, c), disk, ws)
  <2>1. LET vs == new_node_writes \o <<W(x, o), W(new_addr, c)>>
        IN  After(Split(disk, x, o, new_addr, c), disk, vs) /\ Ordered(vs)
    BY <1>7, <1>12, <1>17, SplitWritten DEF SplitInHand
  <2>2. QED
    BY <1>18, <2>1
<1> HIDE DEF ws
<1>20. PICK u, q : u = v /\ q = ws
  OBVIOUS
<1>21. QED
  BY <1>1, <1>3, <1>4, <1>5, <1>6, <1>8, <1>17, <1>18, <1>19, <1>20, SplitOrder

-----------------------------------------------------------------------------
(* Borrows and merges *)

\* The children x and y of the node above, at the slots i + 1 and i + 2, and what
\* becomes of them: b and c with the key k between them.
Lending(v, lo, hi, i, x, y, k, b, c) ==
  /\ Good(v, lo, hi) /\ IsLive(b) /\ IsLive(c)
  /\ x = Parent.block.values[i + 1] /\ y = Parent.block.values[i + 2]
  /\ Halves(b, c, lo, hi, lo[x], k, hi[y])
  /\ v[y].tag = v[x].tag /\ b.tag = v[x].tag /\ c.tag = v[x].tag
  /\ KidsIn(b) \cup KidsIn(c) \subseteq KidsIn(v[x]) \cup KidsIn(v[y])
  /\ v[x].tag = "leaf" => b.next = v[x].next /\ c.next = v[y].next

\* The same, and the block b that both are merged into.
Joining(v, lo, hi, i, x, y, b) ==
  /\ Good(v, lo, hi) /\ IsLive(b)
  /\ x = Parent.block.values[i + 1] /\ y = Parent.block.values[i + 2]
  /\ Ranged(b, lo, hi, lo[x], hi[y])
  /\ v[y].tag = v[x].tag /\ b.tag = v[x].tag
  /\ KidsIn(b) \subseteq KidsIn(v[x]) \cup KidsIn(v[y])
  /\ v[x].tag = "leaf" => b.next = v[y].next

LEMMA ParentInHand ==
  ASSUME IInv, Updating, ~AtRoot, NEW lv, NEW s, Tree(disk, lv, s), Truth(disk),
         NEW v, Hand(v, lv, Top.addr), NEW lo, NEW hi, Good(v, lo, hi),
         NEW i \in Nat, i < nkeys(Parent.block),
         NEW x, x = Parent.block.values[i + 1], NEW y, y = Parent.block.values[i + 2]
  PROVE  /\ Beside(v, lv, lo, hi, Parent.addr, i, x, y)
         /\ v[Parent.addr] = Parent.block /\ x # y /\ x # Parent.addr /\ y # Parent.addr
         /\ Parent.addr \in Live(disk) /\ Parent.addr # Top.addr /\ Parent.addr \in Nat
         /\ x # RootOf(disk) /\ y # RootOf(disk) /\ x \in Live(disk) /\ y \in Live(disk)
         /\ lv[x] = lv[Top.addr] /\ lv[y] = lv[Top.addr]
<1>1. /\ Parent.addr \in Inner(disk) /\ disk[Parent.addr] = Parent.block
      /\ Parent.addr \in Live(disk) /\ Parent.addr # Top.addr
      /\ Parent.addr \in Nat /\ Len(Parent.block.keys) \in Nat
  BY ParentTrue
<1>2. /\ Forest(v, lv, {}) /\ lv \in [Nat -> Nat] /\ Live(v) = Live(disk) /\ Live(v) \subseteq Nat
      /\ \A a \in Live(disk) : a # Top.addr => v[a] = disk[a]
      /\ Loose(v, RootOf(disk))
  BY DEF Hand
<1>3. v[Parent.addr] = Parent.block /\ Parent.addr \in Inner(v)
  <2>1. v[Parent.addr] = disk[Parent.addr] /\ Parent.addr \in Live(v)
    BY <1>1, <1>2
  <2>2. disk[Parent.addr].tag = "node"
    BY <1>1, LeafOrNode
  <2>3. QED
    BY <1>1, <2>1, <2>2, LeafOrNode
<1>4. i \in 0..(Len(Parent.block.keys) - 1)
  <2>1. PICK n : n = Len(Parent.block.keys)
    OBVIOUS
  <2>2. n \in Nat /\ i < n
    BY <2>1, <1>1 DEF nkeys
  <2>3. i \in 0..(n - 1)
    BY ONLY <2>2, i \in Nat
  <2>4. QED
    BY <2>1, <2>3
<1>5. Beside(v, lv, lo, hi, Parent.addr, i, x, y)
  BY <1>2, <1>3, <1>4 DEF Beside
<1>6. /\ x \in Live(v) /\ y \in Live(v) /\ x # y /\ x # Parent.addr /\ y # Parent.addr
      /\ x \in Kids(v[Parent.addr]) /\ y \in Kids(v[Parent.addr])
  BY <1>5, Neighbours
<1>7. x # RootOf(disk) /\ y # RootOf(disk)
  BY <1>2, <1>3, <1>6 DEF Loose
<1>8. lv[x] = lv[Top.addr] /\ lv[y] = lv[Top.addr]
  BY <1>3, <1>6, ParentOnFile DEF Sibling
<1>9. QED
  BY <1>1, <1>2, <1>3, <1>5, <1>6, <1>7, <1>8

\* Who lends, and who borrows.
Swap(x, y, b, c, sib, sb, tb) ==
  \/ x = sib /\ y = Top.addr /\ sb = b /\ tb = c
  \/ x = Top.addr /\ y = sib /\ sb = c /\ tb = b

LEMMA TwoPut ==
  ASSUME NEW f, NEW y \in Live(f), y # 0, NEW x \in Live(f), x # 0, x # y,
         NEW b, IsLive(b), NEW c, IsLive(c), NEW g, g = Put(Put(f, y, b), x, c)
  PROVE  /\ Live(g) = Live(f) /\ g[y] = b /\ g[x] = c
         /\ \A a \in Live(f) : a # x /\ a # y => g[a] = f[a]
         /\ RootOf(g) = RootOf(f)
<1>1. PICK h : h = Put(f, y, b)
  OBVIOUS
<1>2. Live(h) = Live(f) \cup {y} /\ h[y] = b /\ \A a \in Live(f) : a # y => h[a] = f[a]
  BY <1>1, PutLive
<1>3. Live(h) = Live(f)
  BY <1>2
<1>4. Live(g) = Live(h) \cup {x} /\ g[x] = c /\ \A a \in Live(h) : a # x => g[a] = h[a]
  BY <1>1, PutLive
<1>5. RootOf(g) = RootOf(h) /\ RootOf(h) = RootOf(f)
  BY <1>1, PutRoot
<1>6. QED
  BY <1>2, <1>3, <1>4, <1>5

LEMMA BorrowOrder ==
  ASSUME IInv, ShapeInv, writes = <<>>, Updating, pc \in {"search", "delete_up"}, ~AtRoot, Truth(disk),
         NEW lv, NEW s, Tree(disk, lv, s), NEW v, Hand(v, lv, Top.addr),
         NEW lo, NEW hi, lo[RootOf(disk)] = 0, hi[RootOf(disk)] = -1,
         NEW ind \in Nat, ind < nkeys(Parent.block),
         NEW x, NEW y, NEW b, NEW c, NEW k, Lending(v, lo, hi, ind, x, y, k, b, c),
         NEW sib, NEW sb, NEW tb, Swap(x, y, b, c, sib, sb, tb),
         ReturnBorrow(ind, k, <<W(sib, sb), W(Top.addr, tb)>>)
  PROVE  OrderInv'
<1>1. PICK t, r, p : t = Top.addr /\ r = RootOf(disk) /\ p = Parent.addr
  OBVIOUS
<1>2. /\ Good(v, lo, hi) /\ IsLive(b) /\ IsLive(c) /\ k \in Nat /\ Bounds(lo, hi)
      /\ x = Parent.block.values[ind + 1] /\ y = Parent.block.values[ind + 2]
  BY DEF Lending, Halves, Good, RangedAll
<1>3. /\ Beside(v, lv, lo, hi, p, ind, x, y)
      /\ v[p] = Parent.block /\ x # y /\ x # p /\ y # p
      /\ p \in Live(disk) /\ p # t /\ p \in Nat
      /\ x # r /\ y # r /\ x \in Live(disk) /\ y \in Live(disk)
      /\ lv[x] = lv[t] /\ lv[y] = lv[t]
  BY <1>1, <1>2, ParentInHand
<1>4. /\ Live(v) = Live(disk) /\ Live(disk) \subseteq Nat /\ r \in Live(disk)
      /\ \A a \in Live(disk) : a # t => v[a] = disk[a]
  BY <1>1 DEF Hand
<1>5. x \in Nat /\ y \in Nat /\ r \in Nat /\ x # 0 /\ y # 0
  <2>1. 0 \notin Live(disk)
    BY StandingIs DEF Tree
  <2>2. QED
    BY <2>1, <1>3, <1>4
<1>6. PICK g : g = Put(Put(disk, sib, sb), t, tb)
  OBVIOUS
<1>7. /\ sib \in Live(disk) /\ t \in Live(disk) /\ sib # t /\ sib # 0 /\ t # 0
      /\ IsLive(sb) /\ IsLive(tb) /\ {sib, t} = {x, y}
  BY <1>1, <1>2, <1>3, <1>5 DEF Swap
<1>8. /\ Live(g) = Live(disk) /\ g[sib] = sb /\ g[t] = tb
      /\ \A a \in Live(disk) : a # t /\ a # sib => g[a] = disk[a]
      /\ RootOf(g) = r
  BY <1>1, <1>6, <1>7, TwoPut
<1>9. g[x] = b /\ g[y] = c /\ \A a \in Live(disk) : a # x /\ a # y => g[a] = disk[a]
  BY <1>1, <1>7, <1>8 DEF Swap
<1>10. /\ disk' = disk /\ writes' = <<W(sib, sb), W(t, tb)>> /\ pc' = "delete_up" /\ rv' = NoRv
  BY <1>1 DEF ReturnBorrow
<1>11. After(g, disk', writes')
  BY <1>6, <1>7, <1>10, AfterTwo
<1>12. /\ Top'.addr = p /\ Top'.block = [Parent.block EXCEPT !.keys[ind + 1] = k]
       /\ \A j \in 1..Len(path') : j < Len(path') => path'[j].block = g[path'[j].addr]
  <2>1. PICK C : C = {x, y}
    OBVIOUS
  <2>2. AtLevel(C, lv)
    BY <2>1, <1>1, <1>3 DEF AtLevel
  <2>3. SameBut(g, C)
    BY <2>1, <1>9 DEF SameBut
  <2>4. PICK ws : ws = <<W(sib, sb), W(Top.addr, tb)>>
    OBVIOUS
  <2>5. /\ IInv /\ Updating /\ ~AtRoot /\ Tree(disk, lv, s) /\ Truth(disk) /\ pc \in {"search", "delete_up"}
        /\ AtLevel(C, lv) /\ SameBut(g, C) /\ ind \in Nat /\ ind < nkeys(Parent.block) /\ k \in Nat
        /\ ReturnBorrow(ind, k, ws)
    BY <1>2, <2>2, <2>3, <2>4
  <2>6. Lent(g, ind, k)
    BY ONLY <2>5, BorrowTrue
  <2>7. QED
    BY <1>1, <2>6 DEF Lent
<1>13. PICK e : e = [Parent.block EXCEPT !.keys[ind + 1] = k]
  OBVIOUS
<1>14. Edited' = e
  BY <1>10, <1>12, <1>13 DEF Edited, NoRv
<1>15. PICK w : w = Put(g, p, e)
  OBVIOUS
<1>16. InHand(g)' = w
  BY <1>10, <1>12, <1>14, <1>15 DEF InHand
<1>17. Live(w) = Live(disk) /\ w[p] = e /\ \A a \in Live(disk) : a # p => w[a] = g[a]
  <2>1. IsLive(e)
    <3>1. e.tag = Parent.block.tag
      BY <1>13
    <3>2. IsLive(v[p])
      BY <1>3, <1>4, LeafOrNode DEF IsLive
    <3>3. QED
      BY <3>1, <3>2, <1>3 DEF IsLive
  <2>2. Live(w) = Live(g) \cup {p} /\ w[p] = e /\ \A a \in Live(g) : a # p => w[a] = g[a]
    BY <2>1, <1>15, PutLive
  <2>3. QED
    BY <2>2, <1>3, <1>8
<1>18. PICK lo2, hi2 : ShiftAt(lo, hi, x, y, k, lo2, hi2)
  BY <1>2, <1>5, ShiftExists
<1>19. Moving(v, lv, lo, hi, p, ind, x, y, k, b, c, lo2, hi2)
  BY <1>3, <1>18 DEF Moving, Lending
<1>20. Good(w, lo2, hi2)
  <2>1. Live(w) = Live(v) /\ w[x] = b /\ w[y] = c /\ w[p] = [v[p] EXCEPT !.keys[ind + 1] = k]
    BY <1>3, <1>4, <1>9, <1>13, <1>17
  <2>2. \A a \in Live(v) : a \notin {x, y, p} => w[a] = v[a]
    BY <1>4, <1>7, <1>9, <1>17
  <2>3. QED
    BY ONLY <2>1, <2>2, <1>19, Share
<1>21. lo2[r] = 0 /\ hi2[r] = -1
  BY <1>1, <1>3, <1>5, <1>18 DEF ShiftAt
<1>22. QED
  BY <1>8, <1>10, <1>11, <1>12, <1>16, <1>20, <1>21, UpOrder

\* Two siblings are merged: y is freed, b goes to x, and the node above loses the
\* key between them and its child y.
LEMMA MergeOrder ==
  ASSUME IInv, ShapeInv, writes = <<>>, Updating, pc \in {"search", "delete_up"}, ~AtRoot, Truth(disk),
         NEW lv, NEW s, Tree(disk, lv, s), NEW v, Hand(v, lv, Top.addr),
         NEW lo, NEW hi, lo[RootOf(disk)] = 0, hi[RootOf(disk)] = -1,
         NEW ind \in Nat, ind < nkeys(Parent.block),
         NEW x, NEW y, NEW b, Joining(v, lo, hi, ind, x, y, b), Top.addr \in {x, y},
         ReturnMerge(ind, y, x, b)
  PROVE  OrderInv'
<1>1. PICK t, r, p : t = Top.addr /\ r = RootOf(disk) /\ p = Parent.addr
  OBVIOUS
<1>2. /\ Good(v, lo, hi) /\ IsLive(b) /\ Bounds(lo, hi)
      /\ x = Parent.block.values[ind + 1] /\ y = Parent.block.values[ind + 2]
  BY DEF Joining, Good, RangedAll
<1>3. /\ Beside(v, lv, lo, hi, p, ind, x, y)
      /\ v[p] = Parent.block /\ x # y /\ x # p /\ y # p
      /\ p \in Live(disk) /\ p # t /\ p \in Nat
      /\ x # r /\ y # r /\ x \in Live(disk) /\ y \in Live(disk)
      /\ lv[x] = lv[t] /\ lv[y] = lv[t]
  BY <1>1, <1>2, ParentInHand
<1>4. /\ Live(v) = Live(disk) /\ Live(disk) \subseteq Nat /\ r \in Live(disk)
      /\ \A a \in Live(disk) : a # t => v[a] = disk[a]
  BY <1>1 DEF Hand
<1>5. x \in Nat /\ y \in Nat /\ r \in Nat /\ x # 0 /\ y # 0
  <2>1. 0 \notin Live(disk)
    BY StandingIs DEF Tree
  <2>2. QED
    BY <2>1, <1>3, <1>4
<1>6. PICK d, g : d = Freed(disk, y) /\ g = Put(d, x, b)
  OBVIOUS
<1>7. Live(d) = Live(disk) \ {y} /\ (\A a \in Live(disk) : a # y => d[a] = disk[a]) /\ RootOf(d) = r
  <2>1. Woods(disk, lv, s, Hole)
    BY DEF Tree, Standing
  <2>2. y \in Live(disk)
    BY <1>3
  <2>3. /\ Live(Freed(disk, y)) = Live(disk) \ {y}
        /\ \A a \in Live(disk) : a # y => Freed(disk, y)[a] = disk[a]
        /\ RootOf(Freed(disk, y)) = RootOf(disk)
    BY ONLY <2>1, <2>2, BlockIsFreed
  <2>4. QED
    BY <2>3, <1>1, <1>6
<1>8. /\ Live(g) = Live(disk) \ {y} /\ g[x] = b
      /\ \A a \in Live(disk) : a # x /\ a # y => g[a] = disk[a]
      /\ RootOf(g) = r
  <2>1. Live(g) = Live(d) \cup {x} /\ g[x] = b /\ \A a \in Live(d) : a # x => g[a] = d[a]
    BY SMTT(30), ZenonT(30), <1>2, <1>6, PutLive
  <2>2. Live(g) = Live(disk) \ {y}
    BY <2>1, <1>3, <1>7
  <2>3. RootOf(g) = r
    BY <1>5, <1>6, <1>7, PutRoot
  <2>4. QED
    BY <2>1, <2>2, <2>3, <1>7
<1>9. /\ disk' = disk /\ writes' = Append(free_writes(y), W(x, b)) /\ pc' = "delete_up"
      /\ rv' = DelInd(ind) /\ path' = Front(path)
  BY DEF ReturnMerge
<1>10. After(g, disk', writes')
  BY <1>2, <1>3, <1>5, <1>6, <1>9, MergeWritten
<1>11. Top' = Parent /\ \A j \in 1..Len(path') : path'[j].block = g[path'[j].addr]
  <2>1. PICK C : C = {x, y}
    OBVIOUS
  <2>2. AtLevel(C, lv)
    BY <2>1, <1>1, <1>3 DEF AtLevel
  <2>3. SameBut(g, C)
    BY <2>1, <1>8 DEF SameBut
  <2>4. QED
    BY <2>2, <2>3, <1>9, FrontTrue
<1>12. PICK e : e = node_pop(Parent.block, ind, ind + 1)
  OBVIOUS
<1>13. Edited' = e
  BY <1>9, <1>11, <1>12, NoneAssumption DEF Edited, DelInd
<1>14. PICK w : w = Put(g, p, e)
  OBVIOUS
<1>15. InHand(g)' = w
  BY <1>1, <1>9, <1>11, <1>13, <1>14 DEF InHand
<1>16. Live(w) = Live(disk) \ {y} /\ w[p] = e /\ \A a \in Live(disk) \ {y} : a # p => w[a] = g[a]
  <2>1. IsLive(e)
    BY <1>12 DEF node_pop, Node, IsLive
  <2>2. Live(w) = Live(g) \cup {p} /\ w[p] = e /\ \A a \in Live(g) : a # p => w[a] = g[a]
    BY <2>1, <1>14, PutLive
  <2>3. QED
    BY <2>2, <1>3, <1>8
<1>17. PICK hi2 : Bounds(lo, hi2) /\ hi2[x] = hi[y] /\ \A a \in Nat : a # x => hi2[a] = hi[a]
  <2>1. hi[y] \in Int
    BY <1>2, <1>5, SameBounds
  <2>2. PICK h \in Int : h = hi[y]
    BY <2>1
  <2>3. Bounds(lo, hi) /\ x \in Nat
    BY <1>2, <1>5
  <2>4. \E hi2 : Bounds(lo, hi2) /\ hi2[x] = h /\ \A a \in Nat : a # x => hi2[a] = hi[a]
    BY ONLY <2>3, h \in Int, MergeExists
  <2>5. QED
    BY <2>2, <2>4
<1>18. Uniting(v, lv, lo, hi, p, ind, x, y, b, hi2)
  BY <1>3, <1>17 DEF Uniting, Joining
<1>19. Good(w, lo, hi2)
  <2>1. Live(w) = Live(v) \ {y} /\ w[x] = b /\ w[p] = node_pop(v[p], ind, ind + 1)
    BY <1>3, <1>4, <1>8, <1>12, <1>16
  <2>2. \A a \in Live(v) : a \notin {x, y, p} => w[a] = v[a]
    BY <1>1, <1>4, <1>8, <1>16
  <2>3. QED
    BY ONLY <2>1, <2>2, <1>18, Merge
<1>20. lo[r] = 0 /\ hi2[r] = -1
  BY <1>1, <1>3, <1>5, <1>17
<1>21. QED
  BY <1>8, <1>9, <1>10, <1>11, <1>15, <1>19, <1>20, UpOrder

\* The children x and y of the node above, at the slots i + 1 and i + 2, have the
\* ranges on both sides of the key between them.
Adjoin(v, lo, hi, i, x, y) ==
  /\ i \in Nat /\ i < nkeys(Parent.block)
  /\ x = Parent.block.values[i + 1] /\ y = Parent.block.values[i + 2]
  /\ x # y /\ x \in Live(v) /\ y \in Live(v) /\ x \in Nat /\ y \in Nat
  /\ hi[x] = lo[y] /\ lo[y] = Parent.block.keys[i + 1]
  /\ lo[x] \in Nat /\ lo[y] \in Nat /\ hi[y] \in Int
  /\ Ranged(v[x], lo, hi, lo[x], lo[y]) /\ Ranged(v[y], lo, hi, lo[y], hi[y])

LEMMA NextTo ==
  ASSUME IInv, Updating, ~AtRoot, NEW lv, NEW s, Tree(disk, lv, s), Truth(disk),
         NEW v, Hand(v, lv, Top.addr), NEW lo, NEW hi, Good(v, lo, hi),
         NEW i \in Nat, i < nkeys(Parent.block),
         NEW x, x = Parent.block.values[i + 1], NEW y, y = Parent.block.values[i + 2]
  PROVE  Adjoin(v, lo, hi, i, x, y)
<1>1. Beside(v, lv, lo, hi, Parent.addr, i, x, y) /\ v[Parent.addr] = Parent.block
  BY ParentInHand
<1>2. /\ x \in Live(v) /\ y \in Live(v) /\ x # y /\ v[Parent.addr].tag = "node"
      /\ Ranged(v[Parent.addr], lo, hi, lo[Parent.addr], hi[Parent.addr])
      /\ lo[y] = hi[x] /\ lo[x] \in Nat /\ lo[y] \in Nat /\ hi[y] \in Int
  BY <1>1, Neighbours
<1>3. x \in Nat /\ y \in Nat
  BY <1>2 DEF Hand
<1>4. Ranged(v[x], lo, hi, lo[x], hi[x]) /\ Ranged(v[y], lo, hi, lo[y], hi[y])
  BY <1>2 DEF Good, RangedAll
<1>5. lo[y] = Parent.block.keys[i + 1]
  <2>1. PICK b, l, h : b = Parent.block /\ l = lo[Parent.addr] /\ h = hi[Parent.addr]
    OBVIOUS
  <2>2. b.tag = "node" /\ Ranged(b, lo, hi, l, h)
    BY <2>1, <1>1, <1>2
  <2>3. PICK n : n = Len(b.keys)
    OBVIOUS
  <2>4. n \in Nat
    BY <2>2, <2>3, RangedIs
  <2>5. i < n
    BY <2>1, <2>3 DEF nkeys
  <2>6. i \in 0..n /\ i + 1 \in 0..n /\ i # n
    BY ONLY <2>4, <2>5, i \in Nat
  <2>7. hi[b.values[i + 1]] = RightOf(b.keys, n, h, i + 1)
    BY ONLY <2>2, <2>3, <2>6, ChildRange
  <2>8. RightOf(b.keys, n, h, i + 1) = b.keys[i + 1]
    <3>1. i + 1 # n + 1
      BY ONLY <2>4, <2>6, i \in Nat
    <3>2. QED
      BY <3>1 DEF RightOf
  <2>9. QED
    BY <2>1, <2>7, <2>8, <1>2
<1>6. QED
  BY <1>2, <1>3, <1>4, <1>5 DEF Adjoin

\* What a handler that has to borrow or merge finds.
Sides(v, lv, s, lo, hi) ==
  /\ Tree(disk, lv, s) /\ Truth(disk) /\ Hand(v, lv, Top.addr) /\ Good(v, lo, hi)
  /\ lo[RootOf(disk)] = 0 /\ hi[RootOf(disk)] = -1
  /\ has_left => /\ Adjoin(v, lo, hi, Parent.i - 1, left_addr, Top.addr)
                 /\ left_sib = v[left_addr] /\ (Parent.i - 1) + 1 = Parent.i
  /\ has_right => /\ Adjoin(v, lo, hi, Parent.i, Top.addr, right_addr)
                  /\ right_sib = v[right_addr]

LEMMA SidesFound ==
  ASSUME IInv, Updating, ~AtRoot, NEW lv, NEW s, Tree(disk, lv, s), Truth(disk),
         NEW v, Hand(v, lv, Top.addr), NEW lo, NEW hi, Good(v, lo, hi),
         lo[RootOf(disk)] = 0, hi[RootOf(disk)] = -1
  PROVE  Sides(v, lv, s, lo, hi)
<1>1. /\ has_left => left_sib = disk[left_addr] /\ left_addr # Top.addr
      /\ has_right => right_sib = disk[right_addr] /\ right_addr # Top.addr
  BY SiblingsOnFile
<1>2. /\ Top.addr = Parent.block.values[Parent.i + 1] /\ Parent.i \in Nat
      /\ Parent.i <= nkeys(Parent.block) /\ nkeys(Parent.block) \in Nat
  BY ParentTrue DEF nkeys
<1>3. Live(v) = Live(disk) /\ \A a \in Live(disk) : a # Top.addr => v[a] = disk[a]
  BY DEF Hand
<1>4. ASSUME has_left
      PROVE  /\ Adjoin(v, lo, hi, Parent.i - 1, left_addr, Top.addr)
             /\ left_sib = v[left_addr] /\ (Parent.i - 1) + 1 = Parent.i
  <2>1. PICK j, n : j = Parent.i /\ n = nkeys(Parent.block)
    OBVIOUS
  <2>2. j \in Nat /\ j > 0 /\ j <= n /\ n \in Nat
    BY <2>1, <1>2, <1>4 DEF has_left
  <2>3. PICK i \in Nat : i = j - 1
    BY ONLY <2>2
  <2>4. i < n /\ i + 1 = j /\ i + 2 = j + 1
    BY ONLY <2>2, <2>3
  <2>5. left_addr = Parent.block.values[i + 1] /\ Top.addr = Parent.block.values[i + 2]
    BY <2>1, <2>4, <1>2 DEF left_addr
  <2>6. Adjoin(v, lo, hi, i, left_addr, Top.addr)
    BY <2>1, <2>4, <2>5, NextTo
  <2>7. left_sib = v[left_addr]
    BY <2>6, <1>1, <1>3, <1>4 DEF Adjoin
  <2>8. QED
    BY <2>1, <2>3, <2>4, <2>6, <2>7
<1>5. ASSUME has_right
      PROVE  Adjoin(v, lo, hi, Parent.i, Top.addr, right_addr) /\ right_sib = v[right_addr]
  <2>1. Parent.i < nkeys(Parent.block) /\ right_addr = Parent.block.values[Parent.i + 2]
    BY <1>5 DEF has_right, right_addr
  <2>2. Adjoin(v, lo, hi, Parent.i, Top.addr, right_addr)
    BY <2>1, <1>2, NextTo
  <2>3. QED
    BY <2>2, <1>1, <1>3, <1>5 DEF Adjoin
<1>6. QED
  BY <1>4, <1>5 DEF Sides

LEMMA LeafSides ==
  ASSUME IInv, ShapeInv, OrderInv, LeafUnderflows
  PROVE  /\ Updating /\ pc = "search" /\ writes = <<>> /\ ~AtRoot
         /\ \E lv, s, lo, hi :
              /\ Sides(disk, lv, s, lo, hi)
              /\ Ranged(popped_leaf, lo, hi, lo[Top.addr], hi[Top.addr])
         /\ Top.block = disk[Top.addr] /\ Top.block.tag = "leaf"
         /\ popped_leaf.tag = "leaf" /\ popped_leaf.next = Top.block.next
<1>1. /\ pc = "search" /\ writes = <<>> /\ ~AtRoot /\ Top.block.tag = "leaf"
      /\ Found(Top.block, op.k) /\ op.kind = "delete"
  BY DEF LeafUnderflows, AtDeleteLeaf, AtLeaf, At
<1>2. Updating
  BY <1>1 DEF Updating
<1>3. PICK lo, hi : Good(disk, lo, hi) /\ Ends(disk, lo, hi) /\ Truth(disk) /\ Aim(lo, hi)
  BY <1>1, OrderNow DEF InHand
<1>4. PICK lv, s : Tree(disk, lv, s) /\ Hand(disk, lv, Top.addr)
  BY <1>1, HandAtSearch
<1>5. lo[RootOf(disk)] = 0 /\ hi[RootOf(disk)] = -1
  BY <1>1, <1>3 DEF Ends, Apex
<1>6. Sides(disk, lv, s, lo, hi)
  BY <1>1, <1>2, <1>3, <1>4, <1>5, SidesFound
<1>7. Top.addr \in Live(disk) /\ Top.block = disk[Top.addr]
  BY <1>1, <1>3 DEF Truth
<1>8. op.k \in Int /\ op.k # None
  <2>1. op \in Ops
    BY <1>1 DEF IInv, CallInv
  <2>2. QED
    BY <2>1, <1>1, CallArguments, NoneAssumption
<1>9. PICK x : x = Top.addr
  OBVIOUS
<1>10. Ranged(popped_leaf, lo, hi, lo[x], hi[x])
  <2>1. Replaces(Top.block, popped_leaf, op.k)
    BY <1>1, <1>8, LeafReplaced DEF popped_leaf
  <2>2. x \in Nat /\ lo[x] \in Nat /\ hi[x] \in Int /\ Ranged(Top.block, lo, hi, lo[x], hi[x])
    BY <1>3, <1>4, <1>7, <1>9, SameBounds DEF Good, RangedAll, Hand
  <2>3. InRange(op.k, lo[x], hi[x])
    BY <1>1, <1>3, <1>8, <1>9 DEF Aim
  <2>4. QED
    BY <2>1, <2>2, <2>3 DEF Replaces
<1>11. popped_leaf.tag = "leaf" /\ popped_leaf.next = Top.block.next
  BY DEF popped_leaf, leaf_pop, Leaf
<1>12. QED
  BY <1>1, <1>2, <1>6, <1>7, <1>9, <1>10, <1>11

LEMMA LeafBorrowOrder ==
  ASSUME IInv, ShapeInv, OrderInv, BorrowLeafLeft \/ BorrowLeafRight
  PROVE  OrderInv'
<1>1. LeafUnderflows
  BY DEF BorrowLeafLeft, BorrowLeafRight
<1>2. /\ Updating /\ pc = "search" /\ writes = <<>> /\ ~AtRoot
      /\ Top.block = disk[Top.addr] /\ Top.block.tag = "leaf"
      /\ popped_leaf.tag = "leaf" /\ popped_leaf.next = Top.block.next
  BY <1>1, LeafSides
<1>3. PICK lv, s, lo, hi : /\ Sides(disk, lv, s, lo, hi)
                           /\ Ranged(popped_leaf, lo, hi, lo[Top.addr], hi[Top.addr])
  BY <1>1, LeafSides
<1>4. PICK t, p : t = Top.addr /\ p = popped_leaf
  OBVIOUS
<1>5. /\ p.tag = "leaf" /\ Ranged(p, lo, hi, lo[t], hi[t]) /\ disk[t].tag = "leaf" /\ p.next = disk[t].next
  BY <1>2, <1>3, <1>4
<1>6. /\ Tree(disk, lv, s) /\ Truth(disk) /\ Hand(disk, lv, Top.addr) /\ Good(disk, lo, hi)
      /\ lo[RootOf(disk)] = 0 /\ hi[RootOf(disk)] = -1
  BY <1>3 DEF Sides
<1>7. MIN_NKEYS_LEAF \in Nat /\ MIN_NKEYS_LEAF >= 1
  BY Minima
<1>8. CASE BorrowLeafLeft
  <2>1. has_left /\ left_sib.tag = "leaf" /\ nkeys(left_sib) > MIN_NKEYS_LEAF
    BY <1>8 DEF BorrowLeafLeft, CanBorrowLeft
  <2>2. PICK i, x, y : i = Parent.i - 1 /\ x = left_addr /\ y = left_sib
    OBVIOUS
  <2>3. Adjoin(disk, lo, hi, i, x, t) /\ y = disk[x]
    BY <1>3, <1>4, <2>1, <2>2 DEF Sides
  <2>4. /\ hi[x] = lo[t] /\ lo[x] \in Nat /\ lo[t] \in Nat /\ hi[t] \in Int
        /\ Ranged(y, lo, hi, lo[x], lo[t]) /\ i \in Nat /\ i < nkeys(Parent.block)
        /\ x = Parent.block.values[i + 1] /\ t = Parent.block.values[i + 2]
    BY <2>3 DEF Adjoin
  <2>5. PICK n, k, u, b, c : /\ n = Len(y.keys) /\ k = y.keys[n] /\ u = y.values[n]
                             /\ b = leaf_pop(y, n - 1) /\ c = leaf_insert(p, 0, k, u)
    OBVIOUS
  <2>6. y.tag = "leaf" /\ n >= 2
    <3>1. n \in Nat
      BY <2>4, <2>5, RangedIs
    <3>2. QED
      BY <3>1, <1>7, <2>1, <2>2, <2>5 DEF nkeys
  <2>7. Halves(b, c, lo, hi, lo[x], k, hi[t])
    BY <1>5, <2>4, <2>5, <2>6, LeafFromLeft
  <2>8. b.tag = "leaf" /\ c.tag = "leaf" /\ b.next = y.next /\ c.next = p.next
    BY <2>5 DEF leaf_pop, leaf_insert, Leaf
  <2>9. Lending(disk, lo, hi, i, x, t, k, b, c)
    BY <1>5, <1>6, <2>3, <2>4, <2>6, <2>7, <2>8 DEF Lending, IsLive, KidsIn
  <2>10. Swap(x, t, b, c, x, b, c)
    BY <1>4 DEF Swap
  <2>11. ReturnBorrow(i, k, <<W(x, b), W(Top.addr, c)>>)
    BY <1>8, <1>4, <2>2, <2>5 DEF BorrowLeafLeft, nkeys
  <2>12. QED
    BY <1>2, <1>6, <2>4, <2>9, <2>10, <2>11, BorrowOrder
<1>9. CASE BorrowLeafRight
  <2>1. has_right /\ right_sib.tag = "leaf" /\ nkeys(right_sib) > MIN_NKEYS_LEAF
    BY <1>9 DEF BorrowLeafRight, CanBorrowRight
  <2>2. PICK i, x, y : i = Parent.i /\ x = right_addr /\ y = right_sib
    OBVIOUS
  <2>3. Adjoin(disk, lo, hi, i, t, x) /\ y = disk[x]
    BY <1>3, <1>4, <2>1, <2>2 DEF Sides
  <2>4. /\ hi[t] = lo[x] /\ lo[t] \in Nat /\ lo[x] \in Nat /\ hi[x] \in Int
        /\ Ranged(y, lo, hi, lo[x], hi[x]) /\ i \in Nat /\ i < nkeys(Parent.block)
        /\ t = Parent.block.values[i + 1] /\ x = Parent.block.values[i + 2]
    BY <2>3 DEF Adjoin
  <2>5. PICK n, k, b, c : /\ n = Len(p.keys) /\ c = leaf_pop(y, 0) /\ k = c.keys[1]
                          /\ b = leaf_insert(p, n, y.keys[1], y.values[1])
    OBVIOUS
  <2>6. y.tag = "leaf" /\ Len(y.keys) >= 2
    <3>1. Len(y.keys) \in Nat
      BY <2>4, RangedIs
    <3>2. QED
      BY <3>1, <1>7, <2>1, <2>2 DEF nkeys
  <2>7. Halves(b, c, lo, hi, lo[t], k, hi[x])
    BY <1>5, <2>4, <2>5, <2>6, LeafFromRight
  <2>8. b.tag = "leaf" /\ c.tag = "leaf" /\ c.next = y.next /\ b.next = p.next
    BY <2>5 DEF leaf_pop, leaf_insert, Leaf
  <2>9. Lending(disk, lo, hi, i, t, x, k, b, c)
    BY <1>5, <1>6, <2>3, <2>4, <2>6, <2>7, <2>8 DEF Lending, IsLive, KidsIn
  <2>10. Swap(t, x, b, c, x, c, b)
    BY <1>4 DEF Swap
  <2>11. ReturnBorrow(i, k, <<W(x, c), W(Top.addr, b)>>)
    BY <1>9, <1>4, <2>2, <2>5 DEF BorrowLeafRight, nkeys
  <2>12. QED
    BY <1>2, <1>6, <2>4, <2>9, <2>10, <2>11, BorrowOrder
<1>10. QED
  BY <1>8, <1>9

LEMMA LeafMergeOrder ==
  ASSUME IInv, ShapeInv, OrderInv, MergeLeaves
  PROVE  OrderInv'
<1>1. LeafUnderflows
  BY DEF MergeLeaves
<1>2. /\ Updating /\ pc = "search" /\ writes = <<>> /\ ~AtRoot
      /\ Top.block = disk[Top.addr] /\ Top.block.tag = "leaf"
      /\ popped_leaf.tag = "leaf" /\ popped_leaf.next = Top.block.next
  BY <1>1, LeafSides
<1>3. PICK lv, s, lo, hi : /\ Sides(disk, lv, s, lo, hi)
                           /\ Ranged(popped_leaf, lo, hi, lo[Top.addr], hi[Top.addr])
  BY <1>1, LeafSides
<1>4. PICK t, p : t = Top.addr /\ p = popped_leaf
  OBVIOUS
<1>5. /\ p.tag = "leaf" /\ Ranged(p, lo, hi, lo[t], hi[t]) /\ disk[t].tag = "leaf" /\ p.next = disk[t].next
  BY <1>2, <1>3, <1>4
<1>6. /\ Tree(disk, lv, s) /\ Truth(disk) /\ Hand(disk, lv, Top.addr) /\ Good(disk, lo, hi)
      /\ lo[RootOf(disk)] = 0 /\ hi[RootOf(disk)] = -1
  BY <1>3 DEF Sides
<1>7. /\ has_left => left_sib.tag = "leaf"
      /\ has_right => right_sib.tag = "leaf"
      /\ has_left \/ has_right
  BY DEF MergeLeaves, MustMerge
<1>8. CASE has_left
  <2>1. PICK i, x, y, b : i = Parent.i - 1 /\ x = left_addr /\ y = left_sib /\ b = merge_leaves(y, p)
    OBVIOUS
  <2>2. Adjoin(disk, lo, hi, i, x, t) /\ y = disk[x] /\ y.tag = "leaf"
    BY <1>3, <1>4, <1>7, <1>8, <2>1 DEF Sides
  <2>3. /\ hi[x] = lo[t] /\ lo[x] \in Nat /\ lo[t] \in Nat /\ hi[t] \in Int
        /\ Ranged(y, lo, hi, lo[x], lo[t]) /\ i \in Nat /\ i < nkeys(Parent.block)
        /\ x = Parent.block.values[i + 1] /\ t = Parent.block.values[i + 2]
    BY <2>2 DEF Adjoin
  <2>4. Ranged(b, lo, hi, lo[x], hi[t]) /\ b.tag = "leaf" /\ b.next = p.next
    <3>1. PICK l, m, h : l = lo[x] /\ m = lo[t] /\ h = hi[t]
      OBVIOUS
    <3>2. /\ l \in Nat /\ m \in Nat /\ h \in Int /\ Ranged(y, lo, hi, l, m) /\ Ranged(p, lo, hi, m, h)
          /\ y.tag = "leaf" /\ p.tag = "leaf" /\ b = merge_leaves(y, p)
      BY <3>1, <1>5, <2>1, <2>2, <2>3
    <3>3. Ranged(b, lo, hi, l, h) /\ b.tag = "leaf" /\ b.next = p.next
      BY ONLY <3>2, LeavesMergedRanged
    <3>4. QED
      BY <3>1, <3>3
  <2>5. Joining(disk, lo, hi, i, x, t, b)
    BY <1>5, <1>6, <2>2, <2>3, <2>4 DEF Joining, IsLive, KidsIn
  <2>6. ReturnMerge(i, t, x, b)
    BY <1>4, <1>8, <2>1 DEF MergeLeaves
  <2>7. QED
    BY <1>2, <1>4, <1>6, <2>3, <2>5, <2>6, MergeOrder
<1>9. CASE ~has_left
  <2>1. PICK i, x, y, b : i = Parent.i /\ x = right_addr /\ y = right_sib /\ b = merge_leaves(p, y)
    OBVIOUS
  <2>2. Adjoin(disk, lo, hi, i, t, x) /\ y = disk[x] /\ y.tag = "leaf"
    BY <1>3, <1>4, <1>7, <1>9, <2>1 DEF Sides
  <2>3. /\ hi[t] = lo[x] /\ lo[t] \in Nat /\ lo[x] \in Nat /\ hi[x] \in Int
        /\ Ranged(y, lo, hi, lo[x], hi[x]) /\ i \in Nat /\ i < nkeys(Parent.block)
        /\ t = Parent.block.values[i + 1] /\ x = Parent.block.values[i + 2]
    BY <2>2 DEF Adjoin
  <2>4. Ranged(b, lo, hi, lo[t], hi[x]) /\ b.tag = "leaf" /\ b.next = y.next
    <3>1. PICK l, m, h : l = lo[t] /\ m = lo[x] /\ h = hi[x]
      OBVIOUS
    <3>2. /\ l \in Nat /\ m \in Nat /\ h \in Int /\ Ranged(p, lo, hi, l, m) /\ Ranged(y, lo, hi, m, h)
          /\ y.tag = "leaf" /\ p.tag = "leaf" /\ b = merge_leaves(p, y)
      BY <3>1, <1>5, <2>1, <2>2, <2>3
    <3>3. Ranged(b, lo, hi, l, h) /\ b.tag = "leaf" /\ b.next = y.next
      BY ONLY <3>2, LeavesMergedRanged
    <3>4. QED
      BY <3>1, <3>3
  <2>5. Joining(disk, lo, hi, i, t, x, b)
    BY <1>5, <1>6, <2>2, <2>3, <2>4 DEF Joining, IsLive, KidsIn
  <2>6. ReturnMerge(i, x, t, b)
    BY <1>4, <1>9, <2>1 DEF MergeLeaves
  <2>7. QED
    BY <1>2, <1>4, <1>6, <2>3, <2>5, <2>6, MergeOrder
<1>10. QED
  BY <1>8, <1>9

LEMMA NodeSides ==
  ASSUME IInv, ShapeInv, OrderInv, NodeUnderflows
  PROVE  /\ Updating /\ pc = "delete_up" /\ writes = <<>> /\ ~AtRoot
         /\ \E v, lv, s, lo, hi : Sides(v, lv, s, lo, hi) /\ v[Top.addr] = popped_node
         /\ popped_node.tag = "node"
<1>1. /\ pc = "delete_up" /\ writes = <<>> /\ ~AtRoot /\ AtDeleteNode
  BY DEF NodeUnderflows, AtDeleteNode, At
<1>2. Updating
  BY <1>1 DEF Updating
<1>3. PICK lo, hi : Good(InHand(disk), lo, hi) /\ Ends(disk, lo, hi) /\ Truth(disk)
  BY <1>1, OrderNow
<1>4. PICK lv, s : Tree(disk, lv, s) /\ Hand(InHand(disk), lv, Top.addr)
  BY <1>1, HandAtDelete
<1>5. lo[RootOf(disk)] = 0 /\ hi[RootOf(disk)] = -1
  BY <1>1, <1>3 DEF Ends, Apex
<1>6. PICK v : v = InHand(disk)
  OBVIOUS
<1>7. Sides(v, lv, s, lo, hi)
  BY <1>1, <1>2, <1>3, <1>4, <1>5, <1>6, SidesFound
<1>8. v[Top.addr] = popped_node /\ popped_node.tag = "node"
  BY <1>1, <1>6, HandAtDelete DEF Branch
<1>9. QED
  BY <1>1, <1>2, <1>7, <1>8

LEMMA NodeBorrowOrder ==
  ASSUME IInv, ShapeInv, OrderInv, BorrowNodeLeft \/ BorrowNodeRight
  PROVE  OrderInv'
<1>1. NodeUnderflows
  BY DEF BorrowNodeLeft, BorrowNodeRight
<1>2. /\ Updating /\ pc = "delete_up" /\ writes = <<>> /\ ~AtRoot /\ popped_node.tag = "node"
  BY <1>1, NodeSides
<1>3. PICK v, lv, s, lo, hi : Sides(v, lv, s, lo, hi) /\ v[Top.addr] = popped_node
  BY <1>1, NodeSides
<1>4. PICK t, p : t = Top.addr /\ p = popped_node
  OBVIOUS
<1>5. p.tag = "node" /\ v[t] = p
  BY <1>2, <1>3, <1>4
<1>6. /\ Tree(disk, lv, s) /\ Truth(disk) /\ Hand(v, lv, Top.addr) /\ Good(v, lo, hi)
      /\ lo[RootOf(disk)] = 0 /\ hi[RootOf(disk)] = -1
  BY <1>3 DEF Sides
<1>7. MIN_NKEYS_NODE \in Nat /\ MIN_NKEYS_NODE >= 1
  BY Minima
<1>8. CASE BorrowNodeLeft
  <2>1. has_left /\ left_sib.tag = "node" /\ nkeys(left_sib) > MIN_NKEYS_NODE
    BY <1>8 DEF BorrowNodeLeft, CanBorrowLeft
  <2>2. PICK i, x, y : i = Parent.i - 1 /\ x = left_addr /\ y = left_sib
    OBVIOUS
  <2>3. Adjoin(v, lo, hi, i, x, t) /\ y = v[x] /\ i + 1 = Parent.i
    BY <1>3, <1>4, <2>1, <2>2 DEF Sides
  <2>4. /\ hi[x] = lo[t] /\ lo[x] \in Nat /\ lo[t] \in Nat /\ hi[t] \in Int
        /\ Ranged(y, lo, hi, lo[x], lo[t]) /\ Ranged(p, lo, hi, lo[t], hi[t])
        /\ i \in Nat /\ i < nkeys(Parent.block) /\ lo[t] = Parent.block.keys[i + 1]
        /\ x = Parent.block.values[i + 1] /\ t = Parent.block.values[i + 2]
    BY <1>5, <2>3 DEF Adjoin
  <2>5. PICK n, k, u, m, b, c : /\ n = Len(y.keys) /\ k = y.keys[n] /\ u = y.values[n + 1] /\ m = lo[t]
                                /\ b = node_pop(y, n - 1, n) /\ c = node_insert(p, 0, 0, m, u)
    OBVIOUS
  <2>6. y.tag = "node" /\ n >= 1
    <3>1. n \in Nat
      BY <2>4, <2>5, RangedIs
    <3>2. QED
      BY <3>1, <1>7, <2>1, <2>2, <2>5 DEF nkeys
  <2>7. /\ Halves(b, c, lo, hi, lo[x], k, hi[t]) /\ b.tag = "node" /\ c.tag = "node"
        /\ Kids(b) \cup Kids(c) \subseteq Kids(p) \cup Kids(y)
    <3>1. PICK l, h : l = lo[x] /\ h = hi[t]
      OBVIOUS
    <3>2. /\ l \in Nat /\ m \in Nat /\ h \in Int /\ Ranged(y, lo, hi, l, m) /\ Ranged(p, lo, hi, m, h)
          /\ y.tag = "node" /\ p.tag = "node" /\ n = Len(y.keys) /\ n >= 1 /\ k = y.keys[n] /\ u = y.values[n + 1]
          /\ b = node_pop(y, n - 1, n) /\ c = node_insert(p, 0, 0, m, u)
      BY <3>1, <1>5, <2>4, <2>5, <2>6
    <3>3. NodesLent(b, c, y, p, lo, hi, l, k, h)
      BY ONLY <3>2, NodeFromLeft
    <3>4. QED
      BY <3>1, <3>3 DEF NodesLent
  <2>8. Lending(v, lo, hi, i, x, t, k, b, c)
    BY <1>5, <1>6, <2>3, <2>4, <2>6, <2>7 DEF Lending, IsLive, KidsIn
  <2>9. Swap(x, t, b, c, x, b, c)
    BY <1>4 DEF Swap
  <2>10. ReturnBorrow(i, k, <<W(x, b), W(Top.addr, c)>>)
    BY <1>8, <1>4, <2>2, <2>3, <2>4, <2>5 DEF BorrowNodeLeft, nkeys
  <2>11. QED
    BY <1>2, <1>6, <2>4, <2>8, <2>9, <2>10, BorrowOrder
<1>9. CASE BorrowNodeRight
  <2>1. has_right /\ right_sib.tag = "node" /\ nkeys(right_sib) > MIN_NKEYS_NODE
    BY <1>9 DEF BorrowNodeRight, CanBorrowRight
  <2>2. PICK i, x, y : i = Parent.i /\ x = right_addr /\ y = right_sib
    OBVIOUS
  <2>3. Adjoin(v, lo, hi, i, t, x) /\ y = v[x]
    BY <1>3, <1>4, <2>1, <2>2 DEF Sides
  <2>4. /\ hi[t] = lo[x] /\ lo[t] \in Nat /\ lo[x] \in Nat /\ hi[x] \in Int
        /\ Ranged(p, lo, hi, lo[t], lo[x]) /\ Ranged(y, lo, hi, lo[x], hi[x])
        /\ i \in Nat /\ i < nkeys(Parent.block) /\ lo[x] = Parent.block.keys[i + 1]
        /\ t = Parent.block.values[i + 1] /\ x = Parent.block.values[i + 2]
    BY <1>5, <2>3 DEF Adjoin
  <2>5. PICK n, m, k, u, q, b, c : /\ n = Len(p.keys) /\ m = Len(y.keys) /\ k = y.keys[1] /\ u = y.values[1]
                                   /\ q = lo[x] /\ c = node_pop(y, 0, 0) /\ b = node_insert(p, n, n + 1, q, u)
    OBVIOUS
  <2>6. y.tag = "node" /\ m >= 1
    <3>1. m \in Nat
      BY <2>4, <2>5, RangedIs
    <3>2. QED
      BY <3>1, <1>7, <2>1, <2>2, <2>5 DEF nkeys
  <2>7. /\ Halves(b, c, lo, hi, lo[t], k, hi[x]) /\ b.tag = "node" /\ c.tag = "node"
        /\ Kids(b) \cup Kids(c) \subseteq Kids(p) \cup Kids(y)
    <3>1. PICK l, h : l = lo[t] /\ h = hi[x]
      OBVIOUS
    <3>2. /\ l \in Nat /\ q \in Nat /\ h \in Int /\ Ranged(p, lo, hi, l, q) /\ Ranged(y, lo, hi, q, h)
          /\ y.tag = "node" /\ p.tag = "node" /\ m = Len(y.keys) /\ m >= 1 /\ k = y.keys[1] /\ u = y.values[1]
          /\ n = Len(p.keys) /\ c = node_pop(y, 0, 0) /\ b = node_insert(p, n, n + 1, q, u)
      BY <3>1, <1>5, <2>4, <2>5, <2>6
    <3>3. NodesLent(b, c, p, y, lo, hi, l, k, h)
      BY ONLY <3>2, NodeFromRight
    <3>4. QED
      BY <3>1, <3>3 DEF NodesLent
  <2>8. Lending(v, lo, hi, i, t, x, k, b, c)
    BY <1>5, <1>6, <2>3, <2>4, <2>6, <2>7 DEF Lending, IsLive, KidsIn
  <2>9. Swap(t, x, b, c, x, c, b)
    BY <1>4 DEF Swap
  <2>10. ReturnBorrow(i, k, <<W(x, c), W(Top.addr, b)>>)
    BY <1>9, <1>4, <2>2, <2>4, <2>5 DEF BorrowNodeRight, nkeys
  <2>11. QED
    BY <1>2, <1>6, <2>4, <2>8, <2>9, <2>10, BorrowOrder
<1>10. QED
  BY <1>8, <1>9

LEMMA NodeMergeOrder ==
  ASSUME IInv, ShapeInv, OrderInv, MergeNodes
  PROVE  OrderInv'
<1>1. NodeUnderflows
  BY DEF MergeNodes
<1>2. /\ Updating /\ pc = "delete_up" /\ writes = <<>> /\ ~AtRoot /\ popped_node.tag = "node"
  BY <1>1, NodeSides
<1>3. PICK v, lv, s, lo, hi : Sides(v, lv, s, lo, hi) /\ v[Top.addr] = popped_node
  BY <1>1, NodeSides
<1>4. PICK t, p : t = Top.addr /\ p = popped_node
  OBVIOUS
<1>5. p.tag = "node" /\ v[t] = p
  BY <1>2, <1>3, <1>4
<1>6. /\ Tree(disk, lv, s) /\ Truth(disk) /\ Hand(v, lv, Top.addr) /\ Good(v, lo, hi)
      /\ lo[RootOf(disk)] = 0 /\ hi[RootOf(disk)] = -1
  BY <1>3 DEF Sides
<1>7. /\ has_left => left_sib.tag = "node"
      /\ has_right => right_sib.tag = "node"
      /\ has_left \/ has_right
  BY DEF MergeNodes, MustMerge
<1>8. CASE has_left
  <2>1. PICK i, x, y, m, b : i = Parent.i - 1 /\ x = left_addr /\ y = left_sib /\ m = lo[t] /\ b = merge_nodes(y, m, p)
    OBVIOUS
  <2>2. Adjoin(v, lo, hi, i, x, t) /\ y = v[x] /\ y.tag = "node" /\ i + 1 = Parent.i
    BY <1>3, <1>4, <1>7, <1>8, <2>1 DEF Sides
  <2>3. /\ hi[x] = lo[t] /\ lo[x] \in Nat /\ lo[t] \in Nat /\ hi[t] \in Int
        /\ Ranged(y, lo, hi, lo[x], lo[t]) /\ Ranged(p, lo, hi, lo[t], hi[t])
        /\ i \in Nat /\ i < nkeys(Parent.block) /\ lo[t] = Parent.block.keys[i + 1]
        /\ x = Parent.block.values[i + 1] /\ t = Parent.block.values[i + 2]
    BY <1>5, <2>2 DEF Adjoin
  <2>4. Ranged(b, lo, hi, lo[x], hi[t]) /\ b.tag = "node" /\ Kids(b) \subseteq Kids(y) \cup Kids(p)
    <3>1. PICK l, h : l = lo[x] /\ h = hi[t]
      OBVIOUS
    <3>2. /\ l \in Nat /\ m \in Nat /\ h \in Int /\ Ranged(y, lo, hi, l, m) /\ Ranged(p, lo, hi, m, h)
          /\ y.tag = "node" /\ p.tag = "node" /\ b = merge_nodes(y, m, p)
      BY <3>1, <1>5, <2>1, <2>2, <2>3
    <3>3. Ranged(b, lo, hi, l, h) /\ b.tag = "node" /\ Kids(b) \subseteq Kids(y) \cup Kids(p)
      BY ONLY <3>2, NodesMergedRanged
    <3>4. QED
      BY <3>1, <3>3
  <2>5. Joining(v, lo, hi, i, x, t, b)
    BY <1>5, <1>6, <2>2, <2>3, <2>4 DEF Joining, IsLive, KidsIn
  <2>6. ReturnMerge(i, t, x, b)
    BY <1>4, <1>8, <2>1, <2>2, <2>3 DEF MergeNodes
  <2>7. QED
    BY <1>2, <1>4, <1>6, <2>3, <2>5, <2>6, MergeOrder
<1>9. CASE ~has_left
  <2>1. PICK i, x, y, m, b : i = Parent.i /\ x = right_addr /\ y = right_sib /\ m = lo[x] /\ b = merge_nodes(p, m, y)
    OBVIOUS
  <2>2. Adjoin(v, lo, hi, i, t, x) /\ y = v[x] /\ y.tag = "node"
    BY <1>3, <1>4, <1>7, <1>9, <2>1 DEF Sides
  <2>3. /\ hi[t] = lo[x] /\ lo[t] \in Nat /\ lo[x] \in Nat /\ hi[x] \in Int
        /\ Ranged(p, lo, hi, lo[t], lo[x]) /\ Ranged(y, lo, hi, lo[x], hi[x])
        /\ i \in Nat /\ i < nkeys(Parent.block) /\ lo[x] = Parent.block.keys[i + 1]
        /\ t = Parent.block.values[i + 1] /\ x = Parent.block.values[i + 2]
    BY <1>5, <2>2 DEF Adjoin
  <2>4. Ranged(b, lo, hi, lo[t], hi[x]) /\ b.tag = "node" /\ Kids(b) \subseteq Kids(p) \cup Kids(y)
    <3>1. PICK l, h : l = lo[t] /\ h = hi[x]
      OBVIOUS
    <3>2. /\ l \in Nat /\ m \in Nat /\ h \in Int /\ Ranged(p, lo, hi, l, m) /\ Ranged(y, lo, hi, m, h)
          /\ y.tag = "node" /\ p.tag = "node" /\ b = merge_nodes(p, m, y)
      BY <3>1, <1>5, <2>1, <2>2, <2>3
    <3>3. Ranged(b, lo, hi, l, h) /\ b.tag = "node" /\ Kids(b) \subseteq Kids(p) \cup Kids(y)
      BY ONLY <3>2, NodesMergedRanged
    <3>4. QED
      BY <3>1, <3>3
  <2>5. Joining(v, lo, hi, i, t, x, b)
    BY <1>5, <1>6, <2>2, <2>3, <2>4 DEF Joining, IsLive, KidsIn
  <2>6. ReturnMerge(i, x, t, b)
    BY <1>4, <1>9, <2>1, <2>3 DEF MergeNodes
  <2>7. QED
    BY <1>2, <1>4, <1>6, <2>3, <2>5, <2>6, MergeOrder
<1>10. QED
  BY <1>8, <1>9

-----------------------------------------------------------------------------
(* The root is put on, or dropped *)

LEMMA NewRootOrder == IInv /\ ShapeInv /\ OrderInv /\ NewRoot => OrderInv'
<1> SUFFICES ASSUME IInv, ShapeInv, OrderInv, NewRoot PROVE OrderInv'
  OBVIOUS
<1>1. PICK x, y, k, n, b, ws : /\ x = Top.addr /\ y = rv.addr /\ k = rv.key /\ n = new_addr
                               /\ b = Node(<<k>>, <<x, y>>) /\ ws = new_node_writes \o <<W(n, b)>>
  OBVIOUS
<1>2. /\ pc = "new_root" /\ writes = <<>> /\ pc' = "set_root" /\ disk' = disk
      /\ rv'.addr = n /\ writes' = ws
  BY <1>1 DEF NewRoot, At, NewRootAt
<1>3. PICK lv, s : Tree(disk, lv, s) /\ Standing(disk, lv, s, {}, RootOf(disk))
  <2>1. PICK lv, s : Tree(disk, lv, s) /\ Standing(disk, lv, s, Hole, RootOf(disk))
    BY <1>2, HandlerFinds
  <2>2. Hole = {}
    BY <1>2 DEF Hole
  <2>3. QED
    BY <2>1, <2>2
<1>4. x = RootOf(disk) /\ y \in Live(disk) /\ Loose(disk, y) /\ y # x
  BY <1>1, <1>2, <1>3 DEF Tree, NewChild
<1>5. x \in Live(disk) /\ Loose(disk, x) /\ Live(disk) \subseteq Nat
  BY <1>3, <1>4, StandingIs
<1>6. PICK lo, hi : Good(disk, lo, hi) /\ Ends(disk, lo, hi)
  BY <1>2, OrderNow DEF InHand
<1>7. lo[x] = 0 /\ hi[x] = k /\ lo[y] = k /\ hi[y] = -1
  BY <1>1, <1>2, <1>4, <1>6 DEF Ends
<1>8. Topless(disk, lo, hi, x, y, k)
  BY <1>4, <1>5, <1>6, <1>7 DEF Topless
<1>9. /\ n \in Nat /\ n # 0 /\ n \notin Live(disk)
      /\ disk = [a \in DOMAIN disk |-> disk[a]]
      /\ SameLive(disk, Taken(disk)) /\ Loose(Taken(disk), n) /\ RootOf(Taken(disk)) = RootOf(disk)
  BY <1>1, <1>2, <1>3, NewBlock
<1>10. \A a \in Inner(disk) : n \notin Kids(disk[a])
  BY <1>9, LeafOrNode DEF SameLive, Loose
<1>11. PICK lo2, hi2 : Topped(lo, hi, n, lo2, hi2)
  <2>1. Bounds(lo, hi) /\ n \in Nat
    BY <1>6, <1>9 DEF Good, RangedAll
  <2>2. QED
    BY ONLY <2>1, TopExists
<1>12. PICK d, g : d = Taken(disk) /\ g = Put(d, n, b)
  OBVIOUS
<1>13. b.tag = "node" /\ IsLive(b)
  BY <1>1 DEF Node, IsLive
<1>14. After(g, disk', writes')
  BY <1>1, <1>2, <1>9, <1>12, <1>13, NewBlockWritten
<1>15. Live(g) = Live(disk) \cup {n} /\ g[n] = b /\ \A a \in Live(disk) : g[a] = disk[a]
  <2>1. Live(d) = Live(disk) /\ \A a \in Live(disk) : d[a] = disk[a]
    BY <1>9, <1>12 DEF SameLive
  <2>2. Live(g) = Live(d) \cup {n} /\ g[n] = b /\ \A a \in Live(d) : a # n => g[a] = d[a]
    BY <1>12, <1>13, PutLive
  <2>3. QED
    BY <2>1, <2>2, <1>9
<1>16. Good(g, lo2, hi2)
  <2>1. n \in Nat \ Live(disk) /\ g[n] = Node(<<k>>, <<x, y>>)
    BY <1>1, <1>9, <1>15
  <2>2. QED
    BY <2>1, <1>8, <1>10, <1>11, <1>15, TopPut DEF Topped
<1>17. QED
  BY <1>2, <1>11, <1>14, <1>16, RootOrder DEF Topped

LEMMA ShrinkRootOrder == IInv /\ ShapeInv /\ OrderInv /\ ShrinkRoot => OrderInv'
<1> SUFFICES ASSUME IInv, ShapeInv, OrderInv, ShrinkRoot PROVE OrderInv'
  OBVIOUS
<1>1. /\ AtDeleteNode /\ AtRoot /\ nkeys(popped_node) = 0 /\ pc' = "set_root"
      /\ rv'.addr = popped_node.values[1] /\ writes' = free_writes(Top.addr)
      /\ disk' = disk /\ pc = "delete_up" /\ writes = <<>>
  BY DEF ShrinkRoot, NewRootAt, AtDeleteNode, At
<1>2. PICK t, b, v : t = Top.addr /\ b = popped_node /\ v = InHand(disk)
  OBVIOUS
<1>3. t = RootOf(disk)
  BY <1>1, <1>2, NodeWithHole
<1>4. PICK lv, s : Tree(disk, lv, s) /\ Hand(v, lv, t)
  BY <1>1, <1>2, HandAtDelete
<1>5. v[t] = b /\ t \in Live(disk) /\ t # 0 /\ b.tag = "node"
  BY <1>1, <1>2, HandAtDelete DEF Branch
<1>6. Live(v) = Live(disk) /\ \A a \in Live(disk) : a # t => v[a] = disk[a]
  BY <1>4, <1>2 DEF Hand
<1>7. PICK lo, hi : Good(v, lo, hi) /\ Ends(disk, lo, hi)
  BY <1>1, <1>2, OrderNow
<1>8. lo[t] = 0 /\ hi[t] = -1
  BY <1>1, <1>3, <1>7 DEF Ends, Apex
<1>9. PICK g : g = Freed(disk, t)
  OBVIOUS
<1>10. Live(g) = Live(disk) \ {t} /\ \A a \in Live(disk) : a # t => g[a] = disk[a]
  <2>1. Woods(disk, lv, s, Hole)
    BY <1>4 DEF Tree, Standing
  <2>2. /\ Live(Freed(disk, t)) = Live(disk) \ {t}
        /\ \A a \in Live(disk) : a # t => Freed(disk, t)[a] = disk[a]
    BY ONLY <2>1, <1>5, BlockIsFreed
  <2>3. QED
    BY <2>2, <1>9
<1>11. After(g, disk', writes')
  BY <1>1, <1>2, <1>5, <1>9, FreedWritten
<1>12. Live(g) = Live(v) \ {t} /\ (\A a \in Live(g) : g[a] = v[a]) /\ t \in Inner(v) /\ nkeys(v[t]) = 0
  BY <1>1, <1>2, <1>5, <1>6, <1>10, LeafOrNode
<1>13. Good(g, lo, hi) /\ lo[v[t].values[1]] = lo[t] /\ hi[v[t].values[1]] = hi[t]
  BY <1>7, <1>12, TopDropped
<1>14. lo[rv'.addr] = 0 /\ hi[rv'.addr] = -1
  BY <1>1, <1>2, <1>5, <1>8, <1>13
<1>15. QED
  BY <1>1, <1>11, <1>13, <1>14, RootOrder

-----------------------------------------------------------------------------
(* Every step *)

LEMMA StepOrder == IInv /\ ShapeInv /\ OrderInv /\ [Next]_vars => OrderInv'
<1> SUFFICES ASSUME IInv, ShapeInv, OrderInv, [Next]_vars PROVE OrderInv'
  OBVIOUS
<1>1. CASE WriteBlock
  BY <1>1, WriteBlockOrder
<1>2. CASE OpenNew \/ OpenExisting
  BY <1>2, OpenNewOrder, OpenExistingOrder
<1>3. CASE Get \/ InsertDuplicate \/ DeleteMissing \/ Return \/ Close
  BY <1>3, LookupOrder
<1>4. CASE ScanLeaf \/ Descend \/ \E o \in Ops : Call(o)
  BY <1>4, ScanLeafOrder, DescendOrder, CallOrder
<1>5. CASE UpdateLeaf \/ InsertLeaf \/ DeleteFromLeaf
  BY <1>5, LeafOrder
<1>6. CASE InsertLeafSplitRaises \/ InsertLeafSplit \/ InsertNodeSplit
  BY <1>6, InsertLeafSplitRaisesOrder, InsertLeafSplitOrder, InsertNodeSplitOrder
<1>7. CASE NewRoot \/ SetRoot \/ ShrinkRoot
  BY <1>7, NewRootOrder, SetRootOrder, ShrinkRootOrder
<1>8. CASE InsertNode \/ WriteModifiedNode \/ DeleteFromNode
  BY <1>8, NodeOrder
<1>9. CASE BorrowLeafLeft \/ BorrowLeafRight \/ MergeLeaves
  BY <1>9, LeafBorrowOrder, LeafMergeOrder
<1>10. CASE BorrowNodeLeft \/ BorrowNodeRight \/ MergeNodes
  BY <1>10, NodeBorrowOrder, NodeMergeOrder
<1>11. CASE UNCHANGED vars
  BY <1>11, StutterOrder
<1>12. QED
  BY <1>1, <1>2, <1>3, <1>4, <1>5, <1>6, <1>7, <1>8, <1>9, <1>10, <1>11
     DEF Next, CodeStep, CallerStep, InsertStep, DeleteStep

\* The invariant of every handler of search, insert, update and delete (btree.py:360-778):
\* the file that the queued writes lead to, with the node the code is at on its way up
\* as it is about to write it, has every key in the range its separators give.  Of
\* the file as it is between two queued writes it says nothing: a borrow moves a key
\* out of its range until the parent is written.
THEOREM OrderHolds == PSpec => []OrderInv
<1>1. PInit => OrderInv
  BY InitOrder DEF PInit
<1>2. IInv /\ ShapeInv /\ OrderInv /\ [PNext]_pvars => OrderInv'
  <2> SUFFICES ASSUME IInv, ShapeInv, OrderInv, [PNext]_pvars PROVE OrderInv'
    OBVIOUS
  <2>1. [Next]_vars
    BY DEF PNext, pvars
  <2>2. QED
    BY <2>1, StepOrder
<1>3. QED
  BY <1>1, <1>2, ShapeHolds, PTL DEF PSpec
=============================================================================
