----------------------- MODULE DiskBTreeSearch_proofs ----------------------
(***************************************************************************)
(* What the order of the keys is for, for every node capacity, every set   *)
(* of calls and every history of them: between calls the search for a key  *)
(* ends at the leaf in whose range it is, the list of leaves is all leaves *)
(* in ascending order, and the three integrity checks accept the file.     *)
(***************************************************************************)
EXTENDS DiskBTreeOrder_proofs

-----------------------------------------------------------------------------
(* Where a search ends *)

\* What SearchEnd is defined by: the block the search is at after n steps, and
\* the step it takes from the block at a.
SearchIn(f, k) ==
  LET down[n \in Nat] ==
        IF n = 0 THEN RootOf(f)
        ELSE LET a == down[n - 1]
                 b == BlockAt(f, a)
             IN  IF b.tag = "node" THEN b.values[search_node(b, k) + 1] ELSE a
  IN  down

Below(f, k, a) ==
  IF BlockAt(f, a).tag = "node" THEN BlockAt(f, a).values[search_node(BlockAt(f, a), k) + 1] ELSE a

\* A file between calls: the levels and the ranges of its blocks.
Rest(f, lv, lo, hi) ==
  /\ AtRestWith(f, lv) /\ Good(f, lo, hi) /\ Bounds(lo, hi)
  /\ lo[RootOf(f)] = 0 /\ hi[RootOf(f)] = -1

\* The blocks k may be under.
Toward(f, lo, hi, k) == {a \in Live(f) : InRange(k, lo[a], hi[a])}

LEMMA RestBlocks ==
  ASSUME NEW f, NEW lv, NEW lo, NEW hi, Rest(f, lv, lo, hi)
  PROVE  /\ Live(f) \subseteq Nat /\ RootOf(f) \in Live(f)
         /\ \A a \in Live(f) : /\ lo[a] \in Nat /\ hi[a] \in Int /\ lv[a] \in Nat /\ BlockAt(f, a) = f[a]
                               /\ Ranged(f[a], lo, hi, lo[a], hi[a])
                               /\ f[a].tag = "node" \/ (f[a].tag = "leaf" /\ lv[a] = 0)
                               /\ a \in Inner(f) <=> f[a].tag = "node"
<1>1. AtRestWith(f, lv) /\ Good(f, lo, hi) /\ Bounds(lo, hi)
  BY DEF Rest
<1>2. RootOf(f) \in Live(f)
  BY <1>1 DEF AtRestWith, Rooted
<1>3. ASSUME NEW a \in Live(f)
      PROVE  /\ a \in Nat /\ lo[a] \in Nat /\ hi[a] \in Int /\ lv[a] \in Nat /\ BlockAt(f, a) = f[a]
             /\ Ranged(f[a], lo, hi, lo[a], hi[a])
             /\ f[a].tag = "node" \/ (f[a].tag = "leaf" /\ lv[a] = 0)
             /\ a \in Inner(f) <=> f[a].tag = "node"
  <2>1. /\ a \in Nat /\ lv[a] \in Nat /\ BlockAt(f, a) = f[a]
        /\ a \notin Inner(f) => f[a].tag = "leaf" /\ lv[a] = 0
        /\ a \in Inner(f) => f[a].tag = "node"
    BY <1>1, ChildrenAtRest
  <2>2. lo[a] \in Nat /\ hi[a] \in Int
    BY <1>1, <2>1, SameBounds
  <2>3. Ranged(f[a], lo, hi, lo[a], hi[a])
    BY <1>1 DEF Good, RangedAll
  <2>4. QED
    BY <2>1, <2>2, <2>3
<1>4. QED
  BY <1>2, <1>3

\* A step goes to a child that k may be under.
LEMMA OneBelow ==
  ASSUME NEW f, NEW lv, NEW lo, NEW hi, Rest(f, lv, lo, hi), NEW k \in Int,
         NEW a \in Toward(f, lo, hi, k)
  PROVE  /\ Below(f, k, a) \in Toward(f, lo, hi, k)
         /\ f[a].tag = "node" => lv[a] = lv[Below(f, k, a)] + 1
         /\ f[a].tag # "node" => Below(f, k, a) = a
<1>1. a \in Live(f) /\ InRange(k, lo[a], hi[a])
  BY DEF Toward
<1>2. /\ lo[a] \in Nat /\ hi[a] \in Int /\ BlockAt(f, a) = f[a]
      /\ Ranged(f[a], lo, hi, lo[a], hi[a]) /\ a \in Inner(f) <=> f[a].tag = "node"
  BY <1>1, RestBlocks
<1>3. CASE f[a].tag = "node"
  <2>1. PICK b, i, l, h : b = f[a] /\ i = search_node(b, k) /\ l = lo[a] /\ h = hi[a]
    OBVIOUS
  <2>2. b.values[i + 1] \in Kids(b) /\ InRange(k, lo[b.values[i + 1]], hi[b.values[i + 1]])
    BY <1>1, <1>2, <1>3, <2>1, ChildAimed
  <2>3. Below(f, k, a) = b.values[i + 1]
    BY <1>2, <1>3, <2>1 DEF Below
  <2>4. \A c \in Kids(b) : c \in Live(f) /\ lv[a] = lv[c] + 1
    BY <1>1, <1>2, <1>3, <2>1, ChildrenAtRest DEF Rest
  <2>5. QED
    BY <1>3, <2>2, <2>3, <2>4 DEF Toward
<1>4. CASE f[a].tag # "node"
  BY <1>2, <1>4 DEF Below
<1>5. QED
  BY <1>3, <1>4

\* The recursive definition has a solution, and it stays on the way to k.
LEMMA SearchSteps ==
  ASSUME NEW f, NEW lv, NEW lo, NEW hi, Rest(f, lv, lo, hi), NEW k \in Int
  PROVE  /\ SearchIn(f, k)[0] = RootOf(f)
         /\ \A n \in Nat : /\ SearchIn(f, k)[n] \in Toward(f, lo, hi, k)
                           /\ SearchIn(f, k)[n + 1] = Below(f, k, SearchIn(f, k)[n])
<1> DEFINE S == Toward(f, lo, hi, k)
           F == [a \in S |-> Below(f, k, a)]
           b == RootOf(f)
           Def(g) == [n \in Nat |-> IF n = 0 THEN b ELSE Below(f, k, g[n - 1])]
<1>1. b \in S
  BY RestBlocks DEF Rest, Toward, InRange, Under
<1>2. F \in [S -> S] /\ \A a \in S : F[a] = Below(f, k, a)
  BY OneBelow
<1>3. SearchIn(f, k) = CHOOSE g : g = Def(g)
  BY DEF SearchIn, Below
<1> HIDE DEF F, b, S
<1>4. PICK g \in [Nat -> S] : g[0] = b /\ \A n \in Nat : g[n + 1] = F[g[n]]
  <2>1. \E g \in [Nat -> S] : RecursOn(g, b, F)
    BY <1>1, <1>2, RecursionOnNat
  <2>2. QED
    BY <2>1 DEF RecursOn
<1>5. \A n \in Nat : g[n] \in S /\ g[n + 1] = Below(f, k, g[n])
  BY <1>2, <1>4
<1>6. g = Def(g)
  <2>1. \A n \in Nat : n # 0 => n - 1 \in Nat /\ (n - 1) + 1 = n
    OBVIOUS
  <2>2. \A n \in Nat : n # 0 => g[n] = Below(f, k, g[n - 1])
    BY <1>5, <2>1
  <2>3. QED
    BY <1>4, <2>2
<1>7. SearchIn(f, k) = Def(SearchIn(f, k))
  <2> HIDE DEF Def
  <2>1. QED
    BY <1>3, <1>6
<1>8. /\ SearchIn(f, k)[0] = b
      /\ \A n \in Nat : SearchIn(f, k)[n + 1] = Below(f, k, SearchIn(f, k)[n])
  <2>1. \A n \in Nat : n + 1 \in Nat /\ n + 1 # 0 /\ (n + 1) - 1 = n
    OBVIOUS
  <2>2. \A n \in Nat : SearchIn(f, k)[n] = Def(SearchIn(f, k))[n]
    BY <1>7
  <2>3. QED
    BY <2>1, <2>2
<1>9. \A n \in Nat : SearchIn(f, k)[n] = g[n]
  <2> DEFINE Same == {n \in Nat : SearchIn(f, k)[n] = g[n]}
  <2>1. 0 \in Same /\ \A n \in Nat : n \in Same => n + 1 \in Same
    BY <1>4, <1>5, <1>8
  <2>2. Nat \subseteq Same
    <3> HIDE DEF Same
    <3>1. QED
      BY <2>1, SetInduction
  <2>3. QED
    BY <2>2
<1>10. QED
  BY <1>5, <1>8, <1>9 DEF b, S

\* It ends at a leaf that k may be in.
LEMMA SearchEndsAtLeaf ==
  ASSUME NEW f, NEW lv, NEW lo, NEW hi, Rest(f, lv, lo, hi), NEW k \in Int
  PROVE  SearchEnd(f, k) \in LeavesOf(f) /\ SearchEnd(f, k) \in Toward(f, lo, hi, k)
<1> DEFINE g(n) == SearchIn(f, k)[n]
           top  == lv[RootOf(f)]
           Down == {n \in Nat : f[g(n)].tag = "node" => lv[g(n)] + n = top}
<1>1. /\ g(0) = RootOf(f)
      /\ \A n \in Nat : g(n) \in Toward(f, lo, hi, k) /\ g(n + 1) = Below(f, k, g(n))
  BY SearchSteps
<1>2. \A a \in Toward(f, lo, hi, k) : a \in Live(f) /\ lv[a] \in Nat
  BY RestBlocks DEF Toward
<1>3. top \in Nat /\ Cardinality(DOMAIN f) \in Nat /\ top < Cardinality(DOMAIN f)
  BY LevelsAreFew DEF Rest
<1> HIDE DEF g, top
<1>4. 0 \in Down
  BY <1>1, <1>3 DEF top
<1>5. ASSUME NEW n \in Nat, n \in Down PROVE n + 1 \in Down
  <2>1. PICK a, c : a = g(n) /\ c = g(n + 1)
    OBVIOUS
  <2>2. a \in Toward(f, lo, hi, k) /\ c = Below(f, k, a) /\ c \in Toward(f, lo, hi, k)
    BY <1>1, <2>1
  <2>3. /\ f[a].tag = "node" => lv[a] = lv[c] + 1
        /\ f[a].tag # "node" => c = a
    BY <2>2, OneBelow
  <2>4. lv[a] \in Nat /\ lv[c] \in Nat
    BY <1>2, <2>2
  <2>5. f[c].tag = "node" => f[a].tag = "node" /\ lv[a] + n = top
    BY <1>5, <2>1, <2>3
  <2>6. f[c].tag = "node" => lv[c] + (n + 1) = top
    BY <2>3, <2>4, <2>5, <1>3
  <2>7. QED
    BY <2>1, <2>6
<1>6. Nat \subseteq Down
  <2> HIDE DEF Down
  <2>1. QED
    BY <1>4, <1>5, SetInduction
<1>7. PICK n \in Nat : n = Cardinality(DOMAIN f)
  BY <1>3
<1>8. PICK a : a = g(n)
  OBVIOUS
<1>9. a \in Toward(f, lo, hi, k) /\ a \in Live(f) /\ lv[a] \in Nat
  BY <1>1, <1>2, <1>8
<1>10. f[a].tag # "node"
  BY <1>3, <1>6, <1>7, <1>8, <1>9
<1>11. SearchEnd(f, k) = a
  <2>1. SearchEnd(f, k) = SearchIn(f, k)[Cardinality(DOMAIN f)]
    BY DEF SearchEnd, SearchIn
  <2>2. QED
    BY <2>1, <1>7, <1>8 DEF g
<1>12. QED
  BY <1>9, <1>10, <1>11, LeafOrNode

\* Leaves that k may be in are the same leaf.
LEMMA OneLeaf ==
  ASSUME NEW f, NEW lv, NEW lo, NEW hi, Rest(f, lv, lo, hi), NEW k \in Nat,
         NEW a \in LeavesOf(f), NEW b \in LeavesOf(f),
         a \in Toward(f, lo, hi, k), b \in Toward(f, lo, hi, k)
  PROVE  a = b
<1> SUFFICES ASSUME a # b PROVE FALSE
  OBVIOUS
<1>1. a \in Live(f) /\ b \in Live(f)
  BY LeafOrNode
<1>2. lo[a] \in Nat /\ hi[a] \in Int /\ lo[b] \in Nat /\ hi[b] \in Int
  BY <1>1, RestBlocks
<1>3. InRange(k, lo[a], hi[a]) /\ InRange(k, lo[b], hi[b])
  BY DEF Toward
<1>4. Apart(lo, hi, a, b)
  BY DEF Rest, Good, Listed
<1>5. QED
  BY <1>2, <1>3, <1>4 DEF InRange, Under, Apart

\* A key of a leaf is one that it may hold.
LEMMA KeyInRange ==
  ASSUME NEW f, NEW lv, NEW lo, NEW hi, Rest(f, lv, lo, hi), NEW a \in LeavesOf(f),
         NEW j, j \in 1..Len(f[a].keys)
  PROVE  f[a].keys[j] \in Nat /\ a \in Toward(f, lo, hi, f[a].keys[j])
<1>1. a \in Live(f) /\ f[a].tag = "leaf"
  BY LeafOrNode
<1>2. Ranged(f[a], lo, hi, lo[a], hi[a]) /\ lo[a] \in Nat
  BY <1>1, RestBlocks
<1>3. f[a].keys \in Seq(Span(lo[a], hi[a]))
  BY <1>1, <1>2 DEF Ranged
<1>4. f[a].keys[j] \in Span(lo[a], hi[a])
  BY <1>3
<1>5. QED
  BY <1>1, <1>2, <1>4 DEF Span, Toward, InRange

LEMMA KeyIsFound ==
  ASSUME NEW f, NEW lv, NEW lo, NEW hi, Rest(f, lv, lo, hi), NEW a \in LeavesOf(f),
         NEW k \in ToSet(f[a].keys)
  PROVE  k \in Nat /\ SearchEnd(f, k) = a
<1>1. PICK j \in DOMAIN f[a].keys : k = f[a].keys[j]
  BY DEF ToSet
<1>2. j \in 1..Len(f[a].keys)
  <2>1. a \in Live(f)
    BY LeafOrNode
  <2>2. f[a].keys \in Seq(Nat)
    BY <2>1, RestBlocks, RangedIs
  <2>3. QED
    BY <1>1, <2>2
<1>3. k \in Nat /\ a \in Toward(f, lo, hi, k)
  BY <1>1, <1>2, KeyInRange
<1>4. SearchEnd(f, k) \in LeavesOf(f) /\ SearchEnd(f, k) \in Toward(f, lo, hi, k)
  BY <1>3, SearchEndsAtLeaf
<1>5. QED
  BY <1>3, <1>4, OneLeaf

-----------------------------------------------------------------------------
(* The list of leaves *)

\* What LeafChain is defined by.
ChainTo(f) ==
  LET after[n \in Nat] ==
        IF n = 0 THEN <<1>>
        ELSE LET seen == after[n - 1]
                 next == BlockAt(f, Last(seen)).next
             IN  IF next = 0 THEN seen ELSE Append(seen, next)
  IN  after

LEMMA RestHeader ==
  ASSUME NEW f, NEW lv, NEW lo, NEW hi, Rest(f, lv, lo, hi)
  PROVE  File(f) /\ 0 \notin Live(f)
<1>1. File(f)
  BY DEF Rest, AtRestWith
<1>2. QED
  BY <1>1 DEF File, Header, Live, IsLive

Onward(f, q) == IF BlockAt(f, Last(q)).next = 0 THEN q ELSE Append(q, BlockAt(f, Last(q)).next)

\* Leaves in the order of their list, from block 1.
InOrder(f, q) ==
  /\ q \in Seq(LeavesOf(f)) /\ Len(q) >= 1 /\ q[1] = 1
  /\ \A j \in 1..Len(q) : j < Len(q) => f[q[j]].next = q[j + 1]

LEMMA InOrderOnward ==
  ASSUME NEW f, NEW lv, NEW lo, NEW hi, Rest(f, lv, lo, hi), NEW q, InOrder(f, q)
  PROVE  /\ InOrder(f, Onward(f, q)) /\ Len(q) \in Nat /\ Len(q) >= 1 /\ Last(q) \in LeavesOf(f)
         /\ BlockAt(f, Last(q)) = f[Last(q)]
         /\ f[Last(q)].next # 0 => Len(Onward(f, q)) = Len(q) + 1
         /\ f[Last(q)].next = 0 => Onward(f, q) = q
<1>1. PICK n : n = Len(q)
  OBVIOUS
<1>2. q \in Seq(LeavesOf(f)) /\ n \in Nat /\ n >= 1 /\ q[1] = 1 /\ \A j \in 1..n : q[j] \in LeavesOf(f)
  BY <1>1 DEF InOrder
<1>3. PICK a : a = Last(q)
  OBVIOUS
<1>4. a = q[n] /\ a \in LeavesOf(f)
  <2>1. n \in 1..n
    BY <1>2
  <2>2. QED
    BY <2>1, <1>1, <1>2, <1>3 DEF Last
<1>5. BlockAt(f, a) = f[a]
  BY <1>4, LeafOrNode, RestBlocks
<1>6. CASE f[a].next = 0
  <2>1. Onward(f, q) = q
    BY <1>3, <1>5, <1>6 DEF Onward
  <2>2. QED
    BY <2>1, <1>1, <1>2, <1>3, <1>4, <1>5, <1>6
<1>7. CASE f[a].next # 0
  <2>1. PICK c, p : c = f[a].next /\ p = Append(q, c)
    OBVIOUS
  <2>2. c \in LeavesOf(f)
    BY <1>4, <1>7, <2>1 DEF Rest, Good, Listed
  <2>3. /\ p \in Seq(LeavesOf(f)) /\ Len(p) = n + 1 /\ p[n + 1] = c
        /\ \A j \in 1..n : p[j] = q[j]
    BY <1>1, <1>2, <2>1, <2>2
  <2>4. p[1] = 1 /\ Len(p) >= 1
    <3>1. 1 \in 1..n
      BY <1>2
    <3>2. QED
      BY <3>1, <1>2, <2>3
  <2>5. ASSUME NEW j \in 1..Len(p), j < Len(p) PROVE f[p[j]].next = p[j + 1]
    <3>1. j \in 1..n /\ j \in Nat
      BY <2>3, <2>5, <1>2
    <3>2. CASE j = n
      BY <3>2, <3>1, <2>1, <2>3, <1>4
    <3>3. CASE j # n
      <4>1. j < n /\ j + 1 \in 1..n
        BY <3>1, <3>3, <1>2
      <4>2. f[q[j]].next = q[j + 1]
        BY <4>1, <3>1, <1>1 DEF InOrder
      <4>3. QED
        BY <4>1, <4>2, <3>1, <2>3
    <3>4. QED
      BY <3>2, <3>3
  <2>6. InOrder(f, p)
    BY <2>3, <2>4, <2>5 DEF InOrder
  <2>7. Onward(f, q) = p
    BY <1>3, <1>5, <1>7, <2>1 DEF Onward
  <2>8. QED
    BY <2>3, <2>6, <2>7, <1>1, <1>2, <1>3, <1>4, <1>5, <1>7
<1>8. QED
  BY <1>6, <1>7

\* The recursive definition has a solution.
LEMMA ChainSteps ==
  ASSUME NEW f, NEW lv, NEW lo, NEW hi, Rest(f, lv, lo, hi)
  PROVE  /\ ChainTo(f)[0] = <<1>>
         /\ \A n \in Nat : InOrder(f, ChainTo(f)[n]) /\ ChainTo(f)[n + 1] = Onward(f, ChainTo(f)[n])
<1> DEFINE S == {q \in Seq(LeavesOf(f)) : InOrder(f, q)}
           F == [q \in S |-> Onward(f, q)]
           b == <<1>>
           Def(g) == [n \in Nat |-> IF n = 0 THEN b ELSE Onward(f, g[n - 1])]
<1>1. b \in S
  <2>1. 1 \in LeavesOf(f)
    BY DEF Rest, Good, Listed
  <2>2. b \in Seq(LeavesOf(f)) /\ Len(b) = 1 /\ b[1] = 1
    BY <2>1
  <2>3. \A j \in 1..Len(b) : ~(j < Len(b))
    BY <2>2
  <2>4. QED
    BY <2>2, <2>3 DEF InOrder
<1>2. F \in [S -> S] /\ \A q \in S : F[q] = Onward(f, q)
  BY InOrderOnward DEF InOrder
<1>3. ChainTo(f) = CHOOSE g : g = Def(g)
  BY DEF ChainTo, Onward
<1> HIDE DEF F, b, S
<1>4. PICK g \in [Nat -> S] : g[0] = b /\ \A n \in Nat : g[n + 1] = F[g[n]]
  <2>1. \E g \in [Nat -> S] : RecursOn(g, b, F)
    BY <1>1, <1>2, RecursionOnNat
  <2>2. QED
    BY <2>1 DEF RecursOn
<1>5. \A n \in Nat : g[n] \in S /\ g[n + 1] = Onward(f, g[n])
  BY <1>2, <1>4
<1>6. g = Def(g)
  <2>1. \A n \in Nat : n # 0 => n - 1 \in Nat /\ (n - 1) + 1 = n
    OBVIOUS
  <2>2. \A n \in Nat : n # 0 => g[n] = Onward(f, g[n - 1])
    BY <1>5, <2>1
  <2>3. QED
    BY <1>4, <2>2
<1>7. ChainTo(f) = Def(ChainTo(f))
  <2> HIDE DEF Def
  <2>1. QED
    BY <1>3, <1>6
<1>8. /\ ChainTo(f)[0] = b
      /\ \A n \in Nat : ChainTo(f)[n + 1] = Onward(f, ChainTo(f)[n])
  <2>1. \A n \in Nat : n + 1 \in Nat /\ n + 1 # 0 /\ (n + 1) - 1 = n
    OBVIOUS
  <2>2. \A n \in Nat : ChainTo(f)[n] = Def(ChainTo(f))[n]
    BY <1>7
  <2>3. QED
    BY <2>1, <2>2
<1>9. \A n \in Nat : ChainTo(f)[n] = g[n]
  <2> DEFINE Same == {n \in Nat : ChainTo(f)[n] = g[n]}
  <2>1. 0 \in Same /\ \A n \in Nat : n \in Same => n + 1 \in Same
    BY <1>4, <1>5, <1>8
  <2>2. Nat \subseteq Same
    <3> HIDE DEF Same
    <3>1. QED
      BY <2>1, SetInduction
  <2>3. QED
    BY <2>2
<1>10. QED
  BY <1>5, <1>8, <1>9 DEF b, S

\* The ranges of linked leaves follow each other.
LEMMA InOrderAscends ==
  ASSUME NEW f, NEW lv, NEW lo, NEW hi, Rest(f, lv, lo, hi), NEW q, InOrder(f, q)
  PROVE  \A i, j \in 1..Len(q) : i < j => hi[q[i]] \in Nat /\ hi[q[i]] <= lo[q[j]] /\ lo[q[i]] < lo[q[j]]
<1>1. PICK n : n = Len(q)
  OBVIOUS
<1>2. n \in Nat /\ \A j \in 1..n : q[j] \in LeavesOf(f)
  BY <1>1 DEF InOrder
<1>3. \A j \in 1..n : lo[q[j]] \in Nat /\ hi[q[j]] \in Int /\ Under(lo[q[j]], hi[q[j]])
  <2> TAKE j \in 1..n
  <2>1. q[j] \in Live(f)
    BY <1>2, LeafOrNode
  <2>2. QED
    BY <2>1, RestBlocks DEF Ranged
<1>4. \A j \in 1..n : j < n => lo[q[j + 1]] = hi[q[j]]
  <2> SUFFICES ASSUME NEW j \in 1..n, j < n PROVE lo[q[j + 1]] = hi[q[j]]
    OBVIOUS
  <2>1. j + 1 \in 1..n
    BY <1>2
  <2>2. f[q[j]].next = q[j + 1]
    BY <1>1 DEF InOrder
  <2>3. q[j + 1] \in LeavesOf(f) /\ q[j] \in LeavesOf(f) /\ q[j + 1] # 0
    <3>1. q[j + 1] # 0
      <4>1. q[j + 1] \in Live(f)
        BY <2>1, <1>2, LeafOrNode
      <4>2. QED
        BY <4>1, RestHeader
    <3>2. QED
      BY <3>1, <2>1, <1>2
  <2>4. QED
    BY <2>2, <2>3 DEF Rest, Good, Listed
<1> DEFINE Up == {j \in Nat : j \in 1..n => \A i \in 1..n : i < j =>
                    hi[q[i]] \in Nat /\ hi[q[i]] <= lo[q[j]] /\ lo[q[i]] < lo[q[j]]}
<1>5. 0 \in Up
  OBVIOUS
<1>6. ASSUME NEW j \in Nat, j \in Up PROVE j + 1 \in Up
  <2> SUFFICES ASSUME j + 1 \in 1..n, NEW i \in 1..n, i < j + 1
               PROVE  hi[q[i]] \in Nat /\ hi[q[i]] <= lo[q[j + 1]] /\ lo[q[i]] < lo[q[j + 1]]
    OBVIOUS
  <2>1. j \in 1..n /\ j < n /\ (i < j \/ i = j)
    BY <1>2
  <2>2. /\ lo[q[j + 1]] = hi[q[j]] /\ lo[q[j]] \in Nat /\ hi[q[j]] \in Int /\ lo[q[j + 1]] \in Nat
        /\ Under(lo[q[j]], hi[q[j]])
    BY <2>1, <1>3, <1>4
  <2>3. lo[q[j]] < lo[q[j + 1]]
    BY <2>2 DEF Under
  <2>4. CASE i = j
    BY <2>2, <2>3, <2>4
  <2>5. CASE i < j
    <3>1. hi[q[i]] \in Nat /\ hi[q[i]] <= lo[q[j]] /\ lo[q[i]] < lo[q[j]] /\ lo[q[i]] \in Nat
      BY <2>1, <2>5, <1>3, <1>6
    <3>2. QED
      BY <3>1, <2>2, <2>3
  <2>6. QED
    BY <2>1, <2>4, <2>5
<1>7. Nat \subseteq Up
  <2> HIDE DEF Up
  <2>1. QED
    BY <1>5, <1>6, SetInduction
<1>8. QED
  BY <1>1, <1>2, <1>7

\* Leaves in order are different blocks of the file.
LEMMA InOrderIsShort ==
  ASSUME NEW f, NEW lv, NEW lo, NEW hi, Rest(f, lv, lo, hi), NEW q, InOrder(f, q)
  PROVE  Len(q) \in Nat /\ Cardinality(DOMAIN f) \in Nat /\ Len(q) <= Cardinality(DOMAIN f)
<1>1. PICK n : n = Len(q)
  OBVIOUS
<1>2. n \in Nat /\ q \in [1..n -> LeavesOf(f)]
  BY <1>1 DEF InOrder
<1>3. IsFiniteSet(DOMAIN f)
  BY DEF Rest, AtRestWith
<1>4. \A i, j \in 1..n : q[i] = q[j] => i = j
  <2> SUFFICES ASSUME NEW i \in 1..n, NEW j \in 1..n, i # j PROVE q[i] # q[j]
    OBVIOUS
  <2>1. \A a, b \in 1..n : a < b => lo[q[a]] < lo[q[b]]
    BY <1>1, InOrderAscends
  <2>2. \A a \in 1..n : lo[q[a]] \in Nat
    BY <1>2, LeafOrNode, RestBlocks
  <2>3. i < j \/ j < i
    BY <1>2
  <2>4. QED
    BY <2>1, <2>2, <2>3
<1>5. q \in Injection(1..n, DOMAIN f)
  <2>1. q \in [1..n -> DOMAIN f]
    BY <1>2, LeafOrNode
  <2>2. QED
    BY <1>4, <2>1 DEF Injection, IsInjective
<1>6. Cardinality(1..n) = n
  <2>1. PICK o \in Nat : o = 1
    OBVIOUS
  <2>2. o \in Int /\ n \in Int
    BY <1>2
  <2>3. IsFiniteSet(o..n) /\ Cardinality(o..n) = IF o > n THEN 0 ELSE n - o + 1
    BY ONLY <2>2, FS_Interval
  <2>4. QED
    BY <1>2, <2>1, <2>3
<1>7. Cardinality(1..n) <= Cardinality(DOMAIN f)
  BY <1>3, <1>5, FS_Injection
<1>8. Cardinality(DOMAIN f) \in Nat
  BY <1>3, FS_CardinalityType
<1>9. QED
  BY <1>1, <1>2, <1>6, <1>7, <1>8

\* The list is followed to its end.
LEMMA ChainEnds ==
  ASSUME NEW f, NEW lv, NEW lo, NEW hi, Rest(f, lv, lo, hi)
  PROVE  InOrder(f, LeafChain(f)) /\ f[Last(LeafChain(f))].next = 0
<1> DEFINE g(n)  == ChainTo(f)[n]
           Going == {n \in Nat : f[Last(g(n))].next = 0 \/ Len(g(n)) = n + 1}
<1>1. /\ g(0) = <<1>>
      /\ \A n \in Nat : InOrder(f, g(n)) /\ g(n + 1) = Onward(f, g(n))
  BY ChainSteps
<1> HIDE DEF g
<1>2. 0 \in Going
  <2>1. Len(g(0)) = 1
    BY <1>1
  <2>2. QED
    BY <2>1
<1>3. ASSUME NEW n \in Nat, n \in Going PROVE n + 1 \in Going
  <2>1. PICK p, q : p = g(n) /\ q = g(n + 1)
    OBVIOUS
  <2>2. InOrder(f, p) /\ q = Onward(f, p)
    BY <1>1, <2>1
  <2>3. /\ f[Last(p)].next # 0 => Len(q) = Len(p) + 1
        /\ f[Last(p)].next = 0 => q = p
    BY <2>2, InOrderOnward
  <2>4. f[Last(p)].next = 0 \/ Len(p) = n + 1
    BY <1>3, <2>1
  <2>5. f[Last(q)].next = 0 \/ Len(q) = (n + 1) + 1
    BY <2>3, <2>4
  <2>6. QED
    BY <2>1, <2>5
<1>4. Nat \subseteq Going
  <2> HIDE DEF Going
  <2>1. QED
    BY <1>2, <1>3, SetInduction
<1>5. PICK n : n = Cardinality(DOMAIN f)
  OBVIOUS
<1>6. PICK q : q = g(n)
  OBVIOUS
<1>7. n \in Nat
  BY <1>5, LevelsAreFew DEF Rest
<1>8. InOrder(f, q) /\ (f[Last(q)].next = 0 \/ Len(q) = n + 1)
  BY <1>1, <1>4, <1>6, <1>7
<1>9. Len(q) \in Nat /\ Len(q) <= n
  BY <1>5, <1>8, InOrderIsShort
<1>10. f[Last(q)].next = 0
  BY <1>7, <1>8, <1>9
<1>11. LeafChain(f) = q
  <2>1. LeafChain(f) = ChainTo(f)[n]
    BY <1>5 DEF LeafChain, ChainTo
  <2>2. QED
    BY <1>6, <2>1 DEF g
<1>12. QED
  BY <1>8, <1>10, <1>11

\* A leaf that no leaf of the list is begins above them all.
LEMMA NoLeafIsLeft ==
  ASSUME NEW f, NEW lv, NEW lo, NEW hi, Rest(f, lv, lo, hi), NEW q, InOrder(f, q),
         f[Last(q)].next = 0, NEW a \in LeavesOf(f)
  PROVE  \E j \in 1..Len(q) : q[j] = a
<1> SUFFICES ASSUME \A j \in 1..Len(q) : q[j] # a PROVE FALSE
  OBVIOUS
<1>1. PICK n : n = Len(q)
  OBVIOUS
<1>2. n \in Nat /\ n >= 1 /\ q[1] = 1 /\ \A j \in 1..n : q[j] \in LeavesOf(f)
  BY <1>1 DEF InOrder
<1>3. \A c \in LeavesOf(f) : lo[c] \in Nat /\ hi[c] \in Int /\ Under(lo[c], hi[c])
  BY LeafOrNode, RestBlocks DEF Ranged
<1>4. ASSUME NEW c \in LeavesOf(f), c # a, lo[c] <= lo[a]
      PROVE  hi[c] # -1 /\ hi[c] <= lo[a]
  <2>1. Apart(lo, hi, c, a)
    BY <1>4 DEF Rest, Good, Listed
  <2>2. QED
    BY <1>3, <1>4, <2>1 DEF Apart, Under
<1> DEFINE Before == {j \in Nat : j + 1 \in 1..n => lo[q[j + 1]] <= lo[a]}
<1>5. 0 \in Before
  <2>1. lo[1] = 0
    BY DEF Rest, Good, Listed
  <2>2. QED
    BY <1>2, <1>3, <2>1
<1>6. ASSUME NEW j \in Nat, j \in Before PROVE j + 1 \in Before
  <2> SUFFICES ASSUME (j + 1) + 1 \in 1..n PROVE lo[q[(j + 1) + 1]] <= lo[a]
    OBVIOUS
  <2>1. PICK i : i = j + 1
    OBVIOUS
  <2>2. i \in 1..n /\ i + 1 \in 1..n /\ i < n
    BY <1>2, <2>1
  <2>3. q[i] \in LeavesOf(f) /\ q[i] # a /\ lo[q[i]] <= lo[a]
    BY <1>1, <1>2, <1>6, <2>1, <2>2
  <2>4. hi[q[i]] # -1 /\ hi[q[i]] <= lo[a]
    BY <1>4, <2>3
  <2>5. f[q[i]].next = q[i + 1] /\ q[i + 1] \in LeavesOf(f)
    BY <1>1, <1>2, <2>2 DEF InOrder
  <2>6. q[i + 1] # 0
    BY <2>5, LeafOrNode, RestHeader
  <2>7. lo[q[i + 1]] = hi[q[i]]
    BY <2>3, <2>5, <2>6 DEF Rest, Good, Listed
  <2>8. QED
    BY <2>1, <2>4, <2>7
<1>7. Nat \subseteq Before
  <2> HIDE DEF Before
  <2>1. QED
    BY <1>5, <1>6, SetInduction
<1>8. n \in 1..n /\ n - 1 \in Nat /\ (n - 1) + 1 = n
  BY <1>2
<1>9. q[n] \in LeavesOf(f) /\ q[n] # a /\ lo[q[n]] <= lo[a]
  BY <1>1, <1>2, <1>7, <1>8
<1>10. hi[q[n]] # -1
  BY <1>4, <1>9
<1>11. Last(q) = q[n]
  BY <1>1 DEF Last
<1>12. QED
  BY <1>9, <1>10, <1>11 DEF Rest, Good, Listed

\* The list of leaves is all the leaves.
LEMMA ChainIsComplete ==
  ASSUME NEW f, NEW lv, NEW lo, NEW hi, Rest(f, lv, lo, hi)
  PROVE  ToSet(LeafChain(f)) = LeavesOf(f)
<1>1. PICK q : q = LeafChain(f)
  OBVIOUS
<1>2. InOrder(f, q) /\ f[Last(q)].next = 0
  BY <1>1, ChainEnds
<1>3. q \in Seq(LeavesOf(f))
  BY <1>2 DEF InOrder
<1>4. ToSet(q) \subseteq LeavesOf(f)
  BY <1>3 DEF ToSet
<1>5. ASSUME NEW a \in LeavesOf(f) PROVE a \in ToSet(q)
  <2>1. PICK j \in 1..Len(q) : q[j] = a
    BY <1>2, NoLeafIsLeft
  <2>2. QED
    BY <1>3, <2>1 DEF ToSet
<1>6. QED
  BY <1>1, <1>4, <1>5

-----------------------------------------------------------------------------
(* The keys of the list of leaves *)

\* Every element of s is one of the first n sequences.
Among(s, c, n) == \A e \in 1..Len(s) : \E j \in 1..n : \E d \in 1..Len(c[j]) : s[e] = c[j][d]

\* The sequences ascend, and each is below the ones after it.
Stacked(c, m) ==
  /\ \A j \in 1..m : c[j] \in Seq(Nat) /\ Ascending(c[j])
  /\ \A i, j \in 1..m : i < j =>
       \A d \in 1..Len(c[i]) : \A e \in 1..Len(c[j]) : c[i][d] < c[j][e]

LEMMA AscendingAppended ==
  ASSUME NEW s \in Seq(Nat), NEW t \in Seq(Nat), Ascending(s), Ascending(t),
         \A d \in 1..Len(s) : \A e \in 1..Len(t) : s[d] < t[e]
  PROVE  s \o t \in Seq(Nat) /\ Ascending(s \o t)
<1>1. PICK m, n, u : m = Len(s) /\ n = Len(t) /\ u = s \o t
  OBVIOUS
<1>2. m \in Nat /\ n \in Nat
  BY <1>1
<1>3. /\ u \in Seq(Nat) /\ Len(u) = m + n
      /\ \A j \in 1..(m + n) : u[j] = IF j <= m THEN s[j] ELSE t[j - m]
  BY <1>1
<1>4. ASSUME NEW i \in 1..(m + n), NEW j \in 1..(m + n), i < j PROVE u[i] < u[j]
  <2>1. CASE j <= m
    <3>1. i \in 1..m /\ j \in 1..m
      BY <1>2, <1>4, <2>1
    <3>2. s[i] < s[j]
      BY <3>1, <1>1, <1>4 DEF Ascending
    <3>3. QED
      BY <3>1, <3>2, <1>3
  <2>2. CASE i > m
    <3>1. i - m \in 1..n /\ j - m \in 1..n /\ i - m < j - m /\ ~(i <= m) /\ ~(j <= m)
      BY <1>2, <1>4, <2>2
    <3>2. t[i - m] < t[j - m]
      BY <3>1, <1>1 DEF Ascending
    <3>3. QED
      BY <3>1, <3>2, <1>3
  <2>3. CASE i <= m /\ j > m
    <3>1. i \in 1..m /\ j - m \in 1..n /\ ~(j <= m)
      BY <1>2, <1>4, <2>3
    <3>2. s[i] < t[j - m]
      BY <3>1, <1>1
    <3>3. QED
      BY <3>1, <3>2, <2>3, <1>3
  <2>4. QED
    BY <2>1, <2>2, <2>3, <1>2
<1>5. QED
  BY <1>1, <1>3, <1>4 DEF Ascending

LEMMA AmongAppended ==
  ASSUME NEW s \in Seq(Nat), NEW c, NEW n \in Nat, Among(s, c, n), c[n + 1] \in Seq(Nat)
  PROVE  Among(s \o c[n + 1], c, n + 1)
<1>1. PICK t, u, k, m : t = c[n + 1] /\ u = s \o t /\ k = Len(s) /\ m = Len(t)
  OBVIOUS
<1>2. k \in Nat /\ m \in Nat /\ t \in Seq(Nat)
  BY <1>1
<1>3. Len(u) = k + m /\ \A j \in 1..(k + m) : u[j] = IF j <= k THEN s[j] ELSE t[j - k]
  BY <1>1, <1>2
<1>4. ASSUME NEW e \in 1..(k + m) PROVE \E j \in 1..(n + 1) : \E d \in 1..Len(c[j]) : u[e] = c[j][d]
  <2>1. CASE e <= k
    <3>1. e \in 1..k
      BY <2>1, <1>2
    <3>2. PICK j \in 1..n : \E d \in 1..Len(c[j]) : s[e] = c[j][d]
      BY <3>1, <1>1 DEF Among
    <3>3. j \in 1..(n + 1)
      OBVIOUS
    <3>4. u[e] = s[e]
      BY <1>3, <2>1
    <3>5. QED
      BY <3>2, <3>3, <3>4
  <2>2. CASE ~(e <= k)
    <3>1. e - k \in 1..m
      BY <2>2, <1>2
    <3>2. n + 1 \in 1..(n + 1)
      OBVIOUS
    <3>3. u[e] = c[n + 1][e - k]
      BY <1>1, <1>3, <2>2
    <3>4. e - k \in 1..Len(c[n + 1])
      BY <3>1, <1>1
    <3>5. QED
      BY <3>2, <3>3, <3>4
  <2>3. QED
    BY <2>1, <2>2
<1>5. QED
  BY <1>1, <1>3, <1>4 DEF Among

\* FlattenSeq of sequences that are stacked.
LEMMA FlattenAscends ==
  ASSUME NEW c, NEW m \in Nat, m >= 1, Len(c) = m, Stacked(c, m)
  PROVE  FlattenSeq(c) \in Seq(Nat) /\ Ascending(FlattenSeq(c))
<1> DEFINE S == Seq(Nat)
           F == [n \in 1..m |-> [s \in S |-> s \o c[n]]]
           Def(h) == [i \in 1..m |-> IF i = 1 THEN c[i] ELSE h[i - 1] \o c[i]]
           G == CHOOSE h : h = Def(h)
<1>1. \A j \in 1..m : c[j] \in S
  BY DEF Stacked
<1>2. F \in [1..m -> [S -> S]]
  BY <1>1
<1>3. PICK g \in [0..m -> S] : Recurs(g, <<>>, F, m)
  <2>1. <<>> \in S
    OBVIOUS
  <2> HIDE DEF S, F
  <2>2. QED
    BY <1>2, <2>1, RecursionExists
<1>4. g[0] = <<>> /\ \A n \in 1..m : g[n] = g[n - 1] \o c[n]
  <2>1. g[0] = <<>> /\ \A n \in 1..m : g[n] = F[n][g[n - 1]]
    BY <1>3 DEF Recurs
  <2>2. \A n \in 1..m : g[n - 1] \in S
    OBVIOUS
  <2>3. QED
    BY <2>1, <2>2
<1> HIDE DEF F
<1>5. g[1] = c[1]
  <2>1. 1 \in 1..m
    OBVIOUS
  <2>2. g[1] = <<>> \o c[1]
    <3>1. g[1] = g[1 - 1] \o c[1]
      BY <2>1, <1>4
    <3>2. 1 - 1 = 0
      OBVIOUS
    <3>3. QED
      BY <3>1, <3>2, <1>4
  <2>3. c[1] \in Seq(Nat)
    BY <2>1, <1>1
  <2>4. QED
    BY <2>2, <2>3
<1> DEFINE h == [i \in 1..m |-> g[i]]
<1>6. h = Def(h)
  <2>1. \A i \in 1..m : i # 1 => i - 1 \in 1..m
    OBVIOUS
  <2>2. \A i \in 1..m : i # 1 => h[i - 1] = g[i - 1]
    BY <2>1
  <2>3. \A i \in 1..m : g[i] = IF i = 1 THEN c[i] ELSE h[i - 1] \o c[i]
    BY <1>4, <1>5, <2>2
  <2>4. QED
    BY <2>3
<1>7. G = Def(G)
  <2> HIDE DEF Def, h
  <2>1. QED
    BY <1>6
<1>8. FlattenSeq(c) = G[m]
  <2>1. Len(c) # 0
    OBVIOUS
  <2>2. QED
    BY <2>1 DEF FlattenSeq
<1> HIDE DEF G, h
<1>9. \A i \in 1..m : G[i] = IF i = 1 THEN c[i] ELSE G[i - 1] \o c[i]
  <2>1. PICK d : d = Def(G)
    OBVIOUS
  <2>2. \A i \in 1..m : d[i] = IF i = 1 THEN c[i] ELSE G[i - 1] \o c[i]
    BY <2>1
  <2>3. G = d
    BY <1>7, <2>1
  <2>4. QED
    BY <2>2, <2>3
<1> HIDE DEF Def, S
<1> DEFINE Up == {n \in Nat : n + 1 \in 1..m =>
                    G[n + 1] \in Seq(Nat) /\ Ascending(G[n + 1]) /\ Among(G[n + 1], c, n + 1)}
<1>10. 0 \in Up
  <2>1. 1 \in 1..m
    OBVIOUS
  <2>2. G[1] = c[1] /\ c[1] \in Seq(Nat) /\ Ascending(c[1])
    BY <2>1, <1>9 DEF Stacked
  <2>3. Among(c[1], c, 1)
    BY DEF Among
  <2>4. QED
    BY <2>2, <2>3
<1>11. ASSUME NEW n \in Nat, n \in Up PROVE n + 1 \in Up
  <2> SUFFICES ASSUME (n + 1) + 1 \in 1..m
               PROVE  /\ G[(n + 1) + 1] \in Seq(Nat) /\ Ascending(G[(n + 1) + 1])
                      /\ Among(G[(n + 1) + 1], c, (n + 1) + 1)
    OBVIOUS
  <2>1. PICK i \in Nat : i = n + 1
    OBVIOUS
  <2>2. i \in 1..m /\ i + 1 \in 1..m
    BY <2>1
  <2>3. PICK s, t : s = G[i] /\ t = c[i + 1]
    OBVIOUS
  <2>4. s \in Seq(Nat) /\ Ascending(s) /\ Among(s, c, i)
    BY <1>11, <2>1, <2>2, <2>3
  <2>5. t \in Seq(Nat) /\ Ascending(t)
    BY <2>2, <2>3 DEF Stacked
  <2>6. G[i + 1] = s \o t
    <3>1. i + 1 # 1 /\ (i + 1) - 1 = i
      BY <2>1
    <3>2. QED
      BY <3>1, <1>9, <2>2, <2>3
  <2>7. \A d \in 1..Len(s) : \A e \in 1..Len(t) : s[d] < t[e]
    <3> TAKE d \in 1..Len(s)
    <3>1. PICK j \in 1..i : \E x \in 1..Len(c[j]) : s[d] = c[j][x]
      BY <2>4 DEF Among
    <3>2. j \in 1..m /\ j < i + 1
      BY <2>2
    <3>3. QED
      BY <3>1, <3>2, <2>2, <2>3 DEF Stacked
  <2>8. s \o t \in Seq(Nat) /\ Ascending(s \o t)
    BY <2>4, <2>5, <2>7, AscendingAppended
  <2>9. Among(s \o t, c, i + 1)
    BY <2>3, <2>4, <2>5, AmongAppended
  <2>10. QED
    BY <2>1, <2>6, <2>8, <2>9
<1>12. Nat \subseteq Up
  <2> HIDE DEF Up
  <2>1. QED
    BY <1>10, <1>11, SetInduction
<1>13. m - 1 \in Nat /\ (m - 1) + 1 = m /\ m \in 1..m
  OBVIOUS
<1>14. QED
  BY <1>8, <1>12, <1>13

\* The keys of the list of leaves, leaf by leaf, ascend.
LEMMA ChainIsStacked ==
  ASSUME NEW f, NEW lv, NEW lo, NEW hi, Rest(f, lv, lo, hi), NEW q, InOrder(f, q)
  PROVE  Stacked([j \in 1..Len(q) |-> BlockAt(f, q[j]).keys], Len(q))
<1>1. PICK m : m = Len(q)
  OBVIOUS
<1> DEFINE c == [j \in 1..m |-> BlockAt(f, q[j]).keys]
<1>2. m \in Nat /\ \A j \in 1..m : q[j] \in LeavesOf(f)
  BY <1>1 DEF InOrder
<1>3. \A j \in 1..m : c[j] = f[q[j]].keys
  BY <1>2, LeafOrNode, RestBlocks
<1> HIDE DEF c
<1>4. ASSUME NEW j \in 1..m
      PROVE  /\ c[j] \in Seq(Nat) /\ Ascending(c[j]) /\ lo[q[j]] \in Nat
             /\ \A d \in 1..Len(c[j]) : c[j][d] \in Span(lo[q[j]], hi[q[j]])
  <2>1. PICK a : a = q[j]
    OBVIOUS
  <2>2. a \in LeavesOf(f) /\ a \in Live(f) /\ f[a].tag = "leaf"
    BY <1>2, <2>1, LeafOrNode
  <2>3. Ranged(f[a], lo, hi, lo[a], hi[a]) /\ lo[a] \in Nat
    BY <2>2, RestBlocks
  <2>4. PICK ks, l, h : ks = f[a].keys /\ l = lo[a] /\ h = hi[a]
    OBVIOUS
  <2>5. ks \in Seq(Span(l, h)) /\ Ascending(ks)
    BY <2>2, <2>3, <2>4 DEF Ranged
  <2>6. \A d \in 1..Len(ks) : ks[d] \in Span(l, h)
    BY <2>5
  <2>7. ks \in Seq(Nat)
    BY <2>2, <2>4, RestBlocks, RangedIs
  <2>8. QED
    BY <1>3, <2>1, <2>3, <2>4, <2>5, <2>6, <2>7
<1>5. ASSUME NEW i \in 1..m, NEW j \in 1..m, i < j,
             NEW d \in 1..Len(c[i]), NEW e \in 1..Len(c[j])
      PROVE  c[i][d] < c[j][e]
  <2>1. c[i][d] \in Span(lo[q[i]], hi[q[i]]) /\ c[j][e] \in Span(lo[q[j]], hi[q[j]])
    BY <1>4
  <2>2. hi[q[i]] \in Nat /\ hi[q[i]] <= lo[q[j]] /\ lo[q[j]] \in Nat
    BY <1>1, <1>4, <1>5, InOrderAscends
  <2>3. PICK x, y, l, h, r : x = c[i][d] /\ y = c[j][e] /\ l = lo[q[i]] /\ h = hi[q[i]] /\ r = lo[q[j]]
    OBVIOUS
  <2>4. x \in Span(l, h) /\ y \in Span(r, hi[q[j]]) /\ h \in Nat /\ h <= r /\ r \in Nat
    BY <2>1, <2>2, <2>3
  <2>5. x \in Nat /\ x < h /\ y \in Nat /\ r <= y
    BY ONLY <2>4 DEF Span, Under
  <2>6. QED
    BY ONLY SMTT(30), ZenonT(30), <2>3, <2>4, <2>5
<1>6. Stacked(c, m)
  BY <1>4, <1>5 DEF Stacked
<1>7. QED
  BY <1>1, <1>6 DEF c

\* A file whose keys are in order is one in which every key is found.
LEMMA RestIsSearchable ==
  ASSUME NEW f, NEW lv, NEW lo, NEW hi, Rest(f, lv, lo, hi)
  PROVE  Searchable(f)
<1>1. ASSUME NEW a \in TreeLeaves(f), NEW k \in ToSet(BlockAt(f, a).keys)
      PROVE  SearchEnd(f, k) = a
  <2>1. a \in Live(f)
    BY ReachedIsClosed DEF TreeLeaves, Rest
  <2>2. BlockAt(f, a) = f[a] /\ f[a].tag = "leaf"
    BY <2>1, RestBlocks DEF TreeLeaves
  <2>3. a \in LeavesOf(f)
    BY <2>1, <2>2, LeafOrNode
  <2>4. k \in ToSet(f[a].keys)
    BY <2>2
  <2>5. QED
    BY <2>3, <2>4, KeyIsFound
<1>2. PICK q : q = LeafChain(f)
  OBVIOUS
<1>3. InOrder(f, q)
  BY <1>2, ChainEnds
<1>4. PICK m : m = Len(q)
  OBVIOUS
<1>5. m \in Nat /\ m >= 1
  BY <1>3, <1>4 DEF InOrder
<1>6. PICK c : c = [j \in 1..m |-> BlockAt(f, q[j]).keys]
  OBVIOUS
<1>7. Stacked(c, m)
  BY <1>3, <1>4, <1>6, ChainIsStacked
<1>8. Len(c) = m
  BY <1>5, <1>6
<1>9. PICK keys : keys = FlattenSeq(c)
  OBVIOUS
<1>10. keys \in Seq(Nat) /\ Ascending(keys)
  BY <1>5, <1>7, <1>8, <1>9, FlattenAscends
<1>11. \A j \in 1..(Len(keys) - 1) : keys[j] < keys[j + 1]
  BY <1>10 DEF Ascending
<1>12. QED
  BY <1>1, <1>2, <1>4, <1>6, <1>9, <1>11 DEF Searchable

\* Between calls the file is such a file.
LEMMA IdleRest ==
  ASSUME IInv, ShapeInv, OrderInv, pc = "idle"
  PROVE  \E lv, lo, hi : Rest(disk, lv, lo, hi)
<1>1. writes = <<>>
  BY DEF ShapeInv, Shape
<1>2. PICK lv : AtRestWith(disk, lv)
  BY <1>1, IdleAtRest
<1>3. PICK lo, hi : Good(InHand(disk), lo, hi) /\ Ends(disk, lo, hi)
  BY <1>1, OrderNow
<1>4. Good(disk, lo, hi) /\ lo[RootOf(disk)] = 0 /\ hi[RootOf(disk)] = -1
  BY <1>3 DEF InHand, Ends, Apex
<1>5. Rest(disk, lv, lo, hi)
  BY <1>2, <1>4 DEF Rest, Good, RangedAll
<1>6. QED
  BY <1>5

\* Between calls every key is found where search_until_leaf (btree.py:369-375)
\* looks for it, and the list of leaves is in order, whatever splits, borrows and
\* merges came before: the separators are never off by one.
THEOREM KeysAreFound == PSpec => []SearchTree
<1>1. IInv /\ ShapeInv /\ OrderInv => SearchTree
  <2> SUFFICES ASSUME IInv, ShapeInv, OrderInv, pc = "idle" PROVE Searchable(disk)
    BY DEF SearchTree
  <2>1. QED
    BY IdleRest, RestIsSearchable
<1>2. QED
  BY <1>1, ShapeHolds, OrderHolds, PTL

-----------------------------------------------------------------------------
(* One parent each *)

\* What is reached is the root or the child of a node that is reached.
LEMMA ParentIsReached ==
  ASSUME NEW f, NEW lv, AtRestWith(f, lv), NEW a \in Reached(f), a # RootOf(f)
  PROVE  \E b \in TreeNodes(f) : a \in Kids(f[b])
<1> DEFINE R(n) == ReachedIn(f)[n]
           Up == {n \in Nat : \A x \in R(n) :
                    x = RootOf(f) \/ \E b \in R(n) : /\ BlockAt(f, b).tag = "node"
                                                     /\ x \in ToSet(BlockAt(f, b).values)}
<1>1. File(f)
  BY DEF AtRestWith
<1>2. R(0) = {RootOf(f)} /\ \A n \in Nat : R(n + 1) = OneMore(f, R(n))
  BY <1>1, ReachedSteps
<1> HIDE DEF R
<1>3. 0 \in Up
  BY <1>2
<1>4. ASSUME NEW n \in Nat, n \in Up PROVE n + 1 \in Up
  <2> SUFFICES ASSUME NEW x \in R(n + 1), x # RootOf(f)
               PROVE  \E b \in R(n + 1) : /\ BlockAt(f, b).tag = "node"
                                          /\ x \in ToSet(BlockAt(f, b).values)
    OBVIOUS
  <2>1. R(n + 1) = OneMore(f, R(n))
    BY <1>2
  <2>2. R(n) \subseteq R(n + 1)
    BY <2>1 DEF OneMore
  <2>3. \E b \in R(n) : BlockAt(f, b).tag = "node" /\ x \in ToSet(BlockAt(f, b).values)
    <3>1. CASE x \in R(n)
      BY <3>1, <1>4
    <3>2. CASE x \notin R(n)
      BY <3>2, <2>1 DEF OneMore
    <3>3. QED
      BY <3>1, <3>2
  <2>4. QED
    BY <2>2, <2>3
<1>5. Nat \subseteq Up
  <2> HIDE DEF Up
  <2>1. QED
    BY <1>3, <1>4, SetInduction
<1>6. PICK n \in Nat : n = Cardinality(DOMAIN f)
  BY LevelsAreFew
<1>7. R(n) = Reached(f)
  BY <1>6 DEF R, Reached
<1>8. PICK b \in Reached(f) : BlockAt(f, b).tag = "node" /\ a \in ToSet(BlockAt(f, b).values)
  BY <1>5, <1>7
<1>9. BlockAt(f, b) = f[b]
  BY <1>8, ReachedIsClosed, ChildrenAtRest
<1>10. ToSet(BlockAt(f, b).values) = Members(BlockAt(f, b).values)
  BY <1>1, BlockAtIs
<1>11. QED
  BY <1>8, <1>9, <1>10 DEF Kids, TreeNodes

\* The places for children in the nodes of the tree.
Places(f) == {c \in TreeNodes(f) \X (1..MAX_NKEYS + 1) : c[2] <= Len(BlockAt(f, c[1]).values)}

LEMMA PlaceIs ==
  ASSUME NEW f, NEW lv, AtRestWith(f, lv)
  PROVE  \A c : c \in Places(f) <=> \E a \in TreeNodes(f) : \E j \in 1..Len(f[a].values) : c = <<a, j>>
<1>1. ASSUME NEW a \in TreeNodes(f)
      PROVE  BlockAt(f, a) = f[a] /\ Len(f[a].values) \in Nat /\ Len(f[a].values) <= MAX_NKEYS + 1
  <2>1. a \in Live(f)
    BY ReachedIsClosed DEF TreeNodes
  <2>2. BlockAt(f, a) = f[a]
    BY <2>1, ChildrenAtRest
  <2>3. Sound(f[a]) /\ f[a].tag = "node"
    BY <2>1, <2>2, InnerLive DEF AtRestWith, File, TreeNodes
  <2>4. nkeys(f[a]) \in 0..MAX_NKEYS /\ Len(f[a].values) = nkeys(f[a]) + 1
    BY <2>3, SoundArrays
  <2>5. QED
    BY <2>2, <2>4, MaxNkeysAssumption
<1>2. MAX_NKEYS \in Nat
  BY MaxNkeysAssumption
<1>3. ASSUME NEW c, c \in Places(f)
      PROVE  \E a \in TreeNodes(f) : \E j \in 1..Len(f[a].values) : c = <<a, j>>
  <2>1. PICK a \in TreeNodes(f), j \in 1..MAX_NKEYS + 1 : c = <<a, j>>
    BY <1>3 DEF Places
  <2>2. j <= Len(BlockAt(f, a).values)
    BY <1>3, <2>1 DEF Places
  <2>3. j \in 1..Len(f[a].values)
    BY <1>1, <1>2, <2>2
  <2>4. QED
    BY <2>1, <2>3
<1>4. ASSUME NEW a \in TreeNodes(f), NEW j \in 1..Len(f[a].values) PROVE <<a, j>> \in Places(f)
  <2>1. j \in 1..MAX_NKEYS + 1 /\ j <= Len(BlockAt(f, a).values)
    BY <1>1, <1>2
  <2>2. QED
    BY <2>1 DEF Places
<1>5. QED
  BY <1>3, <1>4

\* There is one child for every place, and each but the root has one place.
LEMMA OnePlaceEach ==
  ASSUME NEW f, NEW lv, AtRestWith(f, lv)
  PROVE  Cardinality(Places(f)) = Cardinality(Reached(f)) - 1
<1> DEFINE P    == Places(f)
           S    == Reached(f) \ {RootOf(f)}
           V(c) == f[c[1]].values[c[2]]
<1>1. /\ Reached(f) \subseteq Live(f) /\ RootOf(f) \in Reached(f)
      /\ \A a \in TreeNodes(f) : a \in Inner(f) /\ a \in Reached(f)
  <2>1. /\ Reached(f) \subseteq Live(f) /\ RootOf(f) \in Reached(f)
    BY ReachedIsClosed
  <2>2. QED
    BY <2>1, ChildrenAtRest, InnerLive DEF TreeNodes
<1>2. \A c : c \in P <=> \E a \in TreeNodes(f) : \E j \in 1..Len(f[a].values) : c = <<a, j>>
  BY PlaceIs
<1> HIDE DEF P
<1>3. ASSUME NEW c \in P PROVE V(c) \in S
  <2>1. PICK a \in TreeNodes(f) : \E j \in 1..Len(f[a].values) : c = <<a, j>>
    BY <1>2
  <2>2. PICK j \in 1..Len(f[a].values) : c = <<a, j>>
    BY <2>1
  <2>3. V(c) \in Kids(f[a])
    BY <2>2 DEF Kids, Members
  <2>4. V(c) \in Reached(f)
    BY <1>1, <2>3, ReachedIsClosed
  <2>5. V(c) # RootOf(f)
    BY <1>1, <2>3 DEF AtRestWith, Rooted, Loose
  <2>6. QED
    BY <2>4, <2>5
<1>4. ASSUME NEW x \in S PROVE \E c \in P : V(c) = x
  <2>1. PICK a \in TreeNodes(f) : x \in Kids(f[a])
    BY ParentIsReached
  <2>2. PICK j \in 1..Len(f[a].values) : x = f[a].values[j]
    BY <2>1 DEF Kids, Members
  <2>3. <<a, j>> \in P
    BY <1>2
  <2>4. QED
    BY <2>2, <2>3
<1>5. ASSUME NEW c \in P, NEW d \in P, V(c) = V(d) PROVE c = d
  <2>1. PICK a \in TreeNodes(f) : \E j \in 1..Len(f[a].values) : c = <<a, j>>
    BY <1>2
  <2>2. PICK j \in 1..Len(f[a].values) : c = <<a, j>>
    BY <2>1
  <2>3. PICK b \in TreeNodes(f) : \E k \in 1..Len(f[b].values) : d = <<b, k>>
    BY <1>2
  <2>4. PICK k \in 1..Len(f[b].values) : d = <<b, k>>
    BY <2>3
  <2>5. f[a].values[j] = f[b].values[k]
    BY <1>5, <2>2, <2>4
  <2>6. f[a].values[j] \in Kids(f[a]) /\ f[b].values[k] \in Kids(f[b])
    BY DEF Kids, Members
  <2>7. a \in Inner(f) /\ b \in Inner(f)
    BY <1>1
  <2>8. a = b
    BY <2>5, <2>6, <2>7 DEF AtRestWith, Forest
  <2>9. j = k
    BY <2>5, <2>7, <2>8 DEF AtRestWith, Forest, Distinct
  <2>10. QED
    BY <2>2, <2>4, <2>8, <2>9
<1> HIDE DEF V
<1>6. IsFiniteSet(Reached(f))
  <2>1. IsFiniteSet(DOMAIN f)
    BY DEF AtRestWith
  <2>2. Reached(f) \in SUBSET (DOMAIN f)
    BY <1>1, InnerLive
  <2>3. QED
    BY <2>1, <2>2, FS_Subset
<1>7. IsFiniteSet(S) /\ Cardinality(S) = Cardinality(Reached(f)) - 1
  BY <1>1, <1>6, FS_RemoveElement
<1> HIDE DEF S
<1>8. Cardinality(P) = Cardinality(S)
  <2> DEFINE h == [x \in S |-> CHOOSE c \in P : V(c) = x]
  <2>1. \A x \in S : h[x] \in P /\ V(h[x]) = x
    BY <1>4
  <2>2. h \in [S -> P]
    BY <2>1
  <2>3. \A c \in P : V(c) \in S /\ h[V(c)] = c
    BY <1>3, <1>5, <2>1
  <2> HIDE DEF h
  <2>4. h \in Injection(S, P)
    BY <2>1, <2>2 DEF Injection, IsInjective
  <2>5. h \in Surjection(S, P)
    BY <2>2, <2>3 DEF Surjection
  <2>6. ExistsBijection(S, P)
    BY <2>4, <2>5 DEF ExistsBijection, Bijection
  <2>7. QED
    BY <1>7, <2>6, FS_Bijection
<1>9. QED
  BY <1>7, <1>8 DEF P

\* The free list between calls: it is all of the blocks marked free, and the
\* tree all of the live ones, when no block is lost.
Sorted(f, s, size) ==
  /\ s \in Seq(Nat) /\ Chain(f, s) /\ FreeChain(f) = s /\ ToSet(FreeChain(f)) = Members(s)
  /\ DOMAIN f \subseteq 0..(size - 1) /\ size \in Nat
  /\ \A a \in Members(s) : a \in 1..(size - 1) /\ a \in DOMAIN f /\ f[a].tag = "free"
  /\ Reached(f) = Live(f) /\ 1..(size - 1) = Live(f) \cup Members(s)
  /\ TreeLeaves(f) = LeavesOf(f) /\ TreeNodes(f) = Inner(f)

LEMMA NothingLost ==
  ASSUME IInv, ShapeInv, OrderInv, pc = "idle", Lost = {}
  PROVE  \E lv, lo, hi, s : Rest(disk, lv, lo, hi) /\ Sorted(disk, s, file_size)
<1>1. PICK lv, lo, hi : Rest(disk, lv, lo, hi)
  BY IdleRest
<1>2. writes = <<>>
  BY DEF ShapeInv, Shape
<1>3. AtRestWith(disk, lv) /\ File(disk) /\ IsFiniteSet(DOMAIN disk) /\ 0 \notin Live(disk)
  BY <1>1, RestHeader DEF Rest, AtRestWith
<1>4. PICK s : s \in Seq(Nat) /\ Chain(disk, s)
  BY <1>2, IdleAtRest
<1>5. FreeChain(disk) = s /\ ToSet(FreeChain(disk)) = Members(s)
  BY <1>3, <1>4, FreeChainMembers
<1>6. Within(disk, file_size) /\ file_size \in Nat
  BY <1>2, AtRest
<1>7. DOMAIN disk \subseteq 0..(file_size - 1)
  BY <1>3, <1>6 DEF Within, File
<1>8. ASSUME NEW a \in Members(s)
      PROVE  a \in 1..(file_size - 1) /\ a \in DOMAIN disk /\ disk[a].tag = "free" /\ a \notin Live(disk)
  <2>1. PICK j \in 1..Len(s) : a = s[j]
    BY DEF Members
  <2>2. a \in DOMAIN disk /\ disk[a].tag = "free"
    BY <1>4, <2>1 DEF Chain
  <2>3. a # 0
    BY <1>3, <2>2 DEF File
  <2>4. QED
    BY <1>6, <1>7, <2>2, <2>3 DEF Live, IsLive
<1>9. Reached(disk) \subseteq Live(disk)
  BY <1>3, ReachedIsClosed
<1>10. ASSUME NEW a \in Live(disk) PROVE a \in 1..(file_size - 1)
  <2>1. a \in DOMAIN disk /\ a # 0
    BY <1>3, InnerLive
  <2>2. QED
    BY <1>6, <1>7, <2>1
<1>11. 1..(file_size - 1) = Reached(disk) \cup Members(s)
  <2>1. 1..(file_size - 1) \subseteq Reached(disk) \cup Members(s)
    BY <1>5 DEF Lost, blocks
  <2>2. QED
    BY <2>1, <1>8, <1>9, <1>10
<1>12. Reached(disk) = Live(disk)
  BY <1>8, <1>9, <1>10, <1>11
<1>13. TreeLeaves(disk) = LeavesOf(disk) /\ TreeNodes(disk) = Inner(disk)
  <2>1. \A a \in Live(disk) : /\ BlockAt(disk, a) = disk[a]
                              /\ (a \in LeavesOf(disk) <=> disk[a].tag = "leaf")
                              /\ (a \in Inner(disk) <=> disk[a].tag = "node")
    BY <1>1, RestBlocks, LeafOrNode
  <2>2. LeavesOf(disk) \subseteq Live(disk) /\ Inner(disk) \subseteq Live(disk)
    BY LeafOrNode
  <2>3. QED
    BY <1>12, <2>1, <2>2 DEF TreeLeaves, TreeNodes
<1>14. Sorted(disk, s, file_size)
  BY <1>4, <1>5, <1>6, <1>7, <1>8, <1>11, <1>12, <1>13 DEF Sorted
<1>15. QED
  BY <1>1, <1>14

LEMMA SortedIsSound ==
  ASSUME NEW f, NEW lv, NEW lo, NEW hi, Rest(f, lv, lo, hi), NEW s, NEW size, Sorted(f, s, size)
  PROVE  AllBlocksOnce(f, size)
<1>1. Cardinality({c \in TreeNodes(f) \X (1..MAX_NKEYS + 1) : c[2] <= Len(BlockAt(f, c[1]).values)})
        = Cardinality(Reached(f)) - 1
  BY OnePlaceEach DEF Rest, Places
<1>2. Reached(f) = TreeLeaves(f) \cup TreeNodes(f)
  BY LeafOrNode DEF Sorted
<1>3. \A a \in Members(s) : a \notin Live(f) /\ BlockAt(f, a).tag = "free"
  BY DEF Sorted, BlockAt, Live, IsLive
<1>4. ToSet(FreeChain(f)) = 1..(size - 1) \ Reached(f)
  BY <1>3 DEF Sorted
<1>5. \A a \in ToSet(FreeChain(f)) : BlockAt(f, a).tag = "free"
  BY <1>3 DEF Sorted
<1>6. FreeOf(f) # 0 => BlockAt(f, Last(FreeChain(f))).next = 0
  <2> SUFFICES ASSUME FreeOf(f) # 0 PROVE BlockAt(f, Last(s)).next = 0
    BY DEF Sorted
  <2>1. s \in Seq(Nat) /\ s # <<>> /\ Chain(f, s)
    BY DEF Sorted, Chain
  <2>2. PICK n : n = Len(s)
    OBVIOUS
  <2>3. n \in 1..Len(s) /\ Last(s) = s[n]
    BY <2>1, <2>2 DEF Last
  <2>4. s[n] \in DOMAIN f /\ f[s[n]].next = 0
    BY <2>1, <2>2, <2>3 DEF Chain
  <2>5. QED
    BY <2>3, <2>4 DEF BlockAt
<1>7. ToSet(LeafChain(f)) = TreeLeaves(f)
  BY ChainIsComplete DEF Sorted
<1>8. BlockAt(f, Last(LeafChain(f))).next = 0
  <2>1. PICK q : q = LeafChain(f)
    OBVIOUS
  <2>2. InOrder(f, q) /\ f[Last(q)].next = 0
    BY <2>1, ChainEnds
  <2>3. BlockAt(f, Last(q)) = f[Last(q)]
    BY <2>2, InOrderOnward
  <2>4. QED
    BY <2>1, <2>2, <2>3
<1>9. QED
  BY <1>1, <1>2, <1>4, <1>5, <1>6, <1>7, <1>8 DEF AllBlocksOnce

\* Between calls every block of the file is the root, the child of one node or on
\* the free list, and both lists are linear and complete: what check_integrity of
\* btree.py:194-263 looks for holds after every history of splits, borrows, merges
\* and reopenings, if keys and values fit.
THEOREM FileIsSound == AllFit => (PSpec => []Integrity)
<1> SUFFICES ASSUME AllFit PROVE PSpec => []Integrity
  OBVIOUS
<1> DEFINE L == pc = "idle" => Lost = {}
<1>1. PSpec => [](NoOrphans /\ L)
  BY NoBlockIsLost
<1>2. IInv /\ ShapeInv /\ OrderInv /\ L => Integrity
  BY NothingLost, SortedIsSound DEF Integrity
<1> HIDE DEF L
<1>3. QED
  BY <1>1, <1>2, ShapeHolds, OrderHolds, PTL

-----------------------------------------------------------------------------
(* What check_integrity walks along *)

\* The blocks ptrs are the list s.
Strung(ptrs, s) ==
  /\ s \in Seq(Nat) /\ Len(s) >= 1 /\ Distinct(s) /\ Members(s) = ptrs /\ 0 \notin ptrs
  /\ \A j \in 1..Len(s) : Read(s[j]).next = IF j < Len(s) THEN s[j + 1] ELSE 0

\* What SingleLinearList walks by, and one step.
WalkFrom(ptrs, head) ==
  LET walk[n \in Nat] ==
        IF n = 0 THEN <<head>>
        ELSE LET seen == walk[n - 1]
             IN  IF Last(seen) \in ptrs THEN Append(seen, Read(Last(seen)).next) ELSE seen
  IN  walk

Further(ptrs, q) == IF Last(q) \in ptrs THEN Append(q, Read(Last(q)).next) ELSE q

\* The first of the blocks of s, and the 0 behind them.
StartOf(s, q) ==
  /\ q \in Seq(Nat) /\ Len(q) >= 1 /\ Len(q) <= Len(s) + 1
  /\ \A j \in 1..Len(q) : q[j] = IF j <= Len(s) THEN s[j] ELSE 0

LEMMA StartFurther ==
  ASSUME NEW ptrs, NEW s, Strung(ptrs, s), NEW q, StartOf(s, q)
  PROVE  /\ StartOf(s, Further(ptrs, q))
         /\ Len(q) <= Len(s) => Len(Further(ptrs, q)) = Len(q) + 1
<1>1. PICK m, n, a : m = Len(s) /\ n = Len(q) /\ a = Last(q)
  OBVIOUS
<1>2. m \in Nat /\ n \in Nat /\ m >= 1 /\ n >= 1 /\ n <= m + 1 /\ q \in Seq(Nat)
  BY <1>1 DEF Strung, StartOf
<1>3. n \in 1..n /\ a = q[n]
  BY <1>1, <1>2 DEF Last
<1>4. a = IF n <= m THEN s[n] ELSE 0
  BY <1>1, <1>3 DEF StartOf
<1>5. CASE n <= m
  <2>1. n \in 1..m /\ a = s[n]
    BY <1>2, <1>4, <1>5
  <2>2. a \in ptrs
    BY <1>1, <2>1 DEF Strung, Members
  <2>3. PICK c, p : c = Read(a).next /\ p = Append(q, c)
    OBVIOUS
  <2>4. c = IF n < m THEN s[n + 1] ELSE 0
    BY <1>1, <2>1, <2>3 DEF Strung
  <2>5. c \in Nat /\ c = IF n + 1 <= m THEN s[n + 1] ELSE 0
    <3>1. n < m => n + 1 \in 1..m
      BY <1>2
    <3>2. \A j \in 1..m : s[j] \in Nat
      BY <1>1 DEF Strung
    <3>3. QED
      BY <1>2, <2>4, <3>1, <3>2
  <2>6. p \in Seq(Nat) /\ Len(p) = n + 1 /\ p[n + 1] = c /\ \A j \in 1..n : p[j] = q[j]
    BY <1>1, <1>2, <2>3, <2>5
  <2>7. \A j \in 1..(n + 1) : p[j] = IF j <= m THEN s[j] ELSE 0
    <3> TAKE j \in 1..(n + 1)
    <3>1. j \in 1..n \/ j = n + 1
      BY <1>2
    <3>2. QED
      BY <3>1, <1>1, <2>5, <2>6 DEF StartOf
  <2>8. StartOf(s, p)
    BY <1>1, <1>2, <1>5, <2>6, <2>7 DEF StartOf
  <2>9. Further(ptrs, q) = p
    BY <1>1, <2>2, <2>3 DEF Further
  <2>10. QED
    BY <1>1, <2>6, <2>8, <2>9
<1>6. CASE ~(n <= m)
  <2>1. a \notin ptrs
    BY <1>4, <1>6 DEF Strung
  <2>2. Further(ptrs, q) = q
    BY <1>1, <2>1 DEF Further
  <2>3. QED
    BY <1>1, <1>6, <2>2
<1>7. QED
  BY <1>5, <1>6

\* The recursive definition has a solution.
LEMMA WalkSteps ==
  ASSUME NEW ptrs, NEW s, Strung(ptrs, s)
  PROVE  \A n \in Nat : /\ StartOf(s, WalkFrom(ptrs, s[1])[n])
                        /\ n <= Len(s) => Len(WalkFrom(ptrs, s[1])[n]) = n + 1
<1> DEFINE S == {q \in Seq(Nat) : StartOf(s, q)}
           F == [q \in S |-> Further(ptrs, q)]
           b == <<s[1]>>
           Def(g) == [n \in Nat |-> IF n = 0 THEN b ELSE Further(ptrs, g[n - 1])]
           Trek == WalkFrom(ptrs, s[1])
<1>0. PICK m : m = Len(s)
  OBVIOUS
<1>1. b \in S /\ Len(b) = 1 /\ m \in Nat
  <2>1. m \in Nat /\ m >= 1 /\ s[1] \in Nat
    BY <1>0 DEF Strung
  <2>2. b \in Seq(Nat) /\ Len(b) = 1 /\ b[1] = s[1]
    BY <2>1
  <2>3. StartOf(s, b)
    BY <1>0, <2>1, <2>2 DEF StartOf
  <2>4. QED
    BY <2>1, <2>2, <2>3
<1>2. F \in [S -> S] /\ \A q \in S : F[q] = Further(ptrs, q)
  BY StartFurther DEF StartOf
<1>3. Trek = CHOOSE g : g = Def(g)
  BY DEF WalkFrom, Further
<1> HIDE DEF F, b, S, Trek
<1>4. PICK g \in [Nat -> S] : g[0] = b /\ \A n \in Nat : g[n + 1] = F[g[n]]
  <2>1. \E g \in [Nat -> S] : RecursOn(g, b, F)
    BY <1>1, <1>2, RecursionOnNat
  <2>2. QED
    BY <2>1 DEF RecursOn
<1>5. \A n \in Nat : g[n] \in S /\ g[n + 1] = Further(ptrs, g[n])
  BY <1>2, <1>4
<1>6. g = Def(g)
  <2>1. \A n \in Nat : n # 0 => n - 1 \in Nat /\ (n - 1) + 1 = n
    OBVIOUS
  <2>2. \A n \in Nat : n # 0 => g[n] = Further(ptrs, g[n - 1])
    BY <1>5, <2>1
  <2>3. QED
    BY <1>4, <2>2
<1>7. Trek = Def(Trek)
  <2> HIDE DEF Def
  <2>1. QED
    BY <1>3, <1>6
<1>8. Trek[0] = b /\ \A n \in Nat : Trek[n + 1] = Further(ptrs, Trek[n])
  <2>1. \A n \in Nat : n + 1 \in Nat /\ n + 1 # 0 /\ (n + 1) - 1 = n
    OBVIOUS
  <2>2. \A n \in Nat : Trek[n] = Def(Trek)[n]
    BY <1>7
  <2>3. QED
    BY <2>1, <2>2
<1> DEFINE Up == {n \in Nat : Trek[n] \in S /\ (n <= m => Len(Trek[n]) = n + 1)}
<1>9. 0 \in Up
  BY <1>1, <1>8
<1>10. ASSUME NEW n \in Nat, n \in Up PROVE n + 1 \in Up
  <2>1. PICK q : q = Trek[n]
    OBVIOUS
  <2>2. StartOf(s, q) /\ (n <= m => Len(q) = n + 1)
    BY <1>10, <2>1 DEF S
  <2>3. StartOf(s, Further(ptrs, q)) /\ (Len(q) <= m => Len(Further(ptrs, q)) = Len(q) + 1)
    BY <1>0, <2>2, StartFurther
  <2>4. Trek[n + 1] = Further(ptrs, q)
    BY <1>8, <2>1
  <2>5. Further(ptrs, q) \in S
    BY <2>3 DEF S, StartOf
  <2>6. n + 1 <= m => Len(Further(ptrs, q)) = (n + 1) + 1
    BY <1>1, <2>2, <2>3
  <2>7. QED
    BY <2>4, <2>5, <2>6
<1>11. Nat \subseteq Up
  <2> HIDE DEF Up
  <2>1. QED
    BY <1>9, <1>10, SetInduction
<1>12. QED
  BY <1>0, <1>11 DEF S, Trek

LEMMA StrungIsSingle ==
  ASSUME NEW ptrs, NEW s, Strung(ptrs, s)
  PROVE  SingleLinearList(ptrs)
<1>1. PICK m : m = Len(s)
  OBVIOUS
<1>2. /\ m \in Nat /\ m >= 1 /\ \A j \in 1..m : s[j] \in ptrs
      /\ \A x \in ptrs : \E j \in 1..m : x = s[j]
  BY <1>1 DEF Strung, Members
<1>3. \A i, j \in 1..m : s[i] = s[j] => i = j
  BY <1>1 DEF Strung, Distinct
<1>4. \A j \in 1..m : Read(s[j]).next = IF j < m THEN s[j + 1] ELSE 0
  BY <1>1 DEF Strung
<1>5. Cardinality(ptrs) = m
  <2> DEFINE h == [j \in 1..m |-> s[j]]
  <2>1. h \in [1..m -> ptrs] /\ \A j \in 1..m : h[j] = s[j]
    BY <1>2
  <2>2. \A i, j \in 1..m : h[i] = h[j] => i = j
    BY <1>3, <2>1
  <2>3. \A x \in ptrs : \E j \in 1..m : h[j] = x
    BY <1>2, <2>1
  <2> HIDE DEF h
  <2>4. h \in Injection(1..m, ptrs) /\ h \in Surjection(1..m, ptrs)
    BY <2>1, <2>2, <2>3 DEF Injection, IsInjective, Surjection
  <2>5. ExistsBijection(1..m, ptrs)
    BY <2>4 DEF ExistsBijection, Bijection
  <2>6. PICK o \in Nat : o = 1
    OBVIOUS
  <2>7. o \in Int /\ m \in Int
    BY <1>2
  <2>8. IsFiniteSet(o..m) /\ Cardinality(o..m) = IF o > m THEN 0 ELSE m - o + 1
    BY ONLY <2>7, FS_Interval
  <2>9. IsFiniteSet(1..m) /\ Cardinality(1..m) = m
    BY <1>2, <2>6, <2>8
  <2>10. QED
    BY <2>5, <2>9, FS_Bijection
<1>6. ptrs \ {Read(a).next : a \in ptrs} = {s[1]}
  <2>1. s[1] \in ptrs /\ 0 \notin ptrs
    BY <1>2 DEF Strung
  <2>2. ASSUME NEW a \in ptrs PROVE Read(a).next # s[1]
    <3>1. PICK j \in 1..m : a = s[j]
      BY <1>2
    <3>2. j < m => j + 1 \in 1..m /\ j + 1 # 1
      BY <1>2
    <3>3. CASE j < m
      BY <3>1, <3>2, <3>3, <1>2, <1>3, <1>4
    <3>4. CASE ~(j < m)
      BY <3>1, <3>4, <1>4, <2>1
    <3>5. QED
      BY <3>3, <3>4
  <2>3. ASSUME NEW a \in ptrs, a # s[1] PROVE \E b \in ptrs : Read(b).next = a
    <3>1. PICK j \in 1..m : a = s[j]
      BY <1>2
    <3>2. j # 1
      BY <2>3, <3>1
    <3>3. j - 1 \in 1..m /\ j - 1 < m /\ (j - 1) + 1 = j
      BY <1>2, <3>2
    <3>4. Read(s[j - 1]).next = s[j]
      BY <1>4, <3>3
    <3>5. QED
      BY <1>2, <3>1, <3>3, <3>4
  <2>4. QED
    BY <2>1, <2>2, <2>3
<1>7. PICK q : q = WalkFrom(ptrs, s[1])[m]
  OBVIOUS
<1>8. StartOf(s, q) /\ Len(q) = m + 1
  BY <1>1, <1>2, <1>7, WalkSteps
<1>9. ToSet(q) = ptrs \cup {0}
  <2>1. q \in Seq(Nat) /\ \A j \in 1..(m + 1) : q[j] = IF j <= m THEN s[j] ELSE 0
    BY <1>1, <1>8 DEF StartOf
  <2>2. ToSet(q) = {q[j] : j \in 1..(m + 1)}
    BY <1>8, <2>1 DEF ToSet
  <2>3. \A j \in 1..m : j \in 1..(m + 1) /\ q[j] = s[j]
    BY <1>2, <2>1
  <2>4. m + 1 \in 1..(m + 1) /\ q[m + 1] = 0
    BY <1>2, <2>1
  <2>5. \A j \in 1..(m + 1) : j \in 1..m \/ j = m + 1
    BY <1>2
  <2>6. ToSet(q) \subseteq ptrs \cup {0}
    BY <2>2, <2>3, <2>4, <2>5, <1>2
  <2>7. ptrs \cup {0} \subseteq ToSet(q)
    BY <2>2, <2>3, <2>4, <1>2
  <2>8. QED
    BY <2>6, <2>7
<1>10. s[1] \in ptrs
  BY <1>2
<1>11. QED
  BY <1>5, <1>6, <1>7, <1>9, <1>10 DEF SingleLinearList, WalkFrom

LEMMA FreeIsStrung ==
  ASSUME NEW lv, NEW lo, NEW hi, Rest(disk, lv, lo, hi), NEW s, Sorted(disk, s, file_size), s # <<>>
  PROVE  Strung(Members(s), s)
<1>1. s \in Seq(Nat) /\ Chain(disk, s)
  BY DEF Sorted
<1>2. Len(s) \in Nat /\ Len(s) >= 1
  BY <1>1
<1>3. 0 \notin Members(s)
  BY DEF Sorted
<1>4. ASSUME NEW j \in 1..Len(s) PROVE Read(s[j]).next = IF j < Len(s) THEN s[j + 1] ELSE 0
  <2>1. /\ s[j] \in DOMAIN disk
        /\ j = Len(s) => disk[s[j]].next = 0
        /\ j < Len(s) => disk[s[j]].next = s[j + 1]
    BY <1>1 DEF Chain
  <2>2. Read(s[j]) = disk[s[j]]
    BY <2>1 DEF Read
  <2>3. j = Len(s) \/ j < Len(s)
    BY <1>2
  <2>4. QED
    BY <2>1, <2>2, <2>3
<1>5. QED
  BY <1>1, <1>2, <1>3, <1>4 DEF Strung, Chain

LEMMA LeavesAreStrung ==
  ASSUME NEW lv, NEW lo, NEW hi, Rest(disk, lv, lo, hi)
  PROVE  Strung(LeavesOf(disk), LeafChain(disk))
<1>1. PICK q, m : q = LeafChain(disk) /\ m = Len(q)
  OBVIOUS
<1>2. InOrder(disk, q) /\ disk[Last(q)].next = 0 /\ ToSet(q) = LeavesOf(disk)
  BY <1>1, ChainEnds, ChainIsComplete
<1>3. /\ q \in Seq(LeavesOf(disk)) /\ m \in Nat /\ m >= 1
      /\ \A j \in 1..m : q[j] \in LeavesOf(disk)
  BY <1>1, <1>2 DEF InOrder
<1>4. LeavesOf(disk) \subseteq Nat /\ 0 \notin LeavesOf(disk)
  BY LeafOrNode, RestBlocks, RestHeader
<1>5. q \in Seq(Nat)
  BY <1>3, <1>4
<1>6. Members(q) = LeavesOf(disk)
  BY <1>1, <1>2, <1>3 DEF ToSet, Members
<1>7. Distinct(q)
  <2> SUFFICES ASSUME NEW i \in 1..m, NEW j \in 1..m, i # j PROVE q[i] # q[j]
    BY <1>1 DEF Distinct
  <2>1. \A a, b \in 1..m : a < b => lo[q[a]] < lo[q[b]]
    BY <1>1, <1>2, InOrderAscends
  <2>2. \A a \in 1..m : lo[q[a]] \in Nat
    BY <1>3, LeafOrNode, RestBlocks
  <2>3. i < j \/ j < i
    BY <1>3
  <2>4. QED
    BY <2>1, <2>2, <2>3
<1>8. ASSUME NEW j \in 1..m PROVE Read(q[j]).next = IF j < m THEN q[j + 1] ELSE 0
  <2>1. Read(q[j]) = disk[q[j]]
    BY <1>3, LeafOrNode DEF Read
  <2>2. CASE j < m
    <3>1. disk[q[j]].next = q[j + 1]
      BY <1>1, <1>2, <2>2 DEF InOrder
    <3>2. QED
      BY <2>1, <2>2, <3>1
  <2>3. CASE ~(j < m)
    <3>1. j = m
      BY <1>3, <2>3
    <3>2. q[j] = Last(q)
      BY <1>1, <3>1 DEF Last
    <3>3. QED
      BY <1>2, <2>1, <2>3, <3>2
  <2>4. QED
    BY <2>2, <2>3
<1>9. Strung(LeavesOf(disk), q)
  BY <1>1, <1>3, <1>4, <1>5, <1>6, <1>7, <1>8 DEF Strung
<1>10. QED
  BY <1>1, <1>9

\* check_integrity accepts a file that no block is lost from.
LEMMA CheckAccepts ==
  ASSUME NEW lv, NEW lo, NEW hi, Rest(disk, lv, lo, hi), NEW s, Sorted(disk, s, file_size)
  PROVE  check_integrity
<1>1. /\ blocks = Live(disk) \cup Members(s) /\ Reached(disk) = Live(disk)
      /\ \A a \in Members(s) : a \in DOMAIN disk /\ disk[a].tag = "free"
  BY DEF Sorted, blocks
<1>2. \A a \in Live(disk) : /\ a \in DOMAIN disk /\ disk[a].tag # "free"
                            /\ a \in LeavesOf(disk) <=> disk[a].tag = "leaf"
  BY LeafOrNode
<1>3. free_list_ptrs = Members(s)
  BY <1>1, <1>2 DEF free_list_ptrs, Read
<1>4. next_leaf_ptrs = LeavesOf(disk)
  <2>1. LeavesOf(disk) \subseteq Live(disk)
    BY LeafOrNode
  <2>2. QED
    BY <1>1, <1>2, <2>1 DEF next_leaf_ptrs, Read
<1>5. NodesHaveOneParent
  <2>1. Cardinality(Places(disk)) = Cardinality(Reached(disk)) - 1
    BY OnePlaceEach DEF Rest
  <2>2. {c \in TreeNodes(disk) \X (1..MAX_NKEYS + 1) : c[2] <= Len(Read(c[1]).values)} = Places(disk)
    BY Pointers DEF Places
  <2>3. Reached(disk) \subseteq blocks \ free_list_ptrs
    BY <1>1, <1>2, <1>3
  <2>4. QED
    BY <2>1, <2>2, <2>3 DEF NodesHaveOneParent
<1>6. free_list_ptrs # {} => SingleLinearList(free_list_ptrs)
  <2>1. s = <<>> => Members(s) = {}
    BY DEF Members
  <2>2. QED
    BY <1>3, <2>1, FreeIsStrung, StrungIsSingle
<1>7. SingleLinearList(next_leaf_ptrs)
  BY <1>4, LeavesAreStrung, StrungIsSingle
<1>8. blocks \ (free_list_ptrs \cup Reached(disk)) = {}
  BY <1>1, <1>3
<1>9. QED
  BY <1>5, <1>6, <1>7, <1>8 DEF check_integrity

\* NodeFile.check_integrity (btree.py:194-263) accepts every file that no block is
\* lost from, also after calls that raised, and lets no lost block pass but one
\* that is marked free.
THEOREM IntegrityCheckWorks == PSpec => []IntegrityCheckIsRight
<1>1. IInv /\ ShapeInv /\ OrderInv => IntegrityCheckIsRight
  <2> SUFFICES ASSUME IInv, ShapeInv, OrderInv, pc = "idle"
               PROVE  (Lost = {} => check_integrity) /\ (check_integrity => Lost \subseteq free_list_ptrs)
    BY DEF IntegrityCheckIsRight
  <2>1. Lost = {} => check_integrity
    BY NothingLost, CheckAccepts
  <2>2. check_integrity => Lost \subseteq free_list_ptrs
    BY DEF check_integrity, Lost
  <2>3. QED
    BY <2>1, <2>2
<1>2. QED
  BY <1>1, ShapeHolds, OrderHolds, PTL
=============================================================================
