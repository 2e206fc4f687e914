----------------------- MODULE DiskBTreeProps_proofs -----------------------
(***************************************************************************)
(* For every node capacity, every set of calls and every history of them:  *)
(* in every state of a call, the file that the queued writes lead to is    *)
(* one tree, in which every child pointer leads to a live block one level  *)
(* further down that no other pointer leads to, and one free list.  When   *)
(* keys and values fit, the two hold every block of the file.  And what    *)
(* the file is before its queued writes: where its free list and its child *)
(* pointers then lead.                                                     *)
(***************************************************************************)
EXTENDS DiskBTreeProps, DiskBTree_proofs

-----------------------------------------------------------------------------
(* The inductive invariant *)

\* The file f is what the file d is once the writes ws have reached it.
After(f, d, ws) ==
  /\ f = [a \in DOMAIN f |-> f[a]]
  /\ DOMAIN f = DOMAIN d \cup {ws[j].addr : j \in 1..Len(ws)}
  /\ \A j \in 1..Len(ws) : f[ws[j].addr] = ws[j].block
  /\ \A a \in DOMAIN d : (\A j \in 1..Len(ws) : ws[j].addr # a) => f[a] = d[a]

\* The header and the free blocks are written before the leaves and nodes.
Ordered(ws) ==
  \A i, j \in 1..Len(ws) : i < j /\ IsLive(ws[i].block) => IsLive(ws[j].block)

\* The block that was freed before its parent drops its child pointer.
Hole == IF pc = "delete_up" /\ rv.ind # None THEN {Top.block.values[rv.ind + 2]} ELSE {}

\* The top of the tree, which between two steps need not be what the header says.
Apex(f) == IF pc = "set_root" THEN rv.addr ELSE RootOf(f)

\* The new block of a split, which no node points to yet, is on the level of the
\* block that was split.
NewChild(f, lv) ==
  /\ pc = "insert_up" => Orphans(f, lv, RootOf(f), Top.addr, {rv.addr})
  /\ pc = "new_root" =>
       /\ Top.addr = RootOf(f) /\ HasEnough(f[Top.addr])
       /\ rv.addr \in Live(f) /\ Loose(f, rv.addr) /\ rv.addr # RootOf(f)
       /\ lv[rv.addr] = lv[Top.addr]

\* Blocks that differ in the values of their keys only.
Like(b, c) == b.tag = c.tag /\ b.values = c.values /\ nkeys(b) = nkeys(c)

\* The nodes in memory are those on file, each a child of the one before it.
OnPath(f, lv, p) ==
  /\ p # <<>> => p[1].addr = RootOf(f)
  /\ \A j \in 1..Len(p) :
       /\ p[j].addr \in Live(f) /\ Like(f[p[j].addr], p[j].block)
       /\ lv[p[j].addr] + j = lv[RootOf(f)] + 1
       /\ j < Len(p) => p[j + 1].addr = p[j].block.values[p[j].i + 1]

Updating == \/ pc \in {"insert_up", "delete_up"}
            \/ pc = "search" /\ op.kind \in {"insert", "update", "delete"}

\* The tree the file has once the writes issued have reached it.
Tree(f, lv, s) ==
  /\ Standing(f, lv, s, Hole, Apex(f))
  /\ NewChild(f, lv)
  /\ Updating => OnPath(f, lv, path)

Shape(f, lv, s) ==
  /\ After(f, disk, writes) /\ Ordered(writes)
  /\ pc \in {"closed", "idle", "search", "scan"} => writes = <<>>
  /\ pc # "closed" => 0 \in DOMAIN f /\ Within(f, file_size)
  /\ DOMAIN f # {} => Tree(f, lv, s)

ShapeInv == \E f, lv, s : Shape(f, lv, s)

\* The new block of a split before the level above hears of it.
Pending == IF pc \in {"insert_up", "new_root"} THEN {rv.addr} ELSE {}

\* Every block of the file, once the writes issued have reached it, is in its
\* tree or on its free list, or its address is the program's to hand on.
Books(f, s) ==
  /\ After(f, disk, writes)
  /\ \E n \in Nat : DOMAIN f = 0..(n - 1) /\ (pc # "closed" => n = file_size)
  /\ DOMAIN f # {} => Booked(f, s, {Apex(f)} \cup Pending) /\ Hole \subseteq Members(s)

BookInv == \E f, s : Books(f, s)

KeepsBooks == BookInv => BookInv'

-----------------------------------------------------------------------------
(* Writes on their way *)

LEMMA AfterNone ==
  ASSUME NEW f, NEW d, d = [a \in DOMAIN d |-> d[a]], After(f, d, <<>>)
  PROVE  f = d
<1>1. DOMAIN f = DOMAIN d /\ \A a \in DOMAIN d : f[a] = d[a]
  BY DEF After
<1>2. f = [a \in DOMAIN f |-> f[a]]
  BY DEF After
<1>3. [a \in DOMAIN f |-> f[a]] = [a \in DOMAIN d |-> d[a]]
  BY <1>1
<1>4. QED
  BY <1>2, <1>3

LEMMA AfterSame ==
  ASSUME NEW d, d = [a \in DOMAIN d |-> d[a]]
  PROVE  After(d, d, <<>>)
BY DEF After

LEMMA AfterOne ==
  ASSUME NEW d, NEW x, NEW b
  PROVE  After(Put(d, x, b), d, <<W(x, b)>>)
<1> DEFINE ws == <<W(x, b)>>
<1>1. Len(ws) = 1 /\ ws[1].addr = x /\ ws[1].block = b
  BY DEF W
<1> HIDE DEF ws
<1>2. \A j \in 1..Len(ws) : j = 1
  BY <1>1
<1>3. QED
  BY <1>1, <1>2 DEF After, Put, ws

LEMMA AfterTwo ==
  ASSUME NEW d, NEW x, NEW b, NEW y, NEW c, x # y
  PROVE  After(Put(Put(d, x, b), y, c), d, <<W(x, b), W(y, c)>>)
<1> DEFINE ws == <<W(x, b), W(y, c)>>
           g  == Put(Put(d, x, b), y, c)
<1>1. /\ Len(ws) = 2
      /\ ws[1].addr = x /\ ws[1].block = b /\ ws[2].addr = y /\ ws[2].block = c
  BY DEF W
<1> HIDE DEF ws
<1>2. 1..Len(ws) = {1, 2}
  BY <1>1
<1>3. /\ g = [a \in DOMAIN g |-> g[a]] /\ DOMAIN g = DOMAIN d \cup {x, y}
      /\ g[x] = b /\ g[y] = c /\ \A a \in DOMAIN d : a # x /\ a # y => g[a] = d[a]
  BY DEF Put
<1> HIDE DEF g
<1>4. {ws[j].addr : j \in 1..Len(ws)} = {x, y}
  BY <1>1, <1>2
<1>5. After(g, d, ws)
  BY <1>1, <1>2, <1>3, <1>4 DEF After
<1>6. QED
  BY <1>5 DEF g, ws

LEMMA AfterThree ==
  ASSUME NEW d, NEW x, NEW b, NEW y, NEW c, NEW z, NEW e, x # y, x # z, y # z
  PROVE  After(Put(Put(Put(d, x, b), y, c), z, e), d, <<W(x, b), W(y, c), W(z, e)>>)
<1> DEFINE ws == <<W(x, b), W(y, c), W(z, e)>>
           g  == Put(Put(Put(d, x, b), y, c), z, e)
<1>1. /\ Len(ws) = 3
      /\ ws[1].addr = x /\ ws[1].block = b /\ ws[2].addr = y /\ ws[2].block = c
      /\ ws[3].addr = z /\ ws[3].block = e
  BY DEF W
<1> HIDE DEF ws
<1>2. 1..Len(ws) = {1, 2, 3}
  BY <1>1
<1>3. /\ g = [a \in DOMAIN g |-> g[a]] /\ DOMAIN g = DOMAIN d \cup {x, y, z}
      /\ g[x] = b /\ g[y] = c /\ g[z] = e
      /\ \A a \in DOMAIN d : a # x /\ a # y /\ a # z => g[a] = d[a]
  BY DEF Put
<1> HIDE DEF g
<1>4. {ws[j].addr : j \in 1..Len(ws)} = {x, y, z}
  BY <1>1, <1>2
<1>5. After(g, d, ws)
  BY <1>1, <1>2, <1>3, <1>4 DEF After
<1>6. QED
  BY <1>5 DEF g, ws

\* The first of the writes reaches the file.
LEMMA AfterFirst ==
  ASSUME NEW f, NEW d, NEW ws \in Seq(Writes), ws # <<>>, After(f, d, ws)
  PROVE  After(f, Put(d, ws[1].addr, ws[1].block), Tail(ws))
<1> DEFINE e == Put(d, ws[1].addr, ws[1].block)
           t == Tail(ws)
<1>1. /\ Len(ws) \in Nat /\ Len(ws) >= 1
      /\ Len(t) = Len(ws) - 1 /\ \A j \in 1..Len(t) : t[j] = ws[j + 1]
  BY EmptySeq, LenProperties, HeadTailProperties
<1>2. /\ DOMAIN e = DOMAIN d \cup {ws[1].addr} /\ e[ws[1].addr] = ws[1].block
      /\ \A a \in DOMAIN d : a # ws[1].addr => e[a] = d[a]
  BY DEF Put
<1> HIDE DEF e, t
<1>3. {ws[j].addr : j \in 1..Len(ws)} = {ws[1].addr} \cup {t[j].addr : j \in 1..Len(t)}
  <2>1. ASSUME NEW j \in 1..Len(ws), j # 1 PROVE ws[j].addr \in {t[i].addr : i \in 1..Len(t)}
    <3>1. j - 1 \in 1..Len(t) /\ t[j - 1] = ws[j]
      BY <1>1, <2>1
    <3>2. QED
      BY <3>1
  <2>2. ASSUME NEW j \in 1..Len(t) PROVE t[j].addr \in {ws[i].addr : i \in 1..Len(ws)}
    <3>1. j + 1 \in 1..Len(ws) /\ t[j] = ws[j + 1]
      BY <1>1
    <3>2. QED
      BY <3>1
  <2>3. 1 \in 1..Len(ws)
    BY <1>1
  <2>4. QED
    BY <2>1, <2>2, <2>3
<1>4. DOMAIN f = DOMAIN e \cup {t[j].addr : j \in 1..Len(t)}
  BY <1>2, <1>3 DEF After
<1>5. \A j \in 1..Len(t) : f[t[j].addr] = t[j].block
  <2> SUFFICES ASSUME NEW j \in 1..Len(t) PROVE f[t[j].addr] = t[j].block
    OBVIOUS
  <2>1. j + 1 \in 1..Len(ws) /\ t[j] = ws[j + 1]
    BY <1>1
  <2>2. QED
    BY <2>1 DEF After
<1>6. \A a \in DOMAIN e : (\A j \in 1..Len(t) : t[j].addr # a) => f[a] = e[a]
  <2> SUFFICES ASSUME NEW a \in DOMAIN e, \A j \in 1..Len(t) : t[j].addr # a
               PROVE  f[a] = e[a]
    OBVIOUS
  <2>1. CASE a = ws[1].addr
    <3>1. 1 \in 1..Len(ws)
      BY <1>1
    <3>2. QED
      BY <1>2, <2>1, <3>1 DEF After
  <2>2. CASE a # ws[1].addr
    <3>1. a \in DOMAIN d /\ e[a] = d[a]
      BY <1>2, <2>2
    <3>2. \A j \in 1..Len(ws) : ws[j].addr # a
      <4> SUFFICES ASSUME NEW j \in 1..Len(ws), j # 1 PROVE ws[j].addr # a
        BY <2>2
      <4>1. j - 1 \in 1..Len(t) /\ t[j - 1] = ws[j]
        BY <1>1
      <4>2. QED
        BY <4>1
    <3>3. QED
      BY <3>1, <3>2 DEF After
  <2>3. QED
    BY <2>1, <2>2
<1>7. After(f, e, t)
  BY <1>4, <1>5, <1>6 DEF After
<1>8. QED
  BY <1>7 DEF e, t

LEMMA OrderedTail ==
  ASSUME NEW ws \in Seq(Writes), ws # <<>>, Ordered(ws)
  PROVE  Ordered(Tail(ws))
<1> DEFINE t == Tail(ws)
<1>1. /\ Len(ws) \in Nat /\ Len(ws) >= 1
      /\ Len(t) = Len(ws) - 1 /\ \A j \in 1..Len(t) : t[j] = ws[j + 1]
  BY EmptySeq, LenProperties, HeadTailProperties
<1> HIDE DEF t
<1>2. ASSUME NEW i \in 1..Len(t), NEW j \in 1..Len(t), i < j, IsLive(t[i].block)
      PROVE  IsLive(t[j].block)
  <2>1. i + 1 \in 1..Len(ws) /\ j + 1 \in 1..Len(ws) /\ i + 1 < j + 1
        /\ t[i] = ws[i + 1] /\ t[j] = ws[j + 1]
    BY <1>1, <1>2
  <2>2. QED
    BY <1>2, <2>1 DEF Ordered
<1>3. Ordered(t)
  BY <1>2 DEF Ordered
<1>4. QED
  BY <1>3 DEF t

-----------------------------------------------------------------------------
(* What a step finds and what it leaves *)

\* A step that starts when all writes are done finds the tree in the file.
LEMMA AtRest ==
  ASSUME IInv, ShapeInv, writes = <<>>, pc # "closed"
  PROVE  /\ 0 \in DOMAIN disk /\ Within(disk, file_size)
         /\ \E lv, s : Tree(disk, lv, s)
         /\ disk = [a \in DOMAIN disk |-> disk[a]]
         /\ file_size \in Nat /\ file_size # 0
<1>1. PICK f, lv, s : Shape(f, lv, s)
  BY DEF ShapeInv
<1>2. disk = [a \in DOMAIN disk |-> disk[a]]
  BY DEF IInv, DiskInv
<1>3. f = disk
  BY <1>1, <1>2, AfterNone DEF Shape
<1>4. file_size \in Nat /\ file_size # 0
  BY DEF IInv, CallInv
<1>5. QED
  BY <1>1, <1>2, <1>3, <1>4 DEF Shape

\* The header's pointers and new_node's block, as TreeShape and DiskBTree have them.
LEMMA Pointers ==
  /\ root_ptr = RootOf(disk) /\ free_ptr = FreeOf(disk)
  /\ new_addr = Fresh(disk, file_size) /\ new_size = FreshSize(disk, file_size)
  /\ \A a : Read(a) = BlockAt(disk, a)
BY DEF root_ptr, free_ptr, RootOf, FreeOf, Read, BlockAt, new_addr, new_size, Fresh, FreshSize

\* The live blocks are leaves and nodes.
LEMMA LiveTags ==
  /\ \A r, p : ~IsLive(Header(r, p)) /\ Header(r, p).tag = "header"
  /\ \A p : ~IsLive(FreeBlock(p)) /\ FreeBlock(p).tag = "free"
BY DEF IsLive, Header, FreeBlock

LEMMA OrderedOne ==
  ASSUME NEW w
  PROVE  Ordered(<<w>>)
<1>1. Len(<<w>>) = 1
  OBVIOUS
<1>2. QED
  BY <1>1 DEF Ordered

LEMMA OrderedTwo ==
  ASSUME NEW v, NEW w, IsLive(v.block) => IsLive(w.block)
  PROVE  Ordered(<<v, w>>)
<1> DEFINE ws == <<v, w>>
<1>1. Len(ws) = 2 /\ ws[1] = v /\ ws[2] = w
  OBVIOUS
<1> HIDE DEF ws
<1>2. Ordered(ws)
  BY <1>1 DEF Ordered
<1>3. QED
  BY <1>2 DEF ws

LEMMA OrderedThree ==
  ASSUME NEW u, NEW v, NEW w,
         IsLive(u.block) => IsLive(v.block), IsLive(v.block) => IsLive(w.block)
  PROVE  Ordered(<<u, v, w>>)
<1> DEFINE ws == <<u, v, w>>
<1>1. Len(ws) = 3 /\ ws[1] = u /\ ws[2] = v /\ ws[3] = w
  OBVIOUS
<1> HIDE DEF ws
<1>2. ASSUME NEW i \in 1..Len(ws), NEW j \in 1..Len(ws), i < j, IsLive(ws[i].block)
      PROVE  IsLive(ws[j].block)
  <2>1. (i = 1 /\ j = 2) \/ (i = 1 /\ j = 3) \/ (i = 2 /\ j = 3)
    BY <1>1, <1>2
  <2>2. QED
    BY <1>1, <1>2, <2>1
<1>3. Ordered(ws)
  BY <1>2 DEF Ordered
<1>4. QED
  BY <1>3 DEF ws

LEMMA OrderedNone == Ordered(<<>>)
BY DEF Ordered

\* Sequences of writes put together.
LEMMA TogetherIs ==
  ASSUME NEW u, NEW v, NEW w
  PROVE  /\ <<u>> \o <<v>> = <<u, v>>
         /\ <<u>> \o <<v, w>> = <<u, v, w>>
         /\ Append(<<u, v>>, w) = <<u, v, w>>
<1> DEFINE S  == {u, v, w}
           s1 == <<u>>
           s2 == <<v>>
           s3 == <<v, w>>
           s4 == <<u, v>>
           s5 == <<u, v, w>>
<1>1. /\ s1 \in Seq(S) /\ s2 \in Seq(S) /\ s3 \in Seq(S) /\ s4 \in Seq(S) /\ s5 \in Seq(S)
      /\ Len(s1) = 1 /\ Len(s2) = 1 /\ Len(s3) = 2 /\ Len(s4) = 2 /\ Len(s5) = 3
      /\ w \in S
  OBVIOUS
<1>2. /\ s1[1] = u /\ s2[1] = v /\ s3[1] = v /\ s3[2] = w /\ s4[1] = u /\ s4[2] = v
      /\ s5[1] = u /\ s5[2] = v /\ s5[3] = w
  OBVIOUS
<1> HIDE DEF S, s1, s2, s3, s4, s5
<1>3. s1 \o s2 = s4
  <2>3. /\ s1 \o s2 \in Seq(S)
        /\ Len(s1 \o s2) = Len(s1) + Len(s2)
        /\ \A i \in 1..Len(s1) + Len(s2) :
             (s1 \o s2)[i] = IF i <= Len(s1) THEN s1[i] ELSE s2[i - Len(s1)]
    BY <1>1, ConcatProperties
  <2>1. s1 \o s2 \in Seq(S) /\ Len(s1 \o s2) = 2
        /\ \A i \in 1..2 : (s1 \o s2)[i] = IF i <= 1 THEN s1[i] ELSE s2[i - 1]
    BY <1>1, <2>3
  <2>2. \A i \in 1..2 : (s1 \o s2)[i] = s4[i]
    BY <1>2, <2>1
  <2>4. QED
    BY <1>1, <2>1, <2>2, SeqEqual
<1>4. s1 \o s3 = s5
  <2>3. /\ s1 \o s3 \in Seq(S)
        /\ Len(s1 \o s3) = Len(s1) + Len(s3)
        /\ \A i \in 1..Len(s1) + Len(s3) :
             (s1 \o s3)[i] = IF i <= Len(s1) THEN s1[i] ELSE s3[i - Len(s1)]
    BY <1>1, ConcatProperties
  <2>1. s1 \o s3 \in Seq(S) /\ Len(s1 \o s3) = 3
        /\ \A i \in 1..3 : (s1 \o s3)[i] = IF i <= 1 THEN s1[i] ELSE s3[i - 1]
    BY <1>1, <2>3
  <2>2. \A i \in 1..3 : (s1 \o s3)[i] = s5[i]
    BY <1>2, <2>1
  <2>4. QED
    BY <1>1, <2>1, <2>2, SeqEqual
<1>5. Append(s4, w) = s5
  <2>3. /\ Append(s4, w) \in Seq(S)
        /\ Len(Append(s4, w)) = Len(s4) + 1
        /\ \A i \in 1..Len(s4) : Append(s4, w)[i] = s4[i]
        /\ Append(s4, w)[Len(s4) + 1] = w
    <3>1. s4 \in Seq(S) /\ w \in S
      BY <1>1
    <3>2. QED
      BY ONLY <3>1, AppendProperties
  <2>1. /\ Append(s4, w) \in Seq(S) /\ Len(Append(s4, w)) = 3
        /\ \A i \in 1..2 : Append(s4, w)[i] = s4[i]
        /\ Append(s4, w)[3] = w
    BY <1>1, <2>3
  <2>2. \A i \in 1..3 : Append(s4, w)[i] = s5[i]
    BY <1>2, <2>1
  <2>4. QED
    BY <1>1, <2>1, <2>2, SeqEqual
<1>6. QED
  BY <1>3, <1>4, <1>5 DEF s1, s2, s3, s4, s5

\* new_node's write.
LEMMA TakenWritten ==
  ASSUME disk = [a \in DOMAIN disk |-> disk[a]]
  PROVE  After(Taken(disk), disk, new_node_writes) /\ Ordered(new_node_writes)
<1>1. CASE FreeOf(disk) = 0
  <2>1. Taken(disk) = disk /\ new_node_writes = <<>>
    BY <1>1, Pointers DEF Taken, new_node_writes
  <2>2. QED
    BY <2>1, AfterSame, OrderedNone
<1>2. CASE FreeOf(disk) # 0
  <2> DEFINE h == Header(RootOf(disk), BlockAt(disk, FreeOf(disk)).next)
  <2>1. Taken(disk) = Put(disk, 0, h) /\ new_node_writes = <<W(0, h)>>
    BY <1>2, Pointers DEF Taken, new_node_writes
  <2> HIDE DEF h
  <2>2. QED
    BY <2>1, AfterOne, OrderedOne
<1>3. QED
  BY <1>1, <1>2

\* ... and the caller's, to the new block b.
LEMMA NewBlockWritten ==
  ASSUME disk = [a \in DOMAIN disk |-> disk[a]], NEW n, n # 0, NEW b, IsLive(b)
  PROVE  LET ws == new_node_writes \o <<W(n, b)>>
         IN  After(Put(Taken(disk), n, b), disk, ws) /\ Ordered(ws)
<1> DEFINE ws == new_node_writes \o <<W(n, b)>>
<1>1. CASE FreeOf(disk) = 0
  <2>1. Taken(disk) = disk /\ ws = <<W(n, b)>>
    BY <1>1, Pointers DEF Taken, new_node_writes
  <2> HIDE DEF ws
  <2>2. After(Put(Taken(disk), n, b), disk, ws) /\ Ordered(ws)
    BY <2>1, AfterOne, OrderedOne
  <2>3. QED
    BY <2>2 DEF ws
<1>2. CASE FreeOf(disk) # 0
  <2> DEFINE h == Header(RootOf(disk), BlockAt(disk, FreeOf(disk)).next)
  <2>1. Taken(disk) = Put(disk, 0, h) /\ ws = <<W(0, h), W(n, b)>>
    BY <1>2, Pointers, TogetherIs DEF Taken, new_node_writes
  <2>2. IsLive(W(0, h).block) => IsLive(W(n, b).block)
    BY DEF W
  <2> HIDE DEF h, ws
  <2>3. After(Put(Taken(disk), n, b), disk, ws) /\ Ordered(ws)
    BY <2>1, <2>2, AfterTwo, OrderedTwo
  <2>4. QED
    BY <2>3 DEF ws
<1>3. QED
  BY <1>1, <1>2

\* ... and the split's.
LEMMA SplitWritten ==
  ASSUME disk = [a \in DOMAIN disk |-> disk[a]], NEW x, x # 0, NEW n, n # 0, n # x,
         NEW b, IsLive(b), NEW c, IsLive(c)
  PROVE  LET ws == new_node_writes \o <<W(x, b), W(n, c)>>
         IN  After(Split(disk, x, b, n, c), disk, ws) /\ Ordered(ws)
<1> DEFINE ws == new_node_writes \o <<W(x, b), W(n, c)>>
<1>0. IsLive(W(x, b).block) => IsLive(W(n, c).block)
  BY DEF W
<1>1. CASE FreeOf(disk) = 0
  <2>1. Split(disk, x, b, n, c) = Put(Put(disk, x, b), n, c) /\ ws = <<W(x, b), W(n, c)>>
    BY <1>1, Pointers DEF Taken, new_node_writes, Split
  <2> HIDE DEF ws
  <2>2. After(Split(disk, x, b, n, c), disk, ws) /\ Ordered(ws)
    BY <1>0, <2>1, AfterTwo, OrderedTwo
  <2>3. QED
    BY <2>2 DEF ws
<1>2. CASE FreeOf(disk) # 0
  <2> DEFINE h == Header(RootOf(disk), BlockAt(disk, FreeOf(disk)).next)
  <2>1. Split(disk, x, b, n, c) = Put(Put(Put(disk, 0, h), x, b), n, c)
    BY <1>2 DEF Taken, Split
  <2>2. ws = <<W(0, h), W(x, b), W(n, c)>>
    <3>1. new_node_writes = <<W(0, h)>>
      BY <1>2, Pointers DEF new_node_writes
    <3>2. QED
      BY <3>1, TogetherIs
  <2>3. IsLive(W(0, h).block) => IsLive(W(x, b).block)
    BY DEF W
  <2> HIDE DEF h, ws
  <2>4. After(Split(disk, x, b, n, c), disk, ws) /\ Ordered(ws)
    BY <1>0, <2>1, <2>2, <2>3, AfterThree, OrderedThree
  <2>5. QED
    BY <2>4 DEF ws
<1>3. QED
  BY <1>1, <1>2

\* free's writes, alone and before that of the block a merge leaves.
LEMMA FreedWritten ==
  ASSUME NEW x, x # 0
  PROVE  After(Freed(disk, x), disk, free_writes(x)) /\ Ordered(free_writes(x))
<1> DEFINE h == Header(RootOf(disk), x)
           e == FreeBlock(FreeOf(disk))
<1>1. /\ Freed(disk, x) = Put(Put(disk, 0, h), x, e)
      /\ free_writes(x) = <<W(0, h), W(x, e)>>
  BY Pointers DEF Freed, free_writes
<1>2. IsLive(W(0, h).block) => IsLive(W(x, e).block)
  BY LiveTags DEF W
<1> HIDE DEF h, e
<1>3. QED
  BY <1>1, <1>2, AfterTwo, OrderedTwo

LEMMA MergeWritten ==
  ASSUME NEW x, x # 0, NEW l, l # 0, l # x, NEW b, IsLive(b)
  PROVE  LET ws == Append(free_writes(x), W(l, b))
         IN  After(Put(Freed(disk, x), l, b), disk, ws) /\ Ordered(ws)
<1> DEFINE ws == Append(free_writes(x), W(l, b))
           h == Header(RootOf(disk), x)
           e == FreeBlock(FreeOf(disk))
<1>1. /\ Freed(disk, x) = Put(Put(disk, 0, h), x, e)
      /\ ws = <<W(0, h), W(x, e), W(l, b)>>
  BY Pointers, TogetherIs DEF Freed, free_writes
<1>2. /\ IsLive(W(0, h).block) => IsLive(W(x, e).block)
      /\ IsLive(W(x, e).block) => IsLive(W(l, b).block)
  BY LiveTags DEF W
<1> HIDE DEF h, e, ws
<1>3. After(Put(Freed(disk, x), l, b), disk, ws) /\ Ordered(ws)
  BY <1>1, <1>2, AfterThree, OrderedThree
<1>4. QED
  BY <1>3 DEF ws

-----------------------------------------------------------------------------
(* The nodes in memory *)

LEMMA Minimum ==
  ASSUME NEW b, NEW c, Like(b, c)
  PROVE  /\ c.tag = b.tag /\ nkeys(c) = nkeys(b) /\ Kids(c) = Kids(b)
         /\ Distinct(b.values) => Distinct(c.values)
         /\ HasEnough(b) => HasEnough(c)
BY DEF Like, Kids, HasEnough

\* While a node is in memory to be changed, the header leads to the top.
LEMMA TreeFound ==
  ASSUME NEW lv, NEW s, Tree(disk, lv, s), pc # "set_root"
  PROVE  /\ Standing(disk, lv, s, Hole, RootOf(disk))
         /\ Woods(disk, lv, s, Hole) /\ Forest(disk, lv, Hole) /\ File(disk)
         /\ Rooted(disk, RootOf(disk)) /\ Full(disk, RootOf(disk))
         /\ lv \in [Nat -> Nat] /\ Live(disk) \subseteq Nat
         /\ (pc # "delete_up" \/ rv.ind = None) => Hole = {}
<1>1. Apex(disk) = RootOf(disk)
  BY DEF Apex
<1>2. Standing(disk, lv, s, Hole, RootOf(disk))
  BY <1>1 DEF Tree
<1>3. /\ Woods(disk, lv, s, Hole) /\ Rooted(disk, RootOf(disk)) /\ Full(disk, RootOf(disk))
  BY <1>2 DEF Standing
<1>4. Forest(disk, lv, Hole) /\ File(disk) /\ lv \in [Nat -> Nat]
  BY <1>3 DEF Woods
<1>5. Live(disk) \subseteq Nat
  BY <1>4, HeaderOf
<1>6. (pc # "delete_up" \/ rv.ind = None) => Hole = {}
  BY DEF Hole
<1>7. QED
  BY <1>2, <1>3, <1>4, <1>5, <1>6

\* The node the step works on.
LEMMA TopOnFile ==
  ASSUME IInv, NEW lv, NEW s, Tree(disk, lv, s), Updating
  PROVE  /\ OnPath(disk, lv, path) /\ Len(path) \in Nat /\ Len(path) >= 1
         /\ Top.addr \in Live(disk) /\ Like(disk[Top.addr], Top.block)
         /\ disk[Top.addr].tag = Top.block.tag
         /\ Top.block.tag = "node" =>
              /\ Top.addr \in Inner(disk)
              /\ Branch(Top.block) /\ Kids(Top.block) = Kids(disk[Top.addr])
         /\ AtRoot => Top.addr = RootOf(disk)
         /\ Top.addr # RootOf(disk) => HasEnough(Top.block)
         /\ pc = "delete_up" /\ rv.ind # None =>
              Hole = {Top.block.values[rv.ind + 2]} /\ Hole \subseteq Kids(Top.block)
<1>1. pc \in {"search", "insert_up", "delete_up"}
  BY DEF Updating
<1>2. Len(path) \in Nat /\ Len(path) >= 1 /\ Sound(Top.block)
  BY <1>1, TopFrame
<1>3. OnPath(disk, lv, path)
  BY DEF Tree
<1>4. Len(path) \in 1..Len(path)
  BY <1>2
<1>5. Top.addr \in Live(disk) /\ Like(disk[Top.addr], Top.block)
  BY <1>3, <1>4 DEF OnPath, Top
<1>6. disk[Top.addr].tag = Top.block.tag /\ Kids(Top.block) = Kids(disk[Top.addr])
  BY <1>5, Minimum
<1>7. /\ Forest(disk, lv, Hole) /\ Full(disk, RootOf(disk))
  BY <1>1, TreeFound
<1>8. ASSUME Top.block.tag = "node" PROVE Top.addr \in Inner(disk) /\ Branch(Top.block)
  <2>1. Top.addr \in Inner(disk)
    BY <1>5, <1>6, <1>8, InnerLive
  <2>2. Distinct(disk[Top.addr].values)
    BY <1>7, <2>1 DEF Forest
  <2>3. QED
    BY <1>2, <1>5, <1>8, <2>1, <2>2, Minimum DEF Branch
<1>9. AtRoot => Top.addr = RootOf(disk)
  <2>1. path # <<>>
    BY <1>2
  <2>2. QED
    BY <1>3, <2>1 DEF OnPath, AtRoot, Top
<1>10. Top.addr # RootOf(disk) => HasEnough(Top.block)
  BY <1>5, <1>7, Minimum DEF Full
<1>11. ASSUME pc = "delete_up", rv.ind # None
       PROVE  Hole = {Top.block.values[rv.ind + 2]} /\ Hole \subseteq Kids(Top.block)
  <2>1. Hole = {Top.block.values[rv.ind + 2]}
    BY <1>11 DEF Hole
  <2>2. Top.block.tag = "node" /\ rv.ind \in Nat /\ rv.ind < nkeys(Top.block)
    BY <1>11, TopFrame DEF IInv, CallInv, ReturnValues
  <2>3. /\ Len(Top.block.values) = nkeys(Top.block) + 1 /\ nkeys(Top.block) \in Nat
        /\ \A j \in 1..Len(Top.block.values) : Top.block.values[j] \in Kids(Top.block)
    BY <1>8, <2>2, BranchArrays
  <2>4. rv.ind + 2 \in 1..Len(Top.block.values)
    BY <2>2, <2>3
  <2>5. QED
    BY <2>1, <2>3, <2>4
<1>12. QED
  BY <1>2, <1>3, <1>5, <1>6, <1>8, <1>9, <1>10, <1>11

\* A child of the parent of the node the step works on.
Sibling(lv, c) ==
  /\ c \in Kids(Parent.block) /\ c \in Live(disk) /\ c # RootOf(disk)
  /\ lv[c] = lv[Top.addr] /\ HasEnough(disk[c])

\* The parent of the node the step works on, and its other children.
LEMMA ParentOnFile ==
  ASSUME IInv, NEW lv, NEW s, Tree(disk, lv, s), Updating, ~AtRoot
  PROVE  /\ Len(path) >= 2 /\ Parent.addr \in Inner(disk)
         /\ Branch(Parent.block) /\ Kids(Parent.block) = Kids(disk[Parent.addr])
         /\ Parent.addr # Top.addr /\ lv[Parent.addr] = lv[Top.addr] + 1
         /\ Top.addr = Parent.block.values[Parent.i + 1] /\ Sibling(lv, Top.addr)
         /\ \A c \in Kids(Parent.block) : Sibling(lv, c)
<1>1. pc \in {"search", "insert_up", "delete_up"} /\ pc # "set_root"
  BY DEF Updating
<1>2. /\ OnPath(disk, lv, path) /\ Len(path) \in Nat
      /\ Top.addr \in Live(disk) /\ Kids(Top.block) = Kids(disk[Top.addr])
      /\ disk[Top.addr].tag = Top.block.tag
      /\ pc = "delete_up" /\ rv.ind # None => Hole \subseteq Kids(Top.block)
  BY TopOnFile, Minimum
<1>3. /\ Len(path) >= 2 /\ Sound(Parent.block) /\ Parent.block.tag = "node"
      /\ Parent.i \in 0..nkeys(Parent.block)
  BY <1>1, ParentFrame
<1> DEFINE n == Len(path) - 1
<1>4. n \in 1..Len(path) /\ n < Len(path) /\ n + 1 = Len(path) /\ n \in Nat
  BY <1>2, <1>3
<1>5. /\ Parent.addr \in Live(disk) /\ Like(disk[Parent.addr], Parent.block)
      /\ lv[Parent.addr] + n = lv[RootOf(disk)] + 1
      /\ lv[Top.addr] + (n + 1) = lv[RootOf(disk)] + 1
      /\ Top.addr = Parent.block.values[Parent.i + 1]
  <2>1. Parent = path[n] /\ Top = path[n + 1]
    BY <1>4 DEF Parent, Top
  <2> HIDE DEF n
  <2>2. n + 1 \in 1..Len(path)
    BY <1>2, <1>4
  <2>3. QED
    BY <1>2, <1>4, <2>1, <2>2 DEF OnPath
<1> HIDE DEF n
<1>6. /\ Forest(disk, lv, Hole) /\ Rooted(disk, RootOf(disk)) /\ Full(disk, RootOf(disk))
      /\ lv \in [Nat -> Nat] /\ Live(disk) \subseteq Nat
      /\ (pc # "delete_up" \/ rv.ind = None) => Hole = {}
  BY <1>1, TreeFound
<1>7. lv[Parent.addr] = lv[Top.addr] + 1 /\ Parent.addr # Top.addr
  <2>1. lv[Parent.addr] \in Nat /\ lv[Top.addr] \in Nat /\ lv[RootOf(disk)] \in Nat
    BY <1>2, <1>5, <1>6 DEF Rooted
  <2>2. lv[Parent.addr] = lv[Top.addr] + 1
    BY <1>4, <1>5, <2>1, SMTT(30)
  <2>3. QED
    BY <2>1, <2>2
<1>8. Kids(Parent.block) = Kids(disk[Parent.addr]) /\ disk[Parent.addr].tag = "node"
  BY <1>3, <1>5, Minimum
<1>9. Parent.addr \in Inner(disk)
  BY <1>5, <1>8, InnerLive
<1>10. Branch(Parent.block)
  BY <1>3, <1>5, <1>6, <1>9, Minimum DEF Branch, Forest
<1>11. Hole \cap Kids(Parent.block) = {}
  <2>1. CASE pc = "delete_up" /\ rv.ind # None
    <3>1. Top.addr \in Inner(disk)
      BY <1>2, <2>1, TopFrame, InnerLive
    <3>2. Kids(disk[Parent.addr]) \cap Kids(disk[Top.addr]) = {}
      BY <1>6, <1>7, <1>9, <3>1 DEF Forest
    <3>3. QED
      BY <1>2, <1>8, <2>1, <3>2
  <2>2. CASE ~(pc = "delete_up" /\ rv.ind # None)
    BY <1>6, <2>2
  <2>3. QED
    BY <2>1, <2>2
<1>12. ASSUME NEW c \in Kids(Parent.block) PROVE Sibling(lv, c)
  <2>1. c \in Live(disk) /\ lv[Parent.addr] = lv[c] + 1
    BY <1>6, <1>8, <1>9, <1>11 DEF Forest
  <2>2. c # RootOf(disk)
    BY <1>6, <1>8, <1>9 DEF Rooted, Loose
  <2>3. lv[c] = lv[Top.addr]
    <3>1. lv[c] \in Nat /\ lv[Top.addr] \in Nat
      BY <1>2, <1>6, <2>1
    <3>2. QED
      BY <1>7, <2>1, <3>1
  <2>4. HasEnough(disk[c])
    BY <1>6, <2>1, <2>2 DEF Full
  <2>5. QED
    BY <2>1, <2>2, <2>3, <2>4 DEF Sibling
<1>13. Top.addr \in Kids(Parent.block)
  <2>1. /\ Len(Parent.block.values) = nkeys(Parent.block) + 1 /\ nkeys(Parent.block) \in Nat
        /\ \A j \in 1..Len(Parent.block.values) : Parent.block.values[j] \in Kids(Parent.block)
    BY <1>10, BranchArrays
  <2>2. Parent.i + 1 \in 1..Len(Parent.block.values)
    BY <1>3, <2>1
  <2>3. QED
    BY <1>5, <2>1, <2>2
<1>14. QED
  BY <1>3, <1>5, <1>7, <1>8, <1>9, <1>10, <1>12, <1>13

\* get_sibs_and_nkeys (btree.py:591-614): the blocks it reads are the children
\* next to the node.
LEMMA SiblingsOnFile ==
  ASSUME IInv, NEW lv, NEW s, Tree(disk, lv, s), Updating, ~AtRoot
  PROVE  /\ has_left =>
              /\ Sibling(lv, left_addr) /\ left_addr # Top.addr
              /\ left_sib = disk[left_addr]
              /\ Parent.block.values[Parent.i - 1 + 2] = Top.addr
         /\ has_right =>
              /\ Sibling(lv, right_addr) /\ right_addr # Top.addr
              /\ right_sib = disk[right_addr]
<1>1. /\ Branch(Parent.block) /\ Top.addr = Parent.block.values[Parent.i + 1]
      /\ \A c \in Kids(Parent.block) : Sibling(lv, c)
  BY ParentOnFile
<1>2. Parent.i \in 0..nkeys(Parent.block)
  BY ParentFrame DEF Updating
<1>3. /\ Len(Parent.block.values) = nkeys(Parent.block) + 1 /\ nkeys(Parent.block) \in Nat
      /\ \A j \in 1..Len(Parent.block.values) : Parent.block.values[j] \in Kids(Parent.block)
  BY <1>1, BranchArrays
<1>4. Distinct(Parent.block.values)
  BY <1>1 DEF Branch
<1>5. Parent.i + 1 \in 1..Len(Parent.block.values)
  BY <1>2, <1>3
<1>6. ASSUME NEW c, Sibling(lv, c) PROVE Read(c) = disk[c]
  BY <1>6 DEF Sibling, Live, Read
<1>7. ASSUME has_left
      PROVE  /\ Sibling(lv, left_addr) /\ left_addr # Top.addr /\ left_sib = disk[left_addr]
             /\ Parent.block.values[Parent.i - 1 + 2] = Top.addr
  <2>1. Parent.i \in 1..Len(Parent.block.values) /\ Parent.i # Parent.i + 1
        /\ Parent.i - 1 + 2 = Parent.i + 1
    BY <1>2, <1>3, <1>7 DEF has_left
  <2>2. Sibling(lv, left_addr)
    BY <1>1, <1>3, <2>1 DEF left_addr
  <2>3. left_addr # Top.addr
    BY <1>1, <1>4, <1>5, <2>1 DEF Distinct, left_addr
  <2>4. QED
    BY <1>1, <1>6, <2>1, <2>2, <2>3 DEF left_sib
<1>8. ASSUME has_right
      PROVE  Sibling(lv, right_addr) /\ right_addr # Top.addr /\ right_sib = disk[right_addr]
  <2>1. Parent.i + 2 \in 1..Len(Parent.block.values) /\ Parent.i + 2 # Parent.i + 1
    BY <1>2, <1>3, <1>8 DEF has_right
  <2>2. Sibling(lv, right_addr)
    BY <1>1, <1>3, <2>1 DEF right_addr
  <2>3. right_addr # Top.addr
    BY <1>1, <1>4, <1>5, <2>1 DEF Distinct, right_addr
  <2>4. QED
    BY <1>6, <2>2, <2>3 DEF right_sib
<1>9. QED
  BY <1>7, <1>8

-----------------------------------------------------------------------------
(* What a step leaves *)

LEMMA Leaves ==
  ASSUME NEW g, NEW m, NEW q, After(g, disk', writes'), Ordered(writes'),
         Within(g, file_size'), pc' \notin {"closed", "idle", "search", "scan"},
         Tree(g, m, q)', File(g)
  PROVE  ShapeInv'
<1>1. Shape(g, m, q)'
  BY DEF Shape, File
<1>2. QED
  BY <1>1 DEF ShapeInv

\* Finish, and whatever else leaves nothing for the next step.
LEMMA CallOver ==
  ASSUME NEW g, NEW m, NEW q, Standing(g, m, q, {}, RootOf(g)),
         After(g, disk', writes'), Ordered(writes'), Within(g, file_size'), pc' = "return"
  PROVE  ShapeInv'
<1>1. Hole' = {} /\ Apex(g)' = RootOf(g) /\ ~Updating'
  BY DEF Hole, Apex, Updating
<1>2. Tree(g, m, q)'
  BY <1>1 DEF Tree, NewChild
<1>3. File(g)
  BY DEF Standing, Woods
<1>4. QED
  BY <1>2, <1>3, Leaves

\* The top is not yet the root.
LEMMA RootToSet ==
  ASSUME NEW g, NEW m, NEW q, Standing(g, m, q, {}, rv'.addr),
         After(g, disk', writes'), Ordered(writes'), Within(g, file_size'), pc' = "set_root"
  PROVE  ShapeInv'
<1>1. Hole' = {} /\ Apex(g)' = rv'.addr /\ ~Updating'
  BY DEF Hole, Apex, Updating
<1>2. Tree(g, m, q)'
  BY <1>1 DEF Tree, NewChild
<1>3. File(g)
  BY DEF Standing, Woods
<1>4. QED
  BY <1>2, <1>3, Leaves

\* A new block for the node above.
LEMMA ChildForParent ==
  ASSUME NEW g, NEW m, NEW q, Standing(g, m, q, {}, RootOf(g)),
         After(g, disk', writes'), Ordered(writes'), Within(g, file_size'), pc' = "insert_up",
         Orphans(g, m, RootOf(g), Top'.addr, {rv'.addr}), OnPath(g, m, path')
  PROVE  ShapeInv'
<1>1. Hole' = {} /\ Apex(g)' = RootOf(g)
  BY DEF Hole, Apex
<1>2. NewChild(g, m)'
  BY DEF NewChild
<1>3. Tree(g, m, q)'
  BY <1>1, <1>2 DEF Tree
<1>4. File(g)
  BY DEF Standing, Woods
<1>5. QED
  BY <1>3, <1>4, Leaves

\* A new block beside the root.
LEMMA ChildForRoot ==
  ASSUME NEW g, NEW m, NEW q, Standing(g, m, q, {}, RootOf(g)),
         After(g, disk', writes'), Ordered(writes'), Within(g, file_size'), pc' = "new_root",
         Top'.addr = RootOf(g), HasEnough(g[Top'.addr]),
         rv'.addr \in Live(g), Loose(g, rv'.addr), rv'.addr # RootOf(g),
         m[rv'.addr] = m[Top'.addr]
  PROVE  ShapeInv'
<1>1. Hole' = {} /\ Apex(g)' = RootOf(g) /\ ~Updating'
  BY DEF Hole, Apex, Updating
<1>2. NewChild(g, m)'
  BY DEF NewChild
<1>3. Tree(g, m, q)'
  BY <1>1, <1>2 DEF Tree
<1>4. File(g)
  BY DEF Standing, Woods
<1>5. QED
  BY <1>3, <1>4, Leaves

\* A key, and perhaps a child, that the node above is to change.
LEMMA ChangeForParent ==
  ASSUME NEW g, NEW m, NEW q, Standing(g, m, q, Hole', RootOf(g)),
         After(g, disk', writes'), Ordered(writes'), Within(g, file_size'), pc' = "delete_up",
         OnPath(g, m, path')
  PROVE  ShapeInv'
<1>1. Apex(g)' = RootOf(g)
  BY DEF Apex
<1>2. NewChild(g, m)'
  BY DEF NewChild
<1>3. Tree(g, m, q)'
  BY <1>1, <1>2 DEF Tree
<1>4. File(g)
  BY DEF Standing, Woods
<1>5. QED
  BY <1>3, <1>4, Leaves

\* The nodes above one that has changed, with blocks on its level, are still
\* those on file.
LEMMA PathKept ==
  ASSUME NEW f, NEW lv \in [Nat -> Nat], NEW p, OnPath(f, lv, p), Live(f) \subseteq Nat,
         Len(p) \in Nat, Len(p) >= 2, NEW g, NEW m, RootOf(g) = RootOf(f),
         NEW X, Unmoved(f, g, X), \A x \in X : lv[x] = lv[p[Len(p)].addr],
         \A a \in Live(f) : m[a] = lv[a],
         NEW q, Len(q) = Len(p) - 1,
         \A j \in 1..Len(q) : q[j].addr = p[j].addr /\ q[j].i = p[j].i /\ Like(p[j].block, q[j].block)
  PROVE  OnPath(g, m, q)
<1>0. p # <<>> /\ p[1].addr = RootOf(f) /\ 1 \in 1..Len(q) /\ 1 \in 1..Len(p)
  BY DEF OnPath
<1>1. q[1].addr = RootOf(g)
  BY <1>0
<1>2. RootOf(f) \in Live(f) /\ Len(p) \in 1..Len(p)
  BY <1>0, SMTT(30) DEF OnPath
<1>3. ASSUME NEW j \in 1..Len(q)
      PROVE  /\ q[j].addr \in Live(g) /\ Like(g[q[j].addr], q[j].block)
             /\ m[q[j].addr] + j = m[RootOf(g)] + 1
             /\ j < Len(q) => q[j + 1].addr = q[j].block.values[q[j].i + 1]
  <2>0. PICK n \in Nat : n = Len(p)
    OBVIOUS
  <2>1. j \in 1..n /\ j < n /\ j \in Nat /\ q[j].addr = p[j].addr
    <3>1. q[j].addr = p[j].addr
      OBVIOUS
    <3>2. j \in 1..(n - 1) /\ n \in Nat
      BY <2>0
    <3>3. j \in 1..n /\ j < n /\ j \in Nat
      BY ONLY <3>2
    <3>4. QED
      BY ONLY <3>1, <3>3
  <2>2. /\ p[j].addr \in Live(f) /\ Like(f[p[j].addr], p[j].block)
        /\ lv[p[j].addr] + j = lv[RootOf(f)] + 1
        /\ p[j + 1].addr = p[j].block.values[p[j].i + 1]
        /\ p[n].addr \in Live(f)
        /\ lv[p[n].addr] + n = lv[RootOf(f)] + 1
    BY <1>2, <2>0, <2>1 DEF OnPath
  <2>3. p[j].addr \notin X
    <3>1. PICK l \in Nat, k \in Nat, h \in Nat, i \in Nat :
            l = lv[p[j].addr] /\ k = lv[p[n].addr] /\ h = lv[RootOf(f)] /\ i = j
      BY <1>2, <2>1, <2>2
    <3>2. l # k
      <4>1. l + i = h + 1 /\ k + n = h + 1 /\ i < n
        BY <2>1, <2>2, <3>1
      <4>2. l \in Nat /\ k \in Nat /\ h \in Nat /\ i \in Nat /\ n \in Nat
        BY <2>0, <3>1
      <4>3. QED
        BY ONLY <4>1, <4>2
    <3>3. QED
      BY <2>0, <3>1, <3>2
  <2>4. p[j].addr \in Live(g) /\ g[p[j].addr] = f[p[j].addr]
    BY <2>2, <2>3 DEF Unmoved
  <2>5. Like(g[q[j].addr], q[j].block)
    BY <2>1, <2>2, <2>4 DEF Like
  <2>6. m[q[j].addr] + j = m[RootOf(g)] + 1
    <3>1. m[p[j].addr] = lv[p[j].addr] /\ m[RootOf(f)] = lv[RootOf(f)]
      BY <1>2, <2>2
    <3>2. m[q[j].addr] = lv[p[j].addr] /\ m[RootOf(g)] = lv[RootOf(f)]
      BY <2>1, <3>1
    <3>3. QED
      BY <2>2, <3>2
  <2>7. ASSUME j < Len(q) PROVE q[j + 1].addr = q[j].block.values[q[j].i + 1]
    <3>1. j + 1 \in 1..Len(q)
      <4>1. j < n - 1
        BY <2>0, <2>7
      <4>2. j + 1 \in 1..(n - 1)
        BY <2>1, <4>1
      <4>3. QED
        BY <2>0, <4>2
    <3>2. q[j + 1].addr = p[j + 1].addr /\ q[j].i = p[j].i /\ q[j].block.values = p[j].block.values
      BY <3>1 DEF Like
    <3>3. QED
      BY <2>2, <3>2
  <2>8. QED
    BY <2>1, <2>4, <2>5, <2>6, <2>7
<1>4. QED
  BY <1>1, <1>3 DEF OnPath

\* The stack without its last node.
LEMMA FrontKept ==
  ASSUME IInv, pc \in {"search", "insert_up", "delete_up"}, ~AtRoot, path' = Front(path)
  PROVE  /\ Len(path') = Len(path) - 1 /\ Top' = Parent
         /\ \A j \in 1..Len(path') :
              /\ path'[j].addr = path[j].addr /\ path'[j].i = path[j].i
              /\ Like(path[j].block, path'[j].block)
<1>1. /\ Len(path') = Len(path) - 1 /\ Len(path) \in Nat /\ Len(path) >= 2
      /\ \A j \in 1..(Len(path) - 1) : path'[j] = path[j]
  BY TopFrame, ParentFrame
<1>2. Top' = Parent
  <2>1. Len(path) - 1 \in 1..(Len(path) - 1)
    BY <1>1
  <2>2. QED
    BY <1>1, <2>1 DEF Top, Parent
<1>3. QED
  BY <1>1, <1>2 DEF Like

-----------------------------------------------------------------------------
(* The blocks from one step to the next *)

LEMMA BooksNow ==
  ASSUME IInv, ShapeInv, BookInv, writes = <<>>, pc # "closed"
  PROVE  /\ \E s : Booked(disk, s, {Apex(disk)} \cup Pending) /\ Hole \subseteq Members(s)
         /\ DOMAIN disk = 0..(file_size - 1) /\ file_size \in Nat /\ file_size # 0
<1>1. PICK f, s : Books(f, s)
  BY DEF BookInv
<1>2. /\ 0 \in DOMAIN disk /\ disk = [a \in DOMAIN disk |-> disk[a]]
      /\ file_size \in Nat /\ file_size # 0
  BY AtRest
<1>3. f = disk
  BY <1>1, <1>2, AfterNone DEF Books
<1>4. QED
  BY <1>1, <1>2, <1>3 DEF Books

LEMMA BooksClosed ==
  ASSUME NEW g, NEW q, After(g, disk', writes'), pc' # "closed",
         file_size' \in Nat, DOMAIN g = 0..(file_size' - 1),
         Booked(g, q, {Apex(g)'} \cup Pending'), Hole' \subseteq Members(q)
  PROVE  BookInv'
<1>1. Books(g, q)'
  BY DEF Books
<1>2. QED
  BY <1>1 DEF BookInv

\* A call is over.
LEMMA DoneBooks ==
  ASSUME NEW g, NEW q, Booked(g, q, {RootOf(g)}), After(g, disk', writes'),
         file_size' \in Nat, DOMAIN g = 0..(file_size' - 1), pc' = "return"
  PROVE  BookInv'
<1>1. Apex(g)' = RootOf(g) /\ Pending' = {} /\ Hole' = {}
  BY DEF Apex, Pending, Hole
<1>2. {Apex(g)'} \cup Pending' = {RootOf(g)}
  BY <1>1
<1>3. QED
  BY <1>1, <1>2, BooksClosed

\* The header is still to hear of a new root.
LEMMA RootBooks ==
  ASSUME NEW g, NEW q, Booked(g, q, {rv'.addr}), After(g, disk', writes'),
         file_size' \in Nat, DOMAIN g = 0..(file_size' - 1), pc' = "set_root"
  PROVE  BookInv'
<1>1. Apex(g)' = rv'.addr /\ Pending' = {} /\ Hole' = {}
  BY DEF Apex, Pending, Hole
<1>2. {Apex(g)'} \cup Pending' = {rv'.addr}
  BY <1>1
<1>3. QED
  BY <1>1, <1>2, BooksClosed

\* ReturnSplit: the level above is still to hear of the new block.
LEMMA SplitBooks ==
  ASSUME NEW g, NEW q, NEW r, r = RootOf(g), Booked(g, q, {r, new_addr}),
         NEW k, NEW ws, After(g, disk, ws), ReturnSplit(new_addr, k, ws),
         new_size \in Nat, DOMAIN g = 0..(new_size - 1)
  PROVE  BookInv'
<1>1. /\ disk' = disk /\ writes' = ws /\ file_size' = new_size /\ rv'.addr = new_addr
      /\ pc' \in {"insert_up", "new_root"}
  BY DEF ReturnSplit, SplitOff
<1>2. Apex(g)' = r /\ Pending' = {new_addr} /\ Hole' = {}
  BY <1>1 DEF Apex, Pending, Hole
<1>3. {Apex(g)'} \cup Pending' = {r, new_addr}
  BY <1>2
<1>4. QED
  BY <1>1, <1>2, <1>3, BooksClosed

\* The node above is still to be changed.
LEMMA ChangeBooks ==
  ASSUME NEW g, NEW q, Booked(g, q, {RootOf(g)}), Hole' \subseteq Members(q),
         After(g, disk', writes'), file_size' \in Nat, DOMAIN g = 0..(file_size' - 1),
         pc' = "delete_up"
  PROVE  BookInv'
<1>1. Apex(g)' = RootOf(g) /\ Pending' = {}
  BY DEF Apex, Pending
<1>2. {Apex(g)'} \cup Pending' = {RootOf(g)}
  BY <1>1
<1>3. QED
  BY <1>1, <1>2, BooksClosed

\* Steps that write nothing and hand nothing on.
LEMMA QuietBooks ==
  ASSUME IInv, ShapeInv, writes = <<>>, UNCHANGED <<disk, file_size, writes>>,
         pc \in {"idle", "search", "scan", "return"}, pc' \in {"idle", "search", "scan", "return"}
  PROVE  KeepsBooks
<1> SUFFICES ASSUME BookInv PROVE BookInv'
  BY DEF KeepsBooks
<1>1. PICK s : Booked(disk, s, {Apex(disk)} \cup Pending)
  BY BooksNow
<1>2. DOMAIN disk = 0..(file_size - 1) /\ file_size \in Nat
  BY BooksNow
<1>3. PICK g : g = disk
  OBVIOUS
<1>4. After(g, disk', writes')
  BY <1>3, AtRest, AfterSame
<1>5. Apex(g)' = Apex(disk) /\ Pending' = Pending /\ Hole' = {}
  BY <1>3 DEF Apex, Pending, Hole
<1>6. Booked(g, s, {Apex(g)'} \cup Pending')
  BY <1>1, <1>3, <1>5
<1>7. pc' # "closed"
  OBVIOUS
<1>8. QED
  BY <1>2, <1>3, <1>4, <1>5, <1>6, <1>7, BooksClosed

LEMMA LookupBooks ==
  IInv /\ ShapeInv
    /\ (Get \/ InsertDuplicate \/ DeleteMissing \/ Descend \/ ScanLeaf
        \/ Return \/ \E o \in Ops : Call(o)) => KeepsBooks
<1> SUFFICES ASSUME IInv, ShapeInv,
                    Get \/ InsertDuplicate \/ DeleteMissing \/ Descend \/ ScanLeaf
                      \/ Return \/ \E o \in Ops : Call(o)
             PROVE  KeepsBooks
  OBVIOUS
<1>1. /\ writes = <<>> /\ writes' = <<>> /\ UNCHANGED <<disk, file_size>>
      /\ pc \in {"idle", "search", "scan", "return"} /\ pc' \in {"idle", "search", "scan", "return"}
  BY DEF Get, InsertDuplicate, DeleteMissing, Descend, ScanLeaf, Return, Call,
         AtLeaf, At, Finish
<1>2. QED
  BY <1>1, QuietBooks

\* Closing and reopening the file: it ends with the last block written.
LEMMA ReopenBooks == IInv /\ ShapeInv /\ (Close \/ OpenExisting) => KeepsBooks
<1> SUFFICES ASSUME IInv, ShapeInv, Close \/ OpenExisting, BookInv PROVE BookInv'
  BY DEF KeepsBooks
<1>1. PICK f, s : Books(f, s)
  BY DEF BookInv
<1>2. /\ writes = <<>> /\ UNCHANGED <<disk, writes, rv>>
      /\ pc \in {"idle", "closed"} /\ pc' \in {"closed", "return"}
  BY DEF Close, OpenExisting, At
<1>3. /\ After(f, disk, writes) /\ DOMAIN f = DOMAIN disk
      /\ DOMAIN f # {} => Booked(f, s, {Apex(f)} \cup Pending)
  BY <1>1, <1>2 DEF Books, After
<1>4. PICK n \in Nat : DOMAIN f = 0..(n - 1)
  BY <1>1 DEF Books
<1>5. pc' # "closed" => n = file_size'
  <2> SUFFICES ASSUME pc' # "closed" PROVE n = file_size'
    OBVIOUS
  <2>1. OpenExisting
    BY DEF Close
  <2>2. PICK last \in DOMAIN f : (\A a \in DOMAIN f : a <= last) /\ file_size' = last + 1
    BY <1>3, <2>1 DEF OpenExisting
  <2>3. n - 1 \in 0..(n - 1) /\ last \in 0..(n - 1)
    BY <1>4, <2>2
  <2>4. n - 1 <= last
    BY <1>4, <2>2, <2>3
  <2>5. QED
    BY <2>2, <2>3, <2>4
<1>6. Apex(f)' = Apex(f) /\ Pending' = Pending /\ Hole' = {}
  BY <1>2 DEF Apex, Pending, Hole
<1>7. Books(f, s)'
  BY <1>2, <1>3, <1>4, <1>5, <1>6 DEF Books
<1>8. QED
  BY <1>7 DEF BookInv

\* A write reaches the file: the file it will be is the same.
LEMMA WriteBooks == IInv /\ WriteBlock => KeepsBooks
<1> SUFFICES ASSUME IInv, WriteBlock, BookInv PROVE BookInv'
  BY DEF KeepsBooks
<1>1. PICK f, s : Books(f, s)
  BY DEF BookInv
<1>2. /\ disk' = Put(disk, writes[1].addr, writes[1].block) /\ writes' = Tail(writes)
      /\ writes # <<>> /\ UNCHANGED <<file_size, pc, op, path, rv, ret>>
  BY DEF WriteBlock, Put
<1>3. writes \in Seq(Writes)
  BY DEF IInv, CallInv
<1>4. After(f, disk', writes')
  BY <1>1, <1>2, <1>3, AfterFirst DEF Books
<1>5. Apex(f)' = Apex(f) /\ Pending' = Pending /\ Hole' = Hole
  BY <1>2 DEF Apex, Pending, Hole, Top
<1>6. Books(f, s)'
  BY <1>1, <1>2, <1>4, <1>5 DEF Books
<1>7. QED
  BY <1>6 DEF BookInv

LEMMA StutterBooks == UNCHANGED vars => KeepsBooks
BY DEF KeepsBooks, BookInv, Books, vars, Apex, Pending, Hole, Top

\* A new file: the header and an empty root.
LEMMA OpenNewBooks == IInv /\ OpenNew => BookInv'
<1> SUFFICES ASSUME IInv, OpenNew PROVE BookInv'
  OBVIOUS
<1>1. /\ DOMAIN disk = {} /\ pc' = "return" /\ file_size' = 2 /\ disk' = disk
      /\ writes' = <<W(0, Header(1, 0)), W(1, Leaf(<<>>, <<>>, 0))>>
  BY DEF OpenNew
<1>2. PICK g : g = Put(Put(disk, 0, Header(1, 0)), 1, Leaf(<<>>, <<>>, 0))
  OBVIOUS
<1>3. After(g, disk', writes')
  BY <1>1, <1>2, AfterTwo
<1>4. DOMAIN g = {0, 1} /\ g[0] = Header(1, 0)
  BY <1>1, <1>2 DEF Put
<1>5. RootOf(g) = 1 /\ FreeOf(g) = 0
  BY <1>4 DEF RootOf, FreeOf, BlockAt, Header
<1>6. Booked(g, <<>>, {1})
  <2>1. Chain(g, <<>>)
    BY <1>5 DEF Chain, Distinct
  <2>2. QED
    BY <1>4, <2>1 DEF Booked, Header
<1>7. DOMAIN g = 0..(file_size' - 1)
  <2>1. 0..(2 - 1) = {0, 1}
    OBVIOUS
  <2>2. QED
    BY <1>1, <1>4, <2>1
<1>8. QED
  BY <1>1, <1>3, <1>5, <1>6, <1>7, DoneBooks

\* Finish, after the block b was written over the live block x.
LEMMA OverBooks ==
  ASSUME IInv, ShapeInv, writes = <<>>, pc \in {"search", "insert_up", "delete_up"},
         NEW x \in Live(disk), NEW b, KidsIn(disk[x]) \cup Pending \subseteq KidsIn(b) \cup Hole,
         NEW r, Finish(r, <<W(x, b)>>), file_size' = file_size
  PROVE  KeepsBooks
<1> SUFFICES ASSUME BookInv PROVE BookInv'
  BY DEF KeepsBooks
<1>1. PICK s : Booked(disk, s, {Apex(disk)} \cup Pending) /\ Hole \subseteq Members(s)
  BY BooksNow
<1>2. DOMAIN disk = 0..(file_size - 1) /\ file_size \in Nat
  BY BooksNow
<1>3. PICK g, t : g = Put(disk, x, b) /\ t = RootOf(disk)
  OBVIOUS
<1>4. Booked(g, s, {t}) /\ RootOf(g) = t
  <2>1. PICK R, Q : R = {Apex(disk)} \cup Pending /\ Q = {t}
    OBVIOUS
  <2>2. Apex(disk) = t
    BY <1>3 DEF Apex
  <2>3. /\ Booked(disk, s, R) /\ x \in Live(disk)
        /\ KidsIn(disk[x]) \cup R \subseteq Q \cup Members(s) \cup KidsIn(b)
    BY <1>1, <2>1, <2>2
  <2>4. Booked(Put(disk, x, b), s, Q) /\ RootOf(Put(disk, x, b)) = RootOf(disk)
    BY ONLY <2>3, BookedOver
  <2>5. QED
    BY <1>3, <2>1, <2>4
<1>5. DOMAIN g = DOMAIN disk
  BY <1>3 DEF Put, Live
<1>6. After(g, disk', writes') /\ pc' = "return"
  BY <1>3, AfterOne DEF Finish
<1>7. QED
  BY <1>2, <1>4, <1>5, <1>6, DoneBooks

\* ReturnSplit, after the live block x was split into the blocks b and c.
LEMMA SplitOverBooks ==
  ASSUME IInv, ShapeInv, writes = <<>>, pc \in {"search", "insert_up"},
         NEW lv, NEW z, NEW t, Standing(disk, lv, z, {}, t),
         NEW x \in Live(disk), NEW b, NEW c,
         KidsIn(disk[x]) \cup Pending \subseteq KidsIn(b) \cup KidsIn(c),
         NEW g, g = Split(disk, x, b, new_addr, c), RootOf(g) = RootOf(disk),
         NEW k, NEW ws, After(g, disk, ws), ReturnSplit(new_addr, k, ws)
  PROVE  KeepsBooks
<1> SUFFICES ASSUME BookInv PROVE BookInv'
  BY DEF KeepsBooks
<1>1. PICK s : Booked(disk, s, {Apex(disk)} \cup Pending)
  BY BooksNow
<1>2. DOMAIN disk = 0..(file_size - 1) /\ file_size \in Nat /\ file_size # 0
  BY BooksNow
<1>3. PICK n, r : n = Fresh(disk, file_size) /\ r = RootOf(disk)
  OBVIOUS
<1>4. n = new_addr /\ new_size = FreshSize(disk, file_size)
  BY <1>3, Pointers
<1>5. Apex(disk) = r
  BY <1>3 DEF Apex
<1>6. (\E q : Booked(g, q, {r, n})) /\ DOMAIN g = 0..(new_size - 1)
  <2>1. PICK R, Q, H : R = {Apex(disk)} \cup Pending /\ Q = {r} /\ H = {}
    OBVIOUS
  <2>2. Woods(disk, lv, z, H) /\ Parting(disk, s, R, file_size, x, b, n, c, Q)
    BY <1>1, <1>2, <1>3, <1>5, <2>1 DEF Standing, Parting
  <2>3. LET h == Split(disk, x, b, n, c)
        IN  /\ \E q : Booked(h, q, Q \cup {n})
            /\ Spans(h, FreshSize(disk, file_size))
    BY ONLY <2>2, BookedSplit
  <2>4. Q \cup {n} = {r, n}
    BY <2>1
  <2>5. QED
    BY <1>4, <2>3, <2>4 DEF Spans
<1>7. PICK q : Booked(g, q, {r, new_addr})
  BY <1>4, <1>6
<1>8. new_size \in Nat
  BY <1>2 DEF new_size
<1>9. QED
  BY <1>3, <1>6, <1>7, <1>8, SplitBooks

\* ReturnBorrow, after the live blocks y and x were written over with b and c.
LEMMA BorrowBooks ==
  ASSUME IInv, ShapeInv, writes = <<>>, pc \in {"search", "delete_up"},
         NEW x \in Live(disk), NEW y \in Live(disk), x # y, NEW b, NEW c,
         KidsIn(disk[y]) \subseteq KidsIn(b) \cup KidsIn(c),
         KidsIn(disk[x]) \subseteq KidsIn(c) \cup Hole,
         NEW ind, NEW k, ReturnBorrow(ind, k, <<W(y, b), W(x, c)>>)
  PROVE  KeepsBooks
<1> SUFFICES ASSUME BookInv PROVE BookInv'
  BY DEF KeepsBooks
<1>1. PICK s : Booked(disk, s, {Apex(disk)} \cup Pending) /\ Hole \subseteq Members(s)
  BY BooksNow
<1>2. DOMAIN disk = 0..(file_size - 1) /\ file_size \in Nat
  BY BooksNow
<1>3. PICK h, g, t : h = Put(disk, y, b) /\ g = Put(h, x, c) /\ t = RootOf(disk)
  OBVIOUS
<1>4. {Apex(disk)} \cup Pending = {t}
  BY <1>3 DEF Apex, Pending
\* In between only the program knows of the child that moves.
<1>5. PICK R, Q : R = {t} /\ Q = {t} \cup KidsIn(c)
  OBVIOUS
<1>6. Booked(h, s, Q) /\ RootOf(h) = t
  <2>1. /\ Booked(disk, s, R) /\ y \in Live(disk)
        /\ KidsIn(disk[y]) \cup R \subseteq Q \cup Members(s) \cup KidsIn(b)
    BY <1>1, <1>4, <1>5
  <2>2. Booked(Put(disk, y, b), s, Q) /\ RootOf(Put(disk, y, b)) = RootOf(disk)
    BY ONLY <2>1, BookedOver
  <2>3. QED
    BY <1>3, <2>2
<1>7. x \in Live(h) /\ h[x] = disk[x] /\ DOMAIN h = DOMAIN disk
  BY <1>3 DEF Put, Live
<1>8. Booked(g, s, {t}) /\ RootOf(g) = t /\ DOMAIN g = DOMAIN disk
  <2>1. /\ Booked(h, s, Q) /\ x \in Live(h)
        /\ KidsIn(h[x]) \cup Q \subseteq R \cup Members(s) \cup KidsIn(c)
    BY <1>1, <1>5, <1>6, <1>7
  <2>2. Booked(Put(h, x, c), s, R) /\ RootOf(Put(h, x, c)) = RootOf(h)
    BY ONLY <2>1, BookedOver
  <2>3. DOMAIN g = DOMAIN h
    BY <1>3, <1>7 DEF Put, Live
  <2>4. QED
    BY <1>3, <1>5, <1>6, <1>7, <2>2, <2>3
<1>9. /\ pc' = "delete_up" /\ rv' = NoRv /\ disk' = disk /\ file_size' = file_size
      /\ writes' = <<W(y, b), W(x, c)>>
  BY DEF ReturnBorrow
<1>10. Hole' = {}
  BY <1>9 DEF Hole, NoRv
<1>11. After(g, disk', writes')
  BY <1>3, <1>9, AfterTwo
<1>12. QED
  BY <1>2, <1>8, <1>9, <1>10, <1>11, ChangeBooks

\* ReturnMerge, after the live blocks l and r became the block b in l's place.
LEMMA MergeBooks ==
  ASSUME IInv, ShapeInv, writes = <<>>, pc \in {"search", "delete_up"}, ~AtRoot,
         NEW lv, NEW z, NEW H, NEW t, Standing(disk, lv, z, H, t),
         NEW l \in Live(disk), l # 0, NEW r \in Live(disk), r # 0, l # r, NEW b, IsLive(b),
         KidsIn(disk[l]) \cup KidsIn(disk[r]) \subseteq KidsIn(b) \cup Hole,
         NEW ind \in Nat, r = Parent.block.values[ind + 2], ReturnMerge(ind, r, l, b)
  PROVE  KeepsBooks
<1> SUFFICES ASSUME BookInv PROVE BookInv'
  BY DEF KeepsBooks
<1>1. PICK s : Booked(disk, s, {Apex(disk)} \cup Pending) /\ Hole \subseteq Members(s)
  BY BooksNow
<1>2. DOMAIN disk = 0..(file_size - 1) /\ file_size \in Nat /\ 0 \in DOMAIN disk
  BY BooksNow, AtRest
<1>3. PICK g, u : g = Put(Freed(disk, r), l, b) /\ u = RootOf(disk)
  OBVIOUS
<1>4. {Apex(disk)} \cup Pending = {u}
  BY <1>3 DEF Apex, Pending
<1>5. PICK q : Booked(g, q, {u}) /\ r \in Members(q)
  <2>1. PICK R : R = {u}
    OBVIOUS
  <2>2. /\ Woods(disk, lv, z, H) /\ Booked(disk, s, R)
        /\ l \in Live(disk) /\ r \in Live(disk) /\ l # r
        /\ KidsIn(disk[l]) \cup KidsIn(disk[r]) \subseteq Members(s) \cup KidsIn(b)
        /\ g = Put(Freed(disk, r), l, b)
    BY <1>1, <1>3, <1>4, <2>1 DEF Standing
  <2>3. \E q : Booked(g, q, R) /\ r \in Members(q)
    BY ONLY <2>2, BookedMerged
  <2>4. QED
    BY <2>1, <2>3
<1>6. /\ pc' = "delete_up" /\ rv' = DelInd(ind) /\ disk' = disk /\ file_size' = file_size
      /\ writes' = Append(free_writes(r), W(l, b)) /\ path' = Front(path)
  BY DEF ReturnMerge
<1>7. Hole' = {r}
  <2>1. rv'.ind = ind /\ ind # None
    BY <1>6, NoneAssumption DEF DelInd
  <2>2. Top' = Parent
    BY <1>6, FrontKept
  <2>3. QED
    BY <1>6, <2>1, <2>2 DEF Hole
<1>8. After(g, disk', writes')
  <2>1. LET ws == Append(free_writes(r), W(l, b))
        IN  After(Put(Freed(disk, r), l, b), disk, ws) /\ Ordered(ws)
    BY MergeWritten
  <2>2. QED
    BY <1>3, <1>6, <2>1
<1>9. DOMAIN g = DOMAIN disk /\ RootOf(g) = u
  <2>1. DOMAIN Freed(disk, r) = DOMAIN disk /\ RootOf(Freed(disk, r)) = u
    BY <1>3, BlockIsFreed DEF Standing
  <2>2. DOMAIN g = DOMAIN disk
    BY <1>3, <2>1 DEF Put, Live
  <2>3. QED
    BY <1>3, <2>1, <2>2 DEF RootOf, BlockAt, Put
<1>10. QED
  BY <1>2, <1>5, <1>6, <1>7, <1>8, <1>9, ChangeBooks

\* insert above a split root: the new root has the old one and its sibling.
LEMMA TopBooks ==
  ASSUME IInv, ShapeInv, writes = <<>>, pc = "new_root",
         NEW lv, NEW z, NEW t, Standing(disk, lv, z, {}, t),
         NEW b, RootOf(disk) \in KidsIn(b), rv.addr \in KidsIn(b),
         NEW g, g = Put(Taken(disk), new_addr, b), After(g, disk', writes'),
         rv'.addr = new_addr, file_size' = new_size, pc' = "set_root"
  PROVE  KeepsBooks
<1> SUFFICES ASSUME BookInv PROVE BookInv'
  BY DEF KeepsBooks
<1>1. PICK s : Booked(disk, s, {Apex(disk)} \cup Pending)
  BY BooksNow
<1>2. DOMAIN disk = 0..(file_size - 1) /\ file_size \in Nat /\ file_size # 0
  BY BooksNow
<1>3. PICK n, e : n = new_addr /\ e = Taken(disk)
  OBVIOUS
<1>4. n = Fresh(disk, file_size) /\ new_size = FreshSize(disk, file_size)
  BY <1>3, Pointers
<1>5. PICK R, Q : R = {Apex(disk)} \cup Pending /\ Q = {n}
  OBVIOUS
<1>6. R \subseteq KidsIn(b)
  BY <1>5 DEF Apex, Pending
<1>7. Woods(disk, lv, z, {})
  BY DEF Standing
<1>8. PICK q : Booked(e, q, R \cup {n}) /\ n \notin Members(q)
  <2>1. /\ Woods(disk, lv, z, {}) /\ Booked(disk, s, R)
        /\ file_size \in Nat /\ file_size # 0 /\ DOMAIN disk = 0..(file_size - 1)
    BY <1>1, <1>2, <1>5, <1>7
  <2>2. \E q \in Seq(Nat) : /\ Booked(Taken(disk), q, R \cup {Fresh(disk, file_size)})
                            /\ Fresh(disk, file_size) \notin Members(q)
    BY ONLY <2>1, BookedTaken
  <2>3. QED
    BY <1>3, <1>4, <2>2
<1>9. /\ DOMAIN e = DOMAIN disk /\ n # 0 /\ n \notin Inner(e)
      /\ DOMAIN disk \cup {n} = 0..(new_size - 1)
  <2>1. /\ SameLive(disk, e) /\ DOMAIN e = DOMAIN disk /\ n # 0 /\ n \notin Live(disk)
        /\ DOMAIN disk \cup {n} = 0..(FreshSize(disk, file_size) - 1)
    BY <1>1, <1>2, <1>3, <1>4, <1>7, BookedTaken
  <2>2. Inner(e) = Inner(disk)
    BY <2>1, SameForest
  <2>3. QED
    BY <1>4, <2>1, <2>2, InnerLive
<1>10. Booked(g, q, Q)
  <2>1. /\ Booked(e, q, R \cup {n}) /\ n # 0 /\ n \notin Members(q) /\ n \in DOMAIN e \cup Q
        /\ n \in Inner(e) => Kids(e[n]) \subseteq Q \cup Members(q) \cup KidsIn(b)
        /\ R \cup {n} \subseteq Q \cup Members(q) \cup KidsIn(b)
    BY <1>5, <1>6, <1>8, <1>9
  <2>2. Booked(Put(e, n, b), q, Q)
    BY ONLY <2>1, BookedPut
  <2>3. QED
    BY <1>3, <2>2
<1>11. DOMAIN g = 0..(file_size' - 1)
  <2>1. DOMAIN g = DOMAIN e \cup {n}
    BY <1>3 DEF Put
  <2>2. QED
    BY <1>9, <2>1
<1>12. new_size \in Nat
  BY <1>2 DEF new_size
<1>13. QED
  BY <1>3, <1>5, <1>10, <1>11, <1>12, RootBooks

\* set_root: the header hears of the new root.
LEMMA HeaderBooks ==
  ASSUME IInv, ShapeInv, writes = <<>>, pc = "set_root",
         NEW lv, NEW z, NEW t, Standing(disk, lv, z, {}, t),
         NEW r \in Nat, r = rv.addr, NEW g, g = Put(disk, 0, Header(r, FreeOf(disk))),
         RootOf(g) = r, DOMAIN g = DOMAIN disk, After(g, disk', writes'),
         file_size' = file_size, pc' = "return"
  PROVE  KeepsBooks
<1> SUFFICES ASSUME BookInv PROVE BookInv'
  BY DEF KeepsBooks
<1>1. PICK s : Booked(disk, s, {Apex(disk)} \cup Pending)
  BY BooksNow
<1>2. DOMAIN disk = 0..(file_size - 1) /\ file_size \in Nat
  BY BooksNow
<1>3. {Apex(disk)} \cup Pending = {r}
  BY DEF Apex, Pending
<1>4. File(disk)
  BY DEF Standing, Woods
<1>5. PICK R : R = {r}
  OBVIOUS
<1>6. Booked(g, s, R)
  BY <1>1, <1>3, <1>4, <1>5, BookedRoot
<1>7. QED
  BY <1>2, <1>5, <1>6, DoneBooks

\* A root with one child left is freed.
LEMMA ShrinkBooks ==
  ASSUME IInv, ShapeInv, writes = <<>>, pc = "delete_up",
         NEW lv, NEW z, NEW H, NEW t, Standing(disk, lv, z, H, t), t = RootOf(disk),
         NEW h, Hole = {h}, NEW c, KidsIn(disk[t]) \subseteq {h, c}, NEW g, g = Freed(disk, t),
         DOMAIN g = DOMAIN disk, After(g, disk', writes'),
         rv'.addr = c, file_size' = file_size, pc' = "set_root"
  PROVE  KeepsBooks
<1> SUFFICES ASSUME BookInv PROVE BookInv'
  BY DEF KeepsBooks
<1>1. PICK s : Booked(disk, s, {Apex(disk)} \cup Pending) /\ Hole \subseteq Members(s)
  BY BooksNow
<1>2. DOMAIN disk = 0..(file_size - 1) /\ file_size \in Nat
  BY BooksNow
<1>3. PICK R, Q : R = {t} /\ Q = {c}
  OBVIOUS
<1>4. {Apex(disk)} \cup Pending = R
  BY <1>3 DEF Apex, Pending
<1>5. PICK q : Booked(g, q, R \cup KidsIn(disk[t])) /\ Members(q) = Members(s) \cup {t}
  <2>1. /\ Woods(disk, lv, z, H) /\ Booked(disk, s, R) /\ t \in Live(disk)
        /\ g = Freed(disk, t)
    BY <1>1, <1>4 DEF Standing, Rooted
  <2>2. \E q : Booked(g, q, R \cup KidsIn(disk[t])) /\ Members(q) = Members(s) \cup {t}
    BY ONLY <2>1, BookedFreed
  <2>3. QED
    BY <2>2
<1>6. Booked(g, q, Q)
  <2>1. R \cup KidsIn(disk[t]) \subseteq Q \cup Members(q)
    BY <1>1, <1>3, <1>5
  <2>2. QED
    BY <1>5, <2>1, BookedMore
<1>7. QED
  BY <1>2, <1>3, <1>6, RootBooks

-----------------------------------------------------------------------------
(* Steps that leave the tree as it is *)

\* _init_file (btree.py:117-125).
LEMMA NewFile ==
  ASSUME NEW d, DOMAIN d = {}
  PROVE  LET g == Put(Put(d, 0, Header(1, 0)), 1, Leaf(<<>>, <<>>, 0))
         IN  /\ Standing(g, [a \in Nat |-> 0], <<>>, {}, 1)
             /\ RootOf(g) = 1 /\ Within(g, 2)
<1> DEFINE h  == Header(1, 0)
           b  == Leaf(<<>>, <<>>, 0)
           g  == Put(Put(d, 0, h), 1, b)
           lv == [a \in Nat |-> 0]
<1>1. Sound(b) /\ b.tag = "leaf"
  <2> DEFINE none == <<>>
  <2>1. none \in Seq(Nat) /\ Len(none) = 0
    BY EmptySeq
  <2> HIDE DEF none
  <2>2. Len(none) <= MAX_NKEYS
    BY <2>1, MaxNkeysAssumption
  <2>3. Sound(Leaf(none, none, 0)) /\ Leaf(none, none, 0).tag = "leaf"
    <3>1. 0 \in Nat
      OBVIOUS
    <3>2. QED
      BY <2>1, <2>2, <3>1, LeafSound, Zenon
  <2>4. QED
    BY <2>3 DEF none
<1>2. Sound(h) /\ h.tag = "header" /\ h.values = <<1, 0>>
  BY OtherBlocksSound DEF Header
<1> HIDE DEF h, b
<1>3. g = [a \in {0, 1} |-> IF a = 1 THEN b ELSE h]
  BY DEF Put
<1> HIDE DEF g
<1>4. DOMAIN g = {0, 1} /\ g[0] = h /\ g[1] = b
  BY <1>3
<1>5. File(g)
  BY <1>1, <1>2, <1>3, <1>4 DEF File, Sound
<1>6. Live(g) = {1} /\ Inner(g) = {}
  BY <1>1, <1>2, <1>4 DEF Live, IsLive, Inner
<1>7. RootOf(g) = 1 /\ FreeOf(g) = 0
  BY <1>2, <1>4 DEF RootOf, FreeOf, BlockAt
<1>8. Forest(g, lv, {})
  BY <1>6 DEF Forest
<1>9. Chain(g, <<>>)
  BY <1>7 DEF Chain, Distinct
<1>10. lv \in [Nat -> Nat] /\ <<>> \in Seq(Nat)
  OBVIOUS
<1>11. Rooted(g, 1) /\ Full(g, 1)
  BY <1>1, <1>4, <1>6 DEF Rooted, Full, Loose
<1> HIDE DEF lv
<1>12. Standing(g, lv, <<>>, {}, 1)
  BY <1>5, <1>8, <1>9, <1>10, <1>11 DEF Standing, Woods
<1>13. Within(g, 2)
  BY <1>4 DEF Within
<1>14. QED
  BY <1>7, <1>12, <1>13 DEF g, h, b, lv

\* A queued write reaches the file.
LEMMA WriteBlockShape == IInv /\ ShapeInv /\ WriteBlock => ShapeInv'
<1> SUFFICES ASSUME IInv, ShapeInv, WriteBlock PROVE ShapeInv'
  OBVIOUS
<1>1. PICK f, lv, s : Shape(f, lv, s)
  BY DEF ShapeInv
<1>2. writes \in Seq(Writes) /\ writes # <<>>
  BY DEF IInv, CallInv, WriteBlock
<1>3. disk' = Put(disk, writes[1].addr, writes[1].block) /\ writes' = Tail(writes)
  BY DEF WriteBlock, Put
<1>4. After(f, disk', writes') /\ Ordered(writes')
  BY <1>1, <1>2, <1>3, AfterFirst, OrderedTail DEF Shape
<1>5. pc \notin {"closed", "idle", "search", "scan"}
  BY <1>1, <1>2 DEF Shape
<1>6. UNCHANGED <<file_size, pc, op, path, rv>>
  BY DEF WriteBlock
<1>7. Tree(f, lv, s) => Tree(f, lv, s)'
  BY <1>6 DEF Tree, Hole, Apex, NewChild, Updating, Top
<1>8. Shape(f, lv, s)'
  BY <1>1, <1>4, <1>5, <1>6, <1>7 DEF Shape
<1>9. QED
  BY <1>8 DEF ShapeInv

\* A step after which the same is in memory and on file.
LEMMA StutterShape == ShapeInv /\ UNCHANGED vars => ShapeInv'
<1> SUFFICES ASSUME ShapeInv, UNCHANGED vars PROVE ShapeInv'
  OBVIOUS
<1>1. PICK f, lv, s : Shape(f, lv, s)
  BY DEF ShapeInv
<1>2. UNCHANGED <<disk, file_size, pc, op, path, rv, writes>>
  BY DEF vars
<1>3. Tree(f, lv, s) => Tree(f, lv, s)'
  BY <1>2 DEF Tree, Hole, Apex, NewChild, Updating, Top
<1>4. Shape(f, lv, s)'
  BY <1>1, <1>2, <1>3 DEF Shape
<1>5. QED
  BY <1>4 DEF ShapeInv

\* Opening and closing the file, and returning.
LEMMA OpenNewShape == IInv /\ OpenNew => ShapeInv'
<1> SUFFICES ASSUME IInv, OpenNew PROVE ShapeInv'
  OBVIOUS
<1> DEFINE h  == Header(1, 0)
           b  == Leaf(<<>>, <<>>, 0)
           lv == [a \in Nat |-> 0]
<1>1. PICK g : g = Put(Put(disk, 0, h), 1, b)
  OBVIOUS
<1>2. Standing(g, lv, <<>>, {}, 1) /\ RootOf(g) = 1 /\ Within(g, 2)
  <2>1. DOMAIN disk = {}
    BY DEF OpenNew
  <2>2. LET k == Put(Put(disk, 0, Header(1, 0)), 1, Leaf(<<>>, <<>>, 0))
        IN  Standing(k, [a \in Nat |-> 0], <<>>, {}, 1) /\ RootOf(k) = 1 /\ Within(k, 2)
    BY <2>1, NewFile
  <2>3. QED
    BY <1>1, <2>2
<1>3. pc' = "return" /\ file_size' = 2 /\ writes' = <<W(0, h), W(1, b)>> /\ disk' = disk
  BY DEF OpenNew
<1>4. IsLive(W(0, h).block) => IsLive(W(1, b).block)
  BY LiveTags DEF W
<1> HIDE DEF h, b, lv
<1>5. After(g, disk', writes') /\ Ordered(writes')
  BY <1>1, <1>3, <1>4, AfterTwo, OrderedTwo
<1>6. QED
  BY <1>2, <1>3, <1>5, CallOver

LEMMA AtCallShape ==
  IInv /\ ShapeInv /\ (OpenExisting \/ Close \/ Return \/ \E o \in Ops : Call(o)) => ShapeInv'
<1> SUFFICES ASSUME IInv, ShapeInv,
                    OpenExisting \/ Close \/ Return \/ \E o \in Ops : Call(o)
             PROVE  ShapeInv'
  OBVIOUS
<1>1. PICK f, lv, s : Shape(f, lv, s)
  BY DEF ShapeInv
<1>2. /\ writes = <<>> /\ writes' = <<>> /\ disk' = disk /\ rv' = rv
      /\ pc \in {"closed", "idle", "return"}
  BY DEF OpenExisting, Close, Return, Call, At
<1>3. disk = [a \in DOMAIN disk |-> disk[a]]
  BY DEF IInv, DiskInv
<1>4. f = disk
  BY <1>1, <1>2, <1>3, AfterNone DEF Shape
<1>5. After(f, disk', writes') /\ Ordered(writes')
  BY <1>1, <1>2 DEF Shape
<1>6. ASSUME DOMAIN f # {}
      PROVE  /\ Standing(f, lv, s, {}, RootOf(f)) /\ File(f) /\ 0 \in DOMAIN f
             /\ lv \in [Nat -> Nat]
  <2>1. Tree(f, lv, s)
    BY <1>1, <1>6 DEF Shape
  <2>2. Standing(f, lv, s, {}, RootOf(f))
    BY <1>2, <1>4, <2>1, TreeFound
  <2>3. QED
    BY <2>2 DEF Standing, Woods, File
<1>7. CASE OpenExisting
  <2>1. PICK last \in DOMAIN disk : /\ \A a \in DOMAIN disk : a <= last
                                    /\ file_size' = last + 1
    BY <1>7 DEF OpenExisting
  <2>2. Within(f, file_size')
    BY <1>4, <2>1 DEF Within, IInv, DiskInv
  <2>3. pc' = "return" /\ DOMAIN f # {}
    BY <1>4, <1>7, <2>1 DEF OpenExisting
  <2>4. QED
    BY <1>5, <1>6, <2>2, <2>3, CallOver
<1>8. CASE Close
  <2>1. pc' = "closed"
    BY <1>8 DEF Close
  <2>2. Hole' = {} /\ Apex(f)' = RootOf(f) /\ ~Updating'
    BY <2>1 DEF Hole, Apex, Updating
  <2>3. DOMAIN f # {} => Tree(f, lv, s)'
    BY <1>6, <2>1, <2>2 DEF Tree, NewChild
  <2>4. Shape(f, lv, s)'
    BY <1>2, <1>5, <2>1, <2>3 DEF Shape
  <2>5. QED
    BY <2>4 DEF ShapeInv
<1>9. CASE Return
  <2>1. pc' = "idle" /\ pc = "return" /\ file_size' = file_size
    BY <1>9 DEF Return, At
  <2>2. Hole' = {} /\ Apex(f)' = RootOf(f) /\ ~Updating'
    BY <2>1 DEF Hole, Apex, Updating
  <2>3. DOMAIN f # {} => Tree(f, lv, s)'
    BY <1>6, <2>1, <2>2 DEF Tree, NewChild
  <2>4. Shape(f, lv, s)'
    BY <1>1, <1>2, <1>5, <2>1, <2>3 DEF Shape
  <2>5. QED
    BY <2>4 DEF ShapeInv
<1>10. ASSUME NEW o \in Ops, Call(o) PROVE ShapeInv'
  <2>1. /\ pc' = "search" /\ pc = "idle" /\ file_size' = file_size
        /\ path' = <<Frame(root_ptr)>>
    BY <1>10 DEF Call, At
  <2>2. Hole' = {} /\ Apex(f)' = RootOf(f)
    BY <2>1 DEF Hole, Apex
  <2>3. 0 \in DOMAIN f /\ Within(f, file_size)
    BY <1>1, <2>1 DEF Shape
  <2>4. Standing(f, lv, s, {}, RootOf(f)) /\ File(f) /\ lv \in [Nat -> Nat]
    BY <1>6, <2>3
  <2>5. OnPath(f, lv, path')
    <3> DEFINE fr == Frame(root_ptr)
    <3>1. RootOf(f) \in Live(f) /\ Live(f) \subseteq Nat
      BY <2>4, HeaderOf DEF Standing, Rooted
    <3>2. fr.addr = RootOf(f) /\ fr.block = f[RootOf(f)]
      BY <1>4, <3>1, Pointers DEF Frame, Read, Live
    <3> HIDE DEF fr
    <3>3. Len(path') = 1 /\ path'[1] = fr
      BY <2>1 DEF fr
    <3>4. lv[RootOf(f)] \in Nat
      BY <2>4, <3>1
    <3>5. \A j \in 1..Len(path') : j = 1
      BY <3>3
    <3>6. QED
      BY <3>1, <3>2, <3>3, <3>4, <3>5 DEF OnPath, Like
  <2>6. Tree(f, lv, s)'
    BY <2>1, <2>2, <2>4, <2>5 DEF Tree, NewChild
  <2>7. Shape(f, lv, s)'
    BY <1>2, <1>5, <2>1, <2>3, <2>6 DEF Shape
  <2>8. QED
    BY <2>7 DEF ShapeInv
<1>11. QED
  BY <1>7, <1>8, <1>9, <1>10

\* What every handler finds: a tree in the file.
LEMMA HandlerFinds ==
  ASSUME IInv, ShapeInv, writes = <<>>, pc \notin {"closed", "set_root"}
  PROVE  /\ \E lv, s : Tree(disk, lv, s) /\ Standing(disk, lv, s, Hole, RootOf(disk))
         /\ disk = [a \in DOMAIN disk |-> disk[a]]
         /\ file_size \in Nat /\ file_size # 0 /\ Within(disk, file_size)
         /\ 0 \in DOMAIN disk
BY AtRest, TreeFound

\* A handler that is done and writes nothing.
LEMMA NothingWritten ==
  ASSUME IInv, ShapeInv, pc \in {"search", "scan"}, writes = <<>>,
         NEW r, Finish(r, <<>>), file_size' = file_size
  PROVE  ShapeInv' /\ KeepsBooks
<1>1. PICK lv, s : Standing(disk, lv, s, Hole, RootOf(disk))
  BY HandlerFinds
<1>2. Hole = {} /\ Within(disk, file_size) /\ disk = [a \in DOMAIN disk |-> disk[a]]
  BY HandlerFinds DEF Hole
<1>3. PICK g : g = disk
  OBVIOUS
<1>4. /\ Standing(g, lv, s, {}, RootOf(g)) /\ Within(g, file_size')
      /\ After(g, disk', writes') /\ Ordered(writes') /\ pc' = "return"
  BY <1>1, <1>2, <1>3, AfterSame, OrderedNone DEF Finish
<1>5. ShapeInv'
  BY <1>4, CallOver
<1>6. KeepsBooks
  <2>1. UNCHANGED <<disk, file_size, writes>>
    BY DEF Finish
  <2>2. QED
    BY <1>4, <2>1, QuietBooks
<1>7. QED
  BY <1>5, <1>6

LEMMA LookupShape ==
  IInv /\ ShapeInv /\ (Get \/ InsertDuplicate \/ DeleteMissing) => ShapeInv'
<1> SUFFICES ASSUME IInv, ShapeInv, Get \/ InsertDuplicate \/ DeleteMissing PROVE ShapeInv'
  OBVIOUS
<1>1. /\ pc = "search" /\ writes = <<>> /\ file_size' = file_size
      /\ \E r : Finish(r, <<>>)
  BY DEF Get, InsertDuplicate, DeleteMissing, AtLeaf, At
<1>2. QED
  BY <1>1, NothingWritten

\* A step down, or along the leaves, that remembers only the node it reads.
LEMMA StillSearching ==
  ASSUME IInv, ShapeInv, pc \in {"search", "scan"}, pc' \in {"search", "scan"},
         writes = <<>>, UNCHANGED <<disk, file_size, op, writes>>,
         \A lv, s : Tree(disk, lv, s) /\ Updating' => OnPath(disk, lv, path')
  PROVE  ShapeInv'
<1>1. PICK lv, s : Tree(disk, lv, s) /\ Standing(disk, lv, s, Hole, RootOf(disk))
  BY HandlerFinds
<1>2. Hole = {} /\ Within(disk, file_size) /\ disk = [a \in DOMAIN disk |-> disk[a]]
  BY HandlerFinds DEF Hole
<1>3. PICK g : g = disk
  OBVIOUS
<1>4. Hole' = {} /\ Apex(g)' = RootOf(g)
  BY DEF Hole, Apex
<1>5. Tree(g, lv, s)'
  BY <1>1, <1>2, <1>3, <1>4 DEF Tree, NewChild
<1>6. After(g, disk', writes') /\ Ordered(writes')
  BY <1>2, <1>3, AfterSame, OrderedNone
<1>7. Shape(g, lv, s)'
  BY <1>2, <1>3, <1>5, <1>6, HandlerFinds DEF Shape
<1>8. QED
  BY <1>7 DEF ShapeInv

LEMMA ScanLeafShape == IInv /\ ShapeInv /\ ScanLeaf => ShapeInv'
<1> SUFFICES ASSUME IInv, ShapeInv, ScanLeaf PROVE ShapeInv'
  OBVIOUS
<1>1. /\ pc \in {"search", "scan"} /\ writes = <<>> /\ file_size' = file_size
      /\ \/ \E r : Finish(r, <<>>)
         \/ pc' = "scan" /\ UNCHANGED <<disk, op, writes>>
  BY DEF ScanLeaf, AtLeaf, At
<1>2. CASE \E r : Finish(r, <<>>)
  BY <1>1, <1>2, NothingWritten
<1>3. CASE pc' = "scan" /\ UNCHANGED <<disk, op, writes>>
  <2>1. ~Updating'
    BY <1>3 DEF Updating
  <2>2. QED
    BY <1>1, <1>3, <2>1, StillSearching
<1>4. QED
  BY <1>1, <1>2, <1>3

\* One level down: the child is the node's on file.
LEMMA DescendShape == IInv /\ ShapeInv /\ Descend => ShapeInv'
<1> SUFFICES ASSUME IInv, ShapeInv, Descend PROVE ShapeInv'
  OBVIOUS
<1> DEFINE b    == Top.block
           i    == child_index(b)
           addr == b.values[i + 1]
           fr   == Frame(addr)
           down == [path EXCEPT ![Len(path)].i = i]
<1>1. /\ pc = "search" /\ pc' = "search" /\ writes = <<>> /\ b.tag = "node"
      /\ UNCHANGED <<disk, file_size, op, writes>>
  BY DEF Descend, At
<1>2. ASSUME NEW lv, NEW s, Tree(disk, lv, s), Updating' PROVE OnPath(disk, lv, path')
  <2>1. op.kind \in {"insert", "update", "delete"} /\ Updating
    BY <1>1, <1>2 DEF Updating
  <2>2. path' = Append(down, fr)
    BY <2>1 DEF Descend
  <2>3. /\ OnPath(disk, lv, path) /\ Len(path) \in Nat /\ Len(path) >= 1
        /\ Top.addr \in Inner(disk) /\ Branch(b) /\ Kids(b) = Kids(disk[Top.addr])
    BY <1>1, <1>2, <2>1, TopOnFile
  <2>4. /\ Forest(disk, lv, {}) /\ lv \in [Nat -> Nat] /\ Live(disk) \subseteq Nat
        /\ Rooted(disk, RootOf(disk))
    <3>1. Hole = {}
      BY <1>1 DEF Hole
    <3>2. QED
      BY <1>1, <1>2, <3>1, TreeFound
  <2>5. i \in 0..nkeys(b)
    <3>1. op \in Ops
      BY <1>1 DEF IInv, CallInv
    <3>2. op.k \in Int
      BY <2>1, <3>1, CallArguments
    <3>3. b \in Block
      BY <2>3 DEF Branch, Sound
    <3>4. search_node(b, op.k) \in 0..nkeys(b)
      BY <3>2, <3>3, SearchNodeRange
    <3>5. QED
      BY <2>1, <3>4 DEF child_index
  <2>6. addr \in Kids(b)
    <3> HIDE DEF i
    <3>1. /\ Len(b.values) = nkeys(b) + 1 /\ nkeys(b) \in Nat
          /\ \A j \in 1..Len(b.values) : b.values[j] \in Kids(b)
      BY <2>3, BranchArrays
    <3>2. i + 1 \in 1..Len(b.values)
      BY <2>5, <3>1
    <3>3. QED
      BY <3>1, <3>2
  <2>7. addr \in Live(disk) /\ lv[Top.addr] = lv[addr] + 1
    BY <2>3, <2>4, <2>6 DEF Forest
  <2>8. fr.addr = addr /\ Like(disk[addr], fr.block)
    BY <2>7 DEF Frame, Read, Live, Like
  <2> HIDE DEF fr, i
  <2>9. PICK n \in Nat : n = Len(path) /\ n >= 1
    BY <2>3
  <2>10. path \in Seq(Frames)
    BY DEF IInv, PathInv
  <2>11. Top.addr \in Nat /\ addr \in Nat
    BY <2>3, <2>4, <2>7, InnerLive
  <2> DEFINE f == [Top EXCEPT !.i = i]
  <2>12. f \in Frames /\ f.addr = Top.addr /\ f.block = b /\ f.i = i
    <3>1. Top \in Frames /\ nkeys(b) \in Nat
      BY <1>1, <2>3, TopFrame, BranchArrays
    <3>2. QED
      BY <2>5, <3>1 DEF Frames
  <2>13. down = [path EXCEPT ![n] = f]
    BY <2>9 DEF Top
  <2> HIDE DEF f, down
  <2>14. /\ down \in Seq(Frames) /\ Len(down) = n
         /\ \A j \in 1..n : down[j] = IF j = n THEN f ELSE path[j]
    <3>1. n \in 1..Len(path)
      BY <2>9
    <3>2. QED
      BY <2>9, <2>10, <2>12, <2>13, <3>1, ExceptSeq
  <2>15. fr \in Frames
    BY <1>1, <2>11, TopFrame, FrameRead DEF IInv, fr
  <2>16. /\ Len(path') = n + 1 /\ path'[n + 1] = fr
         /\ \A j \in 1..n : path'[j] = down[j]
    BY <2>2, <2>14, <2>15, AppendProperties
  <2>17. ASSUME NEW j \in 1..n
         PROVE  /\ path'[j].addr = path[j].addr /\ path'[j].block = path[j].block
                /\ j < n => path'[j].i = path[j].i
                /\ j = n => path'[j].i = i
    <3>1. Top = path[n]
      BY <2>9 DEF Top
    <3>2. QED
      BY <2>12, <2>14, <2>16, <3>1
  <2> DEFINE root == RootOf(disk)
  <2>18. ASSUME NEW j \in 1..(n + 1)
         PROVE  /\ path'[j].addr \in Live(disk) /\ Like(disk[path'[j].addr], path'[j].block)
                /\ lv[path'[j].addr] + j = lv[root] + 1
                /\ j < n + 1 => path'[j + 1].addr = path'[j].block.values[path'[j].i + 1]
    <3>1. CASE j = n + 1
      <4>1. lv[Top.addr] + n = lv[root] + 1
        <5>1. n \in 1..Len(path)
          BY <2>9
        <5>2. QED
          BY <2>3, <2>9, <5>1 DEF OnPath, Top
      <4>2. lv[addr] \in Nat /\ lv[root] \in Nat /\ lv[Top.addr] \in Nat
        BY <2>4, <2>7, <2>11 DEF Rooted
      <4>3. lv[addr] + (n + 1) = lv[root] + 1
        BY <2>7, <2>9, <4>1, <4>2, SMTT(30)
      <4>4. QED
        BY <2>7, <2>8, <2>16, <3>1, <4>3
    <3>2. CASE j \in 1..n
      <4>1. j \in 1..Len(path)
        BY <2>9, <3>2
      <4>2. /\ path[j].addr \in Live(disk) /\ Like(disk[path[j].addr], path[j].block)
            /\ lv[path[j].addr] + j = lv[root] + 1
            /\ j < n => path[j + 1].addr = path[j].block.values[path[j].i + 1]
        BY <2>3, <2>9, <4>1 DEF OnPath
      <4>3. ASSUME j < n PROVE path'[j + 1].addr = path'[j].block.values[path'[j].i + 1]
        <5>1. j + 1 \in 1..n
          BY <2>9, <4>3
        <5>2. QED
          BY <2>17, <3>2, <4>2, <4>3, <5>1
      <4>4. ASSUME j = n PROVE path'[j + 1].addr = path'[j].block.values[path'[j].i + 1]
        <5>1. path[n].block = b
          BY <2>9 DEF Top
        <5>2. QED
          BY <2>8, <2>16, <2>17, <3>2, <4>4, <5>1
      <4>5. QED
        BY <2>9, <2>17, <3>2, <4>2, <4>3, <4>4
    <3>3. QED
      BY <2>9, <3>1, <3>2
  <2>19. path'[1].addr = root
    <3>1. 1 \in 1..n /\ path # <<>>
      BY <2>9
    <3>2. QED
      BY <2>3, <2>17, <3>1 DEF OnPath
  <2>20. QED
    BY <2>16, <2>18, <2>19 DEF OnPath
<1>3. QED
  BY <1>1, <1>2, StillSearching

-----------------------------------------------------------------------------
(* Steps that write a leaf *)

\* A handler that is done when it has written the leaf b over the one it read.
LEMMA LeafFinish ==
  ASSUME IInv, ShapeInv, pc = "search", Updating, writes = <<>>, Top.block.tag = "leaf",
         NEW b, Sound(b), b.tag = "leaf", Top.addr # RootOf(disk) => HasEnough(b),
         NEW r, Finish(r, <<W(Top.addr, b)>>), file_size' = file_size
  PROVE  ShapeInv' /\ KeepsBooks
<1>1. PICK lv, s : Tree(disk, lv, s) /\ Standing(disk, lv, s, Hole, RootOf(disk))
  BY HandlerFinds
<1>2. Hole = {} /\ Within(disk, file_size)
  BY HandlerFinds DEF Hole
<1>3. Top.addr \in Live(disk) /\ disk[Top.addr].tag = "leaf"
  BY <1>1, TopOnFile
<1>4. PICK x : x = Top.addr
  OBVIOUS
<1>5. PICK g : g = Put(disk, x, b)
  OBVIOUS
<1>6. Standing(g, lv, s, {}, RootOf(g)) /\ DOMAIN g = DOMAIN disk
  <2>3. /\ Standing(disk, lv, s, {}, RootOf(disk))
        /\ x \in Live(disk) /\ disk[x].tag = "leaf" /\ Sound(b) /\ b.tag = "leaf"
        /\ x # RootOf(disk) => HasEnough(b)
    BY <1>1, <1>2, <1>3, <1>4
  <2>1. LET k == Put(disk, x, b)
        IN  /\ Standing(k, lv, s, {}, RootOf(disk)) /\ RootOf(k) = RootOf(disk)
            /\ Live(k) = Live(disk) /\ DOMAIN k = DOMAIN disk /\ k[x] = b
            /\ Unmoved(disk, k, {x})
    BY <2>3, LeafWritten
  <2>2. QED
    BY <1>5, <2>1
<1>7. /\ pc' = "return" /\ Within(g, file_size')
      /\ After(g, disk', writes') /\ Ordered(writes')
  <2>1. Within(g, file_size')
    BY <1>2, <1>6 DEF Within
  <2>2. disk' = disk /\ writes' = <<W(x, b)>> /\ pc' = "return"
    BY <1>4 DEF Finish
  <2>3. QED
    BY <1>5, <2>1, <2>2, AfterOne, OrderedOne
<1>8. ShapeInv'
  BY <1>6, <1>7, CallOver
<1>9. KeepsBooks
  <2>1. KidsIn(disk[x]) = {} /\ Pending = {}
    BY <1>3, <1>4 DEF KidsIn, Pending
  <2>2. x \in Live(disk) /\ Finish(r, <<W(x, b)>>)
    BY <1>3, <1>4
  <2>3. QED
    BY <2>1, <2>2, OverBooks
<1>10. QED
  BY <1>8, <1>9

\* update_leaf, insert_leaf with room, delete_leaf without underflow.
LEMMA LeafShape ==
  IInv /\ ShapeInv /\ (UpdateLeaf \/ InsertLeaf \/ DeleteFromLeaf) => ShapeInv' /\ KeepsBooks
<1> SUFFICES ASSUME IInv, ShapeInv, UpdateLeaf \/ InsertLeaf \/ DeleteFromLeaf PROVE ShapeInv' /\ KeepsBooks
  OBVIOUS
<1> DEFINE b == Top.block
           i == search_leaf(b, op.k)
<1>1. /\ pc = "search" /\ writes = <<>> /\ b.tag = "leaf" /\ file_size' = file_size
      /\ op.kind \in {"insert", "update", "delete"}
  BY DEF UpdateLeaf, InsertLeaf, DeleteFromLeaf, AtInsertLeaf, AtDeleteLeaf, AtLeaf, At
<1>2. Updating
  BY <1>1 DEF Updating
<1>3. /\ Sound(b) /\ i \in 0..nkeys(b) /\ nkeys(b) \in Nat
      /\ Found(b, op.k) => i \in 0..(nkeys(b) - 1)
  BY <1>1, LeafAtHand, SoundArrays
<1>4. /\ Top.addr # RootOf(disk) => HasEnough(b)
      /\ AtRoot => Top.addr = RootOf(disk)
  <2>1. PICK lv, s : Tree(disk, lv, s)
    BY <1>1, HandlerFinds
  <2>2. QED
    BY <1>2, <2>1, TopOnFile
<1>5. MIN_NKEYS_LEAF \in Nat
  BY Minima
<1>6. CASE UpdateLeaf
  <2> DEFINE n == update_leaf(b, i, op.v)
  <2>1. CASE Packable(op.v)
    <3>1. Sound(n) /\ n.tag = "leaf"
      BY <1>1, <1>3, <1>6, <2>1, PackableNat, UpdateLeafSound DEF UpdateLeaf
    <3>2. nkeys(n) = nkeys(b)
      BY <1>3 DEF update_leaf, nkeys, Sound, Block
    <3>3. Finish(Done, <<W(Top.addr, n)>>)
      BY <1>6, <2>1 DEF UpdateLeaf
    <3>4. Top.addr # RootOf(disk) => HasEnough(n)
      BY <1>1, <1>4, <3>1, <3>2 DEF HasEnough
    <3> HIDE DEF n
    <3>5. QED
      BY <1>1, <1>2, <3>1, <3>3, <3>4, LeafFinish
  <2>2. CASE ~Packable(op.v)
    <3>1. Finish(Raised, <<>>)
      BY <1>6, <2>2 DEF UpdateLeaf
    <3>2. QED
      BY <1>1, <3>1, NothingWritten
  <2>3. QED
    BY <2>1, <2>2
<1>7. CASE InsertLeaf
  <2> DEFINE n == leaf_insert(b, i, op.k, op.v)
  <2>1. CASE Fits
    <3>1. op.k \in Nat /\ op.v \in Nat /\ nkeys(b) < MAX_NKEYS
      BY <1>7, <2>1, PackableNat DEF InsertLeaf, Fits
    <3>2. Sound(n) /\ n.tag = "leaf" /\ nkeys(n) = nkeys(b) + 1
      BY <1>1, <1>3, <3>1, LeafInsertSound
    <3>3. Finish(Done, <<W(Top.addr, n)>>)
      BY <1>7, <2>1 DEF InsertLeaf
    <3> HIDE DEF n
    <3>4. Top.addr # RootOf(disk) => HasEnough(n)
      BY <1>1, <1>3, <1>4, <1>5, <3>2 DEF HasEnough
    <3>5. QED
      BY <1>1, <1>2, <3>2, <3>3, <3>4, LeafFinish
  <2>2. CASE ~Fits
    <3>1. Finish(Raised, <<>>)
      BY <1>7, <2>2 DEF InsertLeaf
    <3>2. QED
      BY <1>1, <3>1, NothingWritten
  <2>3. QED
    BY <2>1, <2>2
<1>8. CASE DeleteFromLeaf
  <2>1. AtDeleteLeaf
    BY <1>8 DEF DeleteFromLeaf
  <2>2. Sound(popped_leaf) /\ popped_leaf.tag = "leaf"
    BY <2>1, PoppedLeaf
  <2>3. Finish(Done, <<W(Top.addr, popped_leaf)>>)
    BY <1>8 DEF DeleteFromLeaf
  <2>4. Top.addr # RootOf(disk) => HasEnough(popped_leaf)
    BY <1>4, <1>8, <2>2 DEF DeleteFromLeaf, HasEnough
  <2>5. QED
    BY <1>1, <1>2, <2>2, <2>3, <2>4, LeafFinish
<1>9. QED
  BY <1>6, <1>7, <1>8

\* insert_leaf that raises when it has a new node: the node is lost, the tree
\* is what it was.
LEMMA InsertLeafSplitRaisesShape == IInv /\ ShapeInv /\ InsertLeafSplitRaises => ShapeInv'
<1> SUFFICES ASSUME IInv, ShapeInv, InsertLeafSplitRaises PROVE ShapeInv'
  OBVIOUS
<1>1. /\ pc = "search" /\ writes = <<>> /\ file_size' = new_size
      /\ Finish(Raised, new_node_writes)
  BY DEF InsertLeafSplitRaises, AtInsertLeaf, AtLeaf, At
<1>2. PICK lv, s : Standing(disk, lv, s, Hole, RootOf(disk))
  BY <1>1, HandlerFinds
<1>3. /\ Hole = {} /\ Within(disk, file_size) /\ file_size \in Nat /\ file_size # 0
      /\ disk = [a \in DOMAIN disk |-> disk[a]]
  BY <1>1, HandlerFinds DEF Hole
<1>4. /\ \E q \in Seq(Nat) : Standing(Taken(disk), lv, q, {}, RootOf(disk))
      /\ RootOf(Taken(disk)) = RootOf(disk) /\ DOMAIN Taken(disk) = DOMAIN disk
      /\ Within(disk, FreshSize(disk, file_size))
  BY <1>2, <1>3, StandingTaken
<1>5. PICK g : g = Taken(disk)
  OBVIOUS
<1>6. PICK q : Standing(g, lv, q, {}, RootOf(g))
  BY <1>4, <1>5
<1>7. Within(g, file_size')
  BY <1>1, <1>4, <1>5, Pointers DEF Within
<1>8. After(g, disk', writes') /\ Ordered(writes') /\ pc' = "return"
  BY <1>1, <1>3, <1>5, TakenWritten DEF Finish
<1>9. QED
  BY <1>6, <1>7, <1>8, CallOver

-----------------------------------------------------------------------------
(* Splits, and what they hand to the level above *)

\* ReturnSplit, of a block that was split in two.
LEMMA SplitShape ==
  ASSUME IInv, Updating, NEW lv, NEW s, Tree(disk, lv, s), pc \in {"search", "insert_up"},
         NEW g, NEW m \in [Nat -> Nat], NEW q, Standing(g, m, q, {}, RootOf(disk)),
         SplitDone(disk, lv, RootOf(disk), Top.addr, new_addr, g, m), Within(g, new_size),
         NEW k, NEW ws, After(g, disk, ws), Ordered(ws), ReturnSplit(new_addr, k, ws)
  PROVE  ShapeInv'
<1>1. /\ disk' = disk /\ writes' = ws /\ file_size' = new_size /\ rv'.addr = new_addr
      /\ AtRoot => pc' = "new_root" /\ path' = path
      /\ ~AtRoot => pc' = "insert_up" /\ path' = Front(path)
  BY DEF ReturnSplit, SplitOff
<1>2. /\ After(g, disk', writes') /\ Ordered(writes') /\ Within(g, file_size')
  BY <1>1
<1>3. /\ m[new_addr] = lv[Top.addr] /\ \A a \in Live(disk) : m[a] = lv[a]
      /\ new_addr \in Live(g) /\ Loose(g, new_addr) /\ new_addr # RootOf(disk)
      /\ Top.addr \in Live(g) /\ HasEnough(g[Top.addr])
      /\ RootOf(g) = RootOf(disk) /\ Unmoved(disk, g, {Top.addr})
  BY DEF SplitDone
<1>4. Standing(g, m, q, {}, RootOf(g))
  BY <1>3
<1>5. /\ OnPath(disk, lv, path) /\ Len(path) \in Nat /\ Top.addr \in Live(disk)
      /\ AtRoot => Top.addr = RootOf(disk)
  BY TopOnFile
<1>6. CASE AtRoot
  <2>1. Top'.addr = Top.addr /\ Top.addr = RootOf(g)
    BY <1>1, <1>3, <1>5, <1>6 DEF Top
  <2>2. m[rv'.addr] = m[Top'.addr] /\ HasEnough(g[Top'.addr])
    BY <1>1, <1>3, <1>5, <2>1
  <2>3. QED
    BY <1>1, <1>2, <1>3, <1>4, <1>6, <2>1, <2>2, ChildForRoot
<1>7. CASE ~AtRoot
  <2>1. /\ Len(path) >= 2 /\ Parent.addr \in Live(disk)
        /\ lv[Parent.addr] = lv[Top.addr] + 1
    BY <1>7, ParentOnFile, InnerLive
  <2>2. /\ Len(path') = Len(path) - 1 /\ Top' = Parent
        /\ \A j \in 1..Len(path') :
              /\ path'[j].addr = path[j].addr /\ path'[j].i = path[j].i
              /\ Like(path[j].block, path'[j].block)
    BY <1>1, <1>7, FrontKept
  <2>3. lv \in [Nat -> Nat] /\ Live(disk) \subseteq Nat
    <3>1. pc # "set_root"
      OBVIOUS
    <3>2. QED
      BY <3>1, TreeFound
  <2>4. OnPath(g, m, path')
    <3> DEFINE X == {Top.addr}
    <3>1. \A x \in X : lv[x] = lv[path[Len(path)].addr]
      BY DEF Top
    <3>2. Unmoved(disk, g, X)
      BY <1>3
    <3> HIDE DEF X
    <3>3. QED
      BY <1>3, <1>5, <2>1, <2>2, <2>3, <3>1, <3>2, PathKept
  <2>5. Orphans(g, m, RootOf(g), Top'.addr, {rv'.addr})
    <3>1. m[Top'.addr] = m[rv'.addr] + 1
      BY <1>1, <1>3, <2>1, <2>2
    <3>2. QED
      BY <1>1, <1>3, <3>1 DEF Orphans
  <2>6. QED
    BY <1>1, <1>2, <1>4, <1>7, <2>4, <2>5, ChildForParent
<1>8. QED
  BY <1>6, <1>7

\* insert_leaf on a full leaf.
LEMMA InsertLeafSplitShape == IInv /\ ShapeInv /\ InsertLeafSplit => ShapeInv' /\ KeepsBooks
<1> SUFFICES ASSUME IInv, ShapeInv, InsertLeafSplit PROVE ShapeInv' /\ KeepsBooks
  OBVIOUS
<1> DEFINE b == Top.block
           i == search_leaf(b, op.k)
           sp == split_leaf(b, i, op.k, op.v, new_addr)
           ws == new_node_writes \o <<W(Top.addr, sp.old), W(new_addr, sp.new)>>
<1>1. /\ pc = "search" /\ writes = <<>> /\ b.tag = "leaf" /\ nkeys(b) >= MAX_NKEYS /\ Fits
      /\ op.kind \in {"insert", "update"} /\ ReturnSplit(new_addr, sp.new.keys[1], ws)
  BY DEF InsertLeafSplit, AtInsertLeaf, AtLeaf, At
<1>2. Updating
  BY <1>1 DEF Updating
<1>3. Sound(b) /\ i \in 0..nkeys(b) /\ nkeys(b) \in Nat
  BY <1>1, LeafAtHand, SoundArrays
<1>4. op.k \in Nat /\ op.v \in Nat
  BY <1>1, PackableNat DEF Fits
<1>5. PICK lv, s : Tree(disk, lv, s) /\ Standing(disk, lv, s, Hole, RootOf(disk))
  BY <1>1, HandlerFinds
<1>6. /\ Hole = {} /\ Within(disk, file_size) /\ file_size \in Nat /\ file_size # 0
      /\ disk = [a \in DOMAIN disk |-> disk[a]]
  BY <1>1, HandlerFinds DEF Hole
<1>7. Top.addr \in Live(disk) /\ disk[Top.addr].tag = "leaf" /\ Top.addr # 0
  BY <1>1, <1>2, <1>5, TopOnFile, LeafAtHand
<1>8. /\ new_addr = Fresh(disk, file_size) /\ new_size = FreshSize(disk, file_size)
      /\ new_addr \in Nat /\ new_addr # 0 /\ new_addr # Top.addr
  <2>1. Standing(disk, lv, s, {}, RootOf(disk))
    BY <1>5, <1>6
  <2>2. /\ Fresh(disk, file_size) \in Nat /\ Fresh(disk, file_size) # 0
        /\ Fresh(disk, file_size) \notin Live(disk)
    BY <1>6, <2>1, StandingTaken
  <2>3. QED
    BY <1>7, <2>2, Pointers
<1>9. /\ Sound(sp.old) /\ sp.old.tag = "leaf" /\ HasEnough(sp.old)
      /\ Sound(sp.new) /\ sp.new.tag = "leaf" /\ HasEnough(sp.new)
  <2> HIDE DEF b, i, sp, ws
  <2>1. /\ Sound(b) /\ b.tag = "leaf" /\ nkeys(b) = MAX_NKEYS /\ i \in 0..nkeys(b)
        /\ op.k \in Nat /\ op.v \in Nat /\ new_addr \in Nat
    <3>1. nkeys(b) <= MAX_NKEYS /\ nkeys(b) \in Nat /\ nkeys(b) >= MAX_NKEYS
      BY <1>1, <1>3 DEF Sound, Fitting
    <3>2. nkeys(b) = MAX_NKEYS
      <4>1. \A m, n \in Nat : m <= n /\ m >= n => m = n
        OBVIOUS
      <4>2. MAX_NKEYS \in Nat
        BY MaxNkeysAssumption
      <4>3. QED
        BY ONLY <3>1, <4>1, <4>2
    <3>3. QED
      BY <1>1, <1>3, <1>4, <1>8, <3>2
  <2>2. LET t == split_leaf(b, i, op.k, op.v, new_addr)
        IN  /\ Sound(t.old) /\ t.old.tag = "leaf" /\ nkeys(t.old) >= MIN_NKEYS_LEAF
            /\ Sound(t.new) /\ t.new.tag = "leaf" /\ nkeys(t.new) >= MIN_NKEYS_LEAF
            /\ t.new.keys[1] \in Nat
    BY <2>1, SplitLeafFull
  <2>3. QED
    BY <2>2 DEF HasEnough, sp
<1>10. PICK x, o, c : x = Top.addr /\ o = sp.old /\ c = sp.new
  OBVIOUS
<1> HIDE DEF sp
<1>11. PICK g : g = Split(disk, x, o, new_addr, c)
  OBVIOUS
<1>12. After(g, disk, ws) /\ Ordered(ws)
  <2>1. LET vs == new_node_writes \o <<W(x, o), W(new_addr, c)>>
        IN  After(Split(disk, x, o, new_addr, c), disk, vs) /\ Ordered(vs)
    BY <1>6, <1>7, <1>8, <1>9, <1>10, SplitWritten DEF IsLive
  <2>2. QED
    BY <1>10, <1>11, <2>1
<1>13. PICK m \in [Nat -> Nat], r \in Seq(Nat) :
        /\ Standing(g, m, r, {}, RootOf(disk))
        /\ SplitDone(disk, lv, RootOf(disk), x, new_addr, g, m)
        /\ Within(g, new_size)
  <2>1. /\ Standing(disk, lv, s, {}, RootOf(disk))
        /\ file_size \in Nat /\ file_size # 0 /\ Within(disk, file_size)
        /\ x \in Live(disk) /\ disk[x].tag = "leaf"
        /\ Sound(o) /\ o.tag = "leaf" /\ HasEnough(o)
        /\ Sound(c) /\ c.tag = "leaf" /\ HasEnough(c)
    BY <1>5, <1>6, <1>7, <1>9, <1>10
  <2>2. LET n == Fresh(disk, file_size)
            h == Split(disk, x, o, n, c)
        IN  /\ \E mm \in [Nat -> Nat], rr \in Seq(Nat) :
                  Standing(h, mm, rr, {}, RootOf(disk)) /\ SplitDone(disk, lv, RootOf(disk), x, n, h, mm)
            /\ Within(h, FreshSize(disk, file_size))
    BY <2>1, LeafSplit
  <2>3. QED
    BY <1>8, <1>11, <2>2
<1>14. PICK k : ReturnSplit(new_addr, k, ws)
  BY <1>1
<1> HIDE DEF ws
<1>15. ShapeInv'
  BY <1>1, <1>2, <1>5, <1>10, <1>12, <1>13, <1>14, SplitShape
<1>16. KeepsBooks
  <2>1. KidsIn(disk[x]) = {} /\ Pending = {}
    BY <1>1, <1>7, <1>10 DEF KidsIn, Pending
  <2>2. /\ Standing(disk, lv, s, {}, RootOf(disk))
        /\ x \in Live(disk) /\ RootOf(g) = RootOf(disk)
    BY <1>5, <1>6, <1>7, <1>10, <1>13 DEF SplitDone
  <2>3. QED
    BY <1>1, <1>11, <1>12, <1>14, <2>1, <2>2, SplitOverBooks
<1>17. QED
  BY <1>15, <1>16

\* What insert_node finds: a node with a new block for a child.
LEMMA NodeToChange ==
  ASSUME IInv, ShapeInv, pc = "insert_up", writes = <<>>, Top.block.tag = "node"
  PROVE  /\ Updating /\ Within(disk, file_size) /\ file_size \in Nat /\ file_size # 0
         /\ disk = [a \in DOMAIN disk |-> disk[a]]
         /\ \E lv, s : /\ Tree(disk, lv, s) /\ Standing(disk, lv, s, {}, RootOf(disk))
                       /\ Orphans(disk, lv, RootOf(disk), Top.addr, {rv.addr})
         /\ Top.addr \in Inner(disk) /\ Top.addr \in Nat /\ Top.addr # 0
         /\ Branch(Top.block) /\ Kids(Top.block) = Kids(disk[Top.addr])
         /\ Top.addr # RootOf(disk) => HasEnough(Top.block)
         /\ Top.i \in 0..nkeys(Top.block) /\ nkeys(Top.block) \in Nat
         /\ rv.addr \in Nat /\ rv.key \in Nat /\ rv.addr \notin Kids(Top.block)
<1>1. Updating
  BY DEF Updating
<1>2. PICK lv, s : Tree(disk, lv, s) /\ Standing(disk, lv, s, Hole, RootOf(disk))
  BY HandlerFinds
<1>3. /\ Hole = {} /\ Within(disk, file_size) /\ file_size \in Nat /\ file_size # 0
      /\ disk = [a \in DOMAIN disk |-> disk[a]]
  BY HandlerFinds DEF Hole
<1>4. Orphans(disk, lv, RootOf(disk), Top.addr, {rv.addr})
  BY <1>2 DEF Tree, NewChild
<1>5. /\ Top.addr \in Inner(disk) /\ Branch(Top.block)
      /\ Kids(Top.block) = Kids(disk[Top.addr])
      /\ Top.addr # RootOf(disk) => HasEnough(Top.block)
  BY <1>1, <1>2, TopOnFile
<1>6. Top.addr \in Nat /\ Top.addr # 0 /\ Top.i \in 0..nkeys(Top.block)
  BY TopFrame
<1>7. rv.addr \in Nat /\ rv.key \in Nat
  BY DEF IInv, CallInv, ReturnValues
<1>8. rv.addr \notin Kids(Top.block)
  BY <1>4, <1>5 DEF Orphans, Loose
<1>9. nkeys(Top.block) \in Nat
  BY <1>5, BranchArrays
<1>10. QED
  BY <1>1, <1>2, <1>3, <1>4, <1>5, <1>6, <1>7, <1>8, <1>9

\* insert_node with room.
LEMMA InsertNodeShape == IInv /\ ShapeInv /\ InsertNode => ShapeInv' /\ KeepsBooks
<1> SUFFICES ASSUME IInv, ShapeInv, InsertNode PROVE ShapeInv' /\ KeepsBooks
  OBVIOUS
<1> DEFINE b == Top.block
           n == node_insert(b, Top.i, Top.i + 1, rv.key, rv.addr)
<1>1. /\ pc = "insert_up" /\ writes = <<>> /\ b.tag = "node" /\ nkeys(b) < MAX_NKEYS
      /\ Finish(Done, <<W(Top.addr, n)>>) /\ file_size' = file_size
  BY DEF InsertNode, At
<1>2. /\ Within(disk, file_size) /\ disk = [a \in DOMAIN disk |-> disk[a]]
      /\ \E lv, s : /\ Tree(disk, lv, s) /\ Standing(disk, lv, s, {}, RootOf(disk))
                    /\ Orphans(disk, lv, RootOf(disk), Top.addr, {rv.addr})
      /\ Top.addr \in Inner(disk)
      /\ Branch(b) /\ Kids(b) = Kids(disk[Top.addr])
      /\ Top.addr # RootOf(disk) => HasEnough(b)
      /\ Top.i \in 0..nkeys(b) /\ nkeys(b) \in Nat
      /\ rv.addr \in Nat /\ rv.key \in Nat /\ rv.addr \notin Kids(b)
  BY <1>1, NodeToChange
<1>3. PICK lv, s : /\ Tree(disk, lv, s) /\ Standing(disk, lv, s, {}, RootOf(disk))
                   /\ Orphans(disk, lv, RootOf(disk), Top.addr, {rv.addr})
  BY <1>2
<1> HIDE DEF b
<1>4. Branch(n) /\ Kids(n) = Kids(b) \cup {rv.addr} /\ nkeys(n) = nkeys(b) + 1
  <2>1. /\ Branch(b) /\ nkeys(b) < MAX_NKEYS /\ Top.i \in 0..nkeys(b)
        /\ Top.i + 1 \in 0..(nkeys(b) + 1) /\ rv.key \in Nat /\ rv.addr \in Nat
        /\ rv.addr \notin Kids(b)
    BY <1>1, <1>2
  <2>2. LET t == node_insert(b, Top.i, Top.i + 1, rv.key, rv.addr)
        IN  Branch(t) /\ Kids(t) = Kids(b) \cup {rv.addr} /\ nkeys(t) = nkeys(b) + 1
    BY <2>1, NodeInsertKids
  <2>3. QED
    BY <2>2
<1> HIDE DEF n
<1>5. PICK x, C : x = Top.addr /\ C = {rv.addr}
  OBVIOUS
<1>6. nkeys(n) >= 1 /\ (x # RootOf(disk) => HasEnough(n))
  <2>1. nkeys(n) >= 1 /\ nkeys(n) \in Nat /\ nkeys(n) = nkeys(b) + 1
    BY <1>2, <1>4
  <2>2. n.tag = "node" /\ b.tag = "node"
    BY <1>1, <1>4 DEF Branch
  <2>3. QED
    BY <1>2, <1>5, <2>1, <2>2, Minima DEF HasEnough
<1>7. PICK g : g = Put(disk, x, n)
  OBVIOUS
<1>8. Standing(g, lv, s, {}, RootOf(g)) /\ DOMAIN g = DOMAIN disk
  <2>1. /\ Standing(disk, lv, s, {}, RootOf(disk))
        /\ x \in Inner(disk) /\ Branch(n)
        /\ x # RootOf(disk) => HasEnough(n)
        /\ x = RootOf(disk) => nkeys(n) >= 1
        /\ Kids(n) \subseteq Kids(disk[x]) \cup C
        /\ Orphans(disk, lv, RootOf(disk), x, C)
    BY <1>2, <1>3, <1>4, <1>5, <1>6
  <2>2. LET k == Put(disk, x, n)
        IN  /\ Standing(k, lv, s, {}, RootOf(disk)) /\ RootOf(k) = RootOf(disk)
            /\ Live(k) = Live(disk) /\ Inner(k) = Inner(disk) /\ DOMAIN k = DOMAIN disk
            /\ k[x] = n /\ Unmoved(disk, k, {x})
    BY <2>1, NodeWritten
  <2>3. QED
    BY <1>7, <2>2
<1>9. /\ pc' = "return" /\ Within(g, file_size') /\ After(g, disk', writes') /\ Ordered(writes')
  <2>1. Within(g, file_size')
    BY <1>1, <1>2, <1>8 DEF Within
  <2>2. disk' = disk /\ writes' = <<W(x, n)>> /\ pc' = "return"
    BY <1>1, <1>5 DEF Finish
  <2>3. QED
    BY <1>7, <2>1, <2>2, AfterOne, OrderedOne
<1>10. ShapeInv'
  BY <1>8, <1>9, CallOver
<1>11. KeepsBooks
  <2>1. KidsIn(disk[x]) \subseteq Kids(b) /\ Pending = {rv.addr}
    BY <1>1, <1>2, <1>5 DEF KidsIn, Pending
  <2>2. KidsIn(n) = Kids(b) \cup {rv.addr}
    BY <1>4 DEF KidsIn, Branch
  <2>3. x \in Live(disk) /\ Finish(Done, <<W(x, n)>>)
    BY <1>1, <1>2, <1>5, InnerLive
  <2>4. QED
    BY <1>1, <2>1, <2>2, <2>3, OverBooks
<1>12. QED
  BY <1>10, <1>11

\* insert_node on a full node.
LEMMA InsertNodeSplitShape == IInv /\ ShapeInv /\ InsertNodeSplit => ShapeInv' /\ KeepsBooks
<1> SUFFICES ASSUME IInv, ShapeInv, InsertNodeSplit PROVE ShapeInv' /\ KeepsBooks
  OBVIOUS
<1> DEFINE b  == Top.block
           sp == split_node(b, Top.i, rv.key, rv.addr)
           ws == new_node_writes \o <<W(Top.addr, sp.old), W(new_addr, sp.new)>>
<1>1. /\ pc = "insert_up" /\ writes = <<>> /\ b.tag = "node" /\ nkeys(b) >= MAX_NKEYS
      /\ ReturnSplit(new_addr, sp.key, ws)
  BY DEF InsertNodeSplit, At
<1>2. /\ Updating /\ Within(disk, file_size) /\ file_size \in Nat /\ file_size # 0
      /\ disk = [a \in DOMAIN disk |-> disk[a]]
      /\ \E lv, s : /\ Tree(disk, lv, s) /\ Standing(disk, lv, s, {}, RootOf(disk))
                    /\ Orphans(disk, lv, RootOf(disk), Top.addr, {rv.addr})
      /\ Top.addr \in Inner(disk) /\ Top.addr # 0
      /\ Branch(b) /\ Kids(b) = Kids(disk[Top.addr])
      /\ Top.i \in 0..nkeys(b) /\ nkeys(b) \in Nat
      /\ rv.addr \in Nat /\ rv.key \in Nat /\ rv.addr \notin Kids(b)
  BY <1>1, NodeToChange
<1>3. PICK lv, s : /\ Tree(disk, lv, s) /\ Standing(disk, lv, s, {}, RootOf(disk))
                   /\ Orphans(disk, lv, RootOf(disk), Top.addr, {rv.addr})
  BY <1>2
<1> HIDE DEF b
<1>4. /\ Branch(sp.old) /\ nkeys(sp.old) >= MIN_NKEYS_NODE
      /\ Branch(sp.new) /\ nkeys(sp.new) >= MIN_NKEYS_NODE
      /\ Kids(sp.old) \cup Kids(sp.new) = Kids(b) \cup {rv.addr}
      /\ Kids(sp.old) \cap Kids(sp.new) = {}
  <2>1. nkeys(b) = MAX_NKEYS
    <3>1. nkeys(b) <= MAX_NKEYS /\ nkeys(b) \in Nat /\ nkeys(b) >= MAX_NKEYS
      BY <1>1, <1>2 DEF Branch, Sound, Fitting
    <3>2. \A m, n \in Nat : m <= n /\ m >= n => m = n
      OBVIOUS
    <3>3. MAX_NKEYS \in Nat
      BY MaxNkeysAssumption
    <3>4. QED
      BY ONLY <3>1, <3>2, <3>3
  <2>2. /\ Branch(b) /\ nkeys(b) = MAX_NKEYS /\ Top.i \in 0..nkeys(b)
        /\ rv.key \in Nat /\ rv.addr \in Nat /\ rv.addr \notin Kids(b)
    BY <1>2, <2>1
  <2>3. LET t == split_node(b, Top.i, rv.key, rv.addr)
        IN  /\ Branch(t.old) /\ nkeys(t.old) >= MIN_NKEYS_NODE
            /\ Branch(t.new) /\ nkeys(t.new) >= MIN_NKEYS_NODE
            /\ Kids(t.old) \cup Kids(t.new) = Kids(b) \cup {rv.addr}
            /\ Kids(t.old) \cap Kids(t.new) = {}
            /\ t.key \in Nat
    BY <2>2, SplitNodeKids
  <2>4. QED
    BY <2>3
<1>5. PICK x, o, c, y : x = Top.addr /\ o = sp.old /\ c = sp.new /\ y = rv.addr
  OBVIOUS
<1> HIDE DEF sp
<1>6. /\ Branch(o) /\ HasEnough(o) /\ nkeys(o) >= 1 /\ IsLive(o)
      /\ Branch(c) /\ HasEnough(c) /\ IsLive(c)
  <2>1. o.tag = "node" /\ c.tag = "node"
    BY <1>4, <1>5 DEF Branch
  <2>2. nkeys(o) \in Nat /\ nkeys(o) >= MIN_NKEYS_NODE
    BY <1>4, <1>5, BranchArrays
  <2>3. nkeys(o) >= 1
    BY <2>2, Minima
  <2>4. QED
    BY <1>4, <1>5, <2>1, <2>3 DEF HasEnough, IsLive
<1>7. /\ new_addr = Fresh(disk, file_size) /\ new_size = FreshSize(disk, file_size)
      /\ new_addr # 0 /\ new_addr # x
  <2>1. /\ Fresh(disk, file_size) # 0 /\ Fresh(disk, file_size) \notin Live(disk)
    BY <1>2, <1>3, StandingTaken
  <2>2. x \in Live(disk)
    BY <1>2, <1>5, InnerLive
  <2>3. QED
    BY <2>1, <2>2, Pointers
<1>8. PICK g : g = Split(disk, x, o, new_addr, c)
  OBVIOUS
<1>9. After(g, disk, ws) /\ Ordered(ws)
  <2>1. LET vs == new_node_writes \o <<W(x, o), W(new_addr, c)>>
        IN  After(Split(disk, x, o, new_addr, c), disk, vs) /\ Ordered(vs)
    BY <1>2, <1>5, <1>6, <1>7, SplitWritten
  <2>2. QED
    BY <1>5, <1>8, <2>1
<1>10. PICK m \in [Nat -> Nat], r \in Seq(Nat) :
        /\ Standing(g, m, r, {}, RootOf(disk))
        /\ SplitDone(disk, lv, RootOf(disk), x, new_addr, g, m)
        /\ Within(g, new_size)
  <2>1. /\ Standing(disk, lv, s, {}, RootOf(disk))
        /\ file_size \in Nat /\ file_size # 0 /\ Within(disk, file_size)
        /\ x \in Inner(disk) /\ Orphans(disk, lv, RootOf(disk), x, {y})
        /\ Branch(o) /\ HasEnough(o) /\ nkeys(o) >= 1 /\ Branch(c) /\ HasEnough(c)
        /\ Kids(o) \cup Kids(c) = Kids(disk[x]) \cup {y} /\ Kids(o) \cap Kids(c) = {}
    BY <1>2, <1>3, <1>4, <1>5, <1>6
  <2>2. LET n == Fresh(disk, file_size)
            h == Split(disk, x, o, n, c)
        IN  /\ \E mm \in [Nat -> Nat], rr \in Seq(Nat) :
                  Standing(h, mm, rr, {}, RootOf(disk)) /\ SplitDone(disk, lv, RootOf(disk), x, n, h, mm)
            /\ Within(h, FreshSize(disk, file_size))
    BY <2>1, NodeSplit
  <2>3. QED
    BY <1>7, <1>8, <2>2
<1>11. PICK k : ReturnSplit(new_addr, k, ws)
  BY <1>1
<1> HIDE DEF ws
<1>12. ShapeInv'
  BY <1>1, <1>2, <1>3, <1>5, <1>9, <1>10, <1>11, SplitShape
<1>13. KeepsBooks
  <2>1. KidsIn(disk[x]) \subseteq Kids(b) /\ Pending = {rv.addr}
    BY <1>1, <1>2, <1>5 DEF KidsIn, Pending
  <2>2. KidsIn(o) \cup KidsIn(c) = Kids(b) \cup {rv.addr}
    BY <1>4, <1>5 DEF KidsIn, Branch
  <2>3. x \in Live(disk) /\ RootOf(g) = RootOf(disk)
    BY <1>2, <1>5, <1>10, InnerLive DEF SplitDone
  <2>4. QED
    BY <1>1, <1>3, <1>8, <1>9, <1>11, <2>1, <2>2, <2>3, SplitOverBooks
<1>14. QED
  BY <1>12, <1>13

\* insert above a split root (btree.py:378-384).
LEMMA NewRootShape == IInv /\ ShapeInv /\ NewRoot => ShapeInv' /\ KeepsBooks
<1> SUFFICES ASSUME IInv, ShapeInv, NewRoot PROVE ShapeInv' /\ KeepsBooks
  OBVIOUS
<1> DEFINE b  == Node(<<rv.key>>, <<Top.addr, rv.addr>>)
           ws == new_node_writes \o <<W(new_addr, b)>>
<1>1. /\ pc = "new_root" /\ writes = <<>> /\ pc' = "set_root" /\ disk' = disk
      /\ rv'.addr = new_addr /\ writes' = ws /\ file_size' = new_size
  BY DEF NewRoot, At, NewRootAt
<1>2. PICK lv, s : Tree(disk, lv, s) /\ Standing(disk, lv, s, Hole, RootOf(disk))
  BY <1>1, HandlerFinds
<1>3. /\ Hole = {} /\ Within(disk, file_size) /\ file_size \in Nat /\ file_size # 0
      /\ disk = [a \in DOMAIN disk |-> disk[a]]
  BY <1>1, HandlerFinds DEF Hole
<1>4. PICK t, y : t = Top.addr /\ y = rv.addr
  OBVIOUS
<1>5. /\ t = RootOf(disk) /\ HasEnough(disk[t])
      /\ y \in Live(disk) /\ Loose(disk, y) /\ y # t /\ lv[y] = lv[t]
  BY <1>1, <1>2, <1>4 DEF Tree, NewChild
<1>6. t \in Nat /\ y \in Nat /\ rv.key \in Nat
  BY <1>1, <1>4, TopFrame DEF IInv, CallInv, ReturnValues
<1>7. Branch(b) /\ nkeys(b) = 1 /\ Kids(b) = {t, y} /\ IsLive(b)
  <2> DEFINE ks == <<rv.key>>
             vs == <<t, y>>
  <2>1. ks \in Seq(Nat) /\ Len(ks) = 1 /\ vs \in Seq(Nat) /\ Len(vs) = 2
        /\ vs[1] = t /\ vs[2] = y
    BY <1>6
  <2>2. b = Node(ks, vs)
    BY <1>4
  <2> HIDE DEF ks, vs, b
  <2>3. Len(ks) <= MAX_NKEYS /\ Len(vs) = Len(ks) + 1
    BY <2>1, MaxNkeysAssumption
  <2>4. Sound(Node(ks, vs)) /\ Node(ks, vs).tag = "node" /\ nkeys(Node(ks, vs)) = 1
    BY <2>1, <2>3, NodeSound
  <2>5. b.values = vs
    BY <2>2 DEF Node
  <2>6. \A i \in 1..Len(vs) : i = 1 \/ i = 2
    BY <2>1
  <2>7. 1 \in 1..Len(vs) /\ 2 \in 1..Len(vs)
    BY <2>1
  <2>8. Members(vs) = {t, y}
    BY <2>1, <2>6, <2>7 DEF Members
  <2>9. Distinct(vs)
    BY <1>5, <2>1, <2>6 DEF Distinct
  <2>10. QED
    BY <2>2, <2>4, <2>5, <2>8, <2>9 DEF Branch, Kids, IsLive
<1> HIDE DEF b
<1>8. /\ new_addr = Fresh(disk, file_size) /\ new_size = FreshSize(disk, file_size)
      /\ new_addr # 0
  <2>1. Standing(disk, lv, s, {}, RootOf(disk))
    BY <1>2, <1>3
  <2>2. Fresh(disk, file_size) # 0
    BY <1>3, <2>1, StandingTaken
  <2>3. QED
    BY <2>2, Pointers
<1>9. PICK g : g = Put(Taken(disk), new_addr, b)
  OBVIOUS
<1>10. After(g, disk, ws) /\ Ordered(ws)
  <2>1. LET vs == new_node_writes \o <<W(new_addr, b)>>
        IN  After(Put(Taken(disk), new_addr, b), disk, vs) /\ Ordered(vs)
    BY <1>3, <1>7, <1>8, NewBlockWritten
  <2>2. QED
    BY <1>9, <2>1
<1> HIDE DEF ws
<1>11. PICK m, r : Standing(g, m, r, {}, new_addr) /\ Within(g, new_size)
  <2>1. /\ Standing(disk, lv, s, {}, t) /\ HasEnough(disk[t])
        /\ file_size \in Nat /\ file_size # 0 /\ Within(disk, file_size)
        /\ y \in Live(disk) /\ Loose(disk, y) /\ lv[y] = lv[t]
        /\ Branch(b) /\ nkeys(b) = 1 /\ Kids(b) = {t, y}
    BY <1>2, <1>3, <1>5, <1>7
  <2>2. LET n == Fresh(disk, file_size)
            h == Put(Taken(disk), n, b)
        IN  /\ \E mm \in [Nat -> Nat], rr \in Seq(Nat) : Standing(h, mm, rr, {}, n)
            /\ RootOf(h) = RootOf(disk) /\ Within(h, FreshSize(disk, file_size))
    BY <2>1, TopAdded
  <2>3. QED
    BY <1>8, <1>9, <2>2
<1>12. ShapeInv'
  BY <1>1, <1>10, <1>11, RootToSet
<1>13. KeepsBooks
  <2>1. Standing(disk, lv, s, {}, RootOf(disk))
    BY <1>2, <1>3
  <2>2. RootOf(disk) \in KidsIn(b) /\ rv.addr \in KidsIn(b)
    BY <1>4, <1>5, <1>7 DEF KidsIn, Branch
  <2>3. QED
    BY <1>1, <1>9, <1>10, <2>1, <2>2, TopBooks
<1>14. QED
  BY <1>12, <1>13

\* set_root.
LEMMA SetRootShape == IInv /\ ShapeInv /\ SetRoot => ShapeInv' /\ KeepsBooks
<1> SUFFICES ASSUME IInv, ShapeInv, SetRoot PROVE ShapeInv' /\ KeepsBooks
  OBVIOUS
<1>1. /\ pc = "set_root" /\ writes = <<>> /\ pc' = "return" /\ disk' = disk
      /\ writes' = set_root_writes(rv.addr) /\ file_size' = file_size
  BY DEF SetRoot, At, Finish
<1>2. PICK lv, s : Tree(disk, lv, s)
  BY <1>1, AtRest
<1>3. Within(disk, file_size)
  BY <1>1, AtRest
<1>4. Standing(disk, lv, s, {}, rv.addr)
  <2>1. Hole = {} /\ Apex(disk) = rv.addr
    BY <1>1 DEF Hole, Apex
  <2>2. QED
    BY <1>2, <2>1 DEF Tree
<1>5. PICK r \in Nat : r = rv.addr
  BY DEF IInv, CallInv, ReturnValues
<1>6. PICK g, h : h = Header(r, FreeOf(disk)) /\ g = Put(disk, 0, h)
  OBVIOUS
<1>7. Standing(g, lv, s, {}, RootOf(g)) /\ DOMAIN g = DOMAIN disk
  <2>1. LET k == Put(disk, 0, Header(r, FreeOf(disk)))
        IN  Standing(k, lv, s, {}, r) /\ RootOf(k) = r /\ DOMAIN k = DOMAIN disk
    BY <1>4, <1>5, RootSet
  <2>2. QED
    BY <1>6, <2>1
<1>8. writes' = <<W(0, h)>>
  BY <1>1, <1>5, <1>6, Pointers DEF set_root_writes
<1>9. After(g, disk', writes') /\ Ordered(writes')
  BY <1>1, <1>6, <1>8, AfterOne, OrderedOne
<1>10. Within(g, file_size')
  BY <1>1, <1>3, <1>7 DEF Within
<1>11. ShapeInv'
  BY <1>1, <1>7, <1>9, <1>10, CallOver
<1>12. KeepsBooks
  <2>1. RootOf(g) = r
    <3>1. LET k == Put(disk, 0, Header(r, FreeOf(disk)))
          IN  Standing(k, lv, s, {}, r) /\ RootOf(k) = r /\ DOMAIN k = DOMAIN disk
      BY <1>4, <1>5, RootSet
    <3>2. QED
      BY <1>6, <3>1
  <2>2. QED
    BY <1>1, <1>4, <1>5, <1>6, <1>7, <1>9, <2>1, HeaderBooks
<1>13. QED
  BY <1>11, <1>12

-----------------------------------------------------------------------------
(* Deletion, back at a node *)

\* A node of which only a key has changed.
LEMMA WriteModifiedNodeShape == IInv /\ ShapeInv /\ WriteModifiedNode => ShapeInv' /\ KeepsBooks
<1> SUFFICES ASSUME IInv, ShapeInv, WriteModifiedNode PROVE ShapeInv' /\ KeepsBooks
  OBVIOUS
<1> DEFINE b == Top.block
<1>1. /\ pc = "delete_up" /\ writes = <<>> /\ rv.ind = None /\ file_size' = file_size
      /\ Finish(Done, <<W(Top.addr, b)>>)
  BY DEF WriteModifiedNode, At
<1>2. Updating /\ b.tag = "node"
  BY <1>1, TopFrame DEF Updating
<1>3. PICK lv, s : Tree(disk, lv, s) /\ Standing(disk, lv, s, Hole, RootOf(disk))
  BY <1>1, HandlerFinds
<1>4. /\ Hole = {} /\ Within(disk, file_size) /\ disk = [a \in DOMAIN disk |-> disk[a]]
  BY <1>1, HandlerFinds DEF Hole
<1>5. PICK x : x = Top.addr
  OBVIOUS
<1>6. /\ x \in Inner(disk) /\ Branch(b) /\ Kids(b) = Kids(disk[x])
      /\ x # RootOf(disk) => HasEnough(b)
      /\ Like(disk[x], b)
  BY <1>2, <1>3, <1>5, TopOnFile
<1>7. x = RootOf(disk) => nkeys(b) >= 1
  <2>1. Rooted(disk, RootOf(disk)) /\ disk[x].tag = "node" /\ nkeys(b) = nkeys(disk[x])
    BY <1>3, <1>6, Minimum DEF Standing, Inner
  <2>2. QED
    BY <2>1 DEF Rooted
<1> HIDE DEF b
<1>8. PICK g : g = Put(disk, x, b)
  OBVIOUS
<1>9. Standing(g, lv, s, {}, RootOf(g)) /\ DOMAIN g = DOMAIN disk
  <2>1. PICK C : C = {}
    OBVIOUS
  <2>2. /\ Standing(disk, lv, s, {}, RootOf(disk))
        /\ x \in Inner(disk) /\ Branch(b)
        /\ x # RootOf(disk) => HasEnough(b)
        /\ x = RootOf(disk) => nkeys(b) >= 1
        /\ Kids(b) \subseteq Kids(disk[x]) \cup C
        /\ Orphans(disk, lv, RootOf(disk), x, C)
    BY <1>3, <1>4, <1>6, <1>7, <2>1 DEF Orphans
  <2>3. LET k == Put(disk, x, b)
        IN  /\ Standing(k, lv, s, {}, RootOf(disk)) /\ RootOf(k) = RootOf(disk)
            /\ Live(k) = Live(disk) /\ Inner(k) = Inner(disk) /\ DOMAIN k = DOMAIN disk
            /\ k[x] = b /\ Unmoved(disk, k, {x})
    BY <2>2, NodeWritten
  <2>4. QED
    BY <1>8, <2>3
<1>10. /\ pc' = "return" /\ Within(g, file_size') /\ After(g, disk', writes') /\ Ordered(writes')
  <2>1. Within(g, file_size')
    BY <1>1, <1>4, <1>9 DEF Within
  <2>2. disk' = disk /\ writes' = <<W(x, b)>> /\ pc' = "return"
    BY <1>1, <1>5 DEF Finish
  <2>3. QED
    BY <1>8, <2>1, <2>2, AfterOne, OrderedOne
<1>11. ShapeInv'
  BY <1>9, <1>10, CallOver
<1>12. KeepsBooks
  <2>1. KidsIn(disk[x]) \subseteq Kids(b) /\ Pending = {}
    BY <1>1, <1>6 DEF KidsIn, Pending
  <2>2. KidsIn(b) = Kids(b)
    BY <1>6 DEF KidsIn, Branch
  <2>3. x \in Live(disk) /\ Finish(Done, <<W(x, b)>>)
    BY <1>1, <1>5, <1>6, InnerLive
  <2>4. QED
    BY <1>1, <2>1, <2>2, <2>3, OverBooks
<1>13. QED
  BY <1>11, <1>12

\* What delete_node finds: a node with the hole a merge below has left, and what
\* it is without it.
LEMMA NodeWithHole ==
  ASSUME IInv, ShapeInv, AtDeleteNode
  PROVE  /\ Updating /\ pc = "delete_up" /\ Within(disk, file_size)
         /\ disk = [a \in DOMAIN disk |-> disk[a]]
         /\ \E lv, s, h : /\ Tree(disk, lv, s) /\ Standing(disk, lv, s, {h}, RootOf(disk))
                          /\ h \in Kids(disk[Top.addr]) /\ Hole = {h}
                          /\ Kids(popped_node) = Kids(disk[Top.addr]) \ {h}
         /\ Top.addr \in Inner(disk) /\ Top.addr # 0
         /\ Branch(popped_node) /\ nkeys(popped_node) \in Nat
         /\ AtRoot => Top.addr = RootOf(disk)
         /\ Top.addr # RootOf(disk) => nkeys(popped_node) + 1 >= MIN_NKEYS_NODE
<1> DEFINE b == Top.block
           i == rv.ind
<1>1. /\ pc = "delete_up" /\ writes = <<>> /\ rv.ind # None /\ b.tag = "node"
  BY DEF AtDeleteNode, At
<1>2. Updating
  BY <1>1 DEF Updating
<1>3. PICK lv, s : Tree(disk, lv, s) /\ Standing(disk, lv, s, Hole, RootOf(disk))
  BY <1>1, HandlerFinds
<1>4. /\ Within(disk, file_size) /\ disk = [a \in DOMAIN disk |-> disk[a]]
  BY <1>1, HandlerFinds
<1>5. /\ Top.addr \in Inner(disk) /\ Branch(b) /\ Kids(b) = Kids(disk[Top.addr])
      /\ AtRoot => Top.addr = RootOf(disk)
      /\ Top.addr # RootOf(disk) => HasEnough(b)
      /\ Hole = {b.values[i + 2]}
  BY <1>1, <1>2, <1>3, TopOnFile
<1>6. i \in Nat /\ i < nkeys(b)
  BY <1>1 DEF IInv, CallInv, ReturnValues
<1>7. Top.addr # 0
  BY <1>1, TopFrame
<1> HIDE DEF b, i
<1>8. nkeys(b) \in Nat
  BY <1>5, BranchArrays
<1>9. /\ Branch(popped_node) /\ nkeys(popped_node) = nkeys(b) - 1
      /\ Kids(popped_node) = Kids(b) \ {b.values[i + 2]} /\ b.values[i + 2] \in Kids(b)
  <2>1. Branch(b) /\ i \in 0..(nkeys(b) - 1) /\ i + 1 \in 0..nkeys(b)
    BY <1>5, <1>6, <1>8
  <2>2. LET n == node_pop(b, i, i + 1)
        IN  /\ Branch(n) /\ nkeys(n) = nkeys(b) - 1
            /\ Kids(n) = Kids(b) \ {b.values[i + 1 + 1]} /\ b.values[i + 1 + 1] \in Kids(b)
    BY <2>1, NodePopKids
  <2>3. i + 1 + 1 = i + 2
    BY <1>6
  <2>4. popped_node = node_pop(b, i, i + 1)
    BY DEF popped_node, b, i
  <2>5. QED
    BY <2>2, <2>3, <2>4
<1>10. PICK h : h = b.values[i + 2]
  OBVIOUS
<1>11. /\ Standing(disk, lv, s, {h}, RootOf(disk)) /\ h \in Kids(disk[Top.addr]) /\ Hole = {h}
       /\ Kids(popped_node) = Kids(disk[Top.addr]) \ {h}
  BY <1>3, <1>5, <1>9, <1>10
<1>12. /\ nkeys(popped_node) \in Nat
       /\ Top.addr # RootOf(disk) => nkeys(popped_node) + 1 >= MIN_NKEYS_NODE
  <2>1. b.tag = "node" => nkeys(b) >= MIN_NKEYS_NODE \/ Top.addr = RootOf(disk)
    BY <1>5 DEF HasEnough
  <2>2. nkeys(popped_node) \in Nat /\ nkeys(popped_node) + 1 = nkeys(b)
    BY <1>6, <1>8, <1>9
  <2>3. b.tag = "node"
    BY <1>5 DEF Branch
  <2>4. QED
    BY <2>1, <2>2, <2>3
<1>13. QED
  BY <1>1, <1>2, <1>3, <1>4, <1>5, <1>7, <1>9, <1>11, <1>12

\* A node that keeps enough keys.
LEMMA DeleteFromNodeShape == IInv /\ ShapeInv /\ DeleteFromNode => ShapeInv' /\ KeepsBooks
<1> SUFFICES ASSUME IInv, ShapeInv, DeleteFromNode PROVE ShapeInv' /\ KeepsBooks
  OBVIOUS
<1>1. /\ AtDeleteNode /\ file_size' = file_size /\ Finish(Done, <<W(Top.addr, popped_node)>>)
      /\ nkeys(popped_node) >= (IF AtRoot THEN 1 ELSE MIN_NKEYS_NODE)
  BY DEF DeleteFromNode
<1>2. PICK x, b : x = Top.addr /\ b = popped_node
  OBVIOUS
<1>3. /\ Within(disk, file_size) /\ x \in Inner(disk) /\ Branch(b) /\ nkeys(b) \in Nat
      /\ AtRoot => x = RootOf(disk)
  BY <1>1, <1>2, NodeWithHole
<1>4. PICK lv, s, h : /\ Standing(disk, lv, s, {h}, RootOf(disk))
                      /\ h \in Kids(disk[x]) /\ Kids(b) = Kids(disk[x]) \ {h}
                      /\ Hole = {h}
  BY <1>1, <1>2, NodeWithHole
<1>5. /\ x # RootOf(disk) => HasEnough(b)
      /\ nkeys(b) >= 1
  <2>1. b.tag = "node"
    BY <1>3 DEF Branch
  <2>2. QED
    BY <1>1, <1>2, <1>3, <2>1, Minima DEF HasEnough
<1>6. PICK g : g = Put(disk, x, b)
  OBVIOUS
<1>7. Standing(g, lv, s, {}, RootOf(g)) /\ DOMAIN g = DOMAIN disk
  <2>1. /\ Standing(disk, lv, s, {h}, RootOf(disk)) /\ x \in Inner(disk)
        /\ h \in Kids(disk[x]) /\ Branch(b)
        /\ x # RootOf(disk) => HasEnough(b)
        /\ x = RootOf(disk) => nkeys(b) >= 1
        /\ Kids(b) = Kids(disk[x]) \ {h}
    BY <1>3, <1>4, <1>5
  <2>2. LET k == Put(disk, x, b)
        IN  Standing(k, lv, s, {}, RootOf(disk)) /\ RootOf(k) = RootOf(disk) /\ DOMAIN k = DOMAIN disk
    BY <2>1, ChildDropped
  <2>3. QED
    BY <1>6, <2>2
<1>8. /\ pc' = "return" /\ Within(g, file_size') /\ After(g, disk', writes') /\ Ordered(writes')
  <2>1. Within(g, file_size')
    BY <1>1, <1>3, <1>7 DEF Within
  <2>2. disk' = disk /\ writes' = <<W(x, b)>> /\ pc' = "return"
    BY <1>1, <1>2 DEF Finish
  <2>3. QED
    BY <1>6, <2>1, <2>2, AfterOne, OrderedOne
<1>9. ShapeInv'
  BY <1>7, <1>8, CallOver
<1>10. KeepsBooks
  <2>1. pc = "delete_up" /\ writes = <<>>
    BY <1>1 DEF AtDeleteNode, At
  <2>2. KidsIn(disk[x]) \subseteq Kids(b) \cup Hole /\ Pending = {}
    BY <1>4, <2>1 DEF KidsIn, Pending
  <2>3. KidsIn(b) = Kids(b)
    BY <1>3 DEF KidsIn, Branch
  <2>4. x \in Live(disk) /\ Finish(Done, <<W(x, b)>>)
    BY <1>1, <1>2, <1>3, InnerLive
  <2>5. QED
    BY <1>1, <2>1, <2>2, <2>3, <2>4, OverBooks
<1>11. QED
  BY <1>9, <1>10

\* A root with one child left.
LEMMA ShrinkRootShape == IInv /\ ShapeInv /\ ShrinkRoot => ShapeInv' /\ KeepsBooks
<1> SUFFICES ASSUME IInv, ShapeInv, ShrinkRoot PROVE ShapeInv' /\ KeepsBooks
  OBVIOUS
<1>1. /\ AtDeleteNode /\ AtRoot /\ nkeys(popped_node) = 0 /\ pc' = "set_root"
      /\ rv'.addr = popped_node.values[1] /\ writes' = free_writes(Top.addr)
      /\ file_size' = file_size /\ disk' = disk
  BY DEF ShrinkRoot, NewRootAt
<1>2. PICK t, b : t = Top.addr /\ b = popped_node
  OBVIOUS
<1>3. /\ Within(disk, file_size) /\ t \in Inner(disk) /\ Branch(b) /\ t # 0
      /\ t = RootOf(disk)
  BY <1>1, <1>2, NodeWithHole
<1>4. PICK lv, s, h : /\ Standing(disk, lv, s, {h}, RootOf(disk))
                      /\ h \in Kids(disk[t]) /\ Kids(b) = Kids(disk[t]) \ {h}
                      /\ Hole = {h}
  BY <1>1, <1>2, NodeWithHole
<1>5. PICK c : c = b.values[1]
  OBVIOUS
<1>6. Kids(b) = {c}
  <2>1. Len(b.values) = 1
    <3>1. nkeys(b) = 0
      BY <1>1, <1>2
    <3>2. Len(b.values) = nkeys(b) + 1
      BY <1>3, BranchArrays
    <3>3. QED
      BY <3>1, <3>2
  <2>2. \A i \in 1..Len(b.values) : i = 1
    BY <2>1
  <2>3. 1 \in 1..Len(b.values)
    BY <2>1
  <2>4. QED
    BY <1>5, <2>2, <2>3 DEF Kids, Members
<1>7. Kids(disk[t]) = {h, c} /\ c # h
  BY <1>4, <1>6
<1>8. PICK g : g = Freed(disk, t)
  OBVIOUS
<1>9. PICK q : Standing(g, lv, q, {}, c) /\ DOMAIN g = DOMAIN disk
  <2>1. PICK H : H = {h}
    OBVIOUS
  <2>2. /\ H = {h} /\ Standing(disk, lv, s, H, t) /\ t \in Inner(disk)
        /\ h \in Kids(disk[t]) /\ c \in Kids(disk[t]) /\ c # h
        /\ (\A d \in Kids(disk[t]) : d = h \/ d = c)
        /\ g = Freed(disk, t)
    BY <1>3, <1>4, <1>7, <1>8, <2>1
  <2>3. \E r \in Seq(Nat) : Standing(g, lv, r, {}, c)
    BY <2>2, TopRemoved
  <2>4. DOMAIN g = DOMAIN disk
    <3>1. 0 \in DOMAIN disk /\ t \in DOMAIN disk
      BY <1>1, <1>3, PoppedNode DEF Inner
    <3>2. DOMAIN g = (DOMAIN disk \cup {0}) \cup {t}
      BY <1>8 DEF Freed, Put
    <3>3. QED
      BY <3>1, <3>2
  <2>5. QED
    BY <2>3, <2>4
<1>10. After(g, disk', writes') /\ Ordered(writes')
  BY <1>1, <1>2, <1>3, <1>8, FreedWritten
<1>11. Within(g, file_size') /\ rv'.addr = c
  BY <1>1, <1>2, <1>3, <1>5, <1>9 DEF Within
<1>12. ShapeInv'
  BY <1>1, <1>9, <1>10, <1>11, RootToSet
<1>13. KeepsBooks
  <2>1. pc = "delete_up" /\ writes = <<>>
    BY <1>1 DEF AtDeleteNode, At
  <2>2. KidsIn(disk[t]) \subseteq {h, c}
    BY <1>7 DEF KidsIn
  <2>3. PICK H : H = {h}
    OBVIOUS
  <2>4. Standing(disk, lv, s, H, t)
    BY <1>3, <1>4, <2>3
  <2>5. QED
    BY <1>1, <1>3, <1>4, <1>8, <1>9, <1>10, <1>11, <2>1, <2>2, <2>4, ShrinkBooks
<1>14. QED
  BY <1>12, <1>13

-----------------------------------------------------------------------------
(* Deletion, a node and its sibling *)

\* The stack a borrow leaves: only a key of the parent differs.
LEMMA BorrowKept ==
  ASSUME IInv, pc \in {"search", "delete_up"}, ~AtRoot,
         NEW ind \in Nat, ind < nkeys(Parent.block), NEW k \in Nat,
         NEW ws, ReturnBorrow(ind, k, ws)
  PROVE  /\ Len(path') = Len(path) - 1
         /\ \A j \in 1..Len(path') :
              /\ path'[j].addr = path[j].addr /\ path'[j].i = path[j].i
              /\ Like(path[j].block, path'[j].block)
<1> DEFINE n    == Len(path) - 1
           b    == [Parent.block EXCEPT !.keys[ind + 1] = k]
           f    == [Parent EXCEPT !.block = b]
           rest == Front(path)
<1>1. /\ rest \in Seq(Frames) /\ Len(rest) = n /\ n \in 1..Len(rest)
      /\ rest[n] = Parent
      /\ \A j \in 1..n : rest[j] = path[j]
  <2>1. n \in 1..n
    BY TopFrame, ParentFrame
  <2>2. QED
    BY <2>1, ParentFrame DEF Parent
<1>2. Parent \in Frames /\ Sound(Parent.block) /\ ind + 1 \in 1..nkeys(Parent.block)
  BY ParentFrame, SoundArrays
<1>3. Like(Parent.block, b) /\ Sound(b)
  <2>1. b.tag = Parent.block.tag /\ nkeys(b) = nkeys(Parent.block) /\ Sound(b)
    BY <1>2, KeyReplacedSound
  <2>2. b.values = Parent.block.values
    OBVIOUS
  <2>3. QED
    BY <2>1, <2>2 DEF Like
<1> HIDE DEF b
<1>4. f.addr = Parent.addr /\ f.i = Parent.i /\ f.block = b
  BY <1>2 DEF Frames
<1>5. f \in Frames
  <2>1. nkeys(b) = nkeys(Parent.block) /\ b.tag = Parent.block.tag
    BY <1>3 DEF Like
  <2>2. QED
    BY <1>2, <1>3, <2>1, SoundBlocksAreSound DEF Frames
<1>6. path' = [rest EXCEPT ![n] = f]
  BY <1>1 DEF ReturnBorrow, b
<1> HIDE DEF rest, f, n
<1>7. /\ Len(path') = Len(rest)
      /\ \A j \in 1..Len(rest) : path'[j] = IF j = n THEN f ELSE rest[j]
  BY <1>1, <1>5, <1>6, ExceptSeq
<1>8. \A j \in 1..n : /\ path'[j].addr = path[j].addr /\ path'[j].i = path[j].i
                      /\ Like(path[j].block, path'[j].block)
  <2> SUFFICES ASSUME NEW j \in 1..n
               PROVE  /\ path'[j].addr = path[j].addr /\ path'[j].i = path[j].i
                      /\ Like(path[j].block, path'[j].block)
    OBVIOUS
  <2>1. CASE j = n
    BY <1>1, <1>3, <1>4, <1>7, <2>1
  <2>2. CASE j # n
    BY <1>1, <1>7, <2>2 DEF Like
  <2>3. QED
    BY <2>1, <2>2
<1>9. QED
  BY <1>1, <1>7, <1>8 DEF n

\* ReturnBorrow, after an element moved between the node and its sibling y.
LEMMA BorrowShape ==
  ASSUME IInv, Updating, pc \in {"search", "delete_up"}, ~AtRoot, Within(disk, file_size),
         NEW lv, NEW s, Tree(disk, lv, s), NEW y, Sibling(lv, y), y # Top.addr,
         NEW b, NEW c, IsLive(c), NEW g, g = Put(Put(disk, y, b), Top.addr, c),
         Standing(g, lv, s, {}, RootOf(disk)), RootOf(g) = RootOf(disk),
         DOMAIN g = DOMAIN disk, Unmoved(disk, g, {Top.addr, y}),
         NEW ind \in Nat, ind < nkeys(Parent.block), NEW k \in Nat,
         ReturnBorrow(ind, k, <<W(y, b), W(Top.addr, c)>>)
  PROVE  ShapeInv'
<1>1. /\ pc' = "delete_up" /\ rv' = NoRv /\ disk' = disk /\ file_size' = file_size
      /\ writes' = <<W(y, b), W(Top.addr, c)>>
  BY DEF ReturnBorrow
<1>2. Hole' = {}
  BY <1>1 DEF Hole, NoRv
<1>3. After(g, disk', writes')
  BY <1>1, AfterTwo
<1>4. Ordered(writes')
  <2>1. IsLive(W(y, b).block) => IsLive(W(Top.addr, c).block)
    BY DEF W
  <2>2. QED
    BY <1>1, <2>1, OrderedTwo
<1>5. Within(g, file_size')
  BY <1>1 DEF Within
<1>6. /\ Len(path') = Len(path) - 1
      /\ \A j \in 1..Len(path') :
           /\ path'[j].addr = path[j].addr /\ path'[j].i = path[j].i
           /\ Like(path[j].block, path'[j].block)
  BY BorrowKept
<1>7. OnPath(g, lv, path')
  <2> DEFINE X == {Top.addr, y}
  <2>1. \A x \in X : lv[x] = lv[path[Len(path)].addr]
    BY DEF Top, Sibling
  <2>2. Unmoved(disk, g, X)
    OBVIOUS
  <2>3. lv \in [Nat -> Nat] /\ Live(disk) \subseteq Nat
    <3>1. pc # "set_root"
      OBVIOUS
    <3>2. QED
      BY <3>1, TreeFound
  <2>4. OnPath(disk, lv, path) /\ Len(path) \in Nat /\ Len(path) >= 2
    BY TopOnFile, ParentOnFile
  <2> HIDE DEF X
  <2>5. PICK p, r : p = path /\ r = path'
    OBVIOUS
  <2>6. /\ lv \in [Nat -> Nat] /\ OnPath(disk, lv, p) /\ Live(disk) \subseteq Nat
        /\ Len(p) \in Nat /\ Len(p) >= 2 /\ RootOf(g) = RootOf(disk)
        /\ Unmoved(disk, g, X) /\ (\A x \in X : lv[x] = lv[p[Len(p)].addr])
        /\ (\A a \in Live(disk) : lv[a] = lv[a])
        /\ Len(r) = Len(p) - 1
        /\ \A j \in 1..Len(r) :
             r[j].addr = p[j].addr /\ r[j].i = p[j].i /\ Like(p[j].block, r[j].block)
    BY <1>6, <2>1, <2>2, <2>3, <2>4, <2>5
  <2>7. OnPath(g, lv, r)
    BY ONLY <2>6, PathKept, ZenonT(90)
  <2>8. QED
    BY <2>5, <2>7
<1>8. Standing(g, lv, s, Hole', RootOf(g))
  BY <1>2
<1>9. QED
  BY <1>1, <1>3, <1>4, <1>5, <1>7, <1>8, ChangeForParent

\* ReturnMerge, after the node and its sibling became one block.
LEMMA MergeShape ==
  ASSUME IInv, Updating, pc \in {"search", "delete_up"}, ~AtRoot, Within(disk, file_size),
         NEW lv, NEW s, Tree(disk, lv, s),
         NEW left, left # 0, lv[left] = lv[Top.addr],
         NEW right, right # 0, lv[right] = lv[Top.addr], left # right,
         NEW b, IsLive(b), NEW g, g = Put(Freed(disk, right), left, b),
         NEW q, Standing(g, lv, q, {right}, RootOf(disk)), RootOf(g) = RootOf(disk),
         DOMAIN g = DOMAIN disk, Unmoved(disk, g, {left, right}),
         NEW ind \in Nat, right = Parent.block.values[ind + 2],
         ReturnMerge(ind, right, left, b)
  PROVE  ShapeInv'
<1>1. /\ pc' = "delete_up" /\ rv' = DelInd(ind) /\ disk' = disk /\ file_size' = file_size
      /\ writes' = Append(free_writes(right), W(left, b)) /\ path' = Front(path)
  BY DEF ReturnMerge
<1>2. /\ Len(path') = Len(path) - 1 /\ Top' = Parent
      /\ \A j \in 1..Len(path') :
           /\ path'[j].addr = path[j].addr /\ path'[j].i = path[j].i
           /\ Like(path[j].block, path'[j].block)
  BY <1>1, FrontKept
<1>3. Hole' = {right}
  <2>1. rv'.ind = ind /\ ind # None
    BY <1>1, NoneAssumption DEF DelInd
  <2>2. QED
    BY <1>1, <1>2, <2>1 DEF Hole
<1>4. After(g, disk', writes') /\ Ordered(writes')
  <2>1. LET ws == Append(free_writes(right), W(left, b))
        IN  After(Put(Freed(disk, right), left, b), disk, ws) /\ Ordered(ws)
    BY MergeWritten
  <2>2. QED
    BY <1>1, <2>1
<1>5. Within(g, file_size')
  BY <1>1 DEF Within
<1>6. OnPath(g, lv, path')
  <2> DEFINE X == {left, right}
  <2>1. \A x \in X : lv[x] = lv[path[Len(path)].addr]
    BY DEF Top
  <2>2. Unmoved(disk, g, X)
    OBVIOUS
  <2>3. lv \in [Nat -> Nat] /\ Live(disk) \subseteq Nat
    <3>1. pc # "set_root"
      OBVIOUS
    <3>2. QED
      BY <3>1, TreeFound
  <2>4. OnPath(disk, lv, path) /\ Len(path) \in Nat /\ Len(path) >= 2
    BY TopOnFile, ParentOnFile
  <2> HIDE DEF X
  <2>5. QED
    BY <1>2, <2>1, <2>2, <2>3, <2>4, PathKept
<1>7. Standing(g, lv, q, Hole', RootOf(g))
  BY <1>3
<1>8. QED
  BY <1>1, <1>4, <1>5, <1>6, <1>7, ChangeForParent

\* What delete_leaf finds when the leaf is short of a key: its siblings.
LEMMA LeafAndSiblings ==
  ASSUME IInv, ShapeInv, LeafUnderflows
  PROVE  /\ Updating /\ pc = "search" /\ Within(disk, file_size)
         /\ \E lv, s :
              /\ Tree(disk, lv, s) /\ Standing(disk, lv, s, {}, RootOf(disk))
              /\ has_left =>
                   /\ Sibling(lv, left_addr) /\ left_addr # Top.addr
                   /\ left_sib = disk[left_addr]
                   /\ Parent.block.values[Parent.i - 1 + 2] = Top.addr
              /\ has_right =>
                   /\ Sibling(lv, right_addr) /\ right_addr # Top.addr
                   /\ right_sib = disk[right_addr]
         /\ Top.addr \in Live(disk) /\ disk[Top.addr].tag = "leaf"
         /\ Top.addr # 0 /\ Top.addr # RootOf(disk)
         /\ Sound(popped_leaf) /\ popped_leaf.tag = "leaf"
         /\ nkeys(popped_leaf) \in Nat /\ nkeys(popped_leaf) + 1 >= MIN_NKEYS_LEAF
<1>1. /\ AtDeleteLeaf /\ ~AtRoot /\ pc = "search" /\ writes = <<>> /\ Found(Top.block, op.k)
      /\ Top.block.tag = "leaf" /\ op.kind = "delete"
  BY DEF LeafUnderflows, AtDeleteLeaf, AtLeaf, At
<1>2. Updating
  BY <1>1 DEF Updating
<1>3. PICK lv, s : Tree(disk, lv, s) /\ Standing(disk, lv, s, Hole, RootOf(disk))
  BY <1>1, HandlerFinds
<1>4. Hole = {} /\ Within(disk, file_size)
  BY <1>1, HandlerFinds DEF Hole
<1>5. /\ has_left =>
           /\ Sibling(lv, left_addr) /\ left_addr # Top.addr /\ left_sib = disk[left_addr]
           /\ Parent.block.values[Parent.i - 1 + 2] = Top.addr
      /\ has_right =>
           /\ Sibling(lv, right_addr) /\ right_addr # Top.addr
           /\ right_sib = disk[right_addr]
  BY <1>1, <1>2, <1>3, SiblingsOnFile
<1>6. /\ Top.addr \in Live(disk) /\ disk[Top.addr].tag = "leaf"
      /\ Top.addr # RootOf(disk) => HasEnough(Top.block)
  BY <1>1, <1>2, <1>3, TopOnFile
<1>7. Top.addr # RootOf(disk)
  BY <1>1, <1>2, <1>3, ParentOnFile DEF Sibling
<1>8. /\ Sound(popped_leaf) /\ popped_leaf.tag = "leaf" /\ nkeys(popped_leaf) \in Nat
      /\ Top.addr # 0
  BY <1>1, PoppedLeaf
<1>9. nkeys(popped_leaf) + 1 >= MIN_NKEYS_LEAF
  <2>1. /\ Sound(Top.block) /\ search_leaf(Top.block, op.k) \in 0..(nkeys(Top.block) - 1)
        /\ nkeys(Top.block) \in Nat
    BY <1>1, LeafAtHand, SoundArrays
  <2>2. nkeys(popped_leaf) = nkeys(Top.block) - 1
    BY <1>1, <2>1, LeafPopSound DEF popped_leaf
  <2>3. nkeys(Top.block) >= MIN_NKEYS_LEAF
    BY <1>1, <1>6, <1>7 DEF HasEnough
  <2>4. QED
    BY <2>1, <2>2, <2>3
<1>10. QED
  BY <1>1, <1>2, <1>3, <1>4, <1>5, <1>6, <1>7, <1>8, <1>9

\* Two leaves written over two leaves.
LEMMA TwoLeavesWritten ==
  ASSUME NEW f, NEW lv, NEW s, NEW t, Standing(f, lv, s, {}, t),
         NEW x \in Live(f), f[x].tag = "leaf", x # t,
         NEW y \in Live(f), f[y].tag = "leaf", y # t, x # y,
         NEW b, Sound(b), b.tag = "leaf", HasEnough(b),
         NEW c, Sound(c), c.tag = "leaf", HasEnough(c)
  PROVE  LET k == Put(Put(f, y, b), x, c)
         IN  /\ Standing(k, lv, s, {}, t) /\ RootOf(k) = RootOf(f)
             /\ DOMAIN k = DOMAIN f /\ Unmoved(f, k, {x, y})
<1> DEFINE g == Put(Put(f, y, b), x, c)
<1>1. PICK h : h = Put(f, y, b)
  OBVIOUS
<1>2. /\ Standing(h, lv, s, {}, t) /\ RootOf(h) = RootOf(f)
      /\ Live(h) = Live(f) /\ DOMAIN h = DOMAIN f /\ Unmoved(f, h, {y})
  <2>1. LET k == Put(f, y, b)
        IN  /\ Standing(k, lv, s, {}, t) /\ RootOf(k) = RootOf(f)
            /\ Live(k) = Live(f) /\ DOMAIN k = DOMAIN f /\ k[y] = b /\ Unmoved(f, k, {y})
    BY LeafWritten
  <2>2. QED
    BY <1>1, <2>1
<1>3. h[x] = f[x] /\ x \in Live(h)
  BY <1>2 DEF Unmoved
<1>4. /\ Standing(g, lv, s, {}, t) /\ RootOf(g) = RootOf(h)
      /\ Live(g) = Live(h) /\ DOMAIN g = DOMAIN h /\ Unmoved(h, g, {x})
  <2>1. LET k == Put(h, x, c)
        IN  /\ Standing(k, lv, s, {}, t) /\ RootOf(k) = RootOf(h)
            /\ Live(k) = Live(h) /\ DOMAIN k = DOMAIN h /\ k[x] = c /\ Unmoved(h, k, {x})
    BY <1>2, <1>3, LeafWritten
  <2>2. QED
    BY <1>1, <2>1
<1>5. Unmoved(f, g, {x, y})
  BY <1>2, <1>4 DEF Unmoved
<1>6. /\ Standing(g, lv, s, {}, t) /\ RootOf(g) = RootOf(f)
      /\ DOMAIN g = DOMAIN f /\ Unmoved(f, g, {x, y})
  BY <1>2, <1>4, <1>5
<1>7. QED
  BY <1>6

\* delete_leaf, an element from the left sibling.
LEMMA BorrowLeafLeftShape == IInv /\ ShapeInv /\ BorrowLeafLeft => ShapeInv' /\ KeepsBooks
<1> SUFFICES ASSUME IInv, ShapeInv, BorrowLeafLeft PROVE ShapeInv' /\ KeepsBooks
  OBVIOUS
<1> DEFINE n == nkeys(left_sib)
           b == leaf_pop(left_sib, n - 1)
           c == leaf_insert(popped_leaf, 0, left_sib.keys[n], left_sib.values[n])
<1>1. /\ LeafUnderflows /\ ~AtRoot /\ nkeys(popped_leaf) < MIN_NKEYS_LEAF
      /\ has_left /\ left_sib.tag = "leaf" /\ n > MIN_NKEYS_LEAF
      /\ ReturnBorrow(Parent.i - 1, left_sib.keys[n], <<W(left_addr, b), W(Top.addr, c)>>)
  BY DEF BorrowLeafLeft, LeafUnderflows, CanBorrowLeft
<1>2. /\ Updating /\ pc = "search" /\ Within(disk, file_size)
      /\ Top.addr \in Live(disk) /\ disk[Top.addr].tag = "leaf" /\ Top.addr # RootOf(disk)
      /\ Sound(popped_leaf) /\ popped_leaf.tag = "leaf"
      /\ nkeys(popped_leaf) \in Nat /\ nkeys(popped_leaf) + 1 >= MIN_NKEYS_LEAF
  BY <1>1, LeafAndSiblings
<1>3. PICK lv, s : /\ Tree(disk, lv, s) /\ Standing(disk, lv, s, {}, RootOf(disk))
                   /\ Sibling(lv, left_addr) /\ left_addr # Top.addr
                   /\ left_sib = disk[left_addr]
  BY <1>1, LeafAndSiblings
<1>4. /\ Sound(left_sib) /\ Parent.i - 1 \in Nat /\ Parent.i - 1 < nkeys(Parent.block)
  BY <1>1, <1>2, Siblings
<1>5. n \in Nat /\ n >= 1
  BY <1>1, <1>4, Minima, SoundArrays
<1>6. left_sib.keys[n] \in Nat /\ left_sib.values[n] \in Nat
  BY <1>1, <1>4, <1>5, FirstAndLast
<1>7. Sound(b) /\ b.tag = "leaf" /\ HasEnough(b)
  <2>1. Sound(b) /\ b.tag = "leaf" /\ nkeys(b) = n - 1
    BY <1>1, <1>4, <1>5, LeafPopSound
  <2>2. n - 1 >= MIN_NKEYS_LEAF
    BY <1>1, <1>5, Minima
  <2>3. QED
    BY <2>1, <2>2 DEF HasEnough
<1>8. Sound(c) /\ c.tag = "leaf" /\ HasEnough(c)
  <2>1. 0 \in 0..nkeys(popped_leaf) /\ nkeys(popped_leaf) < MAX_NKEYS
    BY <1>1, <1>2, Minima, MaxNkeysAssumption
  <2>2. Sound(c) /\ c.tag = "leaf" /\ nkeys(c) = nkeys(popped_leaf) + 1
    BY <1>2, <1>6, <2>1, LeafInsertSound
  <2>3. QED
    BY <1>2, <2>2 DEF HasEnough
<1> HIDE DEF b, c, n
<1>9. PICK x, y, d, e : x = Top.addr /\ y = left_addr /\ d = b /\ e = c
  OBVIOUS
<1>10. PICK g : g = Put(Put(disk, y, d), x, e)
  OBVIOUS
<1>11. /\ Standing(g, lv, s, {}, RootOf(disk)) /\ RootOf(g) = RootOf(disk)
       /\ DOMAIN g = DOMAIN disk /\ Unmoved(disk, g, {x, y})
  <2>1. /\ Standing(disk, lv, s, {}, RootOf(disk))
        /\ x \in Live(disk) /\ disk[x].tag = "leaf" /\ x # RootOf(disk)
        /\ y \in Live(disk) /\ disk[y].tag = "leaf" /\ y # RootOf(disk) /\ x # y
        /\ Sound(d) /\ d.tag = "leaf" /\ HasEnough(d)
        /\ Sound(e) /\ e.tag = "leaf" /\ HasEnough(e)
    BY <1>1, <1>2, <1>3, <1>7, <1>8, <1>9, <1>10 DEF Sibling
  <2>2. LET k == Put(Put(disk, y, d), x, e)
        IN  /\ Standing(k, lv, s, {}, RootOf(disk)) /\ RootOf(k) = RootOf(disk)
            /\ DOMAIN k = DOMAIN disk /\ Unmoved(disk, k, {x, y})
    BY ONLY <2>1, TwoLeavesWritten
  <2>3. QED
    BY <1>10, <2>2
<1>12. PICK k \in Nat, ind \in Nat : /\ ind < nkeys(Parent.block)
                                     /\ ReturnBorrow(ind, k, <<W(y, d), W(Top.addr, e)>>)
  BY <1>1, <1>4, <1>6, <1>9
<1>13. ShapeInv'
  BY <1>1, <1>2, <1>3, <1>8, <1>9, <1>10, <1>11, <1>12, BorrowShape DEF IsLive
<1>14. KeepsBooks
  <2>1. pc \in {"search", "delete_up"} /\ writes = <<>>
    BY <1>1 DEF LeafUnderflows, AtDeleteLeaf, AtLeaf, At
  <2>2. x \in Live(disk) /\ y \in Live(disk) /\ x # y
    BY <1>2, <1>3, <1>9 DEF Sibling
  <2>3. KidsIn(disk[x]) = {} /\ KidsIn(disk[y]) = {}
    BY <1>1, <1>2, <1>3, <1>9 DEF KidsIn
  <2>4. ReturnBorrow(ind, k, <<W(y, d), W(x, e)>>)
    BY <1>9, <1>12
  <2>5. QED
    BY <2>1, <2>2, <2>3, <2>4, BorrowBooks
<1>15. QED
  BY <1>13, <1>14

\* delete_leaf, an element from the right sibling.
LEMMA BorrowLeafRightShape == IInv /\ ShapeInv /\ BorrowLeafRight => ShapeInv' /\ KeepsBooks
<1> SUFFICES ASSUME IInv, ShapeInv, BorrowLeafRight PROVE ShapeInv' /\ KeepsBooks
  OBVIOUS
<1> DEFINE n == nkeys(popped_leaf)
           b == leaf_pop(right_sib, 0)
           c == leaf_insert(popped_leaf, n, right_sib.keys[1], right_sib.values[1])
<1>1. /\ LeafUnderflows /\ ~AtRoot /\ n < MIN_NKEYS_LEAF
      /\ has_right /\ right_sib.tag = "leaf" /\ nkeys(right_sib) > MIN_NKEYS_LEAF
      /\ ReturnBorrow(Parent.i, b.keys[1], <<W(right_addr, b), W(Top.addr, c)>>)
  BY DEF BorrowLeafRight, LeafUnderflows, CanBorrowRight
<1>2. /\ Updating /\ pc = "search" /\ Within(disk, file_size)
      /\ Top.addr \in Live(disk) /\ disk[Top.addr].tag = "leaf" /\ Top.addr # RootOf(disk)
      /\ Sound(popped_leaf) /\ popped_leaf.tag = "leaf"
      /\ n \in Nat /\ n + 1 >= MIN_NKEYS_LEAF
  BY <1>1, LeafAndSiblings
<1>3. PICK lv, s : /\ Tree(disk, lv, s) /\ Standing(disk, lv, s, {}, RootOf(disk))
                   /\ Sibling(lv, right_addr) /\ right_addr # Top.addr
                   /\ right_sib = disk[right_addr]
  BY <1>1, LeafAndSiblings
<1>4. /\ Sound(right_sib) /\ Parent.i \in Nat /\ Parent.i < nkeys(Parent.block)
  BY <1>1, <1>2, Siblings
<1>5. nkeys(right_sib) \in Nat /\ nkeys(right_sib) >= 2
  BY <1>1, <1>4, Minima, SoundArrays
<1>6. right_sib.keys[1] \in Nat /\ right_sib.values[1] \in Nat
  BY <1>1, <1>4, <1>5, FirstAndLast
<1>7. Sound(b) /\ b.tag = "leaf" /\ HasEnough(b) /\ b.keys[1] \in Nat
  <2>1. 0 \in 0..(nkeys(right_sib) - 1)
    BY <1>5
  <2>2. Sound(b) /\ b.tag = "leaf" /\ nkeys(b) = nkeys(right_sib) - 1
    BY <1>1, <1>4, <2>1, LeafPopSound
  <2>3. nkeys(right_sib) - 1 >= MIN_NKEYS_LEAF /\ nkeys(right_sib) - 1 >= 1
    BY <1>1, <1>5, Minima
  <2>4. b.keys[1] \in Nat
    BY <2>2, <2>3, FirstAndLast
  <2>5. QED
    BY <2>2, <2>3, <2>4 DEF HasEnough
<1>8. Sound(c) /\ c.tag = "leaf" /\ HasEnough(c)
  <2>1. n \in 0..nkeys(popped_leaf) /\ nkeys(popped_leaf) < MAX_NKEYS
    BY <1>1, <1>2, Minima, MaxNkeysAssumption
  <2>2. Sound(c) /\ c.tag = "leaf" /\ nkeys(c) = n + 1
    BY <1>2, <1>6, <2>1, LeafInsertSound
  <2>3. QED
    BY <1>2, <2>2 DEF HasEnough
<1> HIDE DEF b, c, n
<1>9. PICK x, y, d, e : x = Top.addr /\ y = right_addr /\ d = b /\ e = c
  OBVIOUS
<1>10. PICK g : g = Put(Put(disk, y, d), x, e)
  OBVIOUS
<1>11. /\ Standing(g, lv, s, {}, RootOf(disk)) /\ RootOf(g) = RootOf(disk)
       /\ DOMAIN g = DOMAIN disk /\ Unmoved(disk, g, {x, y})
  <2>1. /\ Standing(disk, lv, s, {}, RootOf(disk))
        /\ x \in Live(disk) /\ disk[x].tag = "leaf" /\ x # RootOf(disk)
        /\ y \in Live(disk) /\ disk[y].tag = "leaf" /\ y # RootOf(disk) /\ x # y
        /\ Sound(d) /\ d.tag = "leaf" /\ HasEnough(d)
        /\ Sound(e) /\ e.tag = "leaf" /\ HasEnough(e)
    BY <1>1, <1>2, <1>3, <1>7, <1>8, <1>9, <1>10 DEF Sibling
  <2>2. LET k == Put(Put(disk, y, d), x, e)
        IN  /\ Standing(k, lv, s, {}, RootOf(disk)) /\ RootOf(k) = RootOf(disk)
            /\ DOMAIN k = DOMAIN disk /\ Unmoved(disk, k, {x, y})
    BY ONLY <2>1, TwoLeavesWritten
  <2>3. QED
    BY <1>10, <2>2
<1>12. PICK k \in Nat, ind \in Nat : /\ ind < nkeys(Parent.block)
                                     /\ ReturnBorrow(ind, k, <<W(y, d), W(Top.addr, e)>>)
  BY <1>1, <1>4, <1>7, <1>9
<1>13. ShapeInv'
  BY <1>1, <1>2, <1>3, <1>8, <1>9, <1>10, <1>11, <1>12, BorrowShape DEF IsLive
<1>14. KeepsBooks
  <2>1. pc \in {"search", "delete_up"} /\ writes = <<>>
    BY <1>1 DEF LeafUnderflows, AtDeleteLeaf, AtLeaf, At
  <2>2. x \in Live(disk) /\ y \in Live(disk) /\ x # y
    BY <1>2, <1>3, <1>9 DEF Sibling
  <2>3. KidsIn(disk[x]) = {} /\ KidsIn(disk[y]) = {}
    BY <1>1, <1>2, <1>3, <1>9 DEF KidsIn
  <2>4. ReturnBorrow(ind, k, <<W(y, d), W(x, e)>>)
    BY <1>9, <1>12
  <2>5. QED
    BY <2>1, <2>2, <2>3, <2>4, BorrowBooks
<1>15. QED
  BY <1>13, <1>14

\* delete_leaf, two leaves become one.
LEMMA MergeLeavesShape == IInv /\ ShapeInv /\ MergeLeaves => ShapeInv' /\ KeepsBooks
<1> SUFFICES ASSUME IInv, ShapeInv, MergeLeaves PROVE ShapeInv' /\ KeepsBooks
  OBVIOUS
<1>1. /\ LeafUnderflows /\ ~AtRoot /\ nkeys(popped_leaf) < MIN_NKEYS_LEAF
      /\ MustMerge(MIN_NKEYS_LEAF, "leaf")
  BY DEF MergeLeaves, LeafUnderflows
<1>2. /\ Updating /\ pc = "search" /\ Within(disk, file_size)
      /\ Top.addr \in Live(disk) /\ disk[Top.addr].tag = "leaf"
      /\ Top.addr # 0 /\ Top.addr # RootOf(disk)
      /\ Sound(popped_leaf) /\ popped_leaf.tag = "leaf"
      /\ nkeys(popped_leaf) \in Nat /\ nkeys(popped_leaf) + 1 >= MIN_NKEYS_LEAF
  BY <1>1, LeafAndSiblings
<1>3. PICK lv, s : /\ Tree(disk, lv, s) /\ Standing(disk, lv, s, {}, RootOf(disk))
                   /\ has_left =>
                        /\ Sibling(lv, left_addr) /\ left_addr # Top.addr
                        /\ left_sib = disk[left_addr]
                        /\ Parent.block.values[Parent.i - 1 + 2] = Top.addr
                   /\ has_right =>
                        /\ Sibling(lv, right_addr) /\ right_addr # Top.addr
                        /\ right_sib = disk[right_addr]
  BY <1>1, LeafAndSiblings
\* Whichever of the two is the left one.
<1>4. ASSUME NEW l \in Live(disk), disk[l].tag = "leaf", l # 0, lv[l] = lv[Top.addr],
             NEW r \in Live(disk), disk[r].tag = "leaf", r # 0, lv[r] = lv[Top.addr], l # r, r # RootOf(disk),
             NEW a, Sound(a), NEW c, Sound(c), nkeys(a) + nkeys(c) <= MAX_NKEYS,
             nkeys(a) + nkeys(c) >= MIN_NKEYS_LEAF,
             NEW ind \in Nat, r = Parent.block.values[ind + 2],
             ReturnMerge(ind, r, l, merge_leaves(a, c))
      PROVE  ShapeInv' /\ KeepsBooks
  <2>1. PICK b : b = merge_leaves(a, c)
    OBVIOUS
  <2>2. Sound(b) /\ b.tag = "leaf" /\ HasEnough(b) /\ IsLive(b)
    <3>1. LET n == merge_leaves(a, c)
          IN  Sound(n) /\ n.tag = "leaf" /\ nkeys(n) = nkeys(a) + nkeys(c)
      BY <1>4, MergeLeavesFull
    <3>2. QED
      BY <1>4, <2>1, <3>1 DEF HasEnough, IsLive
  <2>3. PICK g : g = Put(Freed(disk, r), l, b)
    OBVIOUS
  <2>4. /\ \E q \in Seq(Nat) : Standing(g, lv, q, {r}, RootOf(disk))
        /\ DOMAIN g = DOMAIN disk /\ RootOf(g) = RootOf(disk) /\ Unmoved(disk, g, {l, r})
    <3>1. /\ Standing(disk, lv, s, {}, RootOf(disk))
          /\ l \in Live(disk) /\ disk[l].tag = "leaf" /\ r \in Live(disk) /\ l # r
          /\ r # RootOf(disk) /\ Sound(b) /\ b.tag = "leaf" /\ HasEnough(b)
      BY <1>3, <1>4, <2>2
    <3>2. LET k == Put(Freed(disk, r), l, b)
          IN  /\ \E q \in Seq(Nat) : Standing(k, lv, q, {r}, RootOf(disk))
              /\ DOMAIN k = DOMAIN disk /\ RootOf(k) = RootOf(disk)
              /\ Unmoved(disk, k, {l, r})
      BY <3>1, LeavesMerged, ZenonT(90)
    <3>3. QED
      BY <2>3, <3>2
  <2>5. ReturnMerge(ind, r, l, b)
    BY <1>4, <2>1
  <2>6. ShapeInv'
    BY <1>1, <1>2, <1>3, <1>4, <2>2, <2>3, <2>4, <2>5, MergeShape
  <2>7. KeepsBooks
    <3>1. pc \in {"search", "delete_up"} /\ writes = <<>>
      BY <1>1 DEF LeafUnderflows, AtDeleteLeaf, AtLeaf, At
    <3>2. KidsIn(disk[l]) = {} /\ KidsIn(disk[r]) = {}
      BY <1>4 DEF KidsIn
    <3>3. QED
      BY <1>1, <1>3, <1>4, <2>2, <2>5, <3>1, <3>2, MergeBooks
  <2>8. QED
    BY <2>6, <2>7
<1>5. CASE has_left
  <2>1. ReturnMerge(Parent.i - 1, Top.addr, left_addr, merge_leaves(left_sib, popped_leaf))
    BY <1>5 DEF MergeLeaves
  <2>2. left_sib.tag = "leaf" /\ nkeys(left_sib) <= MIN_NKEYS_LEAF
    BY <1>1, <1>5 DEF MustMerge
  <2>3. /\ left_addr # 0 /\ Sound(left_sib) /\ Parent.i - 1 \in Nat
    BY <1>1, <1>2, <1>5, <2>2, Siblings
  <2>4. /\ left_addr \in Live(disk) /\ lv[left_addr] = lv[Top.addr]
        /\ HasEnough(left_sib) /\ disk[left_addr] = left_sib
    BY <1>3, <1>5 DEF Sibling
  <2>5. /\ nkeys(left_sib) + nkeys(popped_leaf) <= MAX_NKEYS
        /\ nkeys(left_sib) + nkeys(popped_leaf) >= MIN_NKEYS_LEAF
    <3>1. nkeys(left_sib) \in Nat /\ nkeys(left_sib) >= MIN_NKEYS_LEAF
      BY <2>2, <2>3, <2>4, SoundArrays DEF HasEnough
    <3>2. QED
      BY <1>1, <1>2, <2>2, <3>1, Minima, MaxNkeysAssumption
  <2>6. QED
    BY <1>2, <1>3, <1>4, <1>5, <2>1, <2>2, <2>3, <2>4, <2>5
<1>6. CASE ~has_left
  <2>1. ReturnMerge(Parent.i, right_addr, Top.addr, merge_leaves(popped_leaf, right_sib))
    BY <1>6 DEF MergeLeaves
  <2>2. has_right /\ right_sib.tag = "leaf" /\ nkeys(right_sib) <= MIN_NKEYS_LEAF
    BY <1>1, <1>6 DEF MustMerge
  <2>3. right_addr # 0 /\ Sound(right_sib) /\ Parent.i \in Nat
    BY <1>1, <1>2, <2>2, Siblings
  <2>4. /\ right_addr \in Live(disk) /\ lv[right_addr] = lv[Top.addr]
        /\ HasEnough(right_sib) /\ right_addr # RootOf(disk)
        /\ right_addr = Parent.block.values[Parent.i + 2]
    BY <1>3, <2>2 DEF Sibling, right_addr
  <2>5. /\ nkeys(popped_leaf) + nkeys(right_sib) <= MAX_NKEYS
        /\ nkeys(popped_leaf) + nkeys(right_sib) >= MIN_NKEYS_LEAF
    <3>1. nkeys(right_sib) \in Nat /\ nkeys(right_sib) >= MIN_NKEYS_LEAF
      BY <2>2, <2>3, <2>4, SoundArrays DEF HasEnough
    <3>2. QED
      BY <1>1, <1>2, <2>2, <3>1, Minima, MaxNkeysAssumption
  <2>6. QED
    BY <1>2, <1>3, <1>4, <2>1, <2>2, <2>3, <2>4, <2>5
<1>7. QED
  BY <1>5, <1>6

\* A node that lost a child and has too few left, and its siblings.
LEMMA NodeAndSiblings ==
  ASSUME IInv, ShapeInv, NodeUnderflows
  PROVE  /\ Updating /\ pc = "delete_up" /\ Within(disk, file_size)
         /\ \E lv, s, h :
              /\ Tree(disk, lv, s) /\ Standing(disk, lv, s, {h}, RootOf(disk))
              /\ h \in Kids(disk[Top.addr]) /\ Hole = {h}
              /\ Kids(popped_node) = Kids(disk[Top.addr]) \ {h}
              /\ has_left =>
                   /\ Sibling(lv, left_addr) /\ left_addr # Top.addr
                   /\ left_sib = disk[left_addr]
                   /\ Parent.block.values[Parent.i - 1 + 2] = Top.addr
              /\ has_right =>
                   /\ Sibling(lv, right_addr) /\ right_addr # Top.addr
                   /\ right_sib = disk[right_addr]
         /\ Top.addr \in Inner(disk) /\ Top.addr # 0 /\ Top.addr # RootOf(disk)
         /\ Branch(popped_node) /\ nkeys(popped_node) \in Nat
         /\ nkeys(popped_node) + 1 >= MIN_NKEYS_NODE
<1>1. AtDeleteNode /\ ~AtRoot /\ pc = "delete_up"
  BY DEF NodeUnderflows, AtDeleteNode, At
<1>2. Updating /\ Within(disk, file_size)
  BY <1>1, NodeWithHole
<1>3. PICK lv, s, h : /\ Tree(disk, lv, s) /\ Standing(disk, lv, s, {h}, RootOf(disk))
                      /\ h \in Kids(disk[Top.addr]) /\ Hole = {h}
                      /\ Kids(popped_node) = Kids(disk[Top.addr]) \ {h}
  BY <1>1, NodeWithHole
<1>4. /\ has_left =>
           /\ Sibling(lv, left_addr) /\ left_addr # Top.addr /\ left_sib = disk[left_addr]
           /\ Parent.block.values[Parent.i - 1 + 2] = Top.addr
      /\ has_right =>
           /\ Sibling(lv, right_addr) /\ right_addr # Top.addr
           /\ right_sib = disk[right_addr]
  BY <1>1, <1>2, <1>3, SiblingsOnFile
<1>5. Top.addr # RootOf(disk)
  BY <1>1, <1>2, <1>3, ParentOnFile DEF Sibling
<1>6. /\ Top.addr \in Inner(disk) /\ Top.addr # 0
      /\ Branch(popped_node) /\ nkeys(popped_node) \in Nat
      /\ nkeys(popped_node) + 1 >= MIN_NKEYS_NODE
  BY <1>1, <1>5, NodeWithHole
<1>7. QED
  BY <1>1, <1>2, <1>3, <1>4, <1>5, <1>6

\* A sibling that is a node, and what Standing says of two nodes.
LEMMA SiblingNode ==
  ASSUME NEW lv, NEW s, NEW H, Standing(disk, lv, s, H, RootOf(disk)),
         NEW y, Sibling(lv, y), disk[y].tag = "node"
  PROVE  /\ y \in Inner(disk) /\ Branch(disk[y])
         /\ \A x \in Inner(disk) : x # y => Kids(disk[x]) \cap Kids(disk[y]) = {}
<1>1. y \in Inner(disk)
  BY InnerLive DEF Sibling
<1>2. Forest(disk, lv, H) /\ File(disk)
  BY DEF Standing, Woods
<1>3. Distinct(disk[y].values) /\ Sound(disk[y])
  BY <1>1, <1>2 DEF Forest, File, Inner
<1>4. \A x \in Inner(disk) : x # y => Kids(disk[x]) \cap Kids(disk[y]) = {}
  BY <1>1, <1>2 DEF Forest
<1>5. QED
  BY <1>1, <1>3, <1>4 DEF Branch

\* A child moved from a sibling.
LEMMA SharedShape ==
  ASSUME IInv, ShapeInv, writes = <<>>, Updating, pc = "delete_up", ~AtRoot, Within(disk, file_size),
         NEW lv, NEW s, NEW h, Tree(disk, lv, s), Standing(disk, lv, s, {h}, RootOf(disk)),
         Top.addr \in Inner(disk), Top.addr # RootOf(disk), h \in Kids(disk[Top.addr]), Hole = {h},
         NEW y, Sibling(lv, y), y # Top.addr, y \in Inner(disk), NEW c \in Kids(disk[y]),
         NEW b, Branch(b), HasEnough(b), Kids(b) = Kids(disk[y]) \ {c},
         NEW d, Branch(d), HasEnough(d), Kids(d) = (Kids(disk[Top.addr]) \ {h}) \cup {c},
         NEW ind \in Nat, ind < nkeys(Parent.block), NEW k \in Nat,
         ReturnBorrow(ind, k, <<W(y, b), W(Top.addr, d)>>)
  PROVE  ShapeInv' /\ KeepsBooks
<1>1. PICK x : x = Top.addr
  OBVIOUS
<1>2. PICK g : g = Put(Put(disk, y, b), x, d)
  OBVIOUS
<1>3. /\ Standing(g, lv, s, {}, RootOf(disk)) /\ RootOf(g) = RootOf(disk)
      /\ DOMAIN g = DOMAIN disk /\ Unmoved(disk, g, {x, y})
  <2>1. Sharing(disk, lv, s, RootOf(disk), h, x, y, c, b, d)
    BY <1>1 DEF Sibling, Sharing
  <2>2. LET k0 == Put(Put(disk, y, b), x, d)
        IN  /\ Standing(k0, lv, s, {}, RootOf(disk))
            /\ DOMAIN k0 = DOMAIN disk /\ RootOf(k0) = RootOf(disk) /\ Unmoved(disk, k0, {x, y})
    BY ONLY <2>1, NodesShared
  <2>3. QED
    BY <1>2, <2>2
<1>4. IsLive(d)
  BY DEF Branch, IsLive
<1>5. ShapeInv'
  BY <1>1, <1>2, <1>3, <1>4, BorrowShape
<1>6. KeepsBooks
  <2>1. x \in Live(disk) /\ y \in Live(disk)
    BY <1>1, InnerLive
  <2>2. KidsIn(b) = Kids(b) /\ KidsIn(d) = Kids(d)
    BY DEF KidsIn, Branch
  <2>3. KidsIn(disk[x]) \subseteq Kids(disk[x]) /\ KidsIn(disk[y]) \subseteq Kids(disk[y])
    BY DEF KidsIn
  <2>4. /\ KidsIn(disk[y]) \subseteq KidsIn(b) \cup KidsIn(d)
        /\ KidsIn(disk[x]) \subseteq KidsIn(d) \cup Hole
    BY <1>1, <2>2, <2>3
  <2>5. QED
    BY <1>1, <2>1, <2>4, BorrowBooks
<1>7. QED
  BY <1>5, <1>6

\* delete_node, a child from the left sibling.
LEMMA BorrowNodeLeftShape == IInv /\ ShapeInv /\ BorrowNodeLeft => ShapeInv' /\ KeepsBooks
<1> SUFFICES ASSUME IInv, ShapeInv, BorrowNodeLeft PROVE ShapeInv' /\ KeepsBooks
  OBVIOUS
<1> DEFINE n == nkeys(left_sib)
           key == Parent.block.keys[Parent.i]
           b == node_pop(left_sib, n - 1, n)
           d == node_insert(popped_node, 0, 0, key, left_sib.values[n + 1])
<1>1. /\ NodeUnderflows /\ ~AtRoot /\ nkeys(popped_node) < MIN_NKEYS_NODE
      /\ has_left /\ left_sib.tag = "node" /\ n > MIN_NKEYS_NODE
      /\ ReturnBorrow(Parent.i - 1, left_sib.keys[n], <<W(left_addr, b), W(Top.addr, d)>>)
  BY DEF BorrowNodeLeft, NodeUnderflows, CanBorrowLeft
<1>2. /\ Updating /\ pc = "delete_up" /\ Within(disk, file_size)
      /\ Top.addr \in Inner(disk) /\ Top.addr # RootOf(disk)
      /\ Branch(popped_node) /\ nkeys(popped_node) \in Nat
      /\ nkeys(popped_node) + 1 >= MIN_NKEYS_NODE
  BY <1>1, NodeAndSiblings
<1>3. PICK lv, s, h : /\ Tree(disk, lv, s) /\ Standing(disk, lv, s, {h}, RootOf(disk))
                      /\ h \in Kids(disk[Top.addr]) /\ Hole = {h}
                      /\ Kids(popped_node) = Kids(disk[Top.addr]) \ {h}
                      /\ Sibling(lv, left_addr) /\ left_addr # Top.addr
                      /\ left_sib = disk[left_addr]
  BY <1>1, NodeAndSiblings
<1>4. /\ Sound(left_sib) /\ Parent.i - 1 \in Nat /\ Parent.i - 1 < nkeys(Parent.block)
      /\ key \in Nat
  BY <1>1, <1>2, Siblings
<1>5. /\ left_addr \in Inner(disk) /\ Branch(left_sib)
      /\ Kids(disk[Top.addr]) \cap Kids(left_sib) = {}
  BY <1>1, <1>2, <1>3, SiblingNode
<1>6. n \in Nat /\ n >= 1 /\ left_sib.keys[n] \in Nat /\ left_sib.values[n + 1] \in Nat
  <2>1. n \in Nat /\ n >= 1
    BY <1>1, <1>4, Minima, SoundArrays
  <2>2. QED
    BY <1>1, <1>4, <2>1, FirstAndLast
<1>7. PICK c : c = left_sib.values[n + 1]
  OBVIOUS
<1>8. Branch(b) /\ HasEnough(b) /\ Kids(b) = Kids(left_sib) \ {c} /\ c \in Kids(left_sib)
  <2>1. n - 1 \in 0..(n - 1) /\ n \in 0..n
    BY <1>6
  <2>2. LET m == node_pop(left_sib, n - 1, n)
        IN  /\ Branch(m) /\ nkeys(m) = nkeys(left_sib) - 1
            /\ Kids(m) = Kids(left_sib) \ {left_sib.values[n + 1]}
            /\ left_sib.values[n + 1] \in Kids(left_sib)
    BY <1>5, <2>1, NodePopKids
  <2>3. n - 1 >= MIN_NKEYS_NODE
    BY <1>1, <1>6, Minima
  <2>4. QED
    BY <1>7, <2>2, <2>3 DEF HasEnough, Branch
<1>9. Branch(d) /\ HasEnough(d) /\ Kids(d) = Kids(popped_node) \cup {c}
  <2>1. /\ Branch(popped_node) /\ nkeys(popped_node) < MAX_NKEYS
        /\ 0 \in 0..nkeys(popped_node) /\ 0 \in 0..(nkeys(popped_node) + 1)
        /\ key \in Nat /\ c \in Nat /\ c \notin Kids(popped_node)
    <3>1. nkeys(popped_node) < MAX_NKEYS
      BY <1>1, <1>2, Minima, MaxNkeysAssumption
    <3>2. c \notin Kids(popped_node)
      BY <1>3, <1>5, <1>8
    <3>3. QED
      BY <1>2, <1>4, <1>6, <1>7, <3>1, <3>2
  <2>2. LET m == node_insert(popped_node, 0, 0, key, c)
        IN  /\ Branch(m) /\ Kids(m) = Kids(popped_node) \cup {c}
            /\ nkeys(m) = nkeys(popped_node) + 1
    BY <2>1, NodeInsertKids
  <2>3. QED
    BY <1>2, <1>7, <2>2 DEF HasEnough, Branch
<1> HIDE DEF b, d, n, key
<1>10. PICK y, e, f, k, ind : /\ y = left_addr /\ e = b /\ f = d
                              /\ k = left_sib.keys[n] /\ ind = Parent.i - 1
  OBVIOUS
<1>11. /\ Tree(disk, lv, s) /\ Standing(disk, lv, s, {h}, RootOf(disk))
       /\ h \in Kids(disk[Top.addr]) /\ Hole = {h}
       /\ Sibling(lv, y) /\ y # Top.addr /\ y \in Inner(disk) /\ c \in Kids(disk[y])
       /\ Branch(e) /\ HasEnough(e) /\ Kids(e) = Kids(disk[y]) \ {c}
       /\ Branch(f) /\ HasEnough(f) /\ Kids(f) = (Kids(disk[Top.addr]) \ {h}) \cup {c}
       /\ ind \in Nat /\ ind < nkeys(Parent.block) /\ k \in Nat
       /\ ReturnBorrow(ind, k, <<W(y, e), W(Top.addr, f)>>)
  BY <1>1, <1>3, <1>4, <1>5, <1>6, <1>8, <1>9, <1>10
<1>12. writes = <<>>
  BY <1>1 DEF NodeUnderflows, AtDeleteNode, At
<1>13. QED
  BY <1>1, <1>2, <1>11, <1>12, SharedShape

\* delete_node, a child from the right sibling.
LEMMA BorrowNodeRightShape == IInv /\ ShapeInv /\ BorrowNodeRight => ShapeInv' /\ KeepsBooks
<1> SUFFICES ASSUME IInv, ShapeInv, BorrowNodeRight PROVE ShapeInv' /\ KeepsBooks
  OBVIOUS
<1> DEFINE n == nkeys(popped_node)
           key == Parent.block.keys[Parent.i + 1]
           b == node_pop(right_sib, 0, 0)
           d == node_insert(popped_node, n, n + 1, key, right_sib.values[1])
<1>1. /\ NodeUnderflows /\ ~AtRoot /\ n < MIN_NKEYS_NODE
      /\ has_right /\ right_sib.tag = "node" /\ nkeys(right_sib) > MIN_NKEYS_NODE
      /\ ReturnBorrow(Parent.i, right_sib.keys[1], <<W(right_addr, b), W(Top.addr, d)>>)
  BY DEF BorrowNodeRight, NodeUnderflows, CanBorrowRight
<1>2. /\ Updating /\ pc = "delete_up" /\ Within(disk, file_size)
      /\ Top.addr \in Inner(disk) /\ Top.addr # RootOf(disk)
      /\ Branch(popped_node) /\ n \in Nat /\ n + 1 >= MIN_NKEYS_NODE
  BY <1>1, NodeAndSiblings
<1>3. PICK lv, s, h : /\ Tree(disk, lv, s) /\ Standing(disk, lv, s, {h}, RootOf(disk))
                      /\ h \in Kids(disk[Top.addr]) /\ Hole = {h}
                      /\ Kids(popped_node) = Kids(disk[Top.addr]) \ {h}
                      /\ Sibling(lv, right_addr) /\ right_addr # Top.addr
                      /\ right_sib = disk[right_addr]
  BY <1>1, NodeAndSiblings
<1>4. /\ Sound(right_sib) /\ Parent.i \in Nat /\ Parent.i < nkeys(Parent.block)
      /\ key \in Nat
  BY <1>1, <1>2, Siblings
<1>5. /\ right_addr \in Inner(disk) /\ Branch(right_sib)
      /\ Kids(disk[Top.addr]) \cap Kids(right_sib) = {}
  BY <1>1, <1>2, <1>3, SiblingNode
<1>6. /\ nkeys(right_sib) \in Nat /\ nkeys(right_sib) >= 1
      /\ right_sib.keys[1] \in Nat /\ right_sib.values[1] \in Nat
  <2>1. nkeys(right_sib) \in Nat /\ nkeys(right_sib) >= 1
    BY <1>1, <1>4, Minima, SoundArrays
  <2>2. QED
    BY <1>1, <1>4, <2>1, FirstAndLast
<1>7. PICK c : c = right_sib.values[1]
  OBVIOUS
<1>8. Branch(b) /\ HasEnough(b) /\ Kids(b) = Kids(right_sib) \ {c} /\ c \in Kids(right_sib)
  <2>1. 0 \in 0..(nkeys(right_sib) - 1) /\ 0 \in 0..nkeys(right_sib)
    BY <1>6
  <2>2. LET m == node_pop(right_sib, 0, 0)
        IN  /\ Branch(m) /\ nkeys(m) = nkeys(right_sib) - 1
            /\ Kids(m) = Kids(right_sib) \ {right_sib.values[0 + 1]}
            /\ right_sib.values[0 + 1] \in Kids(right_sib)
    BY <1>5, <2>1, NodePopKids
  <2>3. nkeys(right_sib) - 1 >= MIN_NKEYS_NODE
    BY <1>1, <1>6, Minima
  <2>4. QED
    BY <1>7, <2>2, <2>3 DEF HasEnough, Branch
<1>9. Branch(d) /\ HasEnough(d) /\ Kids(d) = Kids(popped_node) \cup {c}
  <2>1. /\ Branch(popped_node) /\ nkeys(popped_node) < MAX_NKEYS
        /\ n \in 0..nkeys(popped_node) /\ n + 1 \in 0..(nkeys(popped_node) + 1)
        /\ key \in Nat /\ c \in Nat /\ c \notin Kids(popped_node)
    <3>1. nkeys(popped_node) < MAX_NKEYS
      BY <1>1, <1>2, Minima, MaxNkeysAssumption
    <3>2. c \notin Kids(popped_node)
      BY <1>3, <1>5, <1>8
    <3>3. QED
      BY <1>2, <1>4, <1>6, <1>7, <3>1, <3>2
  <2>2. LET m == node_insert(popped_node, n, n + 1, key, c)
        IN  /\ Branch(m) /\ Kids(m) = Kids(popped_node) \cup {c}
            /\ nkeys(m) = nkeys(popped_node) + 1
    BY <2>1, NodeInsertKids
  <2>3. QED
    BY <1>2, <1>7, <2>2 DEF HasEnough, Branch
<1> HIDE DEF b, d, n, key
<1>10. PICK y, e, f, k, ind : /\ y = right_addr /\ e = b /\ f = d
                              /\ k = right_sib.keys[1] /\ ind = Parent.i
  OBVIOUS
<1>11. /\ Tree(disk, lv, s) /\ Standing(disk, lv, s, {h}, RootOf(disk))
       /\ h \in Kids(disk[Top.addr]) /\ Hole = {h}
       /\ Sibling(lv, y) /\ y # Top.addr /\ y \in Inner(disk) /\ c \in Kids(disk[y])
       /\ Branch(e) /\ HasEnough(e) /\ Kids(e) = Kids(disk[y]) \ {c}
       /\ Branch(f) /\ HasEnough(f) /\ Kids(f) = (Kids(disk[Top.addr]) \ {h}) \cup {c}
       /\ ind \in Nat /\ ind < nkeys(Parent.block) /\ k \in Nat
       /\ ReturnBorrow(ind, k, <<W(y, e), W(Top.addr, f)>>)
  BY <1>1, <1>3, <1>4, <1>5, <1>6, <1>8, <1>9, <1>10
<1>12. writes = <<>>
  BY <1>1 DEF NodeUnderflows, AtDeleteNode, At
<1>13. QED
  BY <1>1, <1>2, <1>11, <1>12, SharedShape

\* delete_node, two nodes become one.
LEMMA MergeNodesShape == IInv /\ ShapeInv /\ MergeNodes => ShapeInv' /\ KeepsBooks
<1> SUFFICES ASSUME IInv, ShapeInv, MergeNodes PROVE ShapeInv' /\ KeepsBooks
  OBVIOUS
<1>1. /\ NodeUnderflows /\ ~AtRoot /\ nkeys(popped_node) < MIN_NKEYS_NODE
      /\ MustMerge(MIN_NKEYS_NODE, "node")
  BY DEF MergeNodes, NodeUnderflows
<1>2. /\ Updating /\ pc = "delete_up" /\ Within(disk, file_size)
      /\ Top.addr \in Inner(disk) /\ Top.addr # 0 /\ Top.addr # RootOf(disk)
      /\ Branch(popped_node) /\ nkeys(popped_node) \in Nat
      /\ nkeys(popped_node) + 1 >= MIN_NKEYS_NODE
  BY <1>1, NodeAndSiblings
<1>3. PICK lv, s, h : /\ Tree(disk, lv, s) /\ Standing(disk, lv, s, {h}, RootOf(disk))
                      /\ h \in Kids(disk[Top.addr]) /\ Hole = {h}
                      /\ Kids(popped_node) = Kids(disk[Top.addr]) \ {h}
                      /\ has_left =>
                           /\ Sibling(lv, left_addr) /\ left_addr # Top.addr
                           /\ left_sib = disk[left_addr]
                           /\ Parent.block.values[Parent.i - 1 + 2] = Top.addr
                      /\ has_right =>
                           /\ Sibling(lv, right_addr) /\ right_addr # Top.addr
                           /\ right_sib = disk[right_addr]
  BY <1>1, NodeAndSiblings
\* Whichever of the two is the left one.
<1>4. ASSUME NEW l \in Inner(disk), l # 0, lv[l] = lv[Top.addr], l # RootOf(disk),
             NEW r \in Inner(disk), r # 0, lv[r] = lv[Top.addr], l # r, r # RootOf(disk),
             h \in Kids(disk[l]) \cup Kids(disk[r]),
             NEW a, Branch(a), NEW c, Branch(c), Kids(a) \cap Kids(c) = {},
             Kids(a) \cup Kids(c) = (Kids(disk[l]) \cup Kids(disk[r])) \ {h},
             nkeys(a) + nkeys(c) + 1 <= MAX_NKEYS,
             nkeys(a) + nkeys(c) + 1 >= MIN_NKEYS_NODE,
             NEW k \in Nat, NEW ind \in Nat, r = Parent.block.values[ind + 2],
             ReturnMerge(ind, r, l, merge_nodes(a, k, c))
      PROVE  ShapeInv' /\ KeepsBooks
  <2>1. PICK b : b = merge_nodes(a, k, c)
    OBVIOUS
  <2>2. Branch(b) /\ Kids(b) = Kids(a) \cup Kids(c) /\ HasEnough(b) /\ IsLive(b)
    <3>1. LET n == merge_nodes(a, k, c)
          IN  /\ Branch(n) /\ Kids(n) = Kids(a) \cup Kids(c)
              /\ nkeys(n) = nkeys(a) + nkeys(c) + 1
      BY <1>4, MergeNodesKids
    <3>2. QED
      BY <1>4, <2>1, <3>1 DEF HasEnough, IsLive, Branch
  <2>3. PICK g : g = Put(Freed(disk, r), l, b)
    OBVIOUS
  <2>4. /\ \E q \in Seq(Nat) : Standing(g, lv, q, {r}, RootOf(disk))
        /\ DOMAIN g = DOMAIN disk /\ RootOf(g) = RootOf(disk) /\ Unmoved(disk, g, {l, r})
    <3>1. Merging(disk, lv, s, RootOf(disk), h, l, r, b)
      BY <1>3, <1>4, <2>2 DEF Merging
    <3>2. LET n == Put(Freed(disk, r), l, b)
          IN  /\ \E q \in Seq(Nat) : Standing(n, lv, q, {r}, RootOf(disk))
              /\ DOMAIN n = DOMAIN disk /\ RootOf(n) = RootOf(disk)
              /\ Unmoved(disk, n, {l, r})
      BY ONLY <3>1, NodesMerged
    <3>3. QED
      BY <2>3, <3>2
  <2>5. ReturnMerge(ind, r, l, b)
    BY <1>4, <2>1
  <2>6. ShapeInv'
    BY <1>1, <1>2, <1>3, <1>4, <2>2, <2>3, <2>4, <2>5, MergeShape
  <2>7. KeepsBooks
    <3>1. writes = <<>>
      BY <1>1 DEF NodeUnderflows, AtDeleteNode, At
    <3>2. KidsIn(disk[l]) \cup KidsIn(disk[r]) \subseteq KidsIn(b) \cup Hole
      <4>1. KidsIn(b) = Kids(b)
        BY <2>2 DEF KidsIn, Branch
      <4>2. KidsIn(disk[l]) \subseteq Kids(disk[l]) /\ KidsIn(disk[r]) \subseteq Kids(disk[r])
        BY DEF KidsIn
      <4>3. QED
        BY <1>3, <1>4, <2>2, <4>1, <4>2
    <3>3. l \in Live(disk) /\ r \in Live(disk)
      BY <1>4, InnerLive
    <3>4. QED
      BY <1>1, <1>2, <1>3, <1>4, <2>2, <2>5, <3>1, <3>2, <3>3, MergeBooks
  <2>8. QED
    BY <2>6, <2>7
<1>5. CASE has_left
  <2>1. ReturnMerge(Parent.i - 1, Top.addr, left_addr,
                    merge_nodes(left_sib, Parent.block.keys[Parent.i], popped_node))
    BY <1>5 DEF MergeNodes
  <2>2. left_sib.tag = "node" /\ nkeys(left_sib) <= MIN_NKEYS_NODE
    BY <1>1, <1>5 DEF MustMerge
  <2>3. /\ left_addr # 0 /\ Parent.i - 1 \in Nat /\ Parent.block.keys[Parent.i] \in Nat
    BY <1>1, <1>2, <1>5, <2>2, Siblings
  <2>4. /\ lv[left_addr] = lv[Top.addr] /\ left_addr # RootOf(disk)
        /\ HasEnough(left_sib) /\ disk[left_addr] = left_sib /\ left_addr # Top.addr
    BY <1>3, <1>5 DEF Sibling
  <2>5. /\ left_addr \in Inner(disk) /\ Branch(left_sib)
        /\ Kids(disk[Top.addr]) \cap Kids(left_sib) = {}
    BY <1>2, <1>3, <1>5, <2>2, SiblingNode
  <2>6. /\ nkeys(left_sib) + nkeys(popped_node) + 1 <= MAX_NKEYS
        /\ nkeys(left_sib) + nkeys(popped_node) + 1 >= MIN_NKEYS_NODE
    <3>1. nkeys(left_sib) \in Nat /\ nkeys(left_sib) >= MIN_NKEYS_NODE
      BY <2>2, <2>4, <2>5, BranchArrays DEF HasEnough
    <3>2. QED
      BY <1>1, <1>2, <2>2, <3>1, Minima, MaxNkeysAssumption
  <2>7. /\ Kids(left_sib) \cap Kids(popped_node) = {} /\ h \in Kids(disk[left_addr]) \cup Kids(disk[Top.addr])
        /\ Kids(left_sib) \cup Kids(popped_node)
             = (Kids(disk[left_addr]) \cup Kids(disk[Top.addr])) \ {h}
    BY <1>3, <2>4, <2>5
  <2>8. Top.addr = Parent.block.values[Parent.i - 1 + 2]
    BY <1>3, <1>5
  <2>9. QED
    BY <1>2, <1>4, <2>1, <2>3, <2>4, <2>5, <2>6, <2>7, <2>8
<1>6. CASE ~has_left
  <2>1. ReturnMerge(Parent.i, right_addr, Top.addr,
                    merge_nodes(popped_node, Parent.block.keys[Parent.i + 1], right_sib))
    BY <1>6 DEF MergeNodes
  <2>2. has_right /\ right_sib.tag = "node" /\ nkeys(right_sib) <= MIN_NKEYS_NODE
    BY <1>1, <1>6 DEF MustMerge
  <2>3. /\ right_addr # 0 /\ Parent.i \in Nat /\ Parent.block.keys[Parent.i + 1] \in Nat
    BY <1>1, <1>2, <2>2, Siblings
  <2>4. /\ lv[right_addr] = lv[Top.addr] /\ right_addr # RootOf(disk)
        /\ HasEnough(right_sib) /\ disk[right_addr] = right_sib /\ right_addr # Top.addr
        /\ right_addr = Parent.block.values[Parent.i + 2]
    BY <1>3, <2>2 DEF Sibling, right_addr
  <2>5. /\ right_addr \in Inner(disk) /\ Branch(right_sib)
        /\ Kids(disk[Top.addr]) \cap Kids(right_sib) = {}
    BY <1>2, <1>3, <2>2, SiblingNode
  <2>6. /\ nkeys(popped_node) + nkeys(right_sib) + 1 <= MAX_NKEYS
        /\ nkeys(popped_node) + nkeys(right_sib) + 1 >= MIN_NKEYS_NODE
    <3>1. nkeys(right_sib) \in Nat /\ nkeys(right_sib) >= MIN_NKEYS_NODE
      BY <2>2, <2>4, <2>5, BranchArrays DEF HasEnough
    <3>2. QED
      BY <1>1, <1>2, <2>2, <3>1, Minima, MaxNkeysAssumption
  <2>7. /\ Kids(popped_node) \cap Kids(right_sib) = {} /\ h \in Kids(disk[Top.addr]) \cup Kids(disk[right_addr])
        /\ Kids(popped_node) \cup Kids(right_sib)
             = (Kids(disk[Top.addr]) \cup Kids(disk[right_addr])) \ {h}
    BY <1>3, <2>4, <2>5
  <2>8. QED
    BY <1>2, <1>4, <2>1, <2>3, <2>4, <2>5, <2>6, <2>7
<1>7. QED
  BY <1>5, <1>6

-----------------------------------------------------------------------------
(* Every step *)

LEMMA StepShape == IInv /\ ShapeInv /\ [Next]_vars => ShapeInv'
<1> SUFFICES ASSUME IInv, ShapeInv, [Next]_vars PROVE ShapeInv'
  OBVIOUS
<1>1. CASE WriteBlock
  BY <1>1, WriteBlockShape
<1>2. CASE OpenNew
  BY <1>2, OpenNewShape
<1>3. CASE OpenExisting \/ Close \/ Return \/ \E o \in Ops : Call(o)
  BY <1>3, AtCallShape
<1>4. CASE Get \/ InsertDuplicate \/ DeleteMissing
  BY <1>4, LookupShape
<1>5. CASE Descend \/ ScanLeaf
  BY <1>5, DescendShape, ScanLeafShape
<1>6. CASE UpdateLeaf \/ InsertLeaf \/ DeleteFromLeaf
  BY <1>6, LeafShape
<1>7. CASE InsertLeafSplitRaises \/ InsertLeafSplit
  BY <1>7, InsertLeafSplitRaisesShape, InsertLeafSplitShape
<1>8. CASE InsertNode \/ InsertNodeSplit \/ NewRoot \/ SetRoot
  BY <1>8, InsertNodeShape, InsertNodeSplitShape, NewRootShape, SetRootShape
<1>9. CASE WriteModifiedNode \/ DeleteFromNode \/ ShrinkRoot
  BY <1>9, WriteModifiedNodeShape, DeleteFromNodeShape, ShrinkRootShape
<1>10. CASE BorrowLeafLeft \/ BorrowLeafRight \/ MergeLeaves
  BY <1>10, BorrowLeafLeftShape, BorrowLeafRightShape, MergeLeavesShape
<1>11. CASE BorrowNodeLeft \/ BorrowNodeRight \/ MergeNodes
  BY <1>11, BorrowNodeLeftShape, BorrowNodeRightShape, MergeNodesShape
<1>12. CASE UNCHANGED vars
  BY <1>12, StutterShape
<1>13. QED
  BY <1>1, <1>2, <1>3, <1>4, <1>5, <1>6, <1>7, <1>8, <1>9, <1>10, <1>11, <1>12
     DEF Next, CodeStep, CallerStep, InsertStep, DeleteStep

LEMMA InitShape == Init => ShapeInv
<1> SUFFICES ASSUME Init PROVE ShapeInv
  OBVIOUS
<1>1. /\ disk = [a \in {} |-> ZeroBlock] /\ writes = <<>> /\ pc = "closed"
  BY DEF Init
<1>2. DOMAIN disk = {} /\ disk = [a \in DOMAIN disk |-> disk[a]]
  BY <1>1
<1>3. After(disk, disk, writes) /\ Ordered(writes)
  BY <1>1, <1>2, AfterSame, OrderedNone
<1>4. Shape(disk, [a \in Nat |-> 0], <<>>)
  BY <1>1, <1>2, <1>3 DEF Shape
<1>5. QED
  BY <1>4 DEF ShapeInv

-----------------------------------------------------------------------------
(* The tree, always *)

\* The file is a tree and a free list once the writes issued have reached it, in
\* every state of every call, whatever the blocks hold, how many keys fit in one
\* and what calls are made.
THEOREM ShapeHolds == PSpec => [](IInv /\ ShapeInv)
<1>1. PInit => IInv /\ ShapeInv
  BY InitInv, InitShape DEF PInit
<1>2. IInv /\ ShapeInv /\ [PNext]_pvars => IInv' /\ ShapeInv'
  <2> SUFFICES ASSUME IInv, ShapeInv, [PNext]_pvars PROVE IInv' /\ ShapeInv'
    OBVIOUS
  <2>1. [Next]_vars
    BY DEF PNext, pvars
  <2>2. QED
    BY <2>1, StepInv, StepShape
<1>3. QED
  BY <1>1, <1>2, PTL DEF PSpec

LEMMA IdleAtRest ==
  ASSUME IInv, ShapeInv, writes = <<>>, pc \notin {"closed", "set_root", "delete_up"}
  PROVE  \E lv, s : /\ AtRestWith(disk, lv) /\ s \in Seq(Nat) /\ Chain(disk, s)
                    /\ \A a \in Inner(disk) : Kids(disk[a]) \subseteq Live(disk)
<1>1. PICK lv, s : Tree(disk, lv, s)
  BY AtRest
<1>2. Hole = {} /\ Apex(disk) = RootOf(disk)
  BY DEF Hole, Apex
<1>3. /\ Woods(disk, lv, s, {}) /\ Rooted(disk, RootOf(disk)) /\ Full(disk, RootOf(disk))
  BY <1>1, <1>2 DEF Tree, Standing
<1>4. IsFiniteSet(DOMAIN disk)
  BY DEF IInv, DiskInv
<1>5. AtRestWith(disk, lv)
  BY <1>3, <1>4 DEF AtRestWith, Woods
<1>6. s \in Seq(Nat) /\ Chain(disk, s) /\ \A a \in Inner(disk) : Kids(disk[a]) \subseteq Live(disk)
  BY <1>3 DEF Woods, Forest
<1>7. QED
  BY <1>5, <1>6

\* Between calls all leaves are equally deep and every node has its minimum of
\* keys: no split, borrow or merge of btree.py:414-831 ever leaves one short.
THEOREM AlwaysBalanced == PSpec => []Balanced
<1>1. IInv /\ ShapeInv => Balanced
  <2> SUFFICES ASSUME IInv, ShapeInv, pc = "idle" PROVE FullAndLevel(disk)
    BY DEF Balanced
  <2>1. writes = <<>>
    BY DEF ShapeInv, Shape
  <2>2. QED
    BY <2>1, IdleAtRest, RestIsFullAndLevel
<1>2. QED
  BY <1>1, ShapeHolds, PTL

-----------------------------------------------------------------------------
(* No block is lost *)

\* Every insert and update is of a key and a value that fit an unsigned 64-bit slot.
AllFit == \A o \in Ops : o.kind \in {"insert", "update"} => Packable(o.k) /\ Packable(o.v)

\* InsertLeafSplitRaises, the one step that loses a block, is then never taken.
LEMMA StepBooks ==
  ASSUME AllFit, IInv, ShapeInv, BookInv, [Next]_vars
  PROVE  BookInv'
<1>1. CASE WriteBlock \/ UNCHANGED vars
  BY <1>1, WriteBooks, StutterBooks DEF KeepsBooks
<1>2. CASE OpenNew
  BY <1>2, OpenNewBooks
<1>3. CASE OpenExisting \/ Close
  BY <1>3, ReopenBooks DEF KeepsBooks
<1>4. CASE \/ Get \/ InsertDuplicate \/ DeleteMissing \/ Descend \/ ScanLeaf
           \/ Return \/ \E o \in Ops : Call(o)
  BY <1>4, LookupBooks DEF KeepsBooks
<1>5. CASE UpdateLeaf \/ InsertLeaf \/ DeleteFromLeaf
  BY <1>5, LeafShape DEF KeepsBooks
<1>6. CASE InsertLeafSplitRaises
  <2>1. pc = "search" /\ op.kind \in {"insert", "update"} /\ ~Fits
    BY <1>6 DEF InsertLeafSplitRaises, AtInsertLeaf, AtLeaf, At
  <2>2. op \in Ops
    BY <2>1 DEF IInv, CallInv
  <2>3. QED
    BY <2>1, <2>2 DEF AllFit, Fits
<1>7. CASE InsertLeafSplit \/ InsertNode \/ InsertNodeSplit
  BY <1>7, InsertLeafSplitShape, InsertNodeShape, InsertNodeSplitShape DEF KeepsBooks
<1>8. CASE NewRoot \/ SetRoot
  BY <1>8, NewRootShape, SetRootShape DEF KeepsBooks
<1>9. CASE WriteModifiedNode \/ DeleteFromNode \/ ShrinkRoot
  BY <1>9, WriteModifiedNodeShape, DeleteFromNodeShape, ShrinkRootShape DEF KeepsBooks
<1>10. CASE BorrowLeafLeft \/ BorrowLeafRight \/ MergeLeaves
  BY <1>10, BorrowLeafLeftShape, BorrowLeafRightShape, MergeLeavesShape DEF KeepsBooks
<1>11. CASE BorrowNodeLeft \/ BorrowNodeRight \/ MergeNodes
  BY <1>11, BorrowNodeLeftShape, BorrowNodeRightShape, MergeNodesShape DEF KeepsBooks
<1>12. QED
  BY <1>1, <1>2, <1>3, <1>4, <1>5, <1>6, <1>7, <1>8, <1>9, <1>10, <1>11
     DEF Next, CodeStep, CallerStep, InsertStep, DeleteStep

LEMMA InitBooks == Init => BookInv
<1> SUFFICES ASSUME Init PROVE BookInv
  OBVIOUS
<1>1. /\ disk = [a \in {} |-> ZeroBlock] /\ writes = <<>> /\ pc = "closed"
  BY DEF Init
<1>2. DOMAIN disk = {} /\ disk = [a \in DOMAIN disk |-> disk[a]]
  BY <1>1
<1>3. After(disk, disk, writes)
  BY <1>1, <1>2, AfterSame
<1>4. DOMAIN disk = 0..(0 - 1) /\ 0 \in Nat
  BY <1>2
<1>5. Books(disk, <<>>)
  BY <1>1, <1>2, <1>3, <1>4 DEF Books
<1>6. QED
  BY <1>5 DEF BookInv

\* Between calls the books balance: every block but the header is in the tree or
\* on the free list.
LEMMA IdleBooks ==
  ASSUME IInv, ShapeInv, BookInv, pc = "idle"
  PROVE  /\ Lost = {}
         /\ \A a \in 1..(file_size - 1) : Read(a).tag = "free" \/ a \in Reached(disk)
<1>1. writes = <<>>
  BY DEF ShapeInv, Shape
<1>2. PICK lv : AtRestWith(disk, lv)
  BY <1>1, IdleAtRest
<1>3. PICK s : Booked(disk, s, {Apex(disk)} \cup Pending)
  BY <1>1, BooksNow
<1>4. DOMAIN disk = 0..(file_size - 1) /\ file_size \in Nat
  BY <1>1, BooksNow
<1>5. {Apex(disk)} \cup Pending = {RootOf(disk)}
  BY DEF Apex, Pending
<1>6. PICK R : R = {RootOf(disk)}
  OBVIOUS
<1>7. \A a \in DOMAIN disk : a = 0 \/ a \in Members(s) \/ a \in Reached(disk)
  BY <1>2, <1>3, <1>5, EveryBlockFound
<1>8. s \in Seq(Nat) /\ Chain(disk, s)
  BY <1>3 DEF Booked
<1>9. ToSet(FreeChain(disk)) = Members(s)
  BY <1>2, <1>8, FreeChainMembers DEF AtRestWith
<1>10. \A a \in Members(s) : Read(a).tag = "free"
  <2> SUFFICES ASSUME NEW j \in 1..Len(s) PROVE Read(s[j]).tag = "free"
    BY DEF Members
  <2>1. s[j] \in DOMAIN disk /\ disk[s[j]].tag = "free"
    BY <1>8 DEF Chain
  <2>2. QED
    BY <2>1 DEF Read
<1>11. \A a \in 1..(file_size - 1) : a \in DOMAIN disk /\ a # 0
  BY <1>4
<1>12. Lost = {}
  BY <1>7, <1>9, <1>11 DEF Lost, blocks
<1>13. QED
  BY <1>7, <1>10, <1>11, <1>12

\* No block is ever lost, unless an insert of a key or a value that does not fit
\* raises while it splits a leaf: splits, borrows, merges and the free list hand
\* every block on (btree.py:105-156, 310-831).
THEOREM NoBlockIsLost == AllFit => (PSpec => [](NoOrphans /\ (pc = "idle" => Lost = {})))
<1> SUFFICES ASSUME AllFit PROVE PSpec => [](NoOrphans /\ (pc = "idle" => Lost = {}))
  OBVIOUS
<1> DEFINE P == NoOrphans /\ (pc = "idle" => Lost = {})
<1>1. PInit => BookInv
  BY InitBooks DEF PInit
<1>2. IInv /\ ShapeInv /\ BookInv /\ [PNext]_pvars => BookInv'
  <2> SUFFICES ASSUME IInv, ShapeInv, BookInv, [PNext]_pvars PROVE BookInv'
    OBVIOUS
  <2>1. [Next]_vars
    BY DEF PNext, pvars
  <2>2. QED
    BY <2>1, StepBooks
<1>3. IInv /\ ShapeInv /\ BookInv => P
  BY IdleBooks DEF NoOrphans
<1> HIDE DEF P
<1>4. PSpec => []P
  BY <1>1, <1>2, <1>3, ShapeHolds, PTL DEF PSpec
<1>5. QED
  BY <1>4 DEF P

-----------------------------------------------------------------------------
(* What the steps write *)

\* What the code is doing tells what it was called for.
Kinds ==
  /\ pc \in {"closed", "idle"} => op = NoOp
  /\ pc \in {"insert_up", "new_root"} => op.kind \in {"insert", "update"}
  /\ pc = "delete_up" => op.kind = "delete"

LEMMA StepKinds == Kinds /\ [Next]_vars => Kinds'
<1> SUFFICES ASSUME Kinds, [Next]_vars PROVE Kinds'
  OBVIOUS
<1>1. CASE UNCHANGED vars \/ WriteBlock \/ Descend
  BY <1>1 DEF Kinds, vars, WriteBlock, Descend
<1>2. CASE OpenNew \/ OpenExisting \/ Close \/ Return \/ \E o \in Ops : Call(o)
  BY <1>2 DEF Kinds, OpenNew, OpenExisting, Close, Return, Call, At
<1>3. CASE Get \/ ScanLeaf \/ SetRoot
  BY <1>3 DEF Kinds, Get, ScanLeaf, SetRoot, Finish
<1>4. CASE InsertDuplicate \/ UpdateLeaf \/ InsertLeaf \/ InsertLeafSplitRaises \/ InsertNode
  BY <1>4 DEF Kinds, InsertDuplicate, UpdateLeaf, InsertLeaf, InsertLeafSplitRaises, InsertNode,
              Finish
<1>5. CASE InsertLeafSplit \/ InsertNodeSplit \/ NewRoot
  BY <1>5 DEF Kinds, InsertLeafSplit, InsertNodeSplit, NewRoot, ReturnSplit, AtInsertLeaf,
              AtLeaf, At
<1>6. CASE DeleteMissing \/ DeleteFromLeaf \/ WriteModifiedNode \/ DeleteFromNode \/ ShrinkRoot
  BY <1>6 DEF Kinds, DeleteMissing, DeleteFromLeaf, WriteModifiedNode, DeleteFromNode,
              ShrinkRoot, Finish
<1>7. CASE BorrowLeafLeft \/ BorrowLeafRight \/ MergeLeaves
  BY <1>7 DEF Kinds, BorrowLeafLeft, BorrowLeafRight, MergeLeaves, LeafUnderflows, AtDeleteLeaf,
              AtLeaf, ReturnBorrow, ReturnMerge
<1>8. CASE BorrowNodeLeft \/ BorrowNodeRight \/ MergeNodes
  BY <1>8 DEF Kinds, BorrowNodeLeft, BorrowNodeRight, MergeNodes, NodeUnderflows, AtDeleteNode,
              At, ReturnBorrow, ReturnMerge
<1>9. QED
  BY <1>1, <1>2, <1>3, <1>4, <1>5, <1>6, <1>7, <1>8
     DEF Next, CodeStep, CallerStep, InsertStep, DeleteStep

\* A handler that frees nothing writes live blocks, and before them maybe the header.
HeaderOnly(x, b) == x = 0 /\ b.tag = "header"

Plain(ws) ==
  \A j \in 1..Len(ws) : IsLive(ws[j].block) \/ (j = 1 /\ HeaderOnly(ws[1].addr, ws[1].block))

LEMMA PlainWrites ==
  /\ Plain(<<>>)
  /\ \A x, b : IsLive(b) \/ HeaderOnly(x, b) => Plain(<<W(x, b)>>)
  /\ \A x, b, y, c : (IsLive(b) \/ HeaderOnly(x, b)) /\ IsLive(c) => Plain(<<W(x, b), W(y, c)>>)
  /\ \A x, b, y, c, z, d :
       (IsLive(b) \/ HeaderOnly(x, b)) /\ IsLive(c) /\ IsLive(d)
         => Plain(<<W(x, b), W(y, c), W(z, d)>>)
<1>1. Plain(<<>>)
  BY DEF Plain
<1>2. ASSUME NEW x, NEW b, IsLive(b) \/ HeaderOnly(x, b) PROVE Plain(<<W(x, b)>>)
  BY <1>2 DEF Plain, W
<1>3. ASSUME NEW x, NEW b, NEW y, NEW c, IsLive(b) \/ HeaderOnly(x, b), IsLive(c)
      PROVE  Plain(<<W(x, b), W(y, c)>>)
  BY <1>3 DEF Plain, W
<1>4. ASSUME NEW x, NEW b, NEW y, NEW c, NEW z, NEW d, IsLive(b) \/ HeaderOnly(x, b),
             IsLive(c), IsLive(d)
      PROVE  Plain(<<W(x, b), W(y, c), W(z, d)>>)
  BY <1>4 DEF Plain, W
<1>5. QED
  BY <1>1, <1>2, <1>3, <1>4

\* new_node's write, if any, goes before those of the caller.
LEMMA PlainNew ==
  ASSUME NEW x, NEW b, IsLive(b), NEW y, NEW c, IsLive(c)
  PROVE  /\ Plain(new_node_writes)
         /\ Plain(new_node_writes \o <<W(x, b)>>)
         /\ Plain(new_node_writes \o <<W(x, b), W(y, c)>>)
<1>1. PICK e : e = Header(root_ptr, Read(free_ptr).next) /\ HeaderOnly(0, e)
  BY LiveTags DEF HeaderOnly
<1>2. CASE free_ptr = 0
  <2>1. new_node_writes = <<>>
    BY <1>2 DEF new_node_writes
  <2>2. /\ <<>> \o <<W(x, b)>> = <<W(x, b)>>
        /\ <<>> \o <<W(x, b), W(y, c)>> = <<W(x, b), W(y, c)>>
    OBVIOUS
  <2>3. QED
    BY <2>1, <2>2, PlainWrites
<1>3. CASE free_ptr # 0
  <2>1. new_node_writes = <<W(0, e)>>
    BY <1>1, <1>3 DEF new_node_writes
  <2>2. /\ <<W(0, e)>> \o <<W(x, b)>> = <<W(0, e), W(x, b)>>
        /\ <<W(0, e)>> \o <<W(x, b), W(y, c)>> = <<W(0, e), W(x, b), W(y, c)>>
    BY TogetherIs
  <2>3. QED
    BY <1>1, <2>1, <2>2, PlainWrites
<1>4. QED
  BY <1>2, <1>3

LEMMA StepPlain ==
  ASSUME IInv, Next, ~WriteBlock, ~ShrinkRoot, ~MergeLeaves, ~MergeNodes
  PROVE  Plain(writes')
<1>0. \A x, b : IsLive(b) => Plain(<<W(x, b)>>)
  BY PlainWrites
<1>2. CASE Return \/ Descend \/ OpenExisting \/ Close \/ \E o \in Ops : Call(o)
  <2>1. writes = <<>> /\ writes' = writes
    BY <1>2 DEF Return, Descend, OpenExisting, Close, Call, At
  <2>2. QED
    BY <2>1, PlainWrites
<1>3. CASE Get \/ ScanLeaf \/ InsertDuplicate \/ DeleteMissing
  <2>1. writes' = <<>>
    BY <1>3 DEF Get, ScanLeaf, InsertDuplicate, DeleteMissing, Finish, At, AtLeaf
  <2>2. QED
    BY <2>1, PlainWrites
<1>4. CASE OpenNew
  <2>1. HeaderOnly(0, Header(1, 0)) /\ IsLive(Leaf(<<>>, <<>>, 0))
    BY DEF Header, Leaf, HeaderOnly, IsLive
  <2>2. Plain(<<W(0, Header(1, 0)), W(1, Leaf(<<>>, <<>>, 0))>>)
    BY <2>1, PlainWrites
  <2>3. QED
    BY <1>4, <2>2 DEF OpenNew
<1>5. CASE UpdateLeaf
  <2>1. Top.block.tag = "leaf" /\ pc = "search"
    BY <1>5 DEF UpdateLeaf, AtLeaf, At
  <2>2. Top.block \in Block
    BY <2>1, TopFrame DEF Sound
  <2>3. \A i, v : IsLive(update_leaf(Top.block, i, v))
    BY <2>1, <2>2 DEF update_leaf, Block, IsLive
  <2>4. \A i, v : Plain(<<W(Top.addr, update_leaf(Top.block, i, v))>>)
    BY <1>0, <2>3
  <2>5. QED
    BY <1>5, <2>4, PlainWrites DEF UpdateLeaf, Finish
<1>6. CASE InsertLeaf \/ DeleteFromLeaf
  <2>1. /\ \A i, k, v : IsLive(leaf_insert(Top.block, i, k, v))
        /\ IsLive(popped_leaf)
    BY DEF leaf_insert, leaf_pop, popped_leaf, Leaf, IsLive
  <2>2. /\ \A i, k, v : Plain(<<W(Top.addr, leaf_insert(Top.block, i, k, v))>>)
        /\ Plain(<<W(Top.addr, popped_leaf)>>)
    BY <1>0, <2>1
  <2>3. QED
    BY <1>6, <2>2, PlainWrites DEF InsertLeaf, DeleteFromLeaf, Finish
<1>7. CASE InsertLeafSplitRaises
  <2>1. IsLive(ZeroBlock)
    BY DEF ZeroBlock, Node, IsLive
  <2>2. QED
    BY <1>7, <2>1, PlainNew DEF InsertLeafSplitRaises, Finish
<1>8. CASE InsertLeafSplit
  <2>1. PICK s, i : /\ s = split_leaf(Top.block, i, op.k, op.v, new_addr)
                    /\ writes' = new_node_writes \o <<W(Top.addr, s.old), W(new_addr, s.new)>>
    BY <1>8 DEF InsertLeafSplit, ReturnSplit
  <2>2. IsLive(s.old) /\ IsLive(s.new)
    BY <2>1 DEF split_leaf, Leaf, IsLive
  <2>3. QED
    BY <2>1, <2>2, PlainNew
<1>9. CASE InsertNode
  <2>1. \A i, j, k, v : IsLive(node_insert(Top.block, i, j, k, v))
    BY DEF node_insert, Node, IsLive
  <2>2. QED
    BY <1>0, <1>9, <2>1 DEF InsertNode, Finish
<1>10. CASE InsertNodeSplit
  <2>1. PICK s, i : /\ s = split_node(Top.block, i, rv.key, rv.addr)
                    /\ writes' = new_node_writes \o <<W(Top.addr, s.old), W(new_addr, s.new)>>
    BY <1>10 DEF InsertNodeSplit, ReturnSplit
  <2>2. IsLive(s.old) /\ IsLive(s.new)
    BY <2>1 DEF split_node, Node, IsLive
  <2>3. QED
    BY <2>1, <2>2, PlainNew
<1>11. CASE NewRoot
  <2>1. PICK b : /\ b = Node(<<rv.key>>, <<Top.addr, rv.addr>>)
                 /\ writes' = new_node_writes \o <<W(new_addr, b)>>
    BY <1>11 DEF NewRoot
  <2>2. IsLive(b)
    BY <2>1 DEF Node, IsLive
  <2>3. QED
    BY <2>1, <2>2, PlainNew
<1>12. CASE SetRoot
  BY <1>12, LiveTags, PlainWrites DEF SetRoot, Finish, set_root_writes, HeaderOnly
<1>13. CASE WriteModifiedNode
  <2>1. IsLive(Top.block)
    BY <1>13, TopFrame DEF WriteModifiedNode, At, IsLive
  <2>2. QED
    BY <1>0, <1>13, <2>1 DEF WriteModifiedNode, Finish
<1>14. CASE DeleteFromNode
  <2>1. IsLive(popped_node)
    BY DEF popped_node, node_pop, Node, IsLive
  <2>2. QED
    BY <1>0, <1>14, <2>1 DEF DeleteFromNode, Finish
<1>16. ASSUME BorrowLeafLeft \/ BorrowLeafRight PROVE Plain(writes')
  <2>1. \A leaf, i, k, v : /\ IsLive(leaf_insert(leaf, i, k, v))
                           /\ IsLive(leaf_pop(leaf, i))
    BY DEF leaf_insert, leaf_pop, Leaf, IsLive
  <2>2. CASE BorrowLeafLeft
    <3>1. PICK i, j, k, v, n :
            writes' = <<W(left_addr, leaf_pop(left_sib, n)),
                        W(Top.addr, leaf_insert(popped_leaf, i, k, v))>>
      BY <2>2 DEF BorrowLeafLeft, ReturnBorrow
    <3>2. PICK b, c : b = leaf_pop(left_sib, n) /\ c = leaf_insert(popped_leaf, i, k, v)
      OBVIOUS
    <3>3. IsLive(b) /\ IsLive(c)
      BY <2>1, <3>2
    <3>4. QED
      BY <3>1, <3>2, <3>3, PlainWrites
  <2>3. CASE BorrowLeafRight
    <3>1. PICK i, k, v :
            writes' = <<W(right_addr, leaf_pop(right_sib, 0)),
                        W(Top.addr, leaf_insert(popped_leaf, i, k, v))>>
      BY <2>3 DEF BorrowLeafRight, ReturnBorrow
    <3>2. PICK b, c : b = leaf_pop(right_sib, 0) /\ c = leaf_insert(popped_leaf, i, k, v)
      OBVIOUS
    <3>3. IsLive(b) /\ IsLive(c)
      BY <2>1, <3>2
    <3>4. QED
      BY <3>1, <3>2, <3>3, PlainWrites
  <2>4. QED
    BY <1>16, <2>2, <2>3
<1>17. ASSUME BorrowNodeLeft \/ BorrowNodeRight PROVE Plain(writes')
  <2>1. \A node, i, j, k, v : /\ IsLive(node_insert(node, i, j, k, v))
                              /\ IsLive(node_pop(node, i, j))
    BY DEF node_insert, node_pop, Node, IsLive
  <2>2. CASE BorrowNodeLeft
    <3>1. PICK i, j, k, v, m, n :
            writes' = <<W(left_addr, node_pop(left_sib, m, n)),
                        W(Top.addr, node_insert(popped_node, i, j, k, v))>>
      BY <2>2 DEF BorrowNodeLeft, ReturnBorrow
    <3>2. PICK b, c : b = node_pop(left_sib, m, n) /\ c = node_insert(popped_node, i, j, k, v)
      OBVIOUS
    <3>3. IsLive(b) /\ IsLive(c)
      BY <2>1, <3>2
    <3>4. QED
      BY <3>1, <3>2, <3>3, PlainWrites
  <2>3. CASE BorrowNodeRight
    <3>1. PICK i, j, k, v, m, n :
            writes' = <<W(right_addr, node_pop(right_sib, m, n)),
                        W(Top.addr, node_insert(popped_node, i, j, k, v))>>
      BY <2>3 DEF BorrowNodeRight, ReturnBorrow
    <3>2. PICK b, c : b = node_pop(right_sib, m, n) /\ c = node_insert(popped_node, i, j, k, v)
      OBVIOUS
    <3>3. IsLive(b) /\ IsLive(c)
      BY <2>1, <3>2
    <3>4. QED
      BY <3>1, <3>2, <3>3, PlainWrites
  <2>4. QED
    BY <1>17, <2>2, <2>3
<1>18. QED
  BY <1>2, <1>3, <1>4, <1>5, <1>6, <1>7, <1>8, <1>9, <1>10, <1>11, <1>12, <1>13, <1>14,
     <1>16, <1>17 DEF Next, CodeStep, CallerStep, InsertStep, DeleteStep

-----------------------------------------------------------------------------
(* What a crash leaves: the free list *)

\* The free block among the queued writes comes after the header that leads to it,
\* or is the next write and the header on file leads to it.
FreedInTurn(ws, d, j) ==
  \/ j = 1 /\ ws[1].addr = FreeOf(d)
  \/ j = 2 /\ HeaderOnly(ws[1].addr, ws[1].block) /\ ws[1].block.values[2] = ws[2].addr

Queued(ws, d, o) ==
  \A j \in 1..Len(ws) :
    \/ IsLive(ws[j].block)
    \/ j = 1 /\ HeaderOnly(ws[1].addr, ws[1].block)
    \/ o.kind = "delete" /\ ws[j].block.tag = "free" /\ FreedInTurn(ws, d, j)

LEMMA FreeQueued ==
  ASSUME NEW x, op.kind = "delete"
  PROVE  /\ Queued(free_writes(x), disk, op)
         /\ \A y, b : IsLive(b) => Queued(Append(free_writes(x), W(y, b)), disk, op)
<1>1. PICK h, f : /\ h = Header(root_ptr, x) /\ f = FreeBlock(free_ptr)
                  /\ HeaderOnly(0, h) /\ h.values[2] = x /\ f.tag = "free"
  <2>1. PICK h : h = Header(root_ptr, x)
    OBVIOUS
  <2>2. PICK f : f = FreeBlock(free_ptr)
    OBVIOUS
  <2>3. HeaderOnly(0, h) /\ h.values[2] = x
    BY <2>1 DEF Header, HeaderOnly
  <2>4. f.tag = "free"
    BY <2>2, LiveTags
  <2>5. QED
    BY <2>1, <2>2, <2>3, <2>4
<1>2. free_writes(x) = <<W(0, h), W(x, f)>>
  BY <1>1 DEF free_writes
<1>3. Queued(<<W(0, h), W(x, f)>>, disk, op)
  BY <1>1 DEF Queued, FreedInTurn, W
<1>4. ASSUME NEW y, NEW b, IsLive(b) PROVE Queued(Append(free_writes(x), W(y, b)), disk, op)
  <2>1. Append(free_writes(x), W(y, b)) = <<W(0, h), W(x, f), W(y, b)>>
    BY <1>2, TogetherIs
  <2>2. Queued(<<W(0, h), W(x, f), W(y, b)>>, disk, op)
    BY <1>1, <1>4 DEF Queued, FreedInTurn, W
  <2>3. QED
    BY <2>1, <2>2
<1>5. QED
  BY <1>2, <1>3, <1>4

\* The header is written first, and then the block it leads to.
LEMMA QueueAfterWrite ==
  ASSUME IInv, Queued(writes, disk, op), WriteBlock
  PROVE  Queued(writes', disk', op')
<1>1. writes # <<>> /\ writes \in Seq(Writes) /\ writes' = Tail(writes) /\ op' = op
  BY DEF WriteBlock, IInv, CallInv
<1>2. Len(writes') = Len(writes) - 1 /\ \A j \in 1..Len(writes') : writes'[j] = writes[j + 1]
  BY <1>1
<1> SUFFICES ASSUME NEW j \in 1..Len(writes')
             PROVE  \/ IsLive(writes'[j].block)
                    \/ /\ op.kind = "delete" /\ writes'[j].block.tag = "free"
                       /\ FreedInTurn(writes', disk', j)
  BY <1>1 DEF Queued
<1>3. j + 1 \in 1..Len(writes) /\ j + 1 # 1 /\ writes'[j] = writes[j + 1]
  BY <1>1, <1>2
<1>4. CASE IsLive(writes[j + 1].block)
  BY <1>3, <1>4
<1>5. CASE ~IsLive(writes[j + 1].block)
  <2>1. op.kind = "delete" /\ writes[j + 1].block.tag = "free" /\ FreedInTurn(writes, disk, j + 1)
    BY <1>3, <1>5 DEF Queued
  <2>2. /\ j = 1 /\ HeaderOnly(writes[1].addr, writes[1].block)
        /\ writes[1].block.values[2] = writes[2].addr
    BY <1>3, <2>1 DEF FreedInTurn
  <2>3. 0 \in DOMAIN disk' /\ disk'[0] = writes[1].block
    BY <2>2 DEF WriteBlock, HeaderOnly
  <2>4. FreeOf(disk') = writes'[1].addr
    BY <1>3, <2>2, <2>3 DEF FreeOf, BlockAt
  <2>5. QED
    BY <1>3, <2>1, <2>2, <2>4 DEF FreedInTurn
<1>6. QED
  BY <1>4, <1>5

\* Only a delete frees a block, in a merge or when it shrinks the root.
LEMMA StepQueued ==
  IInv /\ Kinds /\ Queued(writes, disk, op) /\ [Next]_vars => Queued(writes', disk', op')
<1> SUFFICES ASSUME IInv, Kinds, Queued(writes, disk, op), [Next]_vars
             PROVE  Queued(writes', disk', op')
  OBVIOUS
<1>1. CASE UNCHANGED vars
  BY <1>1 DEF vars
<1>2. CASE WriteBlock
  BY <1>2, QueueAfterWrite
<1>3. CASE ShrinkRoot
  <2>1. op.kind = "delete" /\ writes' = free_writes(Top.addr) /\ disk' = disk /\ op' = op
    BY <1>3 DEF ShrinkRoot, AtDeleteNode, At, Kinds
  <2>2. PICK ws : ws = free_writes(Top.addr) /\ Queued(ws, disk, op)
    BY <2>1, FreeQueued
  <2>3. writes' = ws
    BY <2>1, <2>2
  <2>4. QED
    BY <2>1, <2>2, <2>3
<1>4. CASE MergeLeaves \/ MergeNodes
  <2>1. op.kind = "delete" /\ disk' = disk /\ op' = op
    BY <1>4 DEF MergeLeaves, MergeNodes, LeafUnderflows, AtDeleteLeaf, AtLeaf, NodeUnderflows,
                AtDeleteNode, At, Kinds, ReturnMerge
  <2>2. PICK x, y, b : IsLive(b) /\ writes' = Append(free_writes(x), W(y, b))
    <3>1. \A l, r, k : IsLive(merge_leaves(l, r)) /\ IsLive(merge_nodes(l, k, r))
      BY DEF merge_leaves, merge_nodes, Leaf, Node, IsLive
    <3>2. QED
      BY <1>4, <3>1 DEF MergeLeaves, MergeNodes, ReturnMerge
  <2>3. PICK ws : ws = Append(free_writes(x), W(y, b)) /\ Queued(ws, disk, op)
    BY <2>1, <2>2, FreeQueued
  <2>4. writes' = ws
    BY <2>2, <2>3
  <2>5. QED
    BY <2>1, <2>3, <2>4
<1>5. CASE Next /\ ~WriteBlock /\ ~ShrinkRoot /\ ~MergeLeaves /\ ~MergeNodes
  BY <1>5, StepPlain DEF Plain, Queued
<1>6. QED
  BY <1>1, <1>2, <1>3, <1>4, <1>5

QueueInv == Kinds /\ Queued(writes, disk, op)

Marked(d) == \A a \in ToSet(FreeChain(d)) : BlockAt(d, a).tag = "free"

LiveQueue == \A j \in 1..Len(writes) : IsLive(writes[j].block)

\* When only leaves and nodes are left to write, the free list on file is the one that
\* the file will have.
LEMMA LiveQueueMarked ==
  ASSUME IInv, ShapeInv, 0 \in DOMAIN disk, LiveQueue
  PROVE  Marked(disk)
<1>1. writes \in Seq(Writes) /\ Len(writes) \in Nat
  BY DEF IInv, CallInv
<1>2. \A j \in 1..Len(writes) : IsLive(writes[j].block) /\ writes[j].addr # 0
  <2> TAKE j \in 1..Len(writes)
  <2>1. IsLive(writes[j].block) /\ writes[j] \in Writes
    BY <1>1, ElementOfSeq DEF LiveQueue
  <2>2. QED
    BY <2>1 DEF Writes, IsLive
<1>3. PICK f, lv, s : Shape(f, lv, s)
  BY DEF ShapeInv
<1>4. /\ DOMAIN f = DOMAIN disk \cup {writes[j].addr : j \in 1..Len(writes)}
      /\ \A j \in 1..Len(writes) : f[writes[j].addr] = writes[j].block
      /\ \A a \in DOMAIN disk : (\A j \in 1..Len(writes) : writes[j].addr # a) => f[a] = disk[a]
  BY <1>3 DEF Shape, After
<1>5. /\ File(f) /\ s \in Seq(Nat) /\ Chain(f, s)
  <2>1. DOMAIN f # {}
    BY <1>4
  <2>2. QED
    BY <1>3, <2>1 DEF Shape, Tree, Standing, Woods
<1>6. File(disk) /\ IsFiniteSet(DOMAIN disk)
  BY SoundBlocksAreSound DEF IInv, DiskInv, File, SoundBlocks
<1>7. FreeOf(f) = FreeOf(disk)
  BY <1>2, <1>4 DEF FreeOf, BlockAt
\* A free block is not among those that will be written.
<1>8. \A i \in 1..Len(s) : s[i] \in DOMAIN disk /\ disk[s[i]] = f[s[i]] /\ f[s[i]].tag = "free"
  <2> TAKE i \in 1..Len(s)
  <2>1. s[i] \in DOMAIN f /\ f[s[i]].tag = "free"
    BY <1>5 DEF Chain
  <2>2. \A j \in 1..Len(writes) : writes[j].addr # s[i]
    BY <1>2, <1>4, <2>1 DEF IsLive
  <2>3. QED
    BY <1>4, <2>1, <2>2
<1>9. Chain(disk, s)
  BY <1>5, <1>7, <1>8 DEF Chain
<1>10. ToSet(FreeChain(disk)) = Members(s)
  BY <1>5, <1>6, <1>9, FreeChainMembers
<1>11. QED
  BY <1>8, <1>10 DEF Members, Marked, BlockAt

\* A write is all a step does to the file, and only with nothing queued is anything else done.
LEMMA StepsWrite == [Next]_vars => UNCHANGED vars \/ WriteBlock \/ (writes = <<>> /\ disk' = disk)
BY DEF Next, CodeStep, CallerStep, InsertStep, DeleteStep, At, AtLeaf, AtInsertLeaf, AtDeleteLeaf,
       AtDeleteNode, LeafUnderflows, NodeUnderflows, Return, Descend, Get,
       ScanLeaf, SetRoot, OpenNew, OpenExisting, Close, Call, InsertDuplicate, UpdateLeaf,
       InsertLeaf, InsertLeafSplitRaises, InsertLeafSplit, InsertNode, InsertNodeSplit,
       NewRoot, DeleteMissing, DeleteFromLeaf, BorrowLeafLeft, BorrowLeafRight,
       MergeLeaves, WriteModifiedNode, DeleteFromNode, ShrinkRoot, BorrowNodeLeft,
       BorrowNodeRight, MergeNodes, Finish, ReturnSplit, ReturnBorrow, ReturnMerge

LEMMA QueueMarked == IInv /\ ShapeInv => (0 \in DOMAIN disk /\ LiveQueue => Marked(disk))
BY LiveQueueMarked

\* What comes first in the queue once the header is written.
LEMMA WriteMarked ==
  ASSUME WriteBlock, IInv, IInv', ShapeInv', QueueInv, QueueInv',
         LiveQueue' => (0 \in DOMAIN disk' => Marked(disk'))
  PROVE  FreeListIsMarked'
<1>1. Marked(disk') = \A a \in ToSet(FreeChain(disk')) : Read(a)'.tag = "free"
  BY DEF Marked, BlockAt, Read
<1>2. CASE LiveQueue'
  BY <1>1, <1>2 DEF FreeListIsMarked
<1>3. CASE ~LiveQueue'
  <2>1. PICK j \in 1..Len(writes') : ~IsLive(writes'[j].block)
    BY <1>3 DEF LiveQueue
  <2>2. writes \in Seq(Writes) /\ writes # <<>> /\ writes' = Tail(writes)
    BY DEF WriteBlock, IInv, CallInv
  <2>3. Len(writes') \in Nat /\ 1 \in 1..Len(writes') /\ writes' # <<>>
        /\ 2 \in 1..Len(writes) /\ writes'[1] = writes[2]
    <3>1. /\ Len(writes') = Len(writes) - 1 /\ Len(writes') \in Nat
          /\ \A i \in 1..Len(writes') : writes'[i] = writes[i + 1]
      BY <2>2
    <3>2. 1 \in 1..Len(writes') /\ 2 \in 1..Len(writes)
      BY <2>1, <2>2, <3>1
    <3>3. QED
      BY <3>1, <3>2
  <2>4. ~IsLive(writes'[1].block)
    <3>1. \A i, k \in 1..Len(writes') : i < k /\ IsLive(writes'[i].block) => IsLive(writes'[k].block)
      BY DEF ShapeInv, Shape, Ordered
    <3>2. j = 1 \/ 1 < j
      BY <2>1
    <3>3. QED
      BY <2>1, <2>3, <3>1, <3>2
  <2>5. writes'[1].block.tag = "free" /\ op'.kind = "delete"
    BY <2>3, <2>4 DEF QueueInv, Queued, WriteBlock
  <2>6. FreedInTurn(writes', disk', 1)
    BY <2>3, <2>4, <2>5 DEF QueueInv, Queued, HeaderOnly
  <2>7. writes'[1].addr = FreeOf(disk')
    BY <2>6 DEF FreedInTurn
  <2>8. QED
    BY <2>3, <2>5, <2>7 DEF FreeListIsMarked
<1>4. QED
  BY <1>2, <1>3

\* The free list on file leads to blocks marked free in every state of every call but one:
\* between the header and the mark of free() (btree.py:191-192) its first block may be the
\* leaf or node that a delete gives up, and then the mark is the next write.
THEOREM FreeListStaysMarked == PSpec => []FreeListIsMarked
<1> DEFINE Sure  == 0 \in DOMAIN disk /\ LiveQueue => Marked(disk)
           Queue == QueueInv
<1>1. PInit => Queue /\ FreeListIsMarked
  BY DEF PInit, Init, QueueInv, Kinds, NoOp, Queued, FreeListIsMarked
<1>2. IInv /\ Queue /\ [PNext]_pvars => Queue'
  <2>1. [PNext]_pvars => [Next]_vars
    BY DEF PNext, pvars, vars
  <2>2. QED
    BY <2>1, StepKinds, StepQueued DEF QueueInv
<1>3. IInv /\ ShapeInv => Sure
  BY QueueMarked
<1>4. /\ IInv /\ Queue /\ Sure /\ FreeListIsMarked /\ IInv' /\ ShapeInv' /\ Queue' /\ Sure'
      /\ [PNext]_pvars
      => FreeListIsMarked'
  <2> SUFFICES ASSUME IInv, Queue, Sure, FreeListIsMarked, IInv', ShapeInv', Queue', Sure',
                      [PNext]_pvars
               PROVE  FreeListIsMarked'
    OBVIOUS
  <2>1. [Next]_vars
    BY DEF PNext, pvars, vars
  <2>2. CASE UNCHANGED vars
    BY <2>2 DEF vars, FreeListIsMarked, Read
  <2>3. CASE WriteBlock
    BY <2>3, WriteMarked
  <2>4. CASE writes = <<>> /\ disk' = disk
    <3>1. 0 \in DOMAIN disk => Marked(disk)
      BY <2>4 DEF LiveQueue
    <3>2. QED
      BY <2>4, <3>1 DEF FreeListIsMarked, Marked, BlockAt, Read
  <2>5. QED
    BY <2>1, <2>2, <2>3, <2>4, StepsWrite
<1> HIDE DEF Sure, Queue
<1>5. QED
  BY <1>1, <1>2, <1>3, <1>4, ShapeHolds, PTL DEF PSpec

-----------------------------------------------------------------------------
(* What a crash leaves: the children of an interrupted insert *)

\* Every pointer of the file d leads to a live block.
Linked(d) ==
  /\ 0 \in DOMAIN d /\ RootOf(d) \in Live(d)
  /\ \A a \in Inner(d) : Kids(d[a]) \subseteq Live(d)

\* The block b may be written at x: its pointers lead to blocks already on file.
Hanging(d, x, b) ==
  \/ x = 0 /\ b.tag = "header" /\ b.values[1] \in Live(d)
  \/ x # 0 /\ b.tag = "leaf"
  \/ x # 0 /\ b.tag = "node" /\ Kids(b) \subseteq Live(d)

AllHanging(d, ws) == \A j \in 1..Len(ws) : Hanging(d, ws[j].addr, ws[j].block)

Inserting == op.kind \in {"insert", "update"}

LinkInv == Kinds /\ (Inserting => Linked(disk) /\ AllHanging(disk, writes))

LEMMA HangingWrites ==
  ASSUME NEW d
  PROVE  /\ AllHanging(d, <<>>)
         /\ \A x, b : Hanging(d, x, b) => AllHanging(d, <<W(x, b)>>)
         /\ \A x, b, y, c :
              Hanging(d, x, b) /\ Hanging(d, y, c) => AllHanging(d, <<W(x, b), W(y, c)>>)
         /\ \A x, b, y, c, z, e :
              Hanging(d, x, b) /\ Hanging(d, y, c) /\ Hanging(d, z, e)
              => AllHanging(d, <<W(x, b), W(y, c), W(z, e)>>)
<1>1. AllHanging(d, <<>>)
  BY DEF AllHanging
<1>2. ASSUME NEW x, NEW b, Hanging(d, x, b) PROVE AllHanging(d, <<W(x, b)>>)
  BY <1>2 DEF AllHanging, W
<1>3. ASSUME NEW x, NEW b, NEW y, NEW c, Hanging(d, x, b), Hanging(d, y, c)
      PROVE  AllHanging(d, <<W(x, b), W(y, c)>>)
  BY <1>3 DEF AllHanging, W
<1>4. ASSUME NEW x, NEW b, NEW y, NEW c, NEW z, NEW e,
             Hanging(d, x, b), Hanging(d, y, c), Hanging(d, z, e)
      PROVE  AllHanging(d, <<W(x, b), W(y, c), W(z, e)>>)
  BY <1>4 DEF AllHanging, W
<1>5. QED
  BY <1>1, <1>2, <1>3, <1>4

\* new_node's header leaves the root where it is.
LEMMA HangingNew ==
  ASSUME Linked(disk), NEW x, NEW b, Hanging(disk, x, b), NEW y, NEW c, Hanging(disk, y, c)
  PROVE  /\ AllHanging(disk, new_node_writes)
         /\ AllHanging(disk, new_node_writes \o <<W(x, b)>>)
         /\ AllHanging(disk, new_node_writes \o <<W(x, b), W(y, c)>>)
<1>1. PICK e : e = Header(root_ptr, Read(free_ptr).next)
  OBVIOUS
<1>2. Hanging(disk, 0, e)
  BY <1>1, Pointers DEF Hanging, Header, Linked
<1>3. CASE free_ptr = 0
  <2>1. new_node_writes = <<>>
    BY <1>3 DEF new_node_writes
  <2>2. /\ <<>> \o <<W(x, b)>> = <<W(x, b)>>
        /\ <<>> \o <<W(x, b), W(y, c)>> = <<W(x, b), W(y, c)>>
    OBVIOUS
  <2>3. QED
    BY <2>1, <2>2, HangingWrites
<1>4. CASE free_ptr # 0
  <2>1. new_node_writes = <<W(0, e)>>
    BY <1>1, <1>4 DEF new_node_writes
  <2>2. /\ <<W(0, e)>> \o <<W(x, b)>> = <<W(0, e), W(x, b)>>
        /\ <<W(0, e)>> \o <<W(x, b), W(y, c)>> = <<W(0, e), W(x, b), W(y, c)>>
    BY TogetherIs
  <2>3. QED
    BY <1>2, <2>1, <2>2, HangingWrites
<1>5. QED
  BY <1>3, <1>4

\* A write keeps every pointer's end live.
LEMMA LinkedWrite ==
  ASSUME IInv, Linked(disk), AllHanging(disk, writes), WriteBlock
  PROVE  Linked(disk') /\ AllHanging(disk', writes')
<1>1. writes # <<>> /\ writes \in Seq(Writes) /\ Len(writes) \in Nat /\ 1 \in 1..Len(writes)
  BY DEF WriteBlock, IInv, CallInv
<1>2. PICK x, b : x = writes[1].addr /\ b = writes[1].block
  OBVIOUS
<1>3. Hanging(disk, x, b)
  BY <1>1, <1>2 DEF AllHanging
<1>4. disk' = Put(disk, x, b) /\ writes' = Tail(writes)
  BY <1>2 DEF WriteBlock, Put
<1>5. disk[0].tag = "header"
  BY DEF Linked, IInv, DiskInv
<1>6. /\ DOMAIN disk' = DOMAIN disk \cup {x} /\ disk'[x] = b
      /\ \A a \in DOMAIN disk : a # x => disk'[a] = disk[a]
  BY <1>4 DEF Put
<1>7. Live(disk) \subseteq Live(disk')
  <2>1. 0 \notin Live(disk)
    BY <1>5 DEF Live, IsLive
  <2>2. x \in Live(disk) => IsLive(b)
    BY <1>3, <2>1 DEF Hanging, IsLive
  <2>3. QED
    BY <1>6, <2>2 DEF Live
<1>8. RootOf(disk') \in Live(disk')
  <2>1. x = 0 => RootOf(disk') = b.values[1]
    BY <1>6 DEF RootOf, BlockAt
  <2>2. x # 0 => RootOf(disk') = RootOf(disk)
    BY <1>6 DEF RootOf, BlockAt, Linked
  <2>3. QED
    BY <1>3, <1>7, <2>1, <2>2 DEF Hanging, Linked
<1>9. ASSUME NEW a \in Inner(disk') PROVE Kids(disk'[a]) \subseteq Live(disk')
  <2>1. CASE a = x
    BY <1>3, <1>6, <1>7, <1>9, <2>1 DEF Hanging, Inner
  <2>2. CASE a # x
    BY <1>6, <1>7, <1>9, <2>2 DEF Inner, Linked
  <2>3. QED
    BY <2>1, <2>2
<1>10. Linked(disk')
  BY <1>6, <1>8, <1>9 DEF Linked
<1>11. ASSUME NEW j \in 1..Len(writes') PROVE Hanging(disk', writes'[j].addr, writes'[j].block)
  <2>1. j + 1 \in 1..Len(writes) /\ writes'[j] = writes[j + 1]
    BY <1>1, <1>4
  <2>2. Hanging(disk, writes[j + 1].addr, writes[j + 1].block)
    BY <2>1 DEF AllHanging
  <2>3. QED
    BY <1>7, <2>1, <2>2 DEF Hanging
<1>12. QED
  BY <1>10, <1>11 DEF AllHanging

\* A step of an insert or update that leaves the file alone.
LEMMA StillLinked ==
  ASSUME LinkInv, Kinds', op' = op, disk' = disk, Inserting => AllHanging(disk, writes')
  PROVE  LinkInv'
BY DEF LinkInv, Inserting

LEMMA CallLinked ==
  IInv /\ ShapeInv /\ LinkInv /\ Kinds' /\ (\E o \in Ops : Call(o)) => LinkInv'
<1> SUFFICES ASSUME IInv, ShapeInv, LinkInv, Kinds', NEW o \in Ops, Call(o) PROVE LinkInv'
  OBVIOUS
<1>1. writes = <<>> /\ pc = "idle" /\ writes' = <<>> /\ disk' = disk
  BY DEF Call, At
<1>2. PICK lv : AtRestWith(disk, lv) /\ \A a \in Inner(disk) : Kids(disk[a]) \subseteq Live(disk)
  BY <1>1, IdleAtRest
<1>3. Linked(disk)
  BY <1>2 DEF AtRestWith, File, Rooted, Linked
<1>4. QED
  BY <1>1, <1>3, HangingWrites DEF LinkInv

\* A leaf written by an insert or update.
LEMMA LeafWriteLinked ==
  IInv /\ LinkInv /\ Kinds' /\ (UpdateLeaf \/ InsertLeaf) => LinkInv'
<1> SUFFICES ASSUME IInv, LinkInv, Kinds', UpdateLeaf \/ InsertLeaf PROVE LinkInv'
  OBVIOUS
<1>1. pc = "search" /\ Top.block.tag = "leaf"
  BY DEF UpdateLeaf, InsertLeaf, AtInsertLeaf, AtLeaf, At
<1>2. Sound(Top.block) /\ Top.addr # 0
  BY <1>1, TopFrame
<1>3. \A i, k, v : leaf_insert(Top.block, i, k, v).tag = "leaf"
  BY DEF leaf_insert, Leaf
<1>4. \A i, v : update_leaf(Top.block, i, v).tag = "leaf"
  BY <1>1, <1>2 DEF update_leaf, Sound, Block
<1>5. \A b : b.tag = "leaf" => AllHanging(disk, <<W(Top.addr, b)>>)
  BY <1>2, HangingWrites DEF Hanging
<1>6. op' = op /\ disk' = disk /\ AllHanging(disk, writes')
  <2>1. CASE UpdateLeaf
    BY <1>4, <1>5, <2>1, HangingWrites DEF UpdateLeaf, Finish
  <2>2. CASE InsertLeaf
    BY <1>3, <1>5, <2>2, HangingWrites DEF InsertLeaf, Finish
  <2>3. QED
    BY <2>1, <2>2
<1>7. QED
  BY <1>6, StillLinked

LEMMA LeafSplitLinked ==
  IInv /\ LinkInv /\ Kinds' /\ (InsertLeafSplit \/ InsertLeafSplitRaises) => LinkInv'
<1> SUFFICES ASSUME IInv, LinkInv, Kinds', InsertLeafSplit \/ InsertLeafSplitRaises PROVE LinkInv'
  OBVIOUS
<1>1. pc = "search" /\ Top.block.tag = "leaf" /\ Inserting /\ Linked(disk)
  BY DEF InsertLeafSplit, InsertLeafSplitRaises, AtInsertLeaf, AtLeaf, At, Inserting, LinkInv
<1>2. Top.addr # 0 /\ new_addr # 0
  BY <1>1, TopFrame, NewNode DEF IInv, CallInv
<1>3. PICK s : s = split_leaf(Top.block, search_leaf(Top.block, op.k), op.k, op.v, new_addr)
  OBVIOUS
<1>4. s.old.tag = "leaf" /\ s.new.tag = "leaf"
  BY <1>3 DEF split_leaf, Leaf
<1>5. /\ AllHanging(disk, new_node_writes)
      /\ AllHanging(disk, new_node_writes \o <<W(Top.addr, s.old), W(new_addr, s.new)>>)
  <2>1. Hanging(disk, Top.addr, s.old) /\ Hanging(disk, new_addr, s.new)
    BY <1>2, <1>4 DEF Hanging
  <2>2. QED
    BY <1>1, <2>1, HangingNew
<1>6. op' = op /\ disk' = disk /\ AllHanging(disk, writes')
  <2>1. CASE InsertLeafSplit
    BY <1>3, <1>5, <2>1 DEF InsertLeafSplit, ReturnSplit
  <2>2. CASE InsertLeafSplitRaises
    BY <1>5, <2>2 DEF InsertLeafSplitRaises, Finish
  <2>3. QED
    BY <2>1, <2>2
<1>7. QED
  BY <1>6, StillLinked

\* A node that takes in the new child, and the two halves of one that is split.
LEMMA NodeLinked ==
  IInv /\ ShapeInv /\ LinkInv /\ Kinds' /\ (InsertNode \/ InsertNodeSplit) => LinkInv'
<1> SUFFICES ASSUME IInv, ShapeInv, LinkInv, Kinds', InsertNode \/ InsertNodeSplit PROVE LinkInv'
  OBVIOUS
<1> DEFINE b == Top.block
<1>1. pc = "insert_up" /\ writes = <<>> /\ b.tag = "node"
  BY DEF InsertNode, InsertNodeSplit, At
<1>2. Inserting /\ Linked(disk)
  BY <1>1 DEF Kinds, LinkInv, Inserting
<1>3. /\ Top.addr \in Inner(disk) /\ Top.addr # 0
      /\ Branch(b) /\ Kids(b) = Kids(disk[Top.addr])
      /\ Top.i \in 0..nkeys(b) /\ nkeys(b) \in Nat
      /\ rv.addr \in Nat /\ rv.key \in Nat /\ rv.addr \notin Kids(b)
  BY <1>1, NodeToChange
<1>4. rv.addr \in Live(disk)
  BY <1>1, NodeToChange DEF Orphans
<1>5. Kids(b) \cup {rv.addr} \subseteq Live(disk)
  BY <1>2, <1>3, <1>4 DEF Linked
<1>6. new_addr # 0
  BY <1>1, TopFrame, NewNode DEF IInv, CallInv
<1> HIDE DEF b
<1>7. CASE InsertNode
  <2>1. PICK n : n = node_insert(b, Top.i, Top.i + 1, rv.key, rv.addr)
    OBVIOUS
  <2>2. nkeys(b) < MAX_NKEYS /\ writes' = <<W(Top.addr, n)>> /\ op' = op /\ disk' = disk
    BY <1>7, <2>1 DEF InsertNode, Finish, b
  <2>3. Branch(n) /\ Kids(n) = Kids(b) \cup {rv.addr}
    <3>1. /\ Branch(b) /\ nkeys(b) < MAX_NKEYS /\ Top.i \in 0..nkeys(b)
          /\ Top.i + 1 \in 0..(nkeys(b) + 1) /\ rv.key \in Nat /\ rv.addr \in Nat
          /\ rv.addr \notin Kids(b)
      BY <1>3, <2>2
    <3>2. LET t == node_insert(b, Top.i, Top.i + 1, rv.key, rv.addr)
          IN  Branch(t) /\ Kids(t) = Kids(b) \cup {rv.addr} /\ nkeys(t) = nkeys(b) + 1
      BY <3>1, NodeInsertKids
    <3>3. QED
      BY <2>1, <3>2
  <2>4. Hanging(disk, Top.addr, n)
    BY <1>3, <1>5, <2>3 DEF Hanging, Branch
  <2>5. QED
    BY <2>2, <2>4, HangingWrites, StillLinked
<1>8. CASE InsertNodeSplit
  <2>1. PICK s : s = split_node(b, Top.i, rv.key, rv.addr)
    OBVIOUS
  <2>2. /\ nkeys(b) >= MAX_NKEYS /\ op' = op /\ disk' = disk
        /\ writes' = new_node_writes \o <<W(Top.addr, s.old), W(new_addr, s.new)>>
    BY <1>8, <2>1 DEF InsertNodeSplit, ReturnSplit, b
  <2>3. /\ Branch(s.old) /\ Branch(s.new)
        /\ Kids(s.old) \cup Kids(s.new) = Kids(b) \cup {rv.addr}
    <3>1. nkeys(b) = MAX_NKEYS
      BY <1>3, <2>2, BranchArrays, MaxNkeysAssumption
    <3>2. LET t == split_node(b, Top.i, rv.key, rv.addr)
          IN  /\ Branch(t.old) /\ nkeys(t.old) >= MIN_NKEYS_NODE
              /\ Branch(t.new) /\ nkeys(t.new) >= MIN_NKEYS_NODE
              /\ Kids(t.old) \cup Kids(t.new) = Kids(b) \cup {rv.addr}
              /\ Kids(t.old) \cap Kids(t.new) = {}
              /\ t.key \in Nat
      BY <1>3, <3>1, SplitNodeKids
    <3>3. QED
      BY <2>1, <3>2
  <2>4. Hanging(disk, Top.addr, s.old) /\ Hanging(disk, new_addr, s.new)
    BY <1>3, <1>5, <1>6, <2>3 DEF Hanging, Branch
  <2>5. QED
    BY <1>2, <2>2, <2>4, HangingNew, StillLinked
<1>9. QED
  BY <1>7, <1>8

LEMMA RootLinked ==
  IInv /\ ShapeInv /\ LinkInv /\ Kinds' /\ (NewRoot \/ SetRoot) => LinkInv'
<1> SUFFICES ASSUME IInv, ShapeInv, LinkInv, Kinds', NewRoot \/ SetRoot PROVE LinkInv'
  OBVIOUS
<1>1. /\ pc \in {"new_root", "set_root"} /\ writes = <<>> /\ op' = op /\ disk' = disk
  BY DEF NewRoot, SetRoot, Finish, At
<1>2. PICK lv, s : Tree(disk, lv, s)
  BY <1>1, AtRest
<1>3. CASE NewRoot
  <2>1. PICK b : b = Node(<<rv.key>>, <<Top.addr, rv.addr>>)
    OBVIOUS
  <2>2. pc = "new_root" /\ writes' = new_node_writes \o <<W(new_addr, b)>>
    BY <1>3, <2>1 DEF NewRoot, At
  <2>3. Inserting /\ Linked(disk)
    BY <2>2 DEF Kinds, LinkInv, Inserting
  <2>4. Top.addr \in Live(disk) /\ rv.addr \in Live(disk)
    BY <1>2, <2>2, <2>3 DEF Tree, NewChild, Linked
  <2>5. Kids(b) = {Top.addr, rv.addr} /\ b.tag = "node"
    <3>1. b.values = <<Top.addr, rv.addr>> /\ b.tag = "node"
      BY <2>1 DEF Node
    <3>2. QED
      BY <3>1 DEF Kids, Members
  <2>6. new_addr # 0
    BY <2>2, TopFrame, NewNode DEF IInv, CallInv
  <2>7. Hanging(disk, new_addr, b)
    BY <2>4, <2>5, <2>6 DEF Hanging
  <2>8. QED
    BY <1>1, <2>2, <2>3, <2>7, HangingNew, StillLinked
<1>4. CASE SetRoot
  <2>1. pc = "set_root" /\ writes' = <<W(0, Header(rv.addr, free_ptr))>>
    BY <1>4 DEF SetRoot, At, Finish, set_root_writes
  <2>2. rv.addr \in Live(disk)
    BY <1>2, <2>1 DEF Tree, Standing, Rooted, Apex
  <2>3. Hanging(disk, 0, Header(rv.addr, free_ptr))
    BY <2>2 DEF Hanging, Header
  <2>4. QED
    BY <1>1, <2>1, <2>3, HangingWrites, StillLinked
<1>5. QED
  BY <1>3, <1>4

LEMMA StepLinked == IInv /\ ShapeInv /\ LinkInv /\ [Next]_vars => LinkInv'
<1> SUFFICES ASSUME IInv, ShapeInv, LinkInv, [Next]_vars PROVE LinkInv'
  OBVIOUS
<1>0. Kinds'
  BY StepKinds DEF LinkInv
<1>1. CASE UNCHANGED vars
  BY <1>1 DEF vars, LinkInv, Kinds, Inserting
<1>2. CASE WriteBlock
  <2>1. op' = op
    BY <1>2 DEF WriteBlock
  <2>2. QED
    BY <1>0, <1>2, <2>1, LinkedWrite DEF LinkInv, Inserting
<1>3. CASE Descend \/ Get \/ ScanLeaf \/ InsertDuplicate
  <2>1. op' = op /\ disk' = disk /\ writes' \in {writes, <<>>}
    BY <1>3 DEF Descend, Get, ScanLeaf, InsertDuplicate, Finish
  <2>2. AllHanging(disk, <<>>)
    BY HangingWrites
  <2>3. QED
    BY <1>0, <2>1, <2>2, StillLinked DEF LinkInv
<1>4. CASE Return \/ OpenNew \/ OpenExisting \/ Close
  <2>1. op' = NoOp
    BY <1>4 DEF Return, OpenNew, OpenExisting, Close, At, LinkInv, Kinds
  <2>2. QED
    BY <1>0, <2>1 DEF LinkInv, Inserting, NoOp
<1>5. CASE DeleteStep
  <2>1. op.kind = "delete"
    BY <1>5 DEF DeleteStep, DeleteMissing, DeleteFromLeaf, BorrowLeafLeft, BorrowLeafRight,
                MergeLeaves, WriteModifiedNode, DeleteFromNode, ShrinkRoot, BorrowNodeLeft,
                BorrowNodeRight, MergeNodes, LeafUnderflows, AtDeleteLeaf, AtLeaf, At,
                NodeUnderflows, AtDeleteNode, LinkInv, Kinds
  <2>2. op' = op
    BY <1>5 DEF DeleteStep, DeleteMissing, DeleteFromLeaf, BorrowLeafLeft, BorrowLeafRight,
                MergeLeaves, WriteModifiedNode, DeleteFromNode, ShrinkRoot, BorrowNodeLeft,
                BorrowNodeRight, MergeNodes, Finish, ReturnBorrow, ReturnMerge
  <2>3. QED
    BY <1>0, <2>1, <2>2 DEF LinkInv, Inserting
<1>6. QED
  BY <1>0, <1>1, <1>2, <1>3, <1>4, <1>5, CallLinked, LeafWriteLinked, LeafSplitLinked,
     NodeLinked, RootLinked DEF Next, CodeStep, CallerStep, InsertStep

\* However far an insert or update has got, no pointer on file leads to a block
\* that has not been written as a leaf or a node: a crash leaves no dangling child.
THEOREM NoDanglingChild == PSpec => []InsertLeavesNoDanglingChild
<1>1. PInit => LinkInv
  BY DEF PInit, Init, LinkInv, Kinds, Inserting, NoOp
<1>2. IInv /\ ShapeInv /\ LinkInv /\ [PNext]_pvars => LinkInv'
  <2>1. [PNext]_pvars => [Next]_vars
    BY DEF PNext, pvars, vars
  <2>2. QED
    BY <2>1, StepLinked
<1>3. IInv /\ LinkInv => InsertLeavesNoDanglingChild
  <2> SUFFICES ASSUME IInv, LinkInv, Inserting, NEW a \in Reached(disk)
               PROVE  a \in DOMAIN disk /\ Read(a).tag \in {"leaf", "node"}
    BY DEF InsertLeavesNoDanglingChild, Inserting
  <2>1. Linked(disk)
    BY DEF LinkInv
  <2>2. File(disk) /\ IsFiniteSet(DOMAIN disk)
    BY <2>1, SoundBlocksAreSound DEF Linked, IInv, DiskInv, File, SoundBlocks
  <2>3. a \in Live(disk)
    BY <2>1, <2>2, ReachedIsLive DEF Linked
  <2>4. QED
    BY <2>3 DEF Live, IsLive, Read
<1>4. QED
  BY <1>1, <1>2, <1>3, ShapeHolds, PTL DEF PSpec
=============================================================================
