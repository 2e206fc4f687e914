-------------------------- MODULE DiskBTree_proofs --------------------------
(***************************************************************************)
(* What the operations on one node buffer return, for every capacity: a    *)
(* block whose arrays are not overrun and whose keys and values are in     *)
(* step.                                                                   *)
(*                                                                         *)
(* The tree as a forest: every child pointer leads to a live block one     *)
(* level further down, and no two lead to the same one.  What the          *)
(* operations of NodeOps do to the children of a node, and what writing    *)
(* their results does to the forest, for any file and any capacity.        *)
(*                                                                         *)
(* Of DiskBTree: for every node capacity, every set of calls and every     *)
(* file the variables keep their types, and no step of a search, insert,   *)
(* delete, range or reopening overruns the arrays of a node or lets its    *)
(* keys and values fall out of step.                                       *)
(***************************************************************************)
EXTENDS DiskBTree, TreeShape, Induction, FiniteSetTheorems, SequenceTheorems, TLAPS

\* A block of the file whose arrays hold what it says they hold.
Sound(b) == b \in Block /\ Fitting(b)

-----------------------------------------------------------------------------
(* Arrays *)

\* A concatenation is as long as its parts.
LEMMA Concat ==
  ASSUME NEW S, NEW s \in Seq(S), NEW t \in Seq(S)
  PROVE  s \o t \in Seq(S) /\ Len(s \o t) = Len(s) + Len(t)
BY ConcatProperties

\* An array with one more element at its end.
LEMMA Appended ==
  ASSUME NEW S, NEW s \in Seq(S), NEW x \in S
  PROVE  Append(s, x) \in Seq(S) /\ Len(Append(s, x)) = Len(s) + 1
BY AppendProperties

\* array_insert (btree.py:563-566) makes an array one longer, its elements
\* being the old ones and the new one.
LEMMA ArrayInsert ==
  ASSUME NEW S, NEW arr \in Seq(S), NEW i \in 0..Len(arr), NEW x \in S
  PROVE  /\ array_insert(arr, i, x) \in Seq(S)
         /\ Len(array_insert(arr, i, x)) = Len(arr) + 1
<1> DEFINE low  == SubSeq(arr, 1, i)
           high == SubSeq(arr, i + 1, Len(arr))
<1>1. low \in Seq(S) /\ Len(low) = i
  OBVIOUS
<1>2. high \in Seq(S) /\ Len(high) = Len(arr) - i
  OBVIOUS
<1>3. <<x>> \in Seq(S) /\ Len(<<x>>) = 1
  OBVIOUS
<1>4. (i + 1) - 1 = i
  OBVIOUS
<1>5. array_insert(arr, i, x) = (low \o <<x>>) \o high
  BY <1>4 DEF array_insert, InsertAt
<1> HIDE DEF low, high
<1>6. low \o <<x>> \in Seq(S) /\ Len(low \o <<x>>) = i + 1
  BY <1>1, <1>3, Concat
<1>7. /\ (low \o <<x>>) \o high \in Seq(S)
      /\ Len((low \o <<x>>) \o high) = (i + 1) + (Len(arr) - i)
  BY SMTT(30), ZenonT(30), <1>2, <1>6, Concat
<1>8. Len(arr) \in Nat
  OBVIOUS
<1>9. QED
  BY <1>5, <1>7, <1>8

\* array_delete (btree.py:800-806) makes an array one shorter.
LEMMA ArrayDelete ==
  ASSUME NEW S, NEW arr \in Seq(S), NEW i \in 0..(Len(arr) - 1)
  PROVE  /\ array_delete(arr, i) \in Seq(S)
         /\ Len(array_delete(arr, i)) = Len(arr) - 1
<1> DEFINE low  == SubSeq(arr, 1, i)
           high == SubSeq(arr, i + 2, Len(arr))
<1>1. low \in Seq(S) /\ Len(low) = i
  OBVIOUS
<1>2. high \in Seq(S) /\ Len(high) = Len(arr) - i - 1
  OBVIOUS
<1>3. (i + 1) - 1 = i /\ (i + 1) + 1 = i + 2
  OBVIOUS
<1>4. array_delete(arr, i) = low \o high
  BY <1>3 DEF array_delete, RemoveAt
<1> HIDE DEF low, high
<1>5. low \o high \in Seq(S) /\ Len(low \o high) = i + (Len(arr) - i - 1)
  BY <1>1, <1>2, Concat
<1>6. Len(arr) \in Nat
  OBVIOUS
<1>7. QED
  BY <1>4, <1>5, <1>6

\* The two halves array_insert_split (btree.py:529-561) leaves.
LEMMA ArrayInsertSplit ==
  ASSUME NEW arr \in Seq(Nat), NEW i \in 0..Len(arr), NEW x \in Nat,
         NEW m \in 0..(Len(arr) + 1)
  PROVE  /\ split_low(arr, i, m, x) \in Seq(Nat)
         /\ Len(split_low(arr, i, m, x)) = m
         /\ split_high(arr, i, m, x) \in Seq(Nat)
         /\ Len(split_high(arr, i, m, x)) = Len(arr) + 1 - m
<1> DEFINE full == array_insert(arr, i, x)
<1>1. full \in Seq(Nat) /\ Len(full) = Len(arr) + 1
  BY ArrayInsert, Zenon
<1>2. /\ split_low(arr, i, m, x) = SubSeq(full, 1, m)
      /\ split_high(arr, i, m, x) = SubSeq(full, m + 1, Len(full))
  BY <1>1 DEF split_low, split_high
<1> HIDE DEF full
<1>3. SubSeq(full, 1, m) \in Seq(Nat) /\ Len(SubSeq(full, 1, m)) = m
  BY SMTT(30), ZenonT(30), <1>1
<1>4. /\ SubSeq(full, m + 1, Len(full)) \in Seq(Nat)
      /\ Len(SubSeq(full, m + 1, Len(full))) = Len(arr) + 1 - m
  BY <1>1
<1>5. QED
  BY <1>2, <1>3, <1>4

\* Slots reads as many elements as it is asked for.
LEMMA SlotsType ==
  ASSUME NEW arr \in Seq(Nat), NEW n \in Nat
  PROVE  Slots(arr, n) \in Seq(Nat) /\ Len(Slots(arr, n)) = n
BY DEF Slots

-----------------------------------------------------------------------------
(* Search *)

\* The index search_node (btree.py:395-407) returns is that of a child.
LEMMA SearchNodeRange ==
  ASSUME NEW b \in Block, NEW k \in Int
  PROVE  search_node(b, k) \in 0..nkeys(b)
<1> DEFINE upTo == {j \in 1..nkeys(b) : b.keys[j] <= k}
<1>1. nkeys(b) \in Nat
  BY DEF Block, nkeys
<1>2. IsFiniteSet(1..nkeys(b)) /\ Cardinality(1..nkeys(b)) = nkeys(b)
  BY <1>1, FS_Interval
<1>3. upTo \subseteq 1..nkeys(b)
  OBVIOUS
<1>4. IsFiniteSet(upTo) /\ Cardinality(upTo) <= Cardinality(1..nkeys(b))
  BY <1>2, <1>3, FS_Subset
<1>5. Cardinality(upTo) \in Nat
  BY <1>4, FS_CardinalityType
<1>6. QED
  BY <1>1, <1>2, <1>4, <1>5 DEF search_node

\* The index search_leaf (btree.py:376-393) returns is one the key may go to,
\* and that of a key when it is found.
LEMMA SearchLeafRange ==
  ASSUME NEW b \in Block, NEW k \in Int
  PROVE  /\ search_leaf(b, k) \in 0..nkeys(b)
         /\ Found(b, k) => search_leaf(b, k) < nkeys(b)
<1> DEFINE below == {j \in 1..nkeys(b) : b.keys[j] < k}
<1>1. nkeys(b) \in Nat
  BY DEF Block, nkeys
<1>2. IsFiniteSet(1..nkeys(b)) /\ Cardinality(1..nkeys(b)) = nkeys(b)
  BY <1>1, FS_Interval
<1> HIDE DEF below
<1>3. /\ IsFiniteSet(below) /\ Cardinality(below) <= Cardinality(1..nkeys(b))
      /\ Cardinality(1..nkeys(b)) = Cardinality(below) => 1..nkeys(b) = below
  <2>1. below \in SUBSET (1..nkeys(b))
    BY DEF below
  <2>2. QED
    BY <1>2, <2>1, FS_Subset
<1>4. Cardinality(below) \in Nat
  BY <1>3, FS_CardinalityType
<1>5. ASSUME Found(b, k)
      PROVE  Cardinality(below) < nkeys(b)
  <2>1. PICK j \in 1..nkeys(b) : b.keys[j] = k
    BY <1>5 DEF Found
  <2>2. j \notin below
    BY <2>1 DEF below
  <2>3. QED
    BY <1>1, <1>2, <1>3, <1>4, <2>2
<1>6. search_leaf(b, k) = Cardinality(below)
  BY DEF search_leaf, below
<1>7. QED
  BY <1>1, <1>2, <1>3, <1>4, <1>5, <1>6

-----------------------------------------------------------------------------
(* Blocks *)

\* The arrays of a sound block.
LEMMA SoundArrays ==
  ASSUME NEW b, Sound(b)
  PROVE  /\ b.tag \in Tags /\ b.next \in Nat
         /\ b.keys \in Seq(Nat) /\ b.values \in Seq(Nat)
         /\ Len(b.keys) = nkeys(b) /\ nkeys(b) \in 0..MAX_NKEYS
         /\ b.tag = "leaf" => Len(b.values) = nkeys(b)
         /\ b.tag = "node" => Len(b.values) = nkeys(b) + 1
         /\ b.tag = "header" => Len(b.values) = 2
BY MaxNkeysAssumption DEF Sound, Fitting, Block, nkeys

LEMMA LeafSound ==
  ASSUME NEW ks \in Seq(Nat), NEW vs \in Seq(Nat), NEW next \in Nat,
         Len(ks) <= MAX_NKEYS, Len(vs) = Len(ks)
  PROVE  /\ Sound(Leaf(ks, vs, next))
         /\ Leaf(ks, vs, next).tag = "leaf" /\ nkeys(Leaf(ks, vs, next)) = Len(ks)
BY DEF Sound, Fitting, Block, Tags, Leaf, nkeys

LEMMA NodeSound ==
  ASSUME NEW ks \in Seq(Nat), NEW vs \in Seq(Nat),
         Len(ks) <= MAX_NKEYS, Len(vs) = Len(ks) + 1
  PROVE  /\ Sound(Node(ks, vs))
         /\ Node(ks, vs).tag = "node" /\ nkeys(Node(ks, vs)) = Len(ks)
BY DEF Sound, Fitting, Block, Tags, Node, nkeys

\* The headers, free blocks and unwritten blocks that are read and written.
LEMMA OtherBlocksSound ==
  ASSUME NEW r \in Nat, NEW f \in Nat
  PROVE  /\ Sound(Header(r, f)) /\ Header(r, f).tag = "header"
         /\ Sound(FreeBlock(f)) /\ FreeBlock(f).tag = "free"
         /\ Sound(ZeroBlock) /\ ZeroBlock.tag = "node"
<1>1. Sound(Header(r, f)) /\ Header(r, f).tag = "header"
  BY MaxNkeysAssumption DEF Sound, Fitting, Block, Tags, Header, nkeys
<1>2. Sound(FreeBlock(f)) /\ FreeBlock(f).tag = "free"
  BY MaxNkeysAssumption DEF Sound, Fitting, Block, Tags, FreeBlock, nkeys
<1>3. Sound(ZeroBlock) /\ ZeroBlock.tag = "node"
  <2>1. /\ <<>> \in Seq(Nat) /\ Len(<<>>) = 0
        /\ <<0>> \in Seq(Nat) /\ Len(<<0>>) = 1
    OBVIOUS
  <2>2. QED
    BY <2>1, MaxNkeysAssumption DEF Sound, Fitting, Block, Tags, Node, nkeys, ZeroBlock
<1>4. QED
  BY <1>1, <1>2, <1>3

-----------------------------------------------------------------------------
(* Operations on one node *)

\* leaf_insert (btree.py:568-572) into a leaf with room.
LEMMA LeafInsertSound ==
  ASSUME NEW b, Sound(b), b.tag = "leaf", nkeys(b) < MAX_NKEYS,
         NEW i \in 0..nkeys(b), NEW k \in Nat, NEW v \in Nat
  PROVE  /\ Sound(leaf_insert(b, i, k, v)) /\ leaf_insert(b, i, k, v).tag = "leaf"
         /\ nkeys(leaf_insert(b, i, k, v)) = nkeys(b) + 1
<1>0. /\ b.keys \in Seq(Nat) /\ Len(b.keys) = nkeys(b)
      /\ b.values \in Seq(Nat) /\ Len(b.values) = nkeys(b)
      /\ nkeys(b) \in Nat
      /\ i \in 0..Len(b.keys) /\ i \in 0..Len(b.values)
  BY SoundArrays
<1>1. /\ array_insert(b.keys, i, k) \in Seq(Nat)
      /\ Len(array_insert(b.keys, i, k)) = Len(b.keys) + 1
  BY <1>0, ArrayInsert, ZenonT(60)
<1>2. /\ array_insert(b.values, i, v) \in Seq(Nat)
      /\ Len(array_insert(b.values, i, v)) = Len(b.values) + 1
  BY <1>0, ArrayInsert, ZenonT(60)
<1>3. nkeys(b) + 1 <= MAX_NKEYS /\ b.next \in Nat
  BY SoundArrays, MaxNkeysAssumption
<1>4. /\ Len(array_insert(b.keys, i, k)) = nkeys(b) + 1
      /\ Len(array_insert(b.values, i, v)) = nkeys(b) + 1
  BY <1>0, <1>1, <1>2
<1>5. QED
  BY <1>1, <1>2, <1>3, <1>4, LeafSound DEF leaf_insert

\* leaf_pop (btree.py:823-831).
LEMMA LeafPopSound ==
  ASSUME NEW b, Sound(b), b.tag = "leaf", NEW i \in 0..(nkeys(b) - 1)
  PROVE  /\ Sound(leaf_pop(b, i)) /\ leaf_pop(b, i).tag = "leaf"
         /\ nkeys(leaf_pop(b, i)) = nkeys(b) - 1
<1>0. /\ b.keys \in Seq(Nat) /\ Len(b.keys) = nkeys(b)
      /\ b.values \in Seq(Nat) /\ Len(b.values) = nkeys(b)
      /\ nkeys(b) \in Nat
  BY SoundArrays
<1>1. /\ array_delete(b.keys, i) \in Seq(Nat)
      /\ Len(array_delete(b.keys, i)) = nkeys(b) - 1
  BY <1>0, ArrayDelete
<1>2. /\ array_delete(b.values, i) \in Seq(Nat)
      /\ Len(array_delete(b.values, i)) = nkeys(b) - 1
  BY <1>0, ArrayDelete
<1>3. nkeys(b) - 1 <= MAX_NKEYS /\ b.next \in Nat
  BY SoundArrays, MaxNkeysAssumption
<1>4. QED
  BY <1>1, <1>2, <1>3, LeafSound DEF leaf_pop

\* node_insert (btree.py:574-578) into a node with room.
LEMMA NodeInsertSound ==
  ASSUME NEW b, Sound(b), b.tag = "node", nkeys(b) < MAX_NKEYS,
         NEW i \in 0..nkeys(b), NEW j \in 0..(nkeys(b) + 1), NEW k \in Nat, NEW v \in Nat
  PROVE  /\ Sound(node_insert(b, i, j, k, v)) /\ node_insert(b, i, j, k, v).tag = "node"
         /\ nkeys(node_insert(b, i, j, k, v)) = nkeys(b) + 1
<1>0. /\ b.keys \in Seq(Nat) /\ Len(b.keys) = nkeys(b)
      /\ b.values \in Seq(Nat) /\ Len(b.values) = nkeys(b) + 1
      /\ nkeys(b) \in Nat
      /\ i \in 0..Len(b.keys) /\ j \in 0..Len(b.values)
  BY SoundArrays
<1>1. /\ array_insert(b.keys, i, k) \in Seq(Nat)
      /\ Len(array_insert(b.keys, i, k)) = Len(b.keys) + 1
  BY <1>0, ArrayInsert, ZenonT(90)
<1>2. /\ array_insert(b.values, j, v) \in Seq(Nat)
      /\ Len(array_insert(b.values, j, v)) = Len(b.values) + 1
  BY <1>0, ArrayInsert, ZenonT(90)
<1>3. nkeys(b) + 1 <= MAX_NKEYS
  BY SoundArrays, MaxNkeysAssumption
<1>4. QED
  BY <1>0, <1>1, <1>2, <1>3, NodeSound DEF node_insert

\* node_pop (btree.py:813-821).
LEMMA NodePopSound ==
  ASSUME NEW b, Sound(b), b.tag = "node",
         NEW i \in 0..(nkeys(b) - 1), NEW j \in 0..nkeys(b)
  PROVE  /\ Sound(node_pop(b, i, j)) /\ node_pop(b, i, j).tag = "node"
         /\ nkeys(node_pop(b, i, j)) = nkeys(b) - 1
<1>0. /\ b.keys \in Seq(Nat) /\ Len(b.keys) = nkeys(b)
      /\ b.values \in Seq(Nat) /\ Len(b.values) = nkeys(b) + 1
      /\ nkeys(b) \in Nat
  BY SoundArrays
<1>1. /\ array_delete(b.keys, i) \in Seq(Nat)
      /\ Len(array_delete(b.keys, i)) = nkeys(b) - 1
  BY <1>0, ArrayDelete
<1>2. Len(b.values) - 1 = nkeys(b)
  BY <1>0
<1>3. /\ array_delete(b.values, j) \in Seq(Nat)
      /\ Len(array_delete(b.values, j)) = nkeys(b)
  BY <1>0, <1>2, ArrayDelete
<1>4. nkeys(b) - 1 <= MAX_NKEYS /\ nkeys(b) = (nkeys(b) - 1) + 1
  BY SoundArrays, MaxNkeysAssumption
<1>5. QED
  BY <1>1, <1>3, <1>4, NodeSound DEF node_pop

\* update_leaf (btree.py:452-454).
LEMMA UpdateLeafSound ==
  ASSUME NEW b, Sound(b), b.tag = "leaf", NEW i \in 0..(nkeys(b) - 1), NEW v \in Nat
  PROVE  Sound(update_leaf(b, i, v)) /\ update_leaf(b, i, v).tag = "leaf"
<1>1. update_leaf(b, i, v) = [b EXCEPT !.values = [b.values EXCEPT ![i + 1] = v]]
  BY DEF update_leaf
<1>2. /\ [b.values EXCEPT ![i + 1] = v] \in Seq(Nat)
      /\ Len([b.values EXCEPT ![i + 1] = v]) = Len(b.values)
  BY SoundArrays, ExceptSeq
<1>3. QED
  BY <1>1, <1>2, SoundArrays DEF Sound, Fitting, Block, nkeys

\* Changing a key in the parent of two siblings (btree.py:676, 682, 747, 752).
LEMMA KeyReplacedSound ==
  ASSUME NEW b, Sound(b), NEW i \in 1..nkeys(b), NEW k \in Nat
  PROVE  /\ Sound([b EXCEPT !.keys[i] = k])
         /\ [b EXCEPT !.keys[i] = k].tag = b.tag
         /\ nkeys([b EXCEPT !.keys[i] = k]) = nkeys(b)
<1>1. /\ [b.keys EXCEPT ![i] = k] \in Seq(Nat)
      /\ Len([b.keys EXCEPT ![i] = k]) = Len(b.keys)
  BY SoundArrays, ExceptSeq
<1>2. QED
  BY <1>1, SoundArrays DEF Sound, Fitting, Block, nkeys

-----------------------------------------------------------------------------
(* Splits and merges *)

\* insert_leaf (btree.py:509-527) on a full leaf: both halves are sound, and
\* the new one has a first key for the parent.
LEMMA SplitLeafSound ==
  ASSUME NEW b, Sound(b), b.tag = "leaf", nkeys(b) = MAX_NKEYS,
         NEW i \in 0..nkeys(b), NEW k \in Nat, NEW v \in Nat, NEW addr \in Nat
  PROVE  LET s == split_leaf(b, i, k, v, addr)
         IN  /\ Sound(s.old) /\ s.old.tag = "leaf"
             /\ Sound(s.new) /\ s.new.tag = "leaf"
             /\ s.new.keys[1] \in Nat
<1> DEFINE m  == (nkeys(b) + 2) \div 2
           lk == split_low(b.keys, i, m, k)
           lv == split_low(b.values, i, m, v)
           hk == split_high(b.keys, i, m, k)
           hv == split_high(b.values, i, m, v)
<1>1. /\ b.keys \in Seq(Nat) /\ Len(b.keys) = MAX_NKEYS
      /\ b.values \in Seq(Nat) /\ Len(b.values) = MAX_NKEYS
      /\ b.next \in Nat
      /\ i \in 0..Len(b.keys) /\ i \in 0..Len(b.values)
  BY SoundArrays
<1>2. m \in 1..MAX_NKEYS /\ m \in Nat
  BY MaxNkeysAssumption
<1>3. m \in 0..(Len(b.keys) + 1) /\ m \in 0..(Len(b.values) + 1)
  BY <1>1, <1>2, MaxNkeysAssumption
<1> HIDE DEF m
<1>4. /\ lk \in Seq(Nat) /\ Len(lk) = m
      /\ hk \in Seq(Nat) /\ Len(hk) = Len(b.keys) + 1 - m
  BY <1>1, <1>3, ArrayInsertSplit, ZenonT(90)
<1>5. /\ lv \in Seq(Nat) /\ Len(lv) = m
      /\ hv \in Seq(Nat) /\ Len(hv) = Len(b.values) + 1 - m
  BY <1>1, <1>3, ArrayInsertSplit, ZenonT(60)
<1> HIDE DEF lk, lv, hk, hv
<1>6. /\ Len(lk) <= MAX_NKEYS /\ Len(lv) = Len(lk)
      /\ Len(hk) <= MAX_NKEYS /\ Len(hv) = Len(hk)
      /\ 1 \in 1..Len(hk)
  BY <1>1, <1>2, <1>4, <1>5, MaxNkeysAssumption
<1>7. Sound(Leaf(lk, lv, addr)) /\ Leaf(lk, lv, addr).tag = "leaf"
  BY <1>4, <1>5, <1>6, LeafSound
<1>8. Sound(Leaf(hk, hv, b.next)) /\ Leaf(hk, hv, b.next).tag = "leaf"
  BY <1>1, <1>4, <1>5, <1>6, LeafSound
<1>9. Leaf(hk, hv, b.next).keys[1] \in Nat
  BY <1>4, <1>6 DEF Leaf
<1>10. /\ split_leaf(b, i, k, v, addr).old = Leaf(lk, lv, addr)
       /\ split_leaf(b, i, k, v, addr).new = Leaf(hk, hv, b.next)
  BY DEF split_leaf, lk, lv, hk, hv, m
<1>11. QED
  BY <1>7, <1>8, <1>9, <1>10

\* insert_node (btree.py:473-498) on a full node: both halves are sound and the
\* middle key is a key.
LEMMA SplitNodeSound ==
  ASSUME NEW b, Sound(b), b.tag = "node", nkeys(b) = MAX_NKEYS,
         NEW i \in 0..nkeys(b), NEW k \in Nat, NEW addr \in Nat
  PROVE  LET s == split_node(b, i, k, addr)
         IN  /\ Sound(s.old) /\ s.old.tag = "node"
             /\ Sound(s.new) /\ s.new.tag = "node"
             /\ s.key \in Nat
<1> DEFINE m  == (MAX_NKEYS + 1) \div 2
           j  == i + 1
           lk == split_low(b.keys, i, m + 1, k)
           lv == split_low(b.values, j, m + 1, addr)
           hk == split_high(b.keys, i, m + 1, k)
           hv == split_high(b.values, j, m + 1, addr)
<1>1. /\ b.keys \in Seq(Nat) /\ Len(b.keys) = MAX_NKEYS
      /\ b.values \in Seq(Nat) /\ Len(b.values) = MAX_NKEYS + 1
      /\ i \in 0..Len(b.keys) /\ j \in 0..Len(b.values)
  BY SoundArrays, MaxNkeysAssumption
<1>2. m \in 1..MAX_NKEYS
  BY MaxNkeysAssumption
<1> HIDE DEF m, j
<1>3. m + 1 \in 0..(Len(b.keys) + 1) /\ m + 1 \in 0..(Len(b.values) + 1)
  BY <1>1, <1>2, MaxNkeysAssumption
<1>4. /\ lk \in Seq(Nat) /\ Len(lk) = m + 1
      /\ hk \in Seq(Nat) /\ Len(hk) = Len(b.keys) + 1 - (m + 1)
  BY <1>1, <1>3, ArrayInsertSplit, ZenonT(90)
<1>5. /\ lv \in Seq(Nat) /\ Len(lv) = m + 1
      /\ hv \in Seq(Nat) /\ Len(hv) = Len(b.values) + 1 - (m + 1)
  BY <1>1, <1>3, ArrayInsertSplit, ZenonT(90)
<1> HIDE DEF lk, lv, hk, hv
<1>6. /\ Len(hk) <= MAX_NKEYS /\ Len(hv) = Len(hk) + 1
      /\ m + 1 \in 1..Len(lk) /\ m \in 0..Len(lk) /\ m <= MAX_NKEYS
  BY <1>1, <1>2, <1>4, <1>5, MaxNkeysAssumption
<1>7. SubSeq(lk, 1, m) \in Seq(Nat) /\ Len(SubSeq(lk, 1, m)) = m
  BY <1>4, <1>6
<1>8. Sound(Node(SubSeq(lk, 1, m), lv)) /\ Node(SubSeq(lk, 1, m), lv).tag = "node"
  BY <1>5, <1>6, <1>7, NodeSound
<1>9. Sound(Node(hk, hv)) /\ Node(hk, hv).tag = "node"
  BY <1>4, <1>5, <1>6, NodeSound
<1>10. lk[m + 1] \in Nat
  BY <1>4, <1>6
<1>11. /\ split_node(b, i, k, addr).old = Node(SubSeq(lk, 1, m), lv)
       /\ split_node(b, i, k, addr).new = Node(hk, hv)
       /\ split_node(b, i, k, addr).key = lk[m + 1]
  BY DEF split_node, lk, lv, hk, hv, m, j
<1>12. QED
  BY <1>8, <1>9, <1>10, <1>11

\* delete_leaf's merge (btree.py:772-775) of leaves that fit into one.
LEMMA MergeLeavesSound ==
  ASSUME NEW l, Sound(l), NEW r, Sound(r), nkeys(l) + nkeys(r) <= MAX_NKEYS
  PROVE  Sound(merge_leaves(l, r)) /\ merge_leaves(l, r).tag = "leaf"
<1>1. /\ l.keys \in Seq(Nat) /\ Len(l.keys) = nkeys(l) /\ nkeys(l) \in Nat
      /\ r.keys \in Seq(Nat) /\ Len(r.keys) = nkeys(r) /\ nkeys(r) \in Nat
      /\ l.values \in Seq(Nat) /\ r.values \in Seq(Nat) /\ r.next \in Nat
  BY SoundArrays
<1>2. l.keys \o r.keys \in Seq(Nat) /\ Len(l.keys \o r.keys) = nkeys(l) + nkeys(r)
  BY <1>1, Concat
<1> DEFINE lv == Slots(l.values, nkeys(l))
           rs == Slots(r.values, nkeys(r))
<1>3. lv \in Seq(Nat) /\ Len(lv) = nkeys(l) /\ rs \in Seq(Nat) /\ Len(rs) = nkeys(r)
  BY <1>1, SlotsType
<1> HIDE DEF lv, rs
<1>4. lv \o rs \in Seq(Nat) /\ Len(lv \o rs) = nkeys(l) + nkeys(r)
  BY <1>3, Concat
<1>5. /\ Sound(Leaf(l.keys \o r.keys, lv \o rs, r.next))
      /\ Leaf(l.keys \o r.keys, lv \o rs, r.next).tag = "leaf"
  BY <1>1, <1>2, <1>4, LeafSound
<1>6. merge_leaves(l, r) = Leaf(l.keys \o r.keys, lv \o rs, r.next)
  BY DEF merge_leaves, array_merge_append, lv, rs
<1>7. QED
  BY <1>5, <1>6

\* delete_node's merge (btree.py:696-707) of nodes that fit into one, with the
\* key between them.
LEMMA MergeNodesSound ==
  ASSUME NEW l, Sound(l), NEW r, Sound(r), NEW k \in Nat,
         nkeys(l) + nkeys(r) + 1 <= MAX_NKEYS
  PROVE  Sound(merge_nodes(l, k, r)) /\ merge_nodes(l, k, r).tag = "node"
<1> DEFINE lk == Append(l.keys, k)
           lv == Slots(l.values, nkeys(l) + 1)
           rs == Slots(r.values, nkeys(r) + 1)
<1>1. /\ l.keys \in Seq(Nat) /\ Len(l.keys) = nkeys(l) /\ nkeys(l) \in Nat
      /\ r.keys \in Seq(Nat) /\ Len(r.keys) = nkeys(r) /\ nkeys(r) \in Nat
      /\ l.values \in Seq(Nat) /\ r.values \in Seq(Nat)
  BY SoundArrays
<1>2. lk \in Seq(Nat) /\ Len(lk) = nkeys(l) + 1
  <2>1. Append(l.keys, k) \in Seq(Nat) /\ Len(Append(l.keys, k)) = Len(l.keys) + 1
    BY <1>1, Appended
  <2>2. QED
    BY <1>1, <2>1
<1>3. lv \in Seq(Nat) /\ Len(lv) = nkeys(l) + 1 /\ rs \in Seq(Nat) /\ Len(rs) = nkeys(r) + 1
  <2>1. nkeys(l) + 1 \in Nat /\ nkeys(r) + 1 \in Nat
    BY <1>1
  <2>2. QED
    BY <1>1, <2>1, SlotsType
<1> HIDE DEF lk, lv, rs
<1>4. lk \o r.keys \in Seq(Nat) /\ Len(lk \o r.keys) = nkeys(l) + 1 + nkeys(r)
  BY <1>1, <1>2, Concat, ZenonT(90)
<1>5. lv \o rs \in Seq(Nat) /\ Len(lv \o rs) = (nkeys(l) + 1) + (nkeys(r) + 1)
  BY <1>3, Concat
<1>6. Len(lk \o r.keys) <= MAX_NKEYS /\ Len(lv \o rs) = Len(lk \o r.keys) + 1
  BY <1>1, <1>4, <1>5, MaxNkeysAssumption
<1>7. /\ Sound(Node(lk \o r.keys, lv \o rs))
      /\ Node(lk \o r.keys, lv \o rs).tag = "node"
  BY <1>4, <1>5, <1>6, NodeSound
<1>8. merge_nodes(l, k, r) = Node(lk \o r.keys, lv \o rs)
  BY DEF merge_nodes, array_merge_append, lk, lv, rs
<1>9. QED
  BY <1>7, <1>8

USE MaxNkeysAssumption DEF Tags

-----------------------------------------------------------------------------
(* Arrays without repetition *)

Distinct(s) == \A i, j \in 1..Len(s) : s[i] = s[j] => i = j
Members(s)  == {s[i] : i \in 1..Len(s)}

LEMMA ConcatIs ==
  ASSUME NEW S, NEW s \in Seq(S), NEW t \in Seq(S)
  PROVE  /\ s \o t \in Seq(S) /\ Len(s \o t) = Len(s) + Len(t)
         /\ \A j \in 1..Len(s) : (s \o t)[j] = s[j]
         /\ \A j \in 1..Len(t) : (s \o t)[Len(s) + j] = t[j]
BY ConcatProperties

LEMMA InsertedIs ==
  ASSUME NEW S, NEW arr \in Seq(S), NEW i \in 0..Len(arr), NEW x \in S
  PROVE  /\ array_insert(arr, i, x) \in Seq(S)
         /\ Len(array_insert(arr, i, x)) = Len(arr) + 1
         /\ \A j \in 1..(Len(arr) + 1) :
              array_insert(arr, i, x)[j] =
                IF j <= i THEN arr[j] ELSE IF j = i + 1 THEN x ELSE arr[j - 1]
<1> DEFINE low  == SubSeq(arr, 1, i)
           high == SubSeq(arr, i + 1, Len(arr))
<1>1. low \in Seq(S) /\ Len(low) = i /\ \A j \in 1..i : low[j] = arr[j]
  OBVIOUS
<1>2. /\ high \in Seq(S) /\ Len(high) = Len(arr) - i
      /\ \A j \in 1..(Len(arr) - i) : high[j] = arr[i + j]
  OBVIOUS
<1>3. array_insert(arr, i, x) = (low \o <<x>>) \o high
  BY (i + 1) - 1 = i DEF array_insert, InsertAt
<1> HIDE DEF low, high
<1> DEFINE front == low \o <<x>>
<1>4. /\ front \in Seq(S) /\ Len(front) = i + 1
      /\ \A j \in 1..i : front[j] = arr[j]
      /\ front[i + 1] = x
  BY <1>1
<1> HIDE DEF front
<1>5. /\ front \o high \in Seq(S) /\ Len(front \o high) = Len(arr) + 1
      /\ \A j \in 1..(i + 1) : (front \o high)[j] = front[j]
      /\ \A j \in 1..(Len(arr) - i) : (front \o high)[i + 1 + j] = high[j]
  BY <1>2, <1>4, ConcatIs
<1>6. ASSUME NEW j \in 1..(Len(arr) + 1)
      PROVE  (front \o high)[j] =
                IF j <= i THEN arr[j] ELSE IF j = i + 1 THEN x ELSE arr[j - 1]
  <2>1. CASE j <= i
    BY <1>4, <1>5, <2>1
  <2>2. CASE j = i + 1
    <3>1. (front \o high)[i + 1] = front[i + 1]
      BY <1>5
    <3>2. QED
      BY <1>4, <2>2, <3>1
  <2>3. CASE j > i + 1
    <3>1. PICK h \in 1..(Len(arr) - i) : j = i + 1 + h
      <4>1. j - (i + 1) \in 1..(Len(arr) - i) /\ j = i + 1 + (j - (i + 1))
        BY <2>3
      <4>2. QED
        BY <4>1
    <3>2. (front \o high)[j] = high[h] /\ high[h] = arr[i + h] /\ i + h = j - 1
      BY SMTT(30), ZenonT(30), <1>2, <1>5, <3>1
    <3>3. QED
      BY <2>3, <3>2
  <2>4. j <= i \/ j = i + 1 \/ j > i + 1
    BY SMT
  <2>5. QED
    BY <2>1, <2>2, <2>3, <2>4, Zenon
<1>7. QED
  BY <1>3, <1>5, <1>6 DEF front

LEMMA DeletedIs ==
  ASSUME NEW S, NEW arr \in Seq(S), NEW i \in 0..(Len(arr) - 1)
  PROVE  /\ array_delete(arr, i) \in Seq(S)
         /\ Len(array_delete(arr, i)) = Len(arr) - 1
         /\ \A j \in 1..(Len(arr) - 1) :
              array_delete(arr, i)[j] = IF j <= i THEN arr[j] ELSE arr[j + 1]
<1> DEFINE low  == SubSeq(arr, 1, i)
           high == SubSeq(arr, i + 2, Len(arr))
<1>1. low \in Seq(S) /\ Len(low) = i /\ \A j \in 1..i : low[j] = arr[j]
  OBVIOUS
<1>2. /\ high \in Seq(S) /\ Len(high) = Len(arr) - i - 1
      /\ \A j \in 1..(Len(arr) - i - 1) : high[j] = arr[i + 1 + j]
  OBVIOUS
<1>3. array_delete(arr, i) = low \o high
  BY (i + 1) - 1 = i, (i + 1) + 1 = i + 2 DEF array_delete, RemoveAt
<1>4. Len(arr) \in Nat
  OBVIOUS
<1> HIDE DEF low, high
<1>5. /\ low \o high \in Seq(S) /\ Len(low \o high) = Len(arr) - 1
      /\ \A j \in 1..i : (low \o high)[j] = low[j]
      /\ \A j \in 1..(Len(arr) - i - 1) : (low \o high)[i + j] = high[j]
  <2>1. /\ low \o high \in Seq(S) /\ Len(low \o high) = Len(low) + Len(high)
        /\ \A j \in 1..Len(low) : (low \o high)[j] = low[j]
        /\ \A j \in 1..Len(high) : (low \o high)[Len(low) + j] = high[j]
    <3>1. low \in Seq(S) /\ high \in Seq(S)
      BY <1>1, <1>2
    <3>2. QED
      BY <3>1, ConcatIs
  <2>2. i + (Len(arr) - i - 1) = Len(arr) - 1
    BY <1>4
  <2>3. QED
    BY <1>1, <1>2, <2>1, <2>2
<1>6. ASSUME NEW j \in 1..(Len(arr) - 1)
      PROVE  (low \o high)[j] = IF j <= i THEN arr[j] ELSE arr[j + 1]
  <2>1. CASE j <= i
    BY <1>1, <1>5, <2>1
  <2>2. CASE j > i
    <3>1. PICK h \in 1..(Len(arr) - i - 1) : j = i + h
      <4>1. j - i \in 1..(Len(arr) - i - 1) /\ j = i + (j - i)
        BY <1>4, <2>2
      <4>2. QED
        BY <4>1
    <3>2. (low \o high)[j] = high[h] /\ high[h] = arr[i + 1 + h] /\ i + 1 + h = j + 1
      BY SMTT(30), ZenonT(30), <1>2, <1>5, <3>1
    <3>3. j # 0 /\ ~(j <= i)
      BY <2>2
    <3>4. QED
      BY <3>2, <3>3
  <2>3. j <= i \/ j > i
    BY SMT
  <2>4. QED
    BY <2>1, <2>2, <2>3, Zenon
<1>7. QED
  BY <1>3, <1>5, <1>6

\* An array that gets an element it did not have.
LEMMA InsertedMembers ==
  ASSUME NEW S, NEW arr \in Seq(S), NEW i \in 0..Len(arr), NEW x \in S,
         Distinct(arr), x \notin Members(arr)
  PROVE  /\ Distinct(array_insert(arr, i, x))
         /\ Members(array_insert(arr, i, x)) = Members(arr) \cup {x}
<1> DEFINE t == array_insert(arr, i, x)
<1>1. /\ Len(t) = Len(arr) + 1 /\ Len(arr) \in Nat
      /\ \A j \in 1..(Len(arr) + 1) :
           t[j] = IF j <= i THEN arr[j] ELSE IF j = i + 1 THEN x ELSE arr[j - 1]
  BY InsertedIs
<1> HIDE DEF t
<1>2. Distinct(t)
  BY SMTT(30), ZenonT(30), <1>1 DEF Distinct, Members
<1>3. ASSUME NEW y \in Members(t) PROVE y \in Members(arr) \cup {x}
  <2>1. PICK j \in 1..(Len(arr) + 1) : y = t[j]
    BY <1>1, <1>3 DEF Members
  <2>2. CASE j <= i
    BY <1>1, <2>1, <2>2 DEF Members
  <2>3. CASE j = i + 1
    BY <1>1, <2>1, <2>3
  <2>4. CASE j > i + 1
    <3>1. j - 1 \in 1..Len(arr) /\ y = arr[j - 1]
      BY <1>1, <2>1, <2>4
    <3>2. QED
      BY <3>1 DEF Members
  <2>5. QED
    BY <2>2, <2>3, <2>4
<1>4. x \in Members(t)
  <2>1. i + 1 \in 1..Len(t) /\ t[i + 1] = x
    BY <1>1
  <2>2. QED
    BY <2>1 DEF Members
<1>5. ASSUME NEW y \in Members(arr) PROVE y \in Members(t)
  <2>1. PICK j \in 1..Len(arr) : y = arr[j]
    BY <1>5 DEF Members
  <2>2. CASE j <= i
    <3>1. j \in 1..Len(t) /\ t[j] = y
      BY <1>1, <2>1, <2>2
    <3>2. QED
      BY <3>1 DEF Members
  <2>3. CASE j > i
    <3>1. j + 1 \in 1..Len(t) /\ t[j + 1] = y
      BY <1>1, <2>1, <2>3
    <3>2. QED
      BY <3>1 DEF Members
  <2>4. QED
    BY <2>2, <2>3
<1>6. Members(t) = Members(arr) \cup {x}
  BY <1>3, <1>4, <1>5
<1>7. QED
  BY <1>2, <1>6 DEF t

\* An array that loses an element.
LEMMA DeletedMembers ==
  ASSUME NEW S, NEW arr \in Seq(S), NEW i \in 0..(Len(arr) - 1), Distinct(arr)
  PROVE  /\ Distinct(array_delete(arr, i))
         /\ Members(array_delete(arr, i)) = Members(arr) \ {arr[i + 1]}
         /\ arr[i + 1] \in Members(arr)
<1> DEFINE t == array_delete(arr, i)
<1>1. /\ Len(t) = Len(arr) - 1 /\ Len(arr) \in Nat
      /\ \A j \in 1..(Len(arr) - 1) : t[j] = IF j <= i THEN arr[j] ELSE arr[j + 1]
  BY DeletedIs
<1> HIDE DEF t
<1>2. Distinct(t)
  BY <1>1 DEF Distinct
<1>3. ASSUME NEW y \in Members(t) PROVE y \in Members(arr) /\ y # arr[i + 1]
  <2>1. PICK j \in 1..(Len(arr) - 1) : y = t[j]
    BY <1>1, <1>3 DEF Members
  <2>2. PICK h \in 1..Len(arr) : h # i + 1 /\ y = arr[h]
    BY <1>1, <2>1
  <2>3. i + 1 \in 1..Len(arr)
    BY <1>1
  <2>4. QED
    BY <2>2, <2>3 DEF Members, Distinct
<1>4. ASSUME NEW y \in Members(arr), y # arr[i + 1] PROVE y \in Members(t)
  <2>1. PICK j \in 1..Len(arr) : y = arr[j]
    BY <1>4 DEF Members
  <2>2. CASE j <= i
    <3>1. j \in 1..Len(t) /\ t[j] = y
      BY <1>1, <2>1, <2>2
    <3>2. QED
      BY <3>1 DEF Members
  <2>3. CASE j > i + 1
    <3>1. j - 1 \in 1..Len(t) /\ t[j - 1] = y
      BY <1>1, <2>1, <2>3
    <3>2. QED
      BY <3>1 DEF Members
  <2>4. QED
    BY <1>4, <2>1, <2>2, <2>3
<1>5. arr[i + 1] \in Members(arr)
  <2>1. i + 1 \in 1..Len(arr)
    BY <1>1
  <2>2. QED
    BY <2>1 DEF Members
<1>6. Members(t) = Members(arr) \ {arr[i + 1]}
  BY <1>3, <1>4
<1>7. QED
  BY <1>2, <1>5, <1>6 DEF t

\* An array that is cut in two.
LEMMA CutMembers ==
  ASSUME NEW S, NEW arr \in Seq(S), NEW m \in 0..Len(arr), Distinct(arr)
  PROVE  LET low  == SubSeq(arr, 1, m)
             high == SubSeq(arr, m + 1, Len(arr))
         IN  /\ Distinct(low) /\ Distinct(high)
             /\ Members(low) \cup Members(high) = Members(arr)
             /\ Members(low) \cap Members(high) = {}
<1> DEFINE low  == SubSeq(arr, 1, m)
           high == SubSeq(arr, m + 1, Len(arr))
<1>1. /\ Len(low) = m /\ \A j \in 1..m : low[j] = arr[j]
      /\ Len(high) = Len(arr) - m /\ \A j \in 1..(Len(arr) - m) : high[j] = arr[m + j]
      /\ Len(arr) \in Nat
  OBVIOUS
<1> HIDE DEF low, high
<1>2. Distinct(low) /\ Distinct(high)
  BY SMTT(30), ZenonT(30), <1>1 DEF Distinct
<1>3. ASSUME NEW y \in Members(low), y \in Members(high) PROVE FALSE
  <2>1. PICK j \in 1..m : y = arr[j]
    BY <1>1, <1>3 DEF Members
  <2>2. PICK h \in 1..(Len(arr) - m) : y = arr[m + h]
    BY <1>1, <1>3 DEF Members
  <2>3. j \in 1..Len(arr) /\ m + h \in 1..Len(arr) /\ j # m + h
    BY <1>1
  <2>4. QED
    BY <2>1, <2>2, <2>3 DEF Distinct
<1>4. Members(low) \subseteq Members(arr) /\ Members(high) \subseteq Members(arr)
  <2>1. ASSUME NEW j \in 1..Len(low) PROVE low[j] \in Members(arr)
    <3>1. j \in 1..Len(arr) /\ low[j] = arr[j]
      BY <1>1
    <3>2. QED
      BY <3>1 DEF Members
  <2>2. ASSUME NEW j \in 1..Len(high) PROVE high[j] \in Members(arr)
    <3>1. m + j \in 1..Len(arr) /\ high[j] = arr[m + j]
      BY <1>1
    <3>2. QED
      BY <3>1 DEF Members
  <2>3. QED
    BY <2>1, <2>2 DEF Members
<1>5. ASSUME NEW y \in Members(arr) PROVE y \in Members(low) \cup Members(high)
  <2>1. PICK j \in 1..Len(arr) : y = arr[j]
    BY <1>5 DEF Members
  <2>2. CASE j <= m
    <3>1. j \in 1..m
      BY <2>2
    <3>2. QED
      BY <1>1, <2>1, <3>1 DEF Members
  <2>3. CASE j > m
    <3>1. PICK h \in 1..(Len(arr) - m) : j = m + h
      <4>1. j - m \in 1..(Len(arr) - m) /\ j = m + (j - m)
        BY <1>1, <2>3
      <4>2. QED
        BY <4>1
    <3>2. high[h] = y /\ h \in 1..Len(high)
      BY <1>1, <2>1, <3>1
    <3>3. QED
      BY <3>2 DEF Members
  <2>4. QED
    BY <2>2, <2>3
<1>6. QED
  BY <1>2, <1>3, <1>4, <1>5 DEF low, high

\* Two arrays that are joined.
LEMMA JoinedMembers ==
  ASSUME NEW S, NEW s \in Seq(S), NEW t \in Seq(S), Distinct(s), Distinct(t),
         Members(s) \cap Members(t) = {}
  PROVE  Distinct(s \o t) /\ Members(s \o t) = Members(s) \cup Members(t)
<1>1. /\ Len(s \o t) = Len(s) + Len(t)
      /\ \A j \in 1..Len(s) : (s \o t)[j] = s[j]
      /\ \A j \in 1..Len(t) : (s \o t)[Len(s) + j] = t[j]
  BY ConcatIs
<1>2. Len(s) \in Nat /\ Len(t) \in Nat
  OBVIOUS
<1> DEFINE u == s \o t
<1>3. \A j \in 1..Len(u) : \/ j \in 1..Len(s)
                           \/ \E h \in 1..Len(t) : j = Len(s) + h
  <2> SUFFICES ASSUME NEW j \in 1..Len(u), j \notin 1..Len(s)
               PROVE  \E h \in 1..Len(t) : j = Len(s) + h
    OBVIOUS
  <2>1. j - Len(s) \in 1..Len(t) /\ j = Len(s) + (j - Len(s))
    BY <1>1, <1>2
  <2>2. QED
    BY <2>1
<1> HIDE DEF u
<1>4. /\ Len(u) = Len(s) + Len(t)
      /\ \A j \in 1..Len(s) : u[j] = s[j]
      /\ \A j \in 1..Len(t) : u[Len(s) + j] = t[j]
  BY <1>1 DEF u
<1>5. ASSUME NEW i \in 1..Len(u), NEW j \in 1..Len(u), u[i] = u[j] PROVE i = j
  <2>1. CASE i \in 1..Len(s) /\ j \in 1..Len(s)
    BY <1>4, <1>5, <2>1 DEF Distinct
  <2>2. CASE i \in 1..Len(s) /\ j \notin 1..Len(s)
    <3>1. PICK h \in 1..Len(t) : j = Len(s) + h
      BY <1>3, <2>2
    <3>2. u[i] \in Members(s) /\ u[j] \in Members(t)
      BY <1>4, <2>2, <3>1 DEF Members
    <3>3. QED
      BY <1>5, <3>2
  <2>3. CASE i \notin 1..Len(s) /\ j \in 1..Len(s)
    <3>1. PICK h \in 1..Len(t) : i = Len(s) + h
      BY <1>3, <2>3
    <3>2. u[j] \in Members(s) /\ u[i] \in Members(t)
      BY <1>4, <2>3, <3>1 DEF Members
    <3>3. QED
      BY <1>5, <3>2
  <2>4. CASE i \notin 1..Len(s) /\ j \notin 1..Len(s)
    <3>1. PICK g \in 1..Len(t), h \in 1..Len(t) : i = Len(s) + g /\ j = Len(s) + h
      BY <1>3, <2>4
    <3>2. t[g] = t[h]
      BY <1>4, <1>5, <3>1
    <3>3. g = h
      BY <3>2 DEF Distinct
    <3>4. QED
      BY <3>1, <3>3
  <2>5. QED
    BY <2>1, <2>2, <2>3, <2>4
<1>6. Members(u) \subseteq Members(s) \cup Members(t)
  <2> SUFFICES ASSUME NEW j \in 1..Len(u) PROVE u[j] \in Members(s) \cup Members(t)
    BY DEF Members
  <2>1. CASE j \in 1..Len(s)
    BY <1>4, <2>1 DEF Members
  <2>2. CASE j \notin 1..Len(s)
    <3>1. PICK h \in 1..Len(t) : j = Len(s) + h
      BY <1>3, <2>2
    <3>2. u[j] = t[h]
      BY <1>4, <3>1
    <3>3. QED
      BY <3>2 DEF Members
  <2>3. QED
    BY <2>1, <2>2
<1>7. Members(s) \subseteq Members(u)
  <2> SUFFICES ASSUME NEW j \in 1..Len(s) PROVE s[j] \in Members(u)
    BY DEF Members
  <2>1. j \in 1..Len(u) /\ u[j] = s[j]
    BY <1>2, <1>4
  <2>2. QED
    BY <2>1 DEF Members
<1>8. Members(t) \subseteq Members(u)
  <2> SUFFICES ASSUME NEW j \in 1..Len(t) PROVE t[j] \in Members(u)
    BY DEF Members
  <2>1. Len(s) + j \in 1..Len(u) /\ u[Len(s) + j] = t[j]
    BY <1>2, <1>4
  <2>2. QED
    BY <2>1 DEF Members
<1>9. QED
  BY <1>5, <1>6, <1>7, <1>8 DEF Distinct, u

-----------------------------------------------------------------------------
(* The children of a node *)

Kids(b) == Members(b.values)

\* A node all of whose children are different.
Branch(b) == Sound(b) /\ b.tag = "node" /\ Distinct(b.values)

LEMMA BranchArrays ==
  ASSUME NEW b, Branch(b)
  PROVE  /\ b.keys \in Seq(Nat) /\ Len(b.keys) = nkeys(b) /\ nkeys(b) \in 0..MAX_NKEYS
         /\ b.values \in Seq(Nat) /\ Len(b.values) = nkeys(b) + 1
         /\ Kids(b) \subseteq Nat
         /\ \A j \in 1..Len(b.values) : b.values[j] \in Kids(b)
<1>1. /\ b.keys \in Seq(Nat) /\ Len(b.keys) = nkeys(b) /\ nkeys(b) \in 0..MAX_NKEYS
      /\ b.values \in Seq(Nat) /\ Len(b.values) = nkeys(b) + 1
  BY SoundArrays DEF Branch
<1>2. QED
  BY SMTT(30), ZenonT(30), <1>1 DEF Kids, Members

\* A child more.
LEMMA NodeInsertKids ==
  ASSUME NEW b, Branch(b), nkeys(b) < MAX_NKEYS, NEW i \in 0..nkeys(b),
         NEW j \in 0..(nkeys(b) + 1), NEW k \in Nat, NEW c \in Nat, c \notin Kids(b)
  PROVE  LET n == node_insert(b, i, j, k, c)
         IN  Branch(n) /\ Kids(n) = Kids(b) \cup {c} /\ nkeys(n) = nkeys(b) + 1
<1> DEFINE n == node_insert(b, i, j, k, c)
<1>1. Sound(n) /\ n.tag = "node" /\ nkeys(n) = nkeys(b) + 1
  BY NodeInsertSound DEF Branch
<1>2. n.values = array_insert(b.values, j, c)
  BY DEF node_insert, Node
<1>3. Distinct(b.values) /\ b.values \in Seq(Nat) /\ j \in 0..Len(b.values) /\ c \notin Members(b.values)
  BY BranchArrays DEF Branch, Kids
<1>4. /\ Distinct(array_insert(b.values, j, c))
      /\ Members(array_insert(b.values, j, c)) = Members(b.values) \cup {c}
  BY <1>3, InsertedMembers
<1> HIDE DEF n
<1>5. QED
  BY <1>1, <1>2, <1>4 DEF Branch, Kids, n

\* A child less.
LEMMA NodePopKids ==
  ASSUME NEW b, Branch(b), NEW i \in 0..(nkeys(b) - 1), NEW j \in 0..nkeys(b)
  PROVE  LET n == node_pop(b, i, j)
         IN  /\ Branch(n) /\ nkeys(n) = nkeys(b) - 1
             /\ Kids(n) = Kids(b) \ {b.values[j + 1]} /\ b.values[j + 1] \in Kids(b)
<1> DEFINE n == node_pop(b, i, j)
<1>1. Sound(n) /\ n.tag = "node" /\ nkeys(n) = nkeys(b) - 1
  BY NodePopSound DEF Branch
<1>2. n.values = array_delete(b.values, j)
  BY DEF node_pop, Node
<1>3. Distinct(b.values) /\ b.values \in Seq(Nat) /\ j \in 0..(Len(b.values) - 1)
  BY BranchArrays DEF Branch
<1>4. /\ Distinct(array_delete(b.values, j))
      /\ Members(array_delete(b.values, j)) = Members(b.values) \ {b.values[j + 1]}
      /\ b.values[j + 1] \in Members(b.values)
  BY <1>3, DeletedMembers
<1> HIDE DEF n
<1>5. QED
  BY <1>1, <1>2, <1>4 DEF Branch, Kids, n

\* A full node and one more child: the children are divided between two nodes,
\* both of which have enough.
LEMMA SplitNodeKids ==
  ASSUME NEW b, Branch(b), nkeys(b) = MAX_NKEYS,
         NEW i \in 0..nkeys(b), NEW k \in Nat, NEW c \in Nat, c \notin Kids(b)
  PROVE  LET s == split_node(b, i, k, c)
         IN  /\ Branch(s.old) /\ nkeys(s.old) >= MIN_NKEYS_NODE
             /\ Branch(s.new) /\ nkeys(s.new) >= MIN_NKEYS_NODE
             /\ Kids(s.old) \cup Kids(s.new) = Kids(b) \cup {c}
             /\ Kids(s.old) \cap Kids(s.new) = {}
             /\ s.key \in Nat
<1> DEFINE s    == split_node(b, i, k, c)
           m    == (MAX_NKEYS + 1) \div 2
           full == array_insert(b.values, i + 1, c)
           fk   == array_insert(b.keys, i, k)
<1>1. /\ Sound(s.old) /\ s.old.tag = "node" /\ Sound(s.new) /\ s.new.tag = "node"
      /\ s.key \in Nat
  BY SplitNodeSound DEF Branch
<1>2. /\ b.values \in Seq(Nat) /\ Len(b.values) = MAX_NKEYS + 1
      /\ i + 1 \in 0..Len(b.values) /\ Distinct(b.values) /\ c \notin Members(b.values)
      /\ b.keys \in Seq(Nat) /\ Len(b.keys) = MAX_NKEYS /\ i \in 0..Len(b.keys)
  BY BranchArrays DEF Branch, Kids
<1>3. /\ full \in Seq(Nat) /\ Len(full) = MAX_NKEYS + 2
      /\ Distinct(full) /\ Members(full) = Kids(b) \cup {c}
  <2>1. full \in Seq(Nat) /\ Len(full) = Len(b.values) + 1
    <3>1. b.values \in Seq(Nat) /\ i + 1 \in 0..Len(b.values)
      BY <1>2
    <3>2. QED
      BY SMTT(30), ZenonT(30), <3>1, ArrayInsert
  <2>2. Distinct(full) /\ Members(full) = Members(b.values) \cup {c}
    BY SMTT(30), ZenonT(30), <1>2, InsertedMembers
  <2>3. QED
    BY <1>2, <2>1, <2>2 DEF Kids
<1>4. m + 1 \in 0..(MAX_NKEYS + 2) /\ m >= MIN_NKEYS_NODE /\ m \in Nat
      /\ MAX_NKEYS - m >= MIN_NKEYS_NODE /\ m <= MAX_NKEYS
  BY DEF MIN_NKEYS_NODE
<1>5. /\ s.old.values = SubSeq(full, 1, m + 1)
      /\ s.new.values = SubSeq(full, m + 1 + 1, Len(full))
  <2>1. /\ s.old.values = split_low(b.values, i + 1, m + 1, c)
        /\ s.new.values = split_high(b.values, i + 1, m + 1, c)
    BY DEF split_node, Node
  <2>2. Len(b.values) + 1 = Len(full)
    BY <1>2, <1>3
  <2>3. QED
    BY <2>1, <2>2, Zenon DEF split_low, split_high
<1> HIDE DEF full, s, m
<1>6. /\ Distinct(s.old.values) /\ Distinct(s.new.values)
      /\ Members(s.old.values) \cup Members(s.new.values) = Members(full)
      /\ Members(s.old.values) \cap Members(s.new.values) = {}
  BY SMTT(30), ZenonT(30), <1>3, <1>4, <1>5, CutMembers
<1>7. /\ Len(s.old.values) = m + 1 /\ Len(s.new.values) = MAX_NKEYS + 2 - (m + 1)
  BY <1>3, <1>4, <1>5
<1>8. /\ Len(s.old.values) = nkeys(s.old) + 1 /\ Len(s.new.values) = nkeys(s.new) + 1
      /\ nkeys(s.old) \in Nat /\ nkeys(s.new) \in Nat
  BY <1>1, SoundArrays
<1>9. nkeys(s.old) = m /\ nkeys(s.new) = MAX_NKEYS - m
  BY SMTT(30), ZenonT(30), <1>4, <1>7, <1>8
<1>10. QED
  BY <1>1, <1>3, <1>4, <1>6, <1>9 DEF Branch, Kids, s

\* A full leaf and one more key: both leaves have enough.
LEMMA SplitLeafFull ==
  ASSUME NEW b, Sound(b), b.tag = "leaf", nkeys(b) = MAX_NKEYS,
         NEW i \in 0..nkeys(b), NEW k \in Nat, NEW v \in Nat, NEW addr \in Nat
  PROVE  LET s == split_leaf(b, i, k, v, addr)
         IN  /\ Sound(s.old) /\ s.old.tag = "leaf" /\ nkeys(s.old) >= MIN_NKEYS_LEAF
             /\ Sound(s.new) /\ s.new.tag = "leaf" /\ nkeys(s.new) >= MIN_NKEYS_LEAF
             /\ s.new.keys[1] \in Nat
<1> DEFINE s == split_leaf(b, i, k, v, addr)
           m == (MAX_NKEYS + 2) \div 2
<1>1. /\ Sound(s.old) /\ s.old.tag = "leaf" /\ Sound(s.new) /\ s.new.tag = "leaf"
      /\ s.new.keys[1] \in Nat
  <2>1. LET t == split_leaf(b, i, k, v, addr)
        IN  /\ Sound(t.old) /\ t.old.tag = "leaf"
            /\ Sound(t.new) /\ t.new.tag = "leaf"
            /\ t.new.keys[1] \in Nat
    BY SplitLeafSound
  <2>2. QED
    BY <2>1
<1>2. b.keys \in Seq(Nat) /\ Len(b.keys) = MAX_NKEYS /\ i \in 0..Len(b.keys)
  BY SoundArrays
<1>3. m \in 0..(MAX_NKEYS + 1) /\ m >= MIN_NKEYS_LEAF /\ MAX_NKEYS + 1 - m >= MIN_NKEYS_LEAF
  BY DEF MIN_NKEYS_LEAF
<1>4. s.old.keys = split_low(b.keys, i, m, k) /\ s.new.keys = split_high(b.keys, i, m, k)
  BY DEF split_leaf, Leaf
<1> HIDE DEF s, m
<1>5. Len(s.old.keys) = m /\ Len(s.new.keys) = MAX_NKEYS + 1 - m
  <2>1. b.keys \in Seq(Nat) /\ i \in 0..Len(b.keys) /\ m \in 0..(Len(b.keys) + 1)
    BY <1>2, <1>3
  <2>2. /\ Len(split_low(b.keys, i, m, k)) = m
        /\ Len(split_high(b.keys, i, m, k)) = Len(b.keys) + 1 - m
    BY <2>1, ArrayInsertSplit, ZenonT(90)
  <2>3. QED
    BY <1>2, <1>4, <2>2
<1>6. QED
  BY <1>1, <1>3, <1>5 DEF nkeys, s

LEMMA SlotsAll ==
  ASSUME NEW arr \in Seq(Nat)
  PROVE  Slots(arr, Len(arr)) = arr
BY DEF Slots

\* Two nodes in one.
LEMMA MergeNodesKids ==
  ASSUME NEW l, Branch(l), NEW r, Branch(r), NEW k \in Nat,
         nkeys(l) + nkeys(r) + 1 <= MAX_NKEYS, Kids(l) \cap Kids(r) = {}
  PROVE  LET n == merge_nodes(l, k, r)
         IN  Branch(n) /\ Kids(n) = Kids(l) \cup Kids(r) /\ nkeys(n) = nkeys(l) + nkeys(r) + 1
<1> DEFINE n == merge_nodes(l, k, r)
<1>1. Sound(n) /\ n.tag = "node"
  BY MergeNodesSound DEF Branch
<1>2. /\ l.values \in Seq(Nat) /\ Len(l.values) = nkeys(l) + 1 /\ Distinct(l.values)
      /\ r.values \in Seq(Nat) /\ Len(r.values) = nkeys(r) + 1 /\ Distinct(r.values)
      /\ nkeys(l) \in Nat /\ nkeys(r) \in Nat
  BY BranchArrays DEF Branch
<1>3. Slots(l.values, nkeys(l) + 1) = l.values /\ Slots(r.values, nkeys(r) + 1) = r.values
  BY <1>2, SlotsAll
<1>4. n.values = l.values \o r.values
  BY <1>3 DEF merge_nodes, array_merge_append, Node
<1> HIDE DEF n
<1>5. Distinct(n.values) /\ Members(n.values) = Members(l.values) \cup Members(r.values)
  BY <1>2, <1>4, JoinedMembers DEF Kids
<1>6. Len(n.values) = Len(l.values) + Len(r.values)
  <2>1. l.values \in Seq(Nat) /\ r.values \in Seq(Nat)
    BY <1>2
  <2>2. Len(l.values \o r.values) = Len(l.values) + Len(r.values)
    BY <2>1, ConcatIs
  <2>3. QED
    BY <1>4, <2>2
<1>7. nkeys(n) \in Nat /\ Len(n.values) = nkeys(n) + 1
  BY <1>1, SoundArrays
<1>8. nkeys(n) = nkeys(l) + nkeys(r) + 1
  BY <1>2, <1>6, <1>7
<1>9. Branch(n) /\ Kids(n) = Kids(l) \cup Kids(r)
  BY <1>1, <1>5 DEF Branch, Kids
<1>10. QED
  BY <1>8, <1>9 DEF n

\* Two leaves in one.
LEMMA MergeLeavesFull ==
  ASSUME NEW l, Sound(l), NEW r, Sound(r), nkeys(l) + nkeys(r) <= MAX_NKEYS
  PROVE  LET n == merge_leaves(l, r)
         IN  Sound(n) /\ n.tag = "leaf" /\ nkeys(n) = nkeys(l) + nkeys(r)
<1> DEFINE n == merge_leaves(l, r)
<1>1. Sound(n) /\ n.tag = "leaf"
  BY MergeLeavesSound
<1>2. n.keys = l.keys \o r.keys
  BY DEF merge_leaves, array_merge_append, Leaf
<1> HIDE DEF n
<1>3. /\ l.keys \in Seq(Nat) /\ Len(l.keys) = nkeys(l)
      /\ r.keys \in Seq(Nat) /\ Len(r.keys) = nkeys(r)
  BY SoundArrays
<1>4. QED
  BY <1>1, <1>2, <1>3, ConcatIs DEF nkeys, n

-----------------------------------------------------------------------------
(* The forest *)

IsLive(b) == b.tag \in {"leaf", "node"}
Live(f)   == {a \in DOMAIN f : IsLive(f[a])}
Inner(f)  == {a \in DOMAIN f : f[a].tag = "node"}

\* A file that has been initialised.
File(f) ==
  /\ DOMAIN f \subseteq Nat /\ f \in [DOMAIN f -> Block]
  /\ \A a \in DOMAIN f : Sound(f[a])
  /\ 0 \in DOMAIN f /\ f[0].tag = "header"

\* No node has c for a child.
Loose(f, c) == \A a \in Inner(f) : c \notin Kids(f[a])

\* lv[a] is the number of levels below a.  A child that is not in H, the blocks
\* that were freed before their parents heard of it, is live and one level further
\* down, and it has one parent.
Forest(f, lv, H) ==
  /\ \A a \in Live(f) : f[a].tag = "leaf" => lv[a] = 0
  /\ \A a \in Inner(f) : Distinct(f[a].values)
  /\ \A a \in Inner(f) : \A c \in Kids(f[a]) : c \in H \/ (c \in Live(f) /\ lv[a] = lv[c] + 1)
  /\ \A a, b \in Inner(f) : a # b => Kids(f[a]) \cap Kids(f[b]) = {}

\* Every live block but the top t has the minimum of keys, and t, if it is a
\* node, has one.
HasEnough(b) ==
  /\ b.tag = "leaf" => nkeys(b) >= MIN_NKEYS_LEAF
  /\ b.tag = "node" => nkeys(b) >= MIN_NKEYS_NODE

Full(f, t) == \A a \in Live(f) \ {t} : HasEnough(f[a])

Rooted(f, t) == t \in Live(f) /\ Loose(f, t) /\ (f[t].tag = "node" => nkeys(f[t]) >= 1)

\* The free list is the blocks s, in this order.
Chain(f, s) ==
  /\ Distinct(s)
  /\ s = <<>> => FreeOf(f) = 0
  /\ s # <<>> => FreeOf(f) = s[1] /\ FreeOf(f) # 0
  /\ \A j \in 1..Len(s) :
       /\ s[j] \in DOMAIN f /\ f[s[j]].tag = "free"
       /\ j = Len(s) => f[s[j]].next = 0
       /\ j < Len(s) => f[s[j]].next = s[j + 1] /\ s[j + 1] # 0

\* The file after the block b was written to x.
Put(f, x, b) == [a \in DOMAIN f \cup {x} |-> IF a = x THEN b ELSE f[a]]

LEMMA PutIs ==
  ASSUME NEW f, NEW x, NEW b
  PROVE  /\ DOMAIN Put(f, x, b) = DOMAIN f \cup {x}
         /\ Put(f, x, b)[x] = b
         /\ \A a \in DOMAIN f : a # x => Put(f, x, b)[a] = f[a]
BY DEF Put

LEMMA PutFile ==
  ASSUME NEW f, File(f), NEW x \in Nat, NEW b, Sound(b), x = 0 => b.tag = "header"
  PROVE  File(Put(f, x, b))
<1> DEFINE g == Put(f, x, b)
<1>1. /\ DOMAIN g = DOMAIN f \cup {x} /\ g[x] = b
      /\ \A a \in DOMAIN f : a # x => g[a] = f[a]
  BY DEF Put
<1>2. g \in [DOMAIN g -> Block]
  <2>1. b \in Block
    BY DEF Sound
  <2>2. QED
    BY <2>1 DEF Put, File
<1> HIDE DEF g
<1>3. File(g)
  BY <1>1, <1>2 DEF File
<1>4. QED
  BY <1>3 DEF g

\* The live blocks, and the nodes among them, once a block was written.
LEMMA PutLive ==
  ASSUME NEW f, NEW x, NEW b
  PROVE  /\ IsLive(b)  => Live(Put(f, x, b)) = Live(f) \cup {x}
         /\ ~IsLive(b) => Live(Put(f, x, b)) = Live(f) \ {x}
         /\ b.tag = "node" => Inner(Put(f, x, b)) = Inner(f) \cup {x}
         /\ b.tag # "node" => Inner(Put(f, x, b)) = Inner(f) \ {x}
         /\ Put(f, x, b)[x] = b
         /\ \A a \in Live(f) : a # x => Put(f, x, b)[a] = f[a]
<1> DEFINE g == Put(f, x, b)
<1>1. /\ DOMAIN g = DOMAIN f \cup {x} /\ g[x] = b
      /\ \A a \in DOMAIN f : a # x => g[a] = f[a]
  BY DEF Put
<1> HIDE DEF g
<1>2. \A a \in Live(f) : a # x => g[a] = f[a]
  BY <1>1 DEF Live
<1>3. IsLive(b) => Live(g) = Live(f) \cup {x}
  BY <1>1 DEF Live
<1>4. ~IsLive(b) => Live(g) = Live(f) \ {x}
  BY <1>1 DEF Live
<1>5. b.tag = "node" => Inner(g) = Inner(f) \cup {x}
  BY <1>1 DEF Inner
<1>6. b.tag # "node" => Inner(g) = Inner(f) \ {x}
  BY <1>1 DEF Inner
<1>7. QED
  BY <1>1, <1>2, <1>3, <1>4, <1>5, <1>6 DEF g

LEMMA InnerLive ==
  ASSUME NEW f
  PROVE  Inner(f) \subseteq Live(f) /\ Live(f) \subseteq DOMAIN f
         /\ \A a \in Live(f) : f[a].tag \in {"leaf", "node"} /\ (f[a].tag = "node" <=> a \in Inner(f))
BY DEF Inner, Live, IsLive

\* A leaf written over a leaf.
LEMMA LeafKept ==
  ASSUME NEW f, NEW lv, NEW H, Forest(f, lv, H),
         NEW x \in Live(f), f[x].tag = "leaf", NEW b, b.tag = "leaf"
  PROVE  Forest(Put(f, x, b), lv, H)
<1> DEFINE g == Put(f, x, b)
<1>0. /\ IsLive(b)  => Live(g) = Live(f) \cup {x}
      /\ b.tag = "node" => Inner(g) = Inner(f) \cup {x}
      /\ b.tag # "node" => Inner(g) = Inner(f) \ {x}
      /\ g[x] = b
      /\ \A a \in Live(f) : a # x => g[a] = f[a]
  BY PutLive
<1> HIDE DEF g
<1>1. Live(g) = Live(f) /\ Inner(g) = Inner(f) /\ g[x] = b /\ x \notin Inner(f)
      /\ \A a \in Live(f) : a # x => g[a] = f[a]
  BY <1>0, InnerLive DEF IsLive
<1>2. \A a \in Inner(f) : g[a] = f[a] /\ a \in Live(f)
  BY <1>1, InnerLive
<1> HIDE DEF g
<1>3. Forest(g, lv, H)
  BY <1>1, <1>2 DEF Forest
<1>4. QED
  BY <1>3 DEF g

\* A leaf written where there was no live block.
LEMMA LeafNew ==
  ASSUME NEW f, File(f), NEW lv \in [Nat -> Nat], NEW H, Forest(f, lv, H),
         NEW x \in Nat \ Live(f), NEW b, b.tag = "leaf"
  PROVE  Forest(Put(f, x, b), [lv EXCEPT ![x] = 0], H)
<1> DEFINE g == Put(f, x, b)
           l == [lv EXCEPT ![x] = 0]
<1>0. /\ IsLive(b)  => Live(g) = Live(f) \cup {x}
      /\ b.tag = "node" => Inner(g) = Inner(f) \cup {x}
      /\ b.tag # "node" => Inner(g) = Inner(f) \ {x}
      /\ g[x] = b
      /\ \A a \in Live(f) : a # x => g[a] = f[a]
  BY PutLive
<1> HIDE DEF g
<1>1. Live(g) = Live(f) \cup {x} /\ Inner(g) = Inner(f) /\ g[x] = b /\ x \notin Inner(f)
      /\ \A a \in Live(f) : a # x => g[a] = f[a]
  BY <1>0, InnerLive DEF IsLive
<1>2. \A a \in Inner(f) : g[a] = f[a] /\ a \in Live(f)
  BY <1>1, InnerLive
<1>3. Live(f) \subseteq Nat
  BY DEF Live, File
<1>4. l[x] = 0 /\ \A a \in Live(f) : l[a] = lv[a]
  BY <1>3
<1> HIDE DEF g, l
<1>5. Forest(g, l, H)
  BY SMTT(30), ZenonT(30), <1>1, <1>2, <1>4 DEF Forest
<1>6. QED
  BY <1>5 DEF g, l

\* The children of a node that is written to x: live, one level down, and no
\* other node's.
Adoptable(f, lv, H, x, b, l) ==
  \A c \in Kids(b) : /\ c \in H \/ (c \in Live(f) /\ l = lv[c] + 1)
                     /\ \A a \in Inner(f) \ {x} : c \notin Kids(f[a])

\* A node written over a node.
LEMMA NodeKept ==
  ASSUME NEW f, NEW lv, NEW H, Forest(f, lv, H),
         NEW x \in Inner(f), NEW b, b.tag = "node", Distinct(b.values),
         Adoptable(f, lv, H, x, b, lv[x])
  PROVE  Forest(Put(f, x, b), lv, H)
<1> DEFINE g == Put(f, x, b)
<1>0. /\ IsLive(b)  => Live(g) = Live(f) \cup {x}
      /\ b.tag = "node" => Inner(g) = Inner(f) \cup {x}
      /\ b.tag # "node" => Inner(g) = Inner(f) \ {x}
      /\ g[x] = b
      /\ \A a \in Live(f) : a # x => g[a] = f[a]
  BY PutLive
<1> HIDE DEF g
<1>1. Live(g) = Live(f) /\ Inner(g) = Inner(f) /\ g[x] = b
      /\ \A a \in Live(f) : a # x => g[a] = f[a]
  BY <1>0, InnerLive DEF IsLive
<1>2. \A a \in Inner(f) : (a # x => g[a] = f[a]) /\ a \in Live(f)
  BY <1>1, InnerLive
<1> HIDE DEF g
<1>3. \A a \in Live(g) : g[a].tag = "leaf" => lv[a] = 0
  BY <1>1 DEF Forest
<1>4. \A a \in Inner(g) : Distinct(g[a].values)
  BY <1>1, <1>2 DEF Forest
<1>5. ASSUME NEW a \in Inner(g), NEW c \in Kids(g[a])
      PROVE  c \in H \/ (c \in Live(g) /\ lv[a] = lv[c] + 1)
  BY <1>1, <1>2 DEF Forest, Adoptable
<1>6. ASSUME NEW a \in Inner(g), NEW d \in Inner(g), a # d PROVE Kids(g[a]) \cap Kids(g[d]) = {}
  <2>1. CASE a = x
    BY <1>1, <1>2, <1>6, <2>1 DEF Adoptable
  <2>2. CASE d = x
    BY <1>1, <1>2, <1>6, <2>2 DEF Adoptable
  <2>3. CASE a # x /\ d # x
    BY <1>1, <1>2, <1>6, <2>3 DEF Forest
  <2>4. QED
    BY <2>1, <2>2, <2>3
<1>7. Forest(g, lv, H)
  BY <1>3, <1>4, <1>5, <1>6 DEF Forest
<1>8. QED
  BY <1>7 DEF g

\* A node written where there was no live block.
LEMMA NodeNew ==
  ASSUME NEW f, File(f), NEW lv \in [Nat -> Nat], NEW H, Forest(f, lv, H),
         NEW x \in Nat \ Live(f), NEW b, b.tag = "node", Distinct(b.values),
         NEW l \in Nat, Adoptable(f, lv, H, x, b, l)
  PROVE  Forest(Put(f, x, b), [lv EXCEPT ![x] = l], H)
<1> DEFINE g == Put(f, x, b)
           m == [lv EXCEPT ![x] = l]
<1>1. Live(g) = Live(f) \cup {x} /\ Inner(g) = Inner(f) \cup {x} /\ g[x] = b /\ x \notin Inner(f)
      /\ \A a \in Live(f) : a # x => g[a] = f[a]
  BY PutLive, InnerLive DEF IsLive
<1>2. \A a \in Inner(f) : g[a] = f[a] /\ a \in Live(f)
  BY <1>1, InnerLive
<1>3. Live(f) \subseteq Nat
  BY DEF Live, File
<1>4. m[x] = l /\ \A a \in Live(f) : m[a] = lv[a]
  BY <1>3
<1> HIDE DEF g, m
<1>5. \A a \in Live(g) : g[a].tag = "leaf" => m[a] = 0
  BY <1>1, <1>4 DEF Forest
<1>6. \A a \in Inner(g) : Distinct(g[a].values)
  BY <1>1, <1>2 DEF Forest
<1>7. ASSUME NEW a \in Inner(g), NEW c \in Kids(g[a])
      PROVE  c \in H \/ (c \in Live(g) /\ m[a] = m[c] + 1)
  <2>1. CASE a = x
    BY <1>1, <1>4, <1>7, <2>1 DEF Adoptable
  <2>2. CASE a # x
    BY <1>1, <1>2, <1>4, <1>7, <2>2 DEF Forest
  <2>3. QED
    BY <2>1, <2>2
<1>8. ASSUME NEW a \in Inner(g), NEW d \in Inner(g), a # d PROVE Kids(g[a]) \cap Kids(g[d]) = {}
  <2>1. CASE a = x
    BY <1>1, <1>2, <1>8, <2>1 DEF Adoptable
  <2>2. CASE d = x
    BY <1>1, <1>2, <1>8, <2>2 DEF Adoptable
  <2>3. CASE a # x /\ d # x
    BY <1>1, <1>2, <1>8, <2>3 DEF Forest
  <2>4. QED
    BY <2>1, <2>2, <2>3
<1>9. Forest(g, m, H)
  BY <1>5, <1>6, <1>7, <1>8 DEF Forest
<1>10. QED
  BY <1>9 DEF g, m

\* A block that is not live written over one that is: a hole.
LEMMA BlockFreed ==
  ASSUME NEW f, NEW lv, NEW H, Forest(f, lv, H), NEW x, NEW b, ~IsLive(b)
  PROVE  Forest(Put(f, x, b), lv, H \cup {x})
<1> DEFINE g == Put(f, x, b)
<1>1. Live(g) = Live(f) \ {x} /\ Inner(g) = Inner(f) \ {x}
      /\ \A a \in Live(f) : a # x => g[a] = f[a]
  BY PutLive DEF IsLive
<1>2. \A a \in Inner(g) : g[a] = f[a] /\ a \in Inner(f)
  BY <1>1, InnerLive
<1> HIDE DEF g
<1>3. Forest(g, lv, H \cup {x})
  BY <1>1, <1>2 DEF Forest
<1>4. QED
  BY <1>3 DEF g

\* Holes no node has for a child are none.
LEMMA HolesGone ==
  ASSUME NEW f, NEW lv, NEW H, NEW G, Forest(f, lv, H),
         \A a \in Inner(f) : \A c \in Kids(f[a]) : c \in H => c \in G
  PROVE  Forest(f, lv, G)
BY DEF Forest

\* Files with the same live blocks are the same forest.
SameLive(f, g) == Live(g) = Live(f) /\ \A a \in Live(f) : g[a] = f[a]

LEMMA SameForest ==
  ASSUME NEW f, NEW g, SameLive(f, g)
  PROVE  /\ Inner(g) = Inner(f) /\ \A a \in Inner(f) : g[a] = f[a]
         /\ \A lv, H : Forest(f, lv, H) => Forest(g, lv, H)
         /\ \A t : Full(f, t) => Full(g, t)
         /\ \A c : Loose(f, c) => Loose(g, c)
         /\ \A t : Rooted(f, t) => Rooted(g, t)
<1>1. Inner(g) = Inner(f) /\ \A a \in Inner(f) : g[a] = f[a]
  BY DEF SameLive, Live, Inner, IsLive
<1>2. ASSUME NEW lv, NEW H, Forest(f, lv, H) PROVE Forest(g, lv, H)
  BY <1>1, <1>2 DEF Forest, SameLive
<1>3. ASSUME NEW t, Full(f, t) PROVE Full(g, t)
  BY <1>3 DEF Full, SameLive
<1>4. ASSUME NEW c, Loose(f, c) PROVE Loose(g, c)
  BY <1>1, <1>4 DEF Loose
<1>5. ASSUME NEW t, Rooted(f, t) PROVE Rooted(g, t)
  BY <1>4, <1>5 DEF Rooted, SameLive
<1>6. QED
  BY <1>1, <1>2, <1>3, <1>4, <1>5

LEMMA FullPut ==
  ASSUME NEW f, NEW t, Full(f, t), NEW x, NEW b, IsLive(b) /\ x # t => HasEnough(b)
  PROVE  Full(Put(f, x, b), t)
<1> DEFINE g == Put(f, x, b)
<1>1. /\ IsLive(b)  => Live(g) = Live(f) \cup {x}
      /\ ~IsLive(b) => Live(g) = Live(f) \ {x}
      /\ g[x] = b /\ \A a \in Live(f) : a # x => g[a] = f[a]
  BY PutLive
<1> HIDE DEF g
<1>2. Full(g, t)
  BY <1>1 DEF Full
<1>3. QED
  BY <1>2 DEF g

LEMMA LoosePut ==
  ASSUME NEW f, NEW c, Loose(f, c), NEW x, NEW b, b.tag = "node" => c \notin Kids(b)
  PROVE  Loose(Put(f, x, b), c)
<1> DEFINE g == Put(f, x, b)
<1>1. /\ b.tag = "node" => Inner(g) = Inner(f) \cup {x}
      /\ b.tag # "node" => Inner(g) = Inner(f) \ {x}
      /\ g[x] = b /\ \A a \in Live(f) : a # x => g[a] = f[a]
  BY PutLive
<1>2. \A a \in Inner(f) : a # x => g[a] = f[a]
  BY <1>1, InnerLive
<1> HIDE DEF g
<1>3. Loose(g, c)
  BY <1>1, <1>2 DEF Loose
<1>4. QED
  BY <1>3 DEF g

\* A child its parent was written without, or that was freed with it, is loose.
LEMMA Loosened ==
  ASSUME NEW f, NEW lv, NEW H, Forest(f, lv, H), NEW x \in Inner(f), NEW c \in Kids(f[x]),
         NEW b, b.tag = "node" => c \notin Kids(b)
  PROVE  Loose(Put(f, x, b), c)
<1> DEFINE g == Put(f, x, b)
<1>1. /\ b.tag = "node" => Inner(g) = Inner(f) \cup {x}
      /\ b.tag # "node" => Inner(g) = Inner(f) \ {x}
      /\ g[x] = b /\ \A a \in Live(f) : a # x => g[a] = f[a]
  BY PutLive
<1>2. \A a \in Inner(f) : a # x => g[a] = f[a] /\ c \notin Kids(f[a])
  BY <1>1, InnerLive DEF Forest
<1> HIDE DEF g
<1>3. Loose(g, c)
  BY <1>1, <1>2 DEF Loose
<1>4. QED
  BY <1>3 DEF g

-----------------------------------------------------------------------------
(* The free list *)

LEMMA HeaderOf ==
  ASSUME NEW f, File(f)
  PROVE  /\ RootOf(f) = f[0].values[1] /\ FreeOf(f) = f[0].values[2]
         /\ RootOf(f) \in Nat /\ FreeOf(f) \in Nat
         /\ 0 \notin Live(f) /\ Live(f) \subseteq Nat
         /\ \A a \in DOMAIN f : BlockAt(f, a) = f[a] /\ a \in Nat
<1>1. Sound(f[0]) /\ f[0].tag = "header"
  BY DEF File
<1>2. f[0].values \in Seq(Nat) /\ Len(f[0].values) = 2
  BY <1>1, SoundArrays
<1>3. f[0].values[1] \in Nat /\ f[0].values[2] \in Nat
  BY <1>2
<1>4. QED
  BY <1>1, <1>3 DEF File, RootOf, FreeOf, BlockAt, Live, IsLive

\* The header is written.
LEMMA HeaderPut ==
  ASSUME NEW f, File(f), NEW r \in Nat, NEW p \in Nat
  PROVE  LET g == Put(f, 0, Header(r, p))
         IN  /\ File(g) /\ SameLive(f, g) /\ DOMAIN g = DOMAIN f
             /\ RootOf(g) = r /\ FreeOf(g) = p
             /\ \A a \in DOMAIN f : a # 0 => g[a] = f[a]
<1> DEFINE b == Header(r, p)
           g == Put(f, 0, b)
<1>1. Sound(b) /\ b.tag = "header"
  BY OtherBlocksSound
<1>2. File(g)
  BY <1>1, PutFile
<1>3. b.values[1] = r /\ b.values[2] = p
  BY DEF Header
<1> HIDE DEF b
<1>4. /\ DOMAIN g = DOMAIN f /\ g[0] = b
      /\ \A a \in DOMAIN f : a # 0 => g[a] = f[a]
  BY DEF Put, File
<1> HIDE DEF g
<1>5. SameLive(f, g)
  BY <1>1, <1>4 DEF SameLive, Live, IsLive, File
<1>6. RootOf(g) = r /\ FreeOf(g) = p
  BY <1>2, <1>3, <1>4, HeaderOf
<1>7. QED
  BY <1>2, <1>4, <1>5, <1>6 DEF g, b

\* What is written outside the free list leaves it alone.
LEMMA ChainPut ==
  ASSUME NEW f, File(f), NEW s, Chain(f, s),
         NEW x \in Nat, x # 0, x \notin Members(s), NEW b
  PROVE  /\ Chain(Put(f, x, b), s)
         /\ RootOf(Put(f, x, b)) = RootOf(f) /\ FreeOf(Put(f, x, b)) = FreeOf(f)
<1> DEFINE g == Put(f, x, b)
<1>1. /\ DOMAIN g = DOMAIN f \cup {x}
      /\ \A a \in DOMAIN f : a # x => g[a] = f[a]
  BY DEF Put
<1> HIDE DEF g
<1>2. RootOf(g) = RootOf(f) /\ FreeOf(g) = FreeOf(f)
  BY <1>1 DEF File, RootOf, FreeOf, BlockAt
<1>3. \A j \in 1..Len(s) : s[j] # x
  BY DEF Members
<1>4. Chain(g, s)
  BY <1>1, <1>2, <1>3 DEF Chain
<1>5. QED
  BY <1>2, <1>4 DEF g

\* The blocks of the free list are neither live nor the header.
LEMMA ChainFree ==
  ASSUME NEW f, File(f), NEW s, Chain(f, s)
  PROVE  Members(s) \cap Live(f) = {} /\ 0 \notin Members(s)
BY DEF Chain, Members, Live, IsLive, File

\* The header and another block of the list: only the header's pointer counts.
LEMMA ChainHeader ==
  ASSUME NEW f, File(f), NEW s, Chain(f, s), NEW g, FreeOf(g) = FreeOf(f),
         DOMAIN f \subseteq DOMAIN g, \A a \in DOMAIN f : a # 0 => g[a] = f[a]
  PROVE  Chain(g, s)
<1>1. \A j \in 1..Len(s) : s[j] # 0
  BY ChainFree DEF Members
<1>2. QED
  BY <1>1 DEF Chain

\* What a call finds and leaves: a file with a forest and a free list in it, the
\* blocks of which are less than size.
Woods(f, lv, s, H) ==
  /\ File(f) /\ lv \in [Nat -> Nat] /\ s \in Seq(Nat)
  /\ Forest(f, lv, H) /\ Chain(f, s)

Within(f, size) == \A a \in DOMAIN f : a < size

\* new_node: the block it takes, and the file with the shorter free list.
Fresh(f, size)     == IF FreeOf(f) = 0 THEN size ELSE FreeOf(f)
FreshSize(f, size) == IF FreeOf(f) = 0 THEN size + 1 ELSE size
Taken(f) ==
  IF FreeOf(f) = 0 THEN f
  ELSE Put(f, 0, Header(RootOf(f), BlockAt(f, FreeOf(f)).next))

LEMMA TailIs ==
  ASSUME NEW s \in Seq(Nat), s # <<>>
  PROVE  /\ Tail(s) \in Seq(Nat) /\ Len(Tail(s)) = Len(s) - 1
         /\ Len(s) \in Nat /\ Len(s) >= 1
         /\ \A j \in 1..(Len(s) - 1) : Tail(s)[j] = s[j + 1]
OBVIOUS

LEMMA FirstTaken ==
  ASSUME NEW f, NEW lv, NEW s, NEW H, Woods(f, lv, s, H), FreeOf(f) # 0
  PROVE  /\ Woods(Taken(f), lv, Tail(s), H)
         /\ SameLive(f, Taken(f)) /\ DOMAIN Taken(f) = DOMAIN f
         /\ RootOf(Taken(f)) = RootOf(f)
         /\ FreeOf(f) \in DOMAIN f /\ FreeOf(f) \notin Live(f)
         /\ FreeOf(f) \notin Members(Tail(s))
<1> DEFINE x == FreeOf(f)
           p == BlockAt(f, x).next
           t == Tail(s)
<1>1. File(f) /\ s \in Seq(Nat) /\ Chain(f, s) /\ Forest(f, lv, H)
  BY DEF Woods
<1>2. s # <<>> /\ s[1] = x /\ Len(s) \in Nat /\ Len(s) >= 1
  BY <1>1, TailIs DEF Chain
<1>3. x \in DOMAIN f /\ f[x].tag = "free" /\ p = f[x].next
      /\ (1 = Len(s) => f[x].next = 0) /\ (1 < Len(s) => f[x].next = s[2] /\ s[2] # 0)
  <2>1. 1 \in 1..Len(s) /\ 1 + 1 = 2
    BY <1>2
  <2>2. s[1] \in DOMAIN f /\ f[s[1]].tag = "free"
        /\ (1 = Len(s) => f[s[1]].next = 0) /\ (1 < Len(s) => f[s[1]].next = s[1 + 1] /\ s[1 + 1] # 0)
    BY <1>1, <2>1 DEF Chain
  <2>3. QED
    BY <1>2, <2>1, <2>2 DEF BlockAt
<1>4. p \in Nat /\ RootOf(f) \in Nat
  BY <1>1, <1>3, HeaderOf, SoundArrays DEF File
<1>5. Taken(f) = Put(f, 0, Header(RootOf(f), p))
  BY DEF Taken
<1> DEFINE g == Put(f, 0, Header(RootOf(f), p))
<1>6. /\ File(g) /\ SameLive(f, g) /\ DOMAIN g = DOMAIN f
      /\ RootOf(g) = RootOf(f) /\ FreeOf(g) = p
      /\ \A a \in DOMAIN f : a # 0 => g[a] = f[a]
  <2>1. LET h == Put(f, 0, Header(RootOf(f), p))
        IN  /\ File(h) /\ SameLive(f, h) /\ DOMAIN h = DOMAIN f
            /\ RootOf(h) = RootOf(f) /\ FreeOf(h) = p
            /\ \A a \in DOMAIN f : a # 0 => h[a] = f[a]
    BY <1>1, <1>4, HeaderPut
  <2>2. QED
    BY <2>1
<1> HIDE DEF g, p, t
<1>7. /\ t \in Seq(Nat) /\ Len(t) = Len(s) - 1
      /\ \A j \in 1..(Len(s) - 1) : t[j] = s[j + 1]
  BY <1>1, <1>2, TailIs DEF t
<1>8. Forest(g, lv, H)
  BY <1>1, <1>6, SameForest
<1>9. Distinct(t)
  <2>1. \A i, j \in 1..Len(s) : s[i] = s[j] => i = j
    BY <1>1 DEF Chain, Distinct
  <2>2. ASSUME NEW i \in 1..Len(t), NEW j \in 1..Len(t), t[i] = t[j] PROVE i = j
    <3>1. i + 1 \in 1..Len(s) /\ j + 1 \in 1..Len(s) /\ s[i + 1] = s[j + 1]
      BY <1>2, <1>7, <2>2
    <3>2. i + 1 = j + 1
      BY <2>1, <3>1
    <3>3. QED
      BY <3>2
  <2>3. QED
    BY <2>2 DEF Distinct
<1>10. (t = <<>> => FreeOf(g) = 0) /\ (t # <<>> => FreeOf(g) = t[1] /\ FreeOf(g) # 0)
  <2>1. CASE Len(s) = 1
    <3>1. t = <<>>
      BY <1>7, <2>1, EmptySeq
    <3>2. QED
      BY <1>3, <1>6, <2>1, <3>1
  <2>2. CASE Len(s) > 1
    <3>1. t # <<>> /\ t[1] = s[2]
      <4>1. Len(t) # 0 /\ 1 \in 1..(Len(s) - 1) /\ 1 + 1 = 2
        BY <1>2, <1>7, <2>2
      <4>2. QED
        BY <1>7, <4>1
    <3>2. QED
      BY <1>3, <1>6, <2>2, <3>1
  <2>3. Len(s) = 1 \/ Len(s) > 1
    BY <1>2
  <2>4. QED
    BY <2>1, <2>2, <2>3, Zenon
<1>11. ASSUME NEW j \in 1..Len(t)
       PROVE  /\ t[j] \in DOMAIN g /\ g[t[j]].tag = "free"
              /\ j = Len(t) => g[t[j]].next = 0
              /\ j < Len(t) => g[t[j]].next = t[j + 1] /\ t[j + 1] # 0
  <2>1. j + 1 \in 1..Len(s) /\ t[j] = s[j + 1]
        /\ (j = Len(t) <=> j + 1 = Len(s)) /\ (j < Len(t) <=> j + 1 < Len(s))
        /\ (j < Len(t) => t[j + 1] = s[(j + 1) + 1])
    BY SMTT(30), ZenonT(30), <1>2, <1>7
  <2>2. /\ s[j + 1] \in DOMAIN f /\ f[s[j + 1]].tag = "free"
        /\ j + 1 = Len(s) => f[s[j + 1]].next = 0
        /\ j + 1 < Len(s) => f[s[j + 1]].next = s[(j + 1) + 1] /\ s[(j + 1) + 1] # 0
    BY <1>1, <2>1 DEF Chain
  <2>3. s[j + 1] # 0
    BY <1>1, <2>1, ChainFree DEF Members
  <2>4. QED
    BY <1>6, <2>1, <2>2, <2>3
<1>12. Chain(g, t)
  BY <1>9, <1>10, <1>11 DEF Chain
<1>13. x \notin Members(t)
  <2> SUFFICES ASSUME NEW j \in 1..Len(t), t[j] = x PROVE FALSE
    BY DEF Members
  <2>1. j + 1 \in 1..Len(s) /\ 1 \in 1..Len(s) /\ s[j + 1] = s[1] /\ j + 1 # 1
    BY <1>2, <1>7
  <2>2. QED
    BY <1>1, <2>1 DEF Chain, Distinct
<1>14. x \notin Live(f)
  BY <1>3 DEF Live, IsLive
<1>15. Woods(g, lv, t, H)
  BY <1>6, <1>7, <1>8, <1>12 DEF Woods
<1>16. QED
  BY <1>3, <1>5, <1>6, <1>13, <1>14, <1>15 DEF g, t

\* new_node (btree.py:156-169): its block is not live and no longer free, and
\* nothing that is live has changed.
LEMMA Allocated ==
  ASSUME NEW f, NEW lv, NEW s, NEW H, Woods(f, lv, s, H),
         NEW size \in Nat, size # 0, Within(f, size)
  PROVE  /\ \E t \in Seq(Nat) : Woods(Taken(f), lv, t, H) /\ Fresh(f, size) \notin Members(t)
         /\ SameLive(f, Taken(f)) /\ DOMAIN Taken(f) = DOMAIN f
         /\ RootOf(Taken(f)) = RootOf(f)
         /\ Fresh(f, size) \in Nat /\ Fresh(f, size) # 0 /\ Fresh(f, size) \notin Live(f)
         /\ FreshSize(f, size) \in Nat
         /\ Fresh(f, size) < FreshSize(f, size) /\ Within(f, FreshSize(f, size))
<1>1. CASE FreeOf(f) = 0
  <2>1. Fresh(f, size) = size /\ FreshSize(f, size) = size + 1 /\ Taken(f) = f
    BY <1>1 DEF Fresh, FreshSize, Taken
  <2>2. size \notin DOMAIN f
    BY DEF Within, Woods, File
  <2>3. size \notin Members(s)
    BY <2>2 DEF Woods, Chain, Members
  <2>4. Within(f, size + 1)
    <3>1. DOMAIN f \subseteq Nat
      BY DEF Woods, File
    <3>2. QED
      BY <3>1 DEF Within
  <2>5. s \in Seq(Nat) /\ SameLive(f, f) /\ size \notin Live(f)
    BY <2>2 DEF Woods, SameLive, Live
  <2>6. QED
    BY <2>1, <2>3, <2>4, <2>5
<1>2. CASE FreeOf(f) # 0
  <2>1. Fresh(f, size) = FreeOf(f) /\ FreshSize(f, size) = size
    BY <1>2 DEF Fresh, FreshSize
  <2>2. /\ Woods(Taken(f), lv, Tail(s), H)
        /\ SameLive(f, Taken(f)) /\ DOMAIN Taken(f) = DOMAIN f
        /\ RootOf(Taken(f)) = RootOf(f)
        /\ FreeOf(f) \in DOMAIN f /\ FreeOf(f) \notin Live(f)
        /\ FreeOf(f) \notin Members(Tail(s))
    BY <1>2, FirstTaken
  <2>3. FreeOf(f) \in Nat
    BY HeaderOf DEF Woods
  <2>4. Tail(s) \in Seq(Nat)
    BY <2>2 DEF Woods
  <2>5. FreeOf(f) < size
    BY <2>2 DEF Within
  <2>6. QED
    BY <1>2, <2>1, <2>2, <2>3, <2>4, <2>5
<1>3. QED
  BY <1>1, <1>2

\* free (btree.py:185-192): the block goes to the head of the free list.
Freed(f, x) == Put(Put(f, 0, Header(RootOf(f), x)), x, FreeBlock(FreeOf(f)))

LEMMA BlockIsFreed ==
  ASSUME NEW f, NEW lv, NEW s, NEW H, Woods(f, lv, s, H), NEW x \in Live(f)
  PROVE  /\ \E t \in Seq(Nat) : /\ Woods(Freed(f, x), lv, t, H \cup {x})
                                /\ Members(t) = Members(s) \cup {x}
         /\ Live(Freed(f, x)) = Live(f) \ {x} /\ Inner(Freed(f, x)) = Inner(f) \ {x}
         /\ \A a \in Live(f) : a # x => Freed(f, x)[a] = f[a]
         /\ DOMAIN Freed(f, x) = DOMAIN f
         /\ RootOf(Freed(f, x)) = RootOf(f)
<1> DEFINE g == Put(f, 0, Header(RootOf(f), x))
           b == FreeBlock(FreeOf(f))
           e == Put(g, x, b)
           t == <<x>> \o s
<1>1. File(f) /\ s \in Seq(Nat) /\ Chain(f, s) /\ Forest(f, lv, H) /\ lv \in [Nat -> Nat]
  BY DEF Woods
<1>2. RootOf(f) \in Nat /\ FreeOf(f) \in Nat /\ x \in Nat /\ x # 0 /\ x \in DOMAIN f
  BY <1>1, HeaderOf, InnerLive
<1>3. /\ File(g) /\ SameLive(f, g) /\ DOMAIN g = DOMAIN f
      /\ RootOf(g) = RootOf(f) /\ FreeOf(g) = x
      /\ \A a \in DOMAIN f : a # 0 => g[a] = f[a]
  <2>1. LET h == Put(f, 0, Header(RootOf(f), x))
        IN  /\ File(h) /\ SameLive(f, h) /\ DOMAIN h = DOMAIN f
            /\ RootOf(h) = RootOf(f) /\ FreeOf(h) = x
            /\ \A a \in DOMAIN f : a # 0 => h[a] = f[a]
    BY <1>1, <1>2, HeaderPut
  <2>2. QED
    BY <2>1
<1>4. Sound(b) /\ b.tag = "free" /\ b.next = FreeOf(f)
  BY <1>2, OtherBlocksSound DEF FreeBlock
<1>5. Freed(f, x) = e
  BY DEF Freed
<1> HIDE DEF g, b
<1>6. File(e)
  BY <1>2, <1>3, <1>4, PutFile
<1>7. Forest(e, lv, H \cup {x})
  <2>1. Forest(g, lv, H)
    BY <1>1, <1>3, SameForest
  <2>2. QED
    BY <1>4, <2>1, BlockFreed DEF IsLive
<1>8. /\ DOMAIN e = DOMAIN f /\ e[x] = b
      /\ \A a \in DOMAIN f : a # 0 /\ a # x => e[a] = f[a]
  BY <1>2, <1>3 DEF Put
<1>9. RootOf(e) = RootOf(f) /\ FreeOf(e) = x
  <2>1. 0 \in DOMAIN g /\ e[0] = g[0] /\ 0 \in DOMAIN e
    BY <1>2, <1>3 DEF Put, File
  <2>2. QED
    BY <1>3, <1>6, <2>1, HeaderOf
<1>10. Live(e) = Live(f) \ {x} /\ Inner(e) = Inner(f) \ {x}
       /\ \A a \in Live(f) : a # x => e[a] = f[a]
  <2>1. \A a \in Live(f) : a # 0 /\ a \in DOMAIN f
    BY <1>1, HeaderOf, InnerLive
  <2>2. e[0].tag = "header"
    BY <1>6 DEF File
  <2>3. f[0].tag = "header"
    BY <1>1 DEF File
  <2>4. Live(e) = Live(f) \ {x}
    BY <1>4, <1>8, <2>2, <2>3 DEF Live, IsLive
  <2>5. Inner(e) = Inner(f) \ {x}
    BY <1>4, <1>8, <2>2, <2>3 DEF Inner
  <2>6. QED
    BY <1>8, <2>1, <2>4, <2>5
<1> HIDE DEF e
<1>11. /\ t \in Seq(Nat) /\ Len(t) = Len(s) + 1 /\ Len(s) \in Nat
       /\ t[1] = x /\ \A j \in 1..Len(s) : t[1 + j] = s[j]
  <2>1. <<x>> \in Seq(Nat) /\ Len(<<x>>) = 1 /\ <<x>>[1] = x /\ Len(s) \in Nat
    BY <1>1, <1>2
  <2>2. /\ t \in Seq(Nat) /\ Len(t) = Len(<<x>>) + Len(s)
        /\ \A j \in 1..Len(<<x>>) : t[j] = <<x>>[j]
        /\ \A j \in 1..Len(s) : t[Len(<<x>>) + j] = s[j]
    <3>1. PICK hd : hd = <<x>>
      OBVIOUS
    <3>2. hd \in Seq(Nat) /\ s \in Seq(Nat) /\ t = hd \o s
      BY <1>1, <2>1, <3>1
    <3> HIDE DEF t
    <3>3. /\ t \in Seq(Nat) /\ Len(t) = Len(hd) + Len(s)
          /\ \A j \in 1..Len(hd) : t[j] = hd[j]
          /\ \A j \in 1..Len(s) : t[Len(hd) + j] = s[j]
      BY ONLY <3>2, ConcatIs
    <3>4. QED
      BY <3>1, <3>3
  <2>3. QED
    BY <2>1, <2>2
<1> HIDE DEF t
<1>12. \A j \in 1..Len(t) : j = 1 \/ \E i \in 1..Len(s) : j = 1 + i
  <2> SUFFICES ASSUME NEW j \in 1..Len(t), j # 1 PROVE \E i \in 1..Len(s) : j = 1 + i
    OBVIOUS
  <2>1. j - 1 \in 1..Len(s) /\ j = 1 + (j - 1)
    BY <1>11
  <2>2. QED
    BY <2>1
<1>13. \A i \in 1..Len(s) : s[i] # x /\ s[i] # 0 /\ s[i] \notin Live(f) /\ s[i] \in DOMAIN f
  <2>1. Members(s) \cap Live(f) = {} /\ 0 \notin Members(s)
    BY <1>1, ChainFree
  <2>2. \A i \in 1..Len(s) : s[i] \in Members(s)
    BY DEF Members
  <2>3. \A i \in 1..Len(s) : s[i] \in DOMAIN f
    BY <1>1 DEF Chain
  <2>4. QED
    BY <2>1, <2>2, <2>3
<1>14. ASSUME NEW j \in 1..Len(t), t[j] = x PROVE j = 1
  <2> SUFFICES ASSUME NEW i \in 1..Len(s), j = 1 + i PROVE FALSE
    BY <1>12
  <2>1. t[1 + i] = s[i] /\ s[i] # x
    BY <1>11, <1>13
  <2>2. QED
    BY <1>14, <2>1
<1>15. Distinct(t)
  <2>1. \A i, j \in 1..Len(s) : s[i] = s[j] => i = j
    BY <1>1 DEF Chain, Distinct
  <2>2. ASSUME NEW i \in 1..Len(t), NEW j \in 1..Len(t), t[i] = t[j] PROVE i = j
    <3>1. CASE i = 1
      <4>1. t[j] = x
        BY <1>11, <2>2, <3>1
      <4>2. j = 1
        BY <1>14, <4>1
      <4>3. QED
        BY <3>1, <4>2
    <3>2. CASE j = 1
      <4>1. t[i] = x
        BY <1>11, <2>2, <3>2
      <4>2. i = 1
        BY <1>14, <4>1
      <4>3. QED
        BY <3>2, <4>2
    <3>3. CASE i # 1 /\ j # 1
      <4>1. PICK p \in 1..Len(s), q \in 1..Len(s) : i = 1 + p /\ j = 1 + q
        BY <1>12, <3>3
      <4>2. s[p] = s[q]
        BY <1>11, <2>2, <4>1
      <4>3. QED
        BY <2>1, <4>1, <4>2
    <3>4. QED
      BY <3>1, <3>2, <3>3
  <2>3. QED
    BY <2>2 DEF Distinct
<1>16. t # <<>> /\ FreeOf(e) = t[1] /\ FreeOf(e) # 0
  BY <1>2, <1>9, <1>11
<1>17. ASSUME NEW j \in 1..Len(t)
       PROVE  /\ t[j] \in DOMAIN e /\ e[t[j]].tag = "free"
              /\ j = Len(t) => e[t[j]].next = 0
              /\ j < Len(t) => e[t[j]].next = t[j + 1] /\ t[j + 1] # 0
  <2>1. CASE j = 1
    <3>1. t[j] = x /\ e[x].tag = "free" /\ e[x].next = FreeOf(f) /\ x \in DOMAIN e
      BY <1>2, <1>4, <1>8, <1>11, <2>1
    <3>2. CASE Len(s) = 0
      <4>1. FreeOf(f) = 0
        BY <1>1, <3>2, EmptySeq DEF Chain
      <4>2. Len(t) = 1
        BY <1>11, <3>2
      <4>3. QED
        BY <2>1, <3>1, <4>1, <4>2
    <3>3. CASE Len(s) # 0
      <4>1. FreeOf(f) = s[1] /\ FreeOf(f) # 0
        <5>1. s # <<>>
          BY <3>3
        <5>2. QED
          BY <1>1, <5>1 DEF Chain
      <4>2. 1 \in 1..Len(s) /\ Len(t) # 1 /\ j + 1 = 1 + 1
        BY <1>11, <2>1, <3>3
      <4>3. t[j + 1] = s[1]
        BY <1>11, <4>2
      <4>4. j # Len(t)
        BY <2>1, <4>2
      <4>5. QED
        BY <3>1, <4>1, <4>3, <4>4
    <3>4. QED
      BY <3>2, <3>3
  <2>2. ASSUME NEW i \in 1..Len(s), j = 1 + i
        PROVE  /\ t[j] \in DOMAIN e /\ e[t[j]].tag = "free"
               /\ j = Len(t) => e[t[j]].next = 0
               /\ j < Len(t) => e[t[j]].next = t[j + 1] /\ t[j + 1] # 0
    <3>1. t[j] = s[i] /\ (j = Len(t) <=> i = Len(s)) /\ (j < Len(t) <=> i < Len(s))
      BY <1>11, <2>2
    <3>2. i < Len(s) => t[j + 1] = s[i + 1]
      <4>1. i < Len(s) => i + 1 \in 1..Len(s) /\ j + 1 = 1 + (i + 1)
        BY <1>11, <2>2
      <4>2. QED
        BY <1>11, <4>1
    <3>3. /\ s[i] \in DOMAIN f /\ f[s[i]].tag = "free"
          /\ i = Len(s) => f[s[i]].next = 0
          /\ i < Len(s) => f[s[i]].next = s[i + 1] /\ s[i + 1] # 0
      BY <1>1 DEF Chain
    <3>4. e[s[i]] = f[s[i]]
      BY <1>8, <1>13
    <3>5. QED
      BY <1>8, <3>1, <3>2, <3>3, <3>4
  <2>3. QED
    BY <1>12, <2>1, <2>2
<1>18. Chain(e, t)
  BY <1>15, <1>16, <1>17 DEF Chain
<1>19. Members(t) = Members(s) \cup {x}
  <2>1. 1 \in 1..Len(t) /\ \A i \in 1..Len(s) : 1 + i \in 1..Len(t)
    BY <1>11
  <2>2. ASSUME NEW a \in Members(t) PROVE a \in Members(s) \cup {x}
    <3>1. PICK j \in 1..Len(t) : a = t[j]
      BY DEF Members
    <3>2. QED
      BY <1>11, <1>12, <3>1 DEF Members
  <2>3. ASSUME NEW a \in Members(s) PROVE a \in Members(t)
    <3>1. PICK i \in 1..Len(s) : a = s[i]
      BY DEF Members
    <3>2. a = t[1 + i] /\ 1 + i \in 1..Len(t)
      BY <1>11, <2>1, <3>1
    <3>3. QED
      BY <3>2 DEF Members
  <2>4. x \in Members(t)
    BY <1>11, <2>1 DEF Members
  <2>5. QED
    BY <2>2, <2>3, <2>4
<1>20. Woods(e, lv, t, H \cup {x})
  BY <1>1, <1>6, <1>7, <1>11, <1>18 DEF Woods
<1>21. QED
  BY <1>5, <1>8, <1>9, <1>10, <1>11, <1>19, <1>20

-----------------------------------------------------------------------------
(* A block written to a file with a forest and a free list in it *)

LEMMA LiveAddress ==
  ASSUME NEW f, NEW lv, NEW s, NEW H, Woods(f, lv, s, H), NEW x \in Live(f)
  PROVE  x \in Nat /\ x # 0 /\ x \notin Members(s) /\ Sound(f[x]) /\ x \in DOMAIN f
<1>1. File(f) /\ Chain(f, s)
  BY DEF Woods
<1>2. x \in DOMAIN f /\ x \in Nat /\ x # 0 /\ x \notin Members(s)
  BY <1>1, HeaderOf, InnerLive, ChainFree
<1>3. QED
  BY <1>1, <1>2 DEF File

LEMMA WoodsLeafKept ==
  ASSUME NEW f, NEW lv, NEW s, NEW H, Woods(f, lv, s, H),
         NEW x \in Live(f), f[x].tag = "leaf", NEW b, Sound(b), b.tag = "leaf"
  PROVE  Woods(Put(f, x, b), lv, s, H) /\ RootOf(Put(f, x, b)) = RootOf(f)
<1>1. File(f) /\ s \in Seq(Nat) /\ Chain(f, s) /\ Forest(f, lv, H) /\ lv \in [Nat -> Nat]
  BY DEF Woods
<1>2. x \in Nat /\ x # 0 /\ x \notin Members(s)
  BY LiveAddress
<1>3. File(Put(f, x, b))
  BY <1>1, <1>2, PutFile
<1>4. Forest(Put(f, x, b), lv, H)
  BY <1>1, LeafKept
<1>5. Chain(Put(f, x, b), s) /\ RootOf(Put(f, x, b)) = RootOf(f)
  BY <1>1, <1>2, ChainPut
<1>6. QED
  BY <1>1, <1>3, <1>4, <1>5 DEF Woods

LEMMA WoodsNodeKept ==
  ASSUME NEW f, NEW lv, NEW s, NEW H, Woods(f, lv, s, H),
         NEW x \in Inner(f), NEW b, Branch(b), Adoptable(f, lv, H, x, b, lv[x])
  PROVE  Woods(Put(f, x, b), lv, s, H) /\ RootOf(Put(f, x, b)) = RootOf(f)
<1>1. File(f) /\ s \in Seq(Nat) /\ Chain(f, s) /\ Forest(f, lv, H) /\ lv \in [Nat -> Nat]
  BY DEF Woods
<1>2. x \in Nat /\ x # 0 /\ x \notin Members(s)
  BY LiveAddress, InnerLive
<1>3. Sound(b) /\ b.tag = "node" /\ Distinct(b.values)
  BY DEF Branch
<1>4. File(Put(f, x, b))
  BY <1>1, <1>2, <1>3, PutFile
<1>5. Forest(Put(f, x, b), lv, H)
  BY <1>1, <1>3, NodeKept
<1>6. Chain(Put(f, x, b), s) /\ RootOf(Put(f, x, b)) = RootOf(f)
  BY <1>1, <1>2, ChainPut
<1>7. QED
  BY <1>1, <1>4, <1>5, <1>6 DEF Woods

LEMMA WoodsLeafNew ==
  ASSUME NEW f, NEW lv, NEW s, NEW H, Woods(f, lv, s, H),
         NEW x \in Nat \ Live(f), x # 0, x \notin Members(s), NEW b, Sound(b), b.tag = "leaf"
  PROVE  Woods(Put(f, x, b), [lv EXCEPT ![x] = 0], s, H) /\ RootOf(Put(f, x, b)) = RootOf(f)
<1>1. File(f) /\ s \in Seq(Nat) /\ Chain(f, s) /\ Forest(f, lv, H) /\ lv \in [Nat -> Nat]
  BY DEF Woods
<1>2. File(Put(f, x, b))
  BY <1>1, PutFile
<1>3. Forest(Put(f, x, b), [lv EXCEPT ![x] = 0], H)
  BY <1>1, LeafNew
<1>4. Chain(Put(f, x, b), s) /\ RootOf(Put(f, x, b)) = RootOf(f)
  BY <1>1, ChainPut
<1>5. [lv EXCEPT ![x] = 0] \in [Nat -> Nat]
  BY <1>1
<1>6. QED
  BY <1>1, <1>2, <1>3, <1>4, <1>5 DEF Woods

LEMMA WoodsNodeNew ==
  ASSUME NEW f, NEW lv, NEW s, NEW H, Woods(f, lv, s, H),
         NEW x \in Nat \ Live(f), x # 0, x \notin Members(s), NEW b, Branch(b),
         NEW l \in Nat, Adoptable(f, lv, H, x, b, l)
  PROVE  Woods(Put(f, x, b), [lv EXCEPT ![x] = l], s, H) /\ RootOf(Put(f, x, b)) = RootOf(f)
<1>1. File(f) /\ s \in Seq(Nat) /\ Chain(f, s) /\ Forest(f, lv, H) /\ lv \in [Nat -> Nat]
  BY DEF Woods
<1>2. Sound(b) /\ b.tag = "node" /\ Distinct(b.values)
  BY DEF Branch
<1>3. File(Put(f, x, b))
  BY <1>1, <1>2, PutFile
<1>4. Forest(Put(f, x, b), [lv EXCEPT ![x] = l], H)
  BY <1>1, <1>2, NodeNew
<1>5. Chain(Put(f, x, b), s) /\ RootOf(Put(f, x, b)) = RootOf(f)
  BY <1>1, ChainPut
<1>6. [lv EXCEPT ![x] = l] \in [Nat -> Nat]
  BY <1>1
<1>7. QED
  BY <1>1, <1>3, <1>4, <1>5, <1>6 DEF Woods

LEMMA RootedPut ==
  ASSUME NEW f, NEW t, Rooted(f, t), NEW x, NEW b, b.tag = "node" => t \notin Kids(b),
         x = t => IsLive(b) /\ (b.tag = "node" => nkeys(b) >= 1)
  PROVE  Rooted(Put(f, x, b), t)
<1> DEFINE g == Put(f, x, b)
<1>1. /\ IsLive(b)  => Live(g) = Live(f) \cup {x}
      /\ ~IsLive(b) => Live(g) = Live(f) \ {x}
      /\ g[x] = b
      /\ \A a \in Live(f) : a # x => g[a] = f[a]
  BY PutLive
<1>2. Loose(g, t)
  BY LoosePut DEF Rooted
<1> HIDE DEF g
<1>3. Rooted(g, t)
  BY <1>1, <1>2 DEF Rooted
<1>4. QED
  BY <1>3 DEF g

\* What a step does not touch.
Unmoved(f, g, X) == \A a \in Live(f) \ X : a \in Live(g) /\ g[a] = f[a]

-----------------------------------------------------------------------------
(* What the steps of the calls do to a file with a forest in it *)

\* A file with its tree, whose top is t.
Standing(f, lv, s, H, t) == Woods(f, lv, s, H) /\ Rooted(f, t) /\ Full(f, t)

\* A leaf written with other keys.
LEMMA LeafWritten ==
  ASSUME NEW f, NEW lv, NEW s, NEW H, NEW t, Standing(f, lv, s, H, t),
         NEW x \in Live(f), f[x].tag = "leaf", NEW b, Sound(b), b.tag = "leaf",
         x # t => HasEnough(b)
  PROVE  LET g == Put(f, x, b)
         IN  /\ Standing(g, lv, s, H, t) /\ RootOf(g) = RootOf(f)
             /\ Live(g) = Live(f) /\ DOMAIN g = DOMAIN f /\ g[x] = b /\ Unmoved(f, g, {x})
<1> DEFINE g == Put(f, x, b)
<1>1. Woods(g, lv, s, H) /\ RootOf(g) = RootOf(f)
  BY WoodsLeafKept DEF Standing
<1>2. Rooted(g, t)
  BY RootedPut DEF Standing, IsLive
<1>3. Full(g, t)
  BY FullPut DEF Standing
<1>4. /\ IsLive(b)  => Live(g) = Live(f) \cup {x}
      /\ g[x] = b
      /\ \A a \in Live(f) : a # x => g[a] = f[a]
  BY PutLive
<1>5. DOMAIN g = DOMAIN f
  BY InnerLive DEF Put
<1> HIDE DEF g
<1>6. Standing(g, lv, s, H, t)
  BY <1>1, <1>2, <1>3 DEF Standing
<1>7. Live(g) = Live(f) /\ Unmoved(f, g, {x})
  BY <1>4 DEF IsLive, Unmoved
<1>8. QED
  BY <1>1, <1>4, <1>5, <1>6, <1>7 DEF g

\* Loose blocks that can become children of the node x.
Orphans(f, lv, t, x, C) ==
  \A d \in C : d # t /\ d \in Live(f) /\ Loose(f, d) /\ lv[x] = lv[d] + 1

\* A node written with children it had, or that were loose.
LEMMA NodeWritten ==
  ASSUME NEW f, NEW lv, NEW s, NEW H, NEW t, Standing(f, lv, s, H, t),
         NEW x \in Inner(f), NEW b, Branch(b),
         x # t => HasEnough(b), x = t => nkeys(b) >= 1,
         NEW C, Kids(b) \subseteq Kids(f[x]) \cup C,
         Orphans(f, lv, t, x, C)
  PROVE  LET g == Put(f, x, b)
         IN  /\ Standing(g, lv, s, H, t) /\ RootOf(g) = RootOf(f)
             /\ Live(g) = Live(f) /\ Inner(g) = Inner(f) /\ DOMAIN g = DOMAIN f
             /\ g[x] = b /\ Unmoved(f, g, {x})
<1> DEFINE g == Put(f, x, b)
<1>1. Woods(f, lv, s, H) /\ Forest(f, lv, H) /\ Rooted(f, t) /\ Full(f, t)
  BY DEF Standing, Woods
<1>2. Adoptable(f, lv, H, x, b, lv[x])
  <2> SUFFICES ASSUME NEW d \in Kids(b)
               PROVE  /\ d \in H \/ (d \in Live(f) /\ lv[x] = lv[d] + 1)
                      /\ \A a \in Inner(f) \ {x} : d \notin Kids(f[a])
    BY DEF Adoptable
  <2>1. CASE d \in Kids(f[x])
    BY <1>1, <2>1 DEF Forest
  <2>2. CASE d \in C
    BY <2>2 DEF Loose, Orphans
  <2>3. QED
    BY <2>1, <2>2
<1>3. Woods(g, lv, s, H) /\ RootOf(g) = RootOf(f)
  BY <1>1, <1>2, WoodsNodeKept
<1>4. t \notin Kids(b) /\ b.tag = "node"
  BY <1>1 DEF Rooted, Loose, Branch, Orphans
<1>5. Rooted(g, t)
  BY <1>1, <1>4, RootedPut DEF IsLive
<1>6. Full(g, t)
  BY <1>1, FullPut
<1>7. /\ IsLive(b)  => Live(g) = Live(f) \cup {x}
      /\ b.tag = "node" => Inner(g) = Inner(f) \cup {x}
      /\ g[x] = b
      /\ \A a \in Live(f) : a # x => g[a] = f[a]
  BY PutLive
<1>8. DOMAIN g = DOMAIN f /\ x \in Live(f)
  BY InnerLive DEF Put
<1> HIDE DEF g
<1>9. Standing(g, lv, s, H, t)
  BY <1>3, <1>5, <1>6 DEF Standing
<1>10. Live(g) = Live(f) /\ Inner(g) = Inner(f) /\ Unmoved(f, g, {x})
  BY <1>4, <1>7, <1>8 DEF IsLive, Unmoved
<1>11. QED
  BY <1>3, <1>7, <1>8, <1>9, <1>10 DEF g

\* A hole that is no node's child is none.
LEMMA HoleGone ==
  ASSUME NEW f, NEW lv, NEW s, NEW H, NEW t, Standing(f, lv, s, H, t),
         NEW G, NEW h, Loose(f, h), H \subseteq G \cup {h}
  PROVE  Standing(f, lv, s, G, t)
<1>1. Forest(f, lv, H)
  BY DEF Standing, Woods
<1>2. Forest(f, lv, G)
  BY <1>1, HolesGone DEF Loose
<1>3. QED
  BY <1>2 DEF Standing, Woods

\* A child dropped from a node.
LEMMA ChildDropped ==
  ASSUME NEW f, NEW lv, NEW s, NEW t, NEW h, Standing(f, lv, s, {h}, t),
         NEW x \in Inner(f), h \in Kids(f[x]), NEW b, Branch(b),
         x # t => HasEnough(b), x = t => nkeys(b) >= 1,
         Kids(b) = Kids(f[x]) \ {h}
  PROVE  LET g == Put(f, x, b)
         IN  Standing(g, lv, s, {}, t) /\ RootOf(g) = RootOf(f) /\ DOMAIN g = DOMAIN f
<1> DEFINE g == Put(f, x, b)
<1>1. /\ Standing(g, lv, s, {h}, t) /\ RootOf(g) = RootOf(f) /\ DOMAIN g = DOMAIN f
  <2>1. Kids(b) \subseteq Kids(f[x]) \cup {} /\ Orphans(f, lv, t, x, {})
    BY DEF Orphans
  <2>2. LET e == Put(f, x, b)
        IN  /\ Standing(e, lv, s, {h}, t) /\ RootOf(e) = RootOf(f)
            /\ Live(e) = Live(f) /\ Inner(e) = Inner(f) /\ DOMAIN e = DOMAIN f
            /\ e[x] = b /\ Unmoved(f, e, {x})
    BY <2>1, NodeWritten
  <2>3. QED
    BY <2>2
<1>2. Loose(g, h)
  <2>1. Forest(f, lv, {h})
    BY DEF Standing, Woods
  <2>2. QED
    BY <2>1, Loosened
<1> HIDE DEF g
<1>3. Standing(g, lv, s, {}, t)
  BY <1>1, <1>2, HoleGone
<1>4. QED
  BY <1>1, <1>3 DEF g

\* new_node leaves the tree as it is.
LEMMA StandingTaken ==
  ASSUME NEW f, NEW lv, NEW s, NEW t, Standing(f, lv, s, {}, t),
         NEW size \in Nat, size # 0, Within(f, size)
  PROVE  /\ \E q \in Seq(Nat) : Standing(Taken(f), lv, q, {}, t) /\ Fresh(f, size) \notin Members(q)
         /\ SameLive(f, Taken(f)) /\ Inner(Taken(f)) = Inner(f) /\ DOMAIN Taken(f) = DOMAIN f
         /\ RootOf(Taken(f)) = RootOf(f)
         /\ Fresh(f, size) \in Nat /\ Fresh(f, size) # 0 /\ Fresh(f, size) \notin Live(f)
         /\ FreshSize(f, size) \in Nat
         /\ Fresh(f, size) < FreshSize(f, size) /\ Within(f, FreshSize(f, size))
         /\ Loose(Taken(f), Fresh(f, size)) /\ Fresh(f, size) # t
<1> DEFINE g == Taken(f)
           n == Fresh(f, size)
<1>1. Woods(f, lv, s, {}) /\ Rooted(f, t) /\ Full(f, t)
  BY DEF Standing
<1>2. /\ \E q \in Seq(Nat) : Woods(g, lv, q, {}) /\ n \notin Members(q)
      /\ SameLive(f, g) /\ DOMAIN g = DOMAIN f
      /\ RootOf(g) = RootOf(f)
      /\ n \in Nat /\ n # 0 /\ n \notin Live(f)
      /\ FreshSize(f, size) \in Nat
      /\ n < FreshSize(f, size) /\ Within(f, FreshSize(f, size))
  BY <1>1, Allocated
<1> HIDE DEF g, n
<1>3. Inner(g) = Inner(f) /\ Rooted(g, t) /\ Full(g, t)
  BY <1>1, <1>2, SameForest
<1>4. PICK q \in Seq(Nat) : Woods(g, lv, q, {}) /\ n \notin Members(q)
  BY <1>2
<1>5. Standing(g, lv, q, {}, t)
  BY <1>3, <1>4 DEF Standing
<1>6. Loose(g, n)
  <2>1. n \notin Live(g) /\ Forest(g, lv, {})
    BY <1>2, <1>4 DEF SameLive, Woods
  <2>2. QED
    BY <2>1 DEF Loose, Forest
<1>7. n # t
  BY <1>1, <1>2 DEF Rooted
<1>8. QED
  BY <1>2, <1>3, <1>4, <1>5, <1>6, <1>7 DEF g, n

\* A block split in two, the new one at n: what the step up finds.
SplitDone(f, lv, t, x, n, g, m) ==
  /\ m[n] = lv[x] /\ \A a \in Live(f) : m[a] = lv[a]
  /\ n \in Live(g) /\ Loose(g, n) /\ n # t /\ HasEnough(g[n])
  /\ x \in Live(g) /\ HasEnough(g[x])
  /\ RootOf(g) = RootOf(f) /\ Unmoved(f, g, {x})

Split(f, x, b, n, c) == Put(Put(Taken(f), x, b), n, c)

LEMMA WithinPut ==
  ASSUME NEW f, NEW size, Within(f, size), NEW x, x < size, NEW b
  PROVE  Within(Put(f, x, b), size)
BY DEF Within, Put

\* insert_leaf on a full leaf.
LEMMA LeafSplit ==
  ASSUME NEW f, NEW lv, NEW s, NEW t, Standing(f, lv, s, {}, t),
         NEW size \in Nat, size # 0, Within(f, size),
         NEW x \in Live(f), f[x].tag = "leaf",
         NEW b, Sound(b), b.tag = "leaf", HasEnough(b),
         NEW c, Sound(c), c.tag = "leaf", HasEnough(c)
  PROVE  LET n == Fresh(f, size)
             g == Split(f, x, b, n, c)
         IN  /\ \E m \in [Nat -> Nat], r \in Seq(Nat) :
                  Standing(g, m, r, {}, t) /\ SplitDone(f, lv, t, x, n, g, m)
             /\ Within(g, FreshSize(f, size))
<1> DEFINE n == Fresh(f, size)
           e == Taken(f)
           d == Put(e, x, b)
           g == Put(d, n, c)
           m == [lv EXCEPT ![n] = 0]
<1>1. /\ \E q \in Seq(Nat) : Standing(e, lv, q, {}, t) /\ n \notin Members(q)
      /\ SameLive(f, e) /\ DOMAIN e = DOMAIN f
      /\ RootOf(e) = RootOf(f)
      /\ n \in Nat /\ n # 0 /\ n \notin Live(f)
      /\ n < FreshSize(f, size) /\ Within(f, FreshSize(f, size))
      /\ Loose(e, n) /\ n # t
  BY StandingTaken
<1>2. Split(f, x, b, n, c) = g
  BY DEF Split
<1> HIDE DEF e, n
<1>3. PICK q \in Seq(Nat) : Standing(e, lv, q, {}, t) /\ n \notin Members(q)
  BY <1>1
<1>4. x \in Live(e) /\ e[x].tag = "leaf" /\ Live(e) = Live(f) /\ \A a \in Live(f) : e[a] = f[a]
  BY <1>1 DEF SameLive
<1>5. /\ Standing(d, lv, q, {}, t) /\ RootOf(d) = RootOf(e)
      /\ Live(d) = Live(e) /\ DOMAIN d = DOMAIN e /\ d[x] = b /\ Unmoved(e, d, {x})
  <2>1. LET h == Put(e, x, b)
        IN  /\ Standing(h, lv, q, {}, t) /\ RootOf(h) = RootOf(e)
            /\ Live(h) = Live(e) /\ DOMAIN h = DOMAIN e /\ h[x] = b /\ Unmoved(e, h, {x})
    BY <1>3, <1>4, LeafWritten
  <2>2. QED
    BY <2>1
<1>6. Loose(d, n)
  BY <1>1, LoosePut
<1> HIDE DEF d
<1>7. n \notin Live(d) /\ Woods(d, lv, q, {}) /\ Rooted(d, t) /\ Full(d, t)
  BY <1>1, <1>4, <1>5 DEF Standing
<1>8. Woods(g, m, q, {}) /\ RootOf(g) = RootOf(d)
  <2>1. Woods(d, lv, q, {}) /\ n \in Nat \ Live(d) /\ n # 0 /\ n \notin Members(q)
    BY <1>1, <1>3, <1>7
  <2>2. Woods(Put(d, n, c), [lv EXCEPT ![n] = 0], q, {}) /\ RootOf(Put(d, n, c)) = RootOf(d)
    BY SMTT(30), ZenonT(30), <2>1, WoodsLeafNew
  <2>3. QED
    BY <2>2
<1>9. Rooted(g, t) /\ Full(g, t) /\ Loose(g, n)
  BY <1>1, <1>6, <1>7, RootedPut, FullPut, LoosePut
<1>10. /\ IsLive(c)  => Live(g) = Live(d) \cup {n}
       /\ g[n] = c
       /\ \A a \in Live(d) : a # n => g[a] = d[a]
  BY PutLive
<1>11. Within(g, FreshSize(f, size))
  <2>1. Within(d, FreshSize(f, size))
    BY <1>1, <1>5 DEF Within
  <2>2. QED
    BY <1>1, <2>1, WithinPut
<1>12. lv \in [Nat -> Nat] /\ Live(f) \subseteq Nat /\ lv[x] = 0
  <2>1. Woods(e, lv, q, {})
    BY <1>3 DEF Standing
  <2>2. Forest(e, lv, {}) /\ File(e)
    BY <2>1 DEF Woods
  <2>3. QED
    BY <1>4, <2>1, <2>2, HeaderOf DEF Woods, Forest
<1>13. m \in [Nat -> Nat] /\ m[n] = lv[x] /\ \A a \in Live(f) : m[a] = lv[a]
  BY <1>1, <1>12
<1> HIDE DEF g, m
<1>14. n \in Live(g) /\ g[n] = c /\ x \in Live(g) /\ g[x] = b
  BY <1>1, <1>4, <1>5, <1>7, <1>10 DEF IsLive
<1>15. Unmoved(f, g, {x})
  BY <1>1, <1>4, <1>5, <1>7, <1>10 DEF IsLive, Unmoved
<1>16. SplitDone(f, lv, t, x, n, g, m)
  BY <1>1, <1>5, <1>8, <1>9, <1>13, <1>14, <1>15 DEF SplitDone
<1>17. Standing(g, m, q, {}, t)
  BY <1>8, <1>9 DEF Standing
<1>18. QED
  BY <1>2, <1>11, <1>13, <1>16, <1>17 DEF n

\* insert_node on a full node, which had a new child y to take.
LEMMA NodeSplit ==
  ASSUME NEW f, NEW lv, NEW s, NEW t, Standing(f, lv, s, {}, t),
         NEW size \in Nat, size # 0, Within(f, size),
         NEW x \in Inner(f), NEW y, Orphans(f, lv, t, x, {y}),
         NEW b, Branch(b), HasEnough(b), nkeys(b) >= 1, NEW c, Branch(c), HasEnough(c),
         Kids(b) \cup Kids(c) = Kids(f[x]) \cup {y}, Kids(b) \cap Kids(c) = {}
  PROVE  LET n == Fresh(f, size)
             g == Split(f, x, b, n, c)
         IN  /\ \E m \in [Nat -> Nat], r \in Seq(Nat) :
                  Standing(g, m, r, {}, t) /\ SplitDone(f, lv, t, x, n, g, m)
             /\ Within(g, FreshSize(f, size))
<1> DEFINE n == Fresh(f, size)
           e == Taken(f)
           d == Put(e, x, b)
           g == Put(d, n, c)
           m == [lv EXCEPT ![n] = lv[x]]
<1>1. /\ \E q \in Seq(Nat) : Standing(e, lv, q, {}, t) /\ n \notin Members(q)
      /\ SameLive(f, e) /\ Inner(e) = Inner(f) /\ DOMAIN e = DOMAIN f
      /\ RootOf(e) = RootOf(f)
      /\ n \in Nat /\ n # 0 /\ n \notin Live(f)
      /\ n < FreshSize(f, size) /\ Within(f, FreshSize(f, size))
      /\ Loose(e, n) /\ n # t
  BY StandingTaken
<1>2. Split(f, x, b, n, c) = g
  BY DEF Split
<1> HIDE DEF e, n
<1>3. PICK q \in Seq(Nat) : Standing(e, lv, q, {}, t) /\ n \notin Members(q)
  BY <1>1
<1>4. x \in Inner(e) /\ Live(e) = Live(f) /\ (\A a \in Live(f) : e[a] = f[a]) /\ x \in Live(f)
  BY <1>1, InnerLive DEF SameLive
<1>5. Orphans(e, lv, t, x, {y}) /\ e[x] = f[x]
  BY <1>1, <1>4, SameForest DEF Orphans
<1>6. /\ Standing(d, lv, q, {}, t) /\ RootOf(d) = RootOf(e)
      /\ Live(d) = Live(e) /\ Inner(d) = Inner(e) /\ DOMAIN d = DOMAIN e
      /\ d[x] = b /\ Unmoved(e, d, {x})
  <2>1. Kids(b) \subseteq Kids(e[x]) \cup {y}
    BY <1>5
  <2>2. LET h == Put(e, x, b)
        IN  /\ Standing(h, lv, q, {}, t) /\ RootOf(h) = RootOf(e)
            /\ Live(h) = Live(e) /\ Inner(h) = Inner(e) /\ DOMAIN h = DOMAIN e
            /\ h[x] = b /\ Unmoved(e, h, {x})
    BY <1>3, <1>4, <1>5, <2>1, NodeWritten
  <2>3. QED
    BY <2>2
<1>7. n \notin Kids(f[x]) /\ n # y
  BY <1>1, <1>4, <1>5 DEF Loose, Orphans
<1>8. Loose(d, n)
  BY <1>1, <1>7, LoosePut
<1> HIDE DEF d
<1>9. n \notin Live(d) /\ Woods(d, lv, q, {}) /\ Rooted(d, t) /\ Full(d, t)
  BY <1>1, <1>4, <1>6 DEF Standing
<1>10. Forest(e, lv, {}) /\ lv \in [Nat -> Nat] /\ Live(f) \subseteq Nat
  BY <1>3, <1>4, HeaderOf DEF Standing, Woods
<1>11. Adoptable(d, lv, {}, n, c, lv[x])
  <2> SUFFICES ASSUME NEW k \in Kids(c)
               PROVE  /\ k \in Live(d) /\ lv[x] = lv[k] + 1
                      /\ \A a \in Inner(d) \ {n} : k \notin Kids(d[a])
    BY DEF Adoptable
  <2>1. k \in Live(e) /\ lv[x] = lv[k] + 1 /\ \A a \in Inner(e) \ {x} : k \notin Kids(e[a])
    <3>1. CASE k \in Kids(f[x])
      BY <1>4, <1>5, <1>10, <3>1 DEF Forest
    <3>2. CASE k = y
      BY <1>5, <3>2 DEF Orphans, Loose
    <3>3. QED
      BY <3>1, <3>2
  <2>2. k \notin Kids(d[x])
    BY <1>6
  <2>3. \A a \in Inner(e) \ {x} : d[a] = e[a]
    BY <1>6, InnerLive DEF Unmoved
  <2>4. QED
    BY <1>6, <2>1, <2>2, <2>3
<1>12. lv[x] \in Nat
  BY <1>4, <1>10
<1>13. Woods(g, m, q, {}) /\ RootOf(g) = RootOf(d)
  BY <1>1, <1>3, <1>9, <1>11, <1>12, WoodsNodeNew
<1>14. Rooted(g, t) /\ Full(g, t) /\ Loose(g, n)
  <2>1. t \notin Kids(c)
    BY <1>4, <1>5, <1>9 DEF Rooted, Loose, Orphans, Standing
  <2>2. n \notin Kids(c)
    BY <1>7
  <2>3. QED
    BY <1>1, <1>8, <1>9, <2>1, <2>2, RootedPut, FullPut, LoosePut
<1>15. /\ IsLive(c)  => Live(g) = Live(d) \cup {n}
       /\ g[n] = c
       /\ \A a \in Live(d) : a # n => g[a] = d[a]
  BY PutLive
<1>16. Within(g, FreshSize(f, size))
  <2>1. Within(d, FreshSize(f, size))
    BY <1>1, <1>6 DEF Within
  <2>2. QED
    BY <1>1, <2>1, WithinPut
<1>17. m \in [Nat -> Nat] /\ m[n] = lv[x] /\ \A a \in Live(f) : m[a] = lv[a]
  BY <1>1, <1>10, <1>12
<1> HIDE DEF g, m
<1>18. n \in Live(g) /\ g[n] = c /\ x \in Live(g) /\ g[x] = b
  BY <1>1, <1>4, <1>6, <1>9, <1>15 DEF IsLive, Branch
<1>19. Unmoved(f, g, {x})
  BY <1>1, <1>4, <1>6, <1>9, <1>15 DEF IsLive, Unmoved, Branch
<1>20. SplitDone(f, lv, t, x, n, g, m)
  BY <1>1, <1>6, <1>13, <1>14, <1>17, <1>18, <1>19 DEF SplitDone
<1>21. Standing(g, m, q, {}, t)
  BY <1>13, <1>14 DEF Standing
<1>22. QED
  BY <1>2, <1>16, <1>17, <1>20, <1>21 DEF n

\* insert above a split root (btree.py:378-384): the new root with the two halves
\* of the old one.
LEMMA TopAdded ==
  ASSUME NEW f, NEW lv, NEW s, NEW t, Standing(f, lv, s, {}, t), HasEnough(f[t]),
         NEW size \in Nat, size # 0, Within(f, size),
         NEW y \in Live(f), Loose(f, y), lv[y] = lv[t],
         NEW b, Branch(b), nkeys(b) = 1, Kids(b) = {t, y}
  PROVE  LET n == Fresh(f, size)
             g == Put(Taken(f), n, b)
         IN  /\ \E m \in [Nat -> Nat], r \in Seq(Nat) : Standing(g, m, r, {}, n)
             /\ RootOf(g) = RootOf(f) /\ Within(g, FreshSize(f, size))
<1> DEFINE n == Fresh(f, size)
           e == Taken(f)
           g == Put(e, n, b)
<1>1. /\ \E q \in Seq(Nat) : Standing(e, lv, q, {}, t) /\ n \notin Members(q)
      /\ SameLive(f, e) /\ Inner(e) = Inner(f) /\ DOMAIN e = DOMAIN f
      /\ RootOf(e) = RootOf(f)
      /\ n \in Nat /\ n # 0 /\ n \notin Live(f)
      /\ n < FreshSize(f, size) /\ Within(f, FreshSize(f, size))
      /\ Loose(e, n) /\ n # t
  BY StandingTaken
<1> HIDE DEF e, n
<1>2. PICK q \in Seq(Nat) : Standing(e, lv, q, {}, t) /\ n \notin Members(q)
  BY <1>1
<1>3. Live(e) = Live(f) /\ (\A a \in Live(f) : e[a] = f[a]) /\ t \in Live(f) /\ Loose(e, t)
      /\ Loose(e, y) /\ n # y
  BY <1>1, <1>2, SameForest DEF SameLive, Standing, Rooted
<1>4. Woods(e, lv, q, {}) /\ Full(e, t) /\ lv \in [Nat -> Nat] /\ Live(f) \subseteq Nat
  BY <1>2, <1>3, HeaderOf DEF Standing, Woods
<1>5. PICK l \in Nat : l = lv[t] + 1
  <2>1. t \in Nat
    BY <1>3, <1>4
  <2>2. lv[t] \in Nat
    BY <1>4, <2>1
  <2>3. QED
    BY <2>2
<1> DEFINE m == [lv EXCEPT ![n] = l]
<1>6. Adoptable(e, lv, {}, n, b, l)
  BY <1>3, <1>5 DEF Adoptable, Loose
<1>7. Woods(g, m, q, {}) /\ RootOf(g) = RootOf(e)
  <2>1. Woods(e, lv, q, {}) /\ n \in Nat \ Live(e) /\ n # 0 /\ n \notin Members(q)
    BY <1>1, <1>2, <1>3, <1>4
  <2>2. Woods(Put(e, n, b), [lv EXCEPT ![n] = l], q, {}) /\ RootOf(Put(e, n, b)) = RootOf(e)
    BY <1>6, <2>1, WoodsNodeNew
  <2>3. QED
    BY <2>2
<1>8. /\ IsLive(b)  => Live(g) = Live(e) \cup {n}
      /\ g[n] = b
      /\ \A a \in Live(e) : a # n => g[a] = e[a]
  BY PutLive
<1>9. Loose(g, n)
  BY <1>1, <1>3, LoosePut
<1>10. Within(g, FreshSize(f, size))
  <2>1. Within(e, FreshSize(f, size))
    BY <1>1 DEF Within
  <2>2. QED
    BY <1>1, <2>1, WithinPut
<1>11. m \in [Nat -> Nat]
  BY <1>1, <1>4, <1>5
<1> HIDE DEF g, m
<1>12. Rooted(g, n)
  BY <1>8, <1>9 DEF Rooted, IsLive, Branch
<1>13. Full(g, n)
  <2> SUFFICES ASSUME NEW a \in Live(g) \ {n} PROVE HasEnough(g[a])
    BY DEF Full
  <2>1. a \in Live(e) /\ g[a] = e[a]
    BY <1>8 DEF IsLive, Branch
  <2>2. CASE a = t
    BY <1>3, <2>1, <2>2
  <2>3. CASE a # t
    BY <1>4, <2>1, <2>3 DEF Full
  <2>4. QED
    BY <2>2, <2>3
<1>14. Standing(g, m, q, {}, n)
  BY <1>7, <1>12, <1>13 DEF Standing
<1>15. QED
  BY <1>1, <1>7, <1>10, <1>11, <1>14 DEF n, e, g

\* set_root: only the header changes.
LEMMA RootSet ==
  ASSUME NEW f, NEW lv, NEW s, NEW H, NEW t, Standing(f, lv, s, H, t), NEW r \in Nat
  PROVE  LET g == Put(f, 0, Header(r, FreeOf(f)))
         IN  Standing(g, lv, s, H, t) /\ RootOf(g) = r /\ DOMAIN g = DOMAIN f
<1> DEFINE g == Put(f, 0, Header(r, FreeOf(f)))
<1>1. Woods(f, lv, s, H) /\ Rooted(f, t) /\ Full(f, t) /\ File(f)
  BY DEF Standing, Woods
<1>2. FreeOf(f) \in Nat
  BY <1>1, HeaderOf
<1>3. /\ File(g) /\ SameLive(f, g) /\ DOMAIN g = DOMAIN f
      /\ RootOf(g) = r /\ FreeOf(g) = FreeOf(f)
      /\ \A a \in DOMAIN f : a # 0 => g[a] = f[a]
  <2>1. LET h == Put(f, 0, Header(r, FreeOf(f)))
        IN  /\ File(h) /\ SameLive(f, h) /\ DOMAIN h = DOMAIN f
            /\ RootOf(h) = r /\ FreeOf(h) = FreeOf(f)
            /\ \A a \in DOMAIN f : a # 0 => h[a] = f[a]
    BY <1>1, <1>2, HeaderPut
  <2>2. QED
    BY <2>1
<1> HIDE DEF g
<1>4. Forest(g, lv, H) /\ Rooted(g, t) /\ Full(g, t)
  BY <1>1, <1>3, SameForest DEF Woods
<1>5. Chain(g, s)
  BY <1>1, <1>3, ChainHeader DEF Woods
<1>6. Standing(g, lv, s, H, t)
  BY <1>1, <1>3, <1>4, <1>5 DEF Standing, Woods
<1>7. QED
  BY <1>3, <1>6 DEF g

\* free: the block that is no longer live is a hole, its children are loose.
LEMMA StandingFreed ==
  ASSUME NEW f, NEW lv, NEW s, NEW H, NEW t, Standing(f, lv, s, H, t),
         NEW x \in Live(f), x # t
  PROVE  LET g == Freed(f, x)
         IN  /\ \E q \in Seq(Nat) : Standing(g, lv, q, H \cup {x}, t)
             /\ Live(g) = Live(f) \ {x} /\ Inner(g) = Inner(f) \ {x}
             /\ DOMAIN g = DOMAIN f /\ RootOf(g) = RootOf(f) /\ Unmoved(f, g, {x})
             /\ \A d : Loose(f, d) => Loose(g, d)
             /\ x \in Inner(f) => \A d \in Kids(f[x]) : Loose(g, d)
<1> DEFINE g == Freed(f, x)
<1>1. Woods(f, lv, s, H) /\ Rooted(f, t) /\ Full(f, t) /\ Forest(f, lv, H)
  BY DEF Standing, Woods
<1>2. /\ \E q \in Seq(Nat) : Woods(g, lv, q, H \cup {x})
      /\ Live(g) = Live(f) \ {x} /\ Inner(g) = Inner(f) \ {x}
      /\ \A a \in Live(f) : a # x => g[a] = f[a]
      /\ DOMAIN g = DOMAIN f
      /\ RootOf(g) = RootOf(f)
  BY <1>1, BlockIsFreed
<1> HIDE DEF g
<1>3. \A a \in Inner(g) : g[a] = f[a] /\ a \in Inner(f) /\ a # x
  BY <1>2, InnerLive
<1>4. \A d : Loose(f, d) => Loose(g, d)
  BY <1>3 DEF Loose
<1>5. ASSUME x \in Inner(f), NEW d \in Kids(f[x]) PROVE Loose(g, d)
  BY <1>1, <1>3, <1>5 DEF Loose, Forest
<1>6. Rooted(g, t) /\ Full(g, t)
  BY <1>1, <1>2, <1>4 DEF Rooted, Full
<1>7. PICK q \in Seq(Nat) : Woods(g, lv, q, H \cup {x})
  BY <1>2
<1>8. Standing(g, lv, q, H \cup {x}, t)
  BY <1>6, <1>7 DEF Standing
<1>9. Unmoved(f, g, {x})
  BY <1>2 DEF Unmoved
<1>10. QED
  BY <1>2, <1>4, <1>5, <1>8, <1>9 DEF g

\* delete_leaf's merge (btree.py:650-676): the right leaf is freed and a hole.
LEMMA LeavesMerged ==
  ASSUME NEW f, NEW lv, NEW s, NEW t, Standing(f, lv, s, {}, t),
         NEW l \in Live(f), f[l].tag = "leaf", NEW r \in Live(f), l # r, r # t,
         NEW b, Sound(b), b.tag = "leaf", HasEnough(b)
  PROVE  LET g == Put(Freed(f, r), l, b)
         IN  /\ \E q \in Seq(Nat) : Standing(g, lv, q, {r}, t)
             /\ DOMAIN g = DOMAIN f /\ RootOf(g) = RootOf(f) /\ Unmoved(f, g, {l, r})
<1> DEFINE e == Freed(f, r)
           g == Put(e, l, b)
<1>1. /\ \E q \in Seq(Nat) : Standing(e, lv, q, {} \cup {r}, t)
      /\ Live(e) = Live(f) \ {r}
      /\ DOMAIN e = DOMAIN f /\ RootOf(e) = RootOf(f) /\ Unmoved(f, e, {r})
  <2>1. LET h == Freed(f, r)
        IN  /\ \E q \in Seq(Nat) : Standing(h, lv, q, {} \cup {r}, t)
            /\ Live(h) = Live(f) \ {r} /\ Inner(h) = Inner(f) \ {r}
            /\ DOMAIN h = DOMAIN f /\ RootOf(h) = RootOf(f) /\ Unmoved(f, h, {r})
            /\ \A d : Loose(f, d) => Loose(h, d)
            /\ r \in Inner(f) => \A d \in Kids(f[r]) : Loose(h, d)
    BY StandingFreed
  <2>2. QED
    BY <2>1
<1> HIDE DEF e
<1>2. PICK q \in Seq(Nat) : Standing(e, lv, q, {} \cup {r}, t)
  BY <1>1
<1>3. {} \cup {r} = {r}
  OBVIOUS
<1>4. l \in Live(e) /\ e[l].tag = "leaf"
  BY <1>1 DEF Unmoved
<1>5. /\ Standing(g, lv, q, {r}, t) /\ RootOf(g) = RootOf(e)
      /\ Live(g) = Live(e) /\ DOMAIN g = DOMAIN e /\ Unmoved(e, g, {l})
  BY <1>2, <1>3, <1>4, LeafWritten
<1> HIDE DEF g
<1>6. Unmoved(f, g, {l, r})
  BY <1>1, <1>5 DEF Unmoved
<1>7. QED
  BY <1>1, <1>5, <1>6 DEF g, e

\* delete_node's merge (btree.py:780-831): the children of both nodes but the
\* hole h go to the left one, the right one is freed and the hole now.
Merging(f, lv, s, t, h, l, r, b) ==
  /\ Standing(f, lv, s, {h}, t)
  /\ l \in Inner(f) /\ r \in Inner(f) /\ l # r /\ l # t /\ r # t /\ lv[l] = lv[r]
  /\ h \in Kids(f[l]) \cup Kids(f[r])
  /\ Branch(b) /\ HasEnough(b) /\ Kids(b) = (Kids(f[l]) \cup Kids(f[r])) \ {h}

LEMMA NodesMerged ==
  ASSUME NEW f, NEW lv, NEW s, NEW t, NEW h, NEW l, NEW r, NEW b,
         Merging(f, lv, s, t, h, l, r, b)
  PROVE  LET g == Put(Freed(f, r), l, b)
         IN  /\ \E q \in Seq(Nat) : Standing(g, lv, q, {r}, t)
             /\ DOMAIN g = DOMAIN f /\ RootOf(g) = RootOf(f) /\ Unmoved(f, g, {l, r})
<1> USE DEF Merging
<1> DEFINE e == Freed(f, r)
           g == Put(e, l, b)
           C == Kids(f[r]) \ {h}
<1>1. /\ \E q \in Seq(Nat) : Standing(e, lv, q, {h} \cup {r}, t)
      /\ Live(e) = Live(f) \ {r} /\ Inner(e) = Inner(f) \ {r}
      /\ DOMAIN e = DOMAIN f /\ RootOf(e) = RootOf(f) /\ Unmoved(f, e, {r})
      /\ \A d \in Kids(f[r]) : Loose(e, d)
  <2> DEFINE H == {h}
  <2>1. r \in Live(f) /\ Standing(f, lv, s, H, t) /\ r # t
    BY InnerLive
  <2> HIDE DEF H
  <2>4. LET k == Freed(f, r)
        IN  /\ \E q \in Seq(Nat) : Standing(k, lv, q, H \cup {r}, t)
            /\ Live(k) = Live(f) \ {r} /\ Inner(k) = Inner(f) \ {r}
            /\ DOMAIN k = DOMAIN f /\ RootOf(k) = RootOf(f) /\ Unmoved(f, k, {r})
            /\ \A d : Loose(f, d) => Loose(k, d)
            /\ r \in Inner(f) => \A d \in Kids(f[r]) : Loose(k, d)
    BY ONLY <2>1, StandingFreed
  <2>2. LET k == Freed(f, r)
        IN  /\ \E q \in Seq(Nat) : Standing(k, lv, q, {h} \cup {r}, t)
            /\ Live(k) = Live(f) \ {r} /\ Inner(k) = Inner(f) \ {r}
            /\ DOMAIN k = DOMAIN f /\ RootOf(k) = RootOf(f) /\ Unmoved(f, k, {r})
            /\ \A d : Loose(f, d) => Loose(k, d)
            /\ r \in Inner(f) => \A d \in Kids(f[r]) : Loose(k, d)
    BY <2>4 DEF H
  <2>3. QED
    BY <2>2
<1> HIDE DEF e
<1>2. PICK q \in Seq(Nat) : Standing(e, lv, q, {h} \cup {r}, t)
  BY <1>1
<1>3. Forest(f, lv, {h}) /\ Rooted(f, t) /\ lv \in [Nat -> Nat] /\ Live(f) \subseteq Nat
  BY HeaderOf DEF Standing, Woods
<1>4. l \in Inner(e) /\ e[l] = f[l] /\ l \in Live(f)
  BY <1>1, InnerLive DEF Unmoved
<1>5. ASSUME NEW d \in C PROVE d # t /\ d \in Live(e) /\ Loose(e, d) /\ lv[l] = lv[d] + 1
  <2>1. d \in Live(f) /\ lv[r] = lv[d] + 1
    BY <1>3 DEF Forest
  <2>2. d # r
    <3>1. lv[d] \in Nat
      BY <1>3, <2>1
    <3>2. QED
      BY <2>1, <3>1
  <2>3. d # t
    BY <1>3 DEF Rooted, Loose
  <2>4. QED
    BY <1>1, <2>1, <2>2, <2>3
<1>6. Orphans(e, lv, t, l, C)
  BY <1>5 DEF Orphans
<1>7. Kids(b) \subseteq Kids(e[l]) \cup C
  BY <1>4
<1> HIDE DEF C
<1>8. /\ Standing(g, lv, q, {h} \cup {r}, t) /\ RootOf(g) = RootOf(e)
      /\ Live(g) = Live(e) /\ Inner(g) = Inner(e) /\ DOMAIN g = DOMAIN e
      /\ g[l] = b /\ Unmoved(e, g, {l})
  <2>1. LET k == Put(e, l, b)
        IN  /\ Standing(k, lv, q, {h} \cup {r}, t) /\ RootOf(k) = RootOf(e)
            /\ Live(k) = Live(e) /\ Inner(k) = Inner(e) /\ DOMAIN k = DOMAIN e
            /\ k[l] = b /\ Unmoved(e, k, {l})
    BY <1>2, <1>4, <1>6, <1>7, NodeWritten
  <2>2. QED
    BY <2>1
<1> HIDE DEF g
<1>9. Loose(g, h)
  <2> SUFFICES ASSUME NEW a \in Inner(g) PROVE h \notin Kids(g[a])
    BY DEF Loose
  <2>1. CASE a = l
    BY <1>8, <2>1
  <2>2. CASE a # l
    <3>1. a \in Inner(f) \ {r} /\ g[a] = f[a]
      BY <1>1, <1>8, <2>2, InnerLive DEF Unmoved
    <3>2. Kids(f[a]) \cap Kids(f[l]) = {} /\ Kids(f[a]) \cap Kids(f[r]) = {}
      BY <1>3, <2>2, <3>1 DEF Forest
    <3>3. QED
      BY <3>1, <3>2
  <2>3. QED
    BY <2>1, <2>2
<1>10. Standing(g, lv, q, {r}, t)
  BY <1>8, <1>9, HoleGone
<1>11. Unmoved(f, g, {l, r})
  BY <1>1, <1>8 DEF Unmoved
<1>12. QED
  BY <1>1, <1>8, <1>10, <1>11 DEF g, e

\* delete_node's borrow (btree.py:736-779): the node x, which has the hole h,
\* gets the child c of its sibling y.
Sharing(f, lv, s, t, h, x, y, c, b, d) ==
  /\ Standing(f, lv, s, {h}, t)
  /\ x \in Inner(f) /\ y \in Inner(f) /\ x # y /\ x # t /\ y # t /\ lv[x] = lv[y]
  /\ h \in Kids(f[x]) /\ c \in Kids(f[y])
  /\ Branch(b) /\ HasEnough(b) /\ Kids(b) = Kids(f[y]) \ {c}
  /\ Branch(d) /\ HasEnough(d) /\ Kids(d) = (Kids(f[x]) \ {h}) \cup {c}

LEMMA NodesShared ==
  ASSUME NEW f, NEW lv, NEW s, NEW t, NEW h, NEW x, NEW y, NEW c, NEW b, NEW d,
         Sharing(f, lv, s, t, h, x, y, c, b, d)
  PROVE  LET g == Put(Put(f, y, b), x, d)
         IN  /\ Standing(g, lv, s, {}, t)
             /\ DOMAIN g = DOMAIN f /\ RootOf(g) = RootOf(f) /\ Unmoved(f, g, {x, y})
<1> USE DEF Sharing
<1> DEFINE e == Put(f, y, b)
           g == Put(e, x, d)
<1>1. Forest(f, lv, {h}) /\ Rooted(f, t) /\ lv \in [Nat -> Nat] /\ Live(f) \subseteq Nat
  BY HeaderOf DEF Standing, Woods
<1>2. Kids(f[x]) \cap Kids(f[y]) = {} /\ h # c /\ c \in Live(f) /\ lv[y] = lv[c] + 1 /\ c # t
  <2>1. Kids(f[x]) \cap Kids(f[y]) = {}
    BY <1>1 DEF Forest
  <2>2. h # c
    BY <2>1
  <2>3. c \in Live(f) /\ lv[y] = lv[c] + 1
    BY <1>1, <2>2 DEF Forest
  <2>4. c # t
    BY <1>1 DEF Rooted, Loose
  <2>5. QED
    BY <2>1, <2>2, <2>3, <2>4
<1>3. /\ Standing(e, lv, s, {h}, t) /\ RootOf(e) = RootOf(f)
      /\ Live(e) = Live(f) /\ Inner(e) = Inner(f) /\ DOMAIN e = DOMAIN f
      /\ e[y] = b /\ Unmoved(f, e, {y})
  <2>1. Kids(b) \subseteq Kids(f[y]) \cup {} /\ Orphans(f, lv, t, y, {})
    BY DEF Orphans
  <2>2. LET k == Put(f, y, b)
        IN  /\ Standing(k, lv, s, {h}, t) /\ RootOf(k) = RootOf(f)
            /\ Live(k) = Live(f) /\ Inner(k) = Inner(f) /\ DOMAIN k = DOMAIN f
            /\ k[y] = b /\ Unmoved(f, k, {y})
    BY <2>1, NodeWritten
  <2>3. QED
    BY <2>2
<1>4. Loose(e, c)
  BY <1>1, Loosened
<1> HIDE DEF e
<1>5. x \in Inner(e) /\ e[x] = f[x] /\ x \in Live(f)
  BY <1>3, InnerLive DEF Unmoved
<1>6. Orphans(e, lv, t, x, {c})
  BY <1>2, <1>3, <1>4 DEF Orphans
<1>7. /\ Standing(g, lv, s, {h}, t) /\ RootOf(g) = RootOf(e)
      /\ Live(g) = Live(e) /\ Inner(g) = Inner(e) /\ DOMAIN g = DOMAIN e
      /\ g[x] = d /\ Unmoved(e, g, {x})
  <2>1. Kids(d) \subseteq Kids(e[x]) \cup {c}
    BY <1>5
  <2>2. LET k == Put(e, x, d)
        IN  /\ Standing(k, lv, s, {h}, t) /\ RootOf(k) = RootOf(e)
            /\ Live(k) = Live(e) /\ Inner(k) = Inner(e) /\ DOMAIN k = DOMAIN e
            /\ k[x] = d /\ Unmoved(e, k, {x})
    BY <1>3, <1>5, <1>6, <2>1, NodeWritten
  <2>3. QED
    BY <2>2
<1>8. Loose(g, h)
  <2>1. Forest(e, lv, {h}) /\ h \in Kids(e[x]) /\ h \notin Kids(d)
    BY <1>2, <1>3, <1>5 DEF Standing, Woods
  <2>2. QED
    BY <1>5, <2>1, Loosened
<1> HIDE DEF g
<1>9. Standing(g, lv, s, {}, t)
  BY <1>7, <1>8, HoleGone
<1>10. Unmoved(f, g, {x, y})
  BY <1>3, <1>7 DEF Unmoved
<1>11. QED
  BY <1>3, <1>7, <1>9, <1>10 DEF g, e

\* delete at a root with one child c left (btree.py:562-567): it is freed, and c
\* is on top.
LEMMA TopRemoved ==
  ASSUME NEW f, NEW lv, NEW s, NEW t, NEW h, NEW H, H = {h}, Standing(f, lv, s, H, t),
         t \in Inner(f), h \in Kids(f[t]), NEW c \in Kids(f[t]), c # h,
         \A d \in Kids(f[t]) : d = h \/ d = c, NEW g, g = Freed(f, t)
  PROVE  /\ \E q \in Seq(Nat) : Standing(g, lv, q, {}, c)
         /\ DOMAIN g = DOMAIN f
<1>1. Woods(f, lv, s, {h}) /\ Rooted(f, t) /\ Full(f, t) /\ Forest(f, lv, {h})
      /\ lv \in [Nat -> Nat] /\ Live(f) \subseteq Nat
  BY HeaderOf DEF Standing, Woods
<1>2. t \in Live(f) /\ c \in Live(f) /\ lv[t] = lv[c] + 1
  BY <1>1 DEF Forest, Rooted
<1>3. c # t
  <2>1. lv[c] \in Nat
    BY <1>1, <1>2
  <2>2. QED
    BY <1>2, <2>1
<1>4. /\ \E q \in Seq(Nat) : Woods(g, lv, q, {h} \cup {t})
      /\ Live(g) = Live(f) \ {t} /\ Inner(g) = Inner(f) \ {t}
      /\ \A a \in Live(f) : a # t => g[a] = f[a]
      /\ DOMAIN g = DOMAIN f
  BY <1>1, <1>2, BlockIsFreed, ZenonT(90)
<1>5. \A a \in Inner(g) : g[a] = f[a] /\ a \in Inner(f) /\ a # t
  BY <1>4, InnerLive
<1>6. ASSUME NEW d, d = t \/ d \in Kids(f[t]) PROVE Loose(g, d)
  <2> SUFFICES ASSUME NEW a \in Inner(g) PROVE d \notin Kids(g[a])
    BY DEF Loose
  <2>1. g[a] = f[a] /\ a \in Inner(f) /\ a # t
    BY <1>5
  <2>2. CASE d = t
    BY <1>1, <2>1, <2>2 DEF Rooted, Loose
  <2>3. CASE d \in Kids(f[t])
    <3>1. Kids(f[a]) \cap Kids(f[t]) = {}
      BY <1>1, <2>1 DEF Forest
    <3>2. QED
      BY <2>1, <2>3, <3>1
  <2>4. QED
    BY <1>6, <2>2, <2>3
<1>7. PICK q \in Seq(Nat) : Woods(g, lv, q, {h} \cup {t})
  BY <1>4
<1>8. Forest(g, lv, {})
  <2>1. Loose(g, h) /\ Loose(g, t)
    BY <1>6
  <2>2. Forest(g, lv, {h} \cup {t})
    BY <1>7 DEF Woods
  <2>3. QED
    BY <2>1, <2>2, HolesGone DEF Loose
<1>9. HasEnough(f[c]) /\ g[c] = f[c] /\ c \in Live(g)
  BY <1>1, <1>2, <1>3, <1>4 DEF Full
<1>10. Rooted(g, c)
  <2>1. MIN_NKEYS_NODE >= 1
    BY DEF MIN_NKEYS_NODE
  <2>2. nkeys(f[c]) \in Nat
    BY <1>1, <1>2, LiveAddress, SoundArrays
  <2>3. f[c].tag = "node" => nkeys(f[c]) >= 1
    BY <1>9, <2>1, <2>2 DEF HasEnough, MIN_NKEYS_NODE
  <2>4. QED
    BY <1>6, <1>9, <2>3 DEF Rooted
<1>11. Full(g, c)
  BY <1>1, <1>4 DEF Full
<1>12. Standing(g, lv, q, {}, c)
  BY <1>7, <1>8, <1>10, <1>11 DEF Standing, Woods
<1>13. QED
  BY <1>4, <1>12

-----------------------------------------------------------------------------
(* The blocks a reader reaches *)

\* One level further down.
OneMore(f, X) ==
  X \cup UNION {ToSet(BlockAt(f, a).values) : a \in {b \in X : BlockAt(f, b).tag = "node"}}

LEMMA BlockAtIs ==
  ASSUME NEW f, File(f), NEW a
  PROVE  Sound(BlockAt(f, a)) /\ ToSet(BlockAt(f, a).values) = Members(BlockAt(f, a).values)
<1>1. Sound(BlockAt(f, a))
  BY OtherBlocksSound DEF BlockAt, File
<1>2. BlockAt(f, a).values \in Seq(Nat)
  BY <1>1, SoundArrays
<1>3. QED
  BY <1>1, <1>2 DEF ToSet, Members

\* The recursive definition of ReachedIn has a solution.
LEMMA ReachedSteps ==
  ASSUME NEW f, File(f)
  PROVE  /\ ReachedIn(f)[0] = {RootOf(f)}
         /\ \A n \in Nat : /\ ReachedIn(f)[n] \in SUBSET Nat
                           /\ ReachedIn(f)[n + 1] = OneMore(f, ReachedIn(f)[n])
<1> DEFINE S == SUBSET Nat
           F == [X \in S |-> OneMore(f, X)]
           b == {RootOf(f)}
           Def(g) == [n \in Nat |-> IF n = 0 THEN b ELSE OneMore(f, g[n - 1])]
<1>1. b \in S
  BY HeaderOf
<1>2. F \in [S -> S] /\ \A X \in S : F[X] = OneMore(f, X)
  <2> SUFFICES ASSUME NEW X \in S PROVE OneMore(f, X) \in S
    OBVIOUS
  <2>1. \A a \in X : ToSet(BlockAt(f, a).values) \subseteq Nat
    <3> TAKE a \in X
    <3>1. BlockAt(f, a).values \in Seq(Nat)
      BY BlockAtIs, SoundArrays
    <3>2. QED
      BY <3>1 DEF ToSet
  <2>2. QED
    BY <2>1 DEF OneMore
<1>3. ReachedIn(f) = CHOOSE g : g = Def(g)
  BY DEF ReachedIn, OneMore
<1> HIDE DEF F, b, S
<1>4. PICK g \in [Nat -> S] : g[0] = b /\ \A n \in Nat : g[n + 1] = F[g[n]]
  <2>1. \E g \in [Nat -> S] : RecursOn(g, b, F)
    BY <1>1, <1>2, RecursionOnNat
  <2>2. QED
    BY <2>1 DEF RecursOn
<1>5. \A n \in Nat : g[n] \in S /\ g[n + 1] = OneMore(f, g[n])
  BY <1>2, <1>4
<1>6. g = Def(g)
  <2>1. \A n \in Nat : n # 0 => n - 1 \in Nat /\ (n - 1) + 1 = n
    OBVIOUS
  <2>2. \A n \in Nat : n # 0 => g[n] = OneMore(f, g[n - 1])
    BY <1>5, <2>1
  <2>3. QED
    BY <1>4, <2>2
<1>7. ReachedIn(f) = Def(ReachedIn(f))
  <2> HIDE DEF Def
  <2>1. QED
    BY <1>3, <1>6
<1>8. /\ ReachedIn(f)[0] = b
      /\ \A n \in Nat : ReachedIn(f)[n + 1] = OneMore(f, ReachedIn(f)[n])
  <2>1. \A n \in Nat : n + 1 \in Nat /\ n + 1 # 0 /\ (n + 1) - 1 = n
    OBVIOUS
  <2>2. \A n \in Nat : ReachedIn(f)[n] = Def(ReachedIn(f))[n]
    BY <1>7
  <2>3. QED
    BY <2>1, <2>2
<1>9. \A n \in Nat : ReachedIn(f)[n] = g[n]
  <2> DEFINE Good == {n \in Nat : ReachedIn(f)[n] = g[n]}
  <2>1. 0 \in Good /\ \A n \in Nat : n \in Good => n + 1 \in Good
    BY <1>4, <1>5, <1>8
  <2>2. Nat \subseteq Good
    <3> HIDE DEF Good
    <3>1. QED
      BY <2>1, SetInduction
  <2>3. QED
    BY <2>2
<1>10. QED
  BY <1>5, <1>8, <1>9 DEF b, S

\* From a live root whose descendants are live only live blocks are reached.
LEMMA ReachedIsLive ==
  ASSUME NEW f, File(f), IsFiniteSet(DOMAIN f), RootOf(f) \in Live(f),
         \A a \in Inner(f) : Kids(f[a]) \subseteq Live(f)
  PROVE  /\ Reached(f) \subseteq Live(f)
         /\ \A n \in Nat : ReachedIn(f)[n] \subseteq Live(f)
<1> DEFINE Good == {n \in Nat : ReachedIn(f)[n] \subseteq Live(f)}
<1>1. 0 \in Good
  BY ReachedSteps
<1>2. ASSUME NEW n \in Nat, n \in Good PROVE n + 1 \in Good
  <2> DEFINE X == ReachedIn(f)[n]
  <2>1. X \subseteq Live(f) /\ ReachedIn(f)[n + 1] = OneMore(f, X)
    BY <1>2, ReachedSteps
  <2> HIDE DEF X
  <2>2. ASSUME NEW a \in X, BlockAt(f, a).tag = "node"
        PROVE  ToSet(BlockAt(f, a).values) \subseteq Live(f)
    <3>1. a \in Live(f) /\ a \in DOMAIN f /\ BlockAt(f, a) = f[a]
      BY <2>1, InnerLive DEF BlockAt
    <3>2. a \in Inner(f)
      BY <2>2, <3>1 DEF Inner
    <3>3. QED
      BY <3>1, <3>2, BlockAtIs DEF Kids
  <2>3. OneMore(f, X) \subseteq Live(f)
    BY <2>1, <2>2 DEF OneMore
  <2>4. QED
    BY <2>1, <2>3
<1>3. Nat \subseteq Good
  <2> HIDE DEF Good
  <2>1. QED
    BY <1>1, <1>2, SetInduction
<1>4. Cardinality(DOMAIN f) \in Nat
  BY FS_CardinalityType
<1>5. QED
  BY <1>3, <1>4 DEF Reached

\* One block more of the free list.
Following(f, q) == IF q = <<>> THEN FreeOf(f) ELSE BlockAt(f, Last(q)).next
Longer(f, q)    == IF Following(f, q) = 0 THEN q ELSE Append(q, Following(f, q))

\* The recursive definition of FreeChainTo has a solution.
LEMMA FreeChainSteps ==
  ASSUME NEW f, File(f)
  PROVE  /\ FreeChainTo(f)[0] = <<>>
         /\ \A n \in Nat : /\ FreeChainTo(f)[n] \in Seq(Nat)
                           /\ FreeChainTo(f)[n + 1] = Longer(f, FreeChainTo(f)[n])
<1> DEFINE S == Seq(Nat)
           F == [q \in S |-> Longer(f, q)]
           b == <<>>
           Def(g) == [n \in Nat |-> IF n = 0 THEN b ELSE Longer(f, g[n - 1])]
<1>1. b \in S
  OBVIOUS
<1>2. F \in [S -> S] /\ \A q \in S : F[q] = Longer(f, q)
  <2> SUFFICES ASSUME NEW q \in S PROVE Longer(f, q) \in S
    OBVIOUS
  <2>1. Following(f, q) \in Nat
    <3>1. BlockAt(f, Last(q)).next \in Nat
      BY BlockAtIs, SoundArrays
    <3>2. QED
      BY <3>1, HeaderOf DEF Following
  <2>2. QED
    BY <2>1 DEF Longer
<1>3. FreeChainTo(f) = CHOOSE g : g = Def(g)
  BY DEF FreeChainTo, Longer, Following
<1> HIDE DEF F, b, S
<1>4. PICK g \in [Nat -> S] : g[0] = b /\ \A n \in Nat : g[n + 1] = F[g[n]]
  <2>1. \E g \in [Nat -> S] : RecursOn(g, b, F)
    BY <1>1, <1>2, RecursionOnNat
  <2>2. QED
    BY <2>1 DEF RecursOn
<1>5. \A n \in Nat : g[n] \in S /\ g[n + 1] = Longer(f, g[n])
  BY <1>2, <1>4
<1>6. g = Def(g)
  <2>1. \A n \in Nat : n # 0 => n - 1 \in Nat /\ (n - 1) + 1 = n
    OBVIOUS
  <2>2. \A n \in Nat : n # 0 => g[n] = Longer(f, g[n - 1])
    BY <1>5, <2>1
  <2>3. QED
    BY <1>4, <2>2
<1>7. FreeChainTo(f) = Def(FreeChainTo(f))
  <2> HIDE DEF Def
  <2>1. QED
    BY <1>3, <1>6
<1>8. /\ FreeChainTo(f)[0] = b
      /\ \A n \in Nat : FreeChainTo(f)[n + 1] = Longer(f, FreeChainTo(f)[n])
  <2>1. \A n \in Nat : n + 1 \in Nat /\ n + 1 # 0 /\ (n + 1) - 1 = n
    OBVIOUS
  <2>2. \A n \in Nat : FreeChainTo(f)[n] = Def(FreeChainTo(f))[n]
    BY <1>7
  <2>3. QED
    BY <2>1, <2>2
<1>9. \A n \in Nat : FreeChainTo(f)[n] = g[n]
  <2> DEFINE Good == {n \in Nat : FreeChainTo(f)[n] = g[n]}
  <2>1. 0 \in Good /\ \A n \in Nat : n \in Good => n + 1 \in Good
    BY <1>4, <1>5, <1>8
  <2>2. Nat \subseteq Good
    <3> HIDE DEF Good
    <3>1. QED
      BY <2>1, SetInduction
  <2>3. QED
    BY <2>2
<1>10. QED
  BY <1>5, <1>8, <1>9 DEF b, S

\* A reader of the free list finds the blocks of the list, in order, and ends.
LEMMA FreeChainIs ==
  ASSUME NEW f, File(f), NEW s \in Seq(Nat), Chain(f, s)
  PROVE  \A n \in Nat : FreeChainTo(f)[n] = IF n <= Len(s) THEN SubSeq(s, 1, n) ELSE s
<1> DEFINE Good == {n \in Nat : FreeChainTo(f)[n] = IF n <= Len(s) THEN SubSeq(s, 1, n) ELSE s}
<1>1. Len(s) \in Nat
  OBVIOUS
<1>2. 0 \in Good
  <2>1. SubSeq(s, 1, 0) = <<>>
    OBVIOUS
  <2>2. QED
    BY <1>1, <2>1, FreeChainSteps
<1>3. ASSUME NEW n \in Nat, n \in Good PROVE n + 1 \in Good
  <2> DEFINE q == FreeChainTo(f)[n]
  <2>1. q \in Seq(Nat) /\ FreeChainTo(f)[n + 1] = Longer(f, q)
    BY FreeChainSteps
  <2>2. q = IF n <= Len(s) THEN SubSeq(s, 1, n) ELSE s
    BY <1>3
  <2> HIDE DEF q
  <2>3. CASE n < Len(s)
    <3>1. /\ q = SubSeq(s, 1, n) /\ Len(q) = n /\ \A j \in 1..n : q[j] = s[j]
      BY <1>1, <2>2, <2>3
    <3>2. n + 1 \in 1..Len(s) /\ s[n + 1] \in Nat
      BY <1>1, <2>3
    <3>3. Following(f, q) = s[n + 1] /\ s[n + 1] # 0
      <4>1. CASE n = 0
        <5>1. q = <<>> /\ s # <<>>
          BY <2>1, <2>3, <3>1, <4>1
        <5>2. QED
          BY <4>1, <5>1 DEF Following, Chain
      <4>2. CASE n # 0
        <5>1. q # <<>> /\ Last(q) = s[n] /\ n \in 1..Len(s)
          BY <1>1, <2>1, <2>3, <3>1, <4>2 DEF Last
        <5>2. s[n] \in DOMAIN f /\ f[s[n]].next = s[n + 1] /\ s[n + 1] # 0
          BY <2>3, <5>1 DEF Chain
        <5>3. QED
          BY <5>1, <5>2 DEF Following, BlockAt
      <4>3. QED
        BY <4>1, <4>2
    <3>4. Append(q, s[n + 1]) = SubSeq(s, 1, n + 1)
      <4> DEFINE a == Append(q, s[n + 1])
                 z == SubSeq(s, 1, n + 1)
      <4>1. a \in Seq(Nat) /\ Len(a) = n + 1 /\ a[n + 1] = s[n + 1] /\ \A j \in 1..n : a[j] = s[j]
        BY <2>1, <3>1, <3>2, AppendProperties
      <4>2. z \in Seq(Nat) /\ Len(z) = n + 1 /\ \A j \in 1..(n + 1) : z[j] = s[j]
        BY <1>1, <2>3
      <4> HIDE DEF a, z
      <4>3. \A j \in 1..(n + 1) : a[j] = z[j]
        BY <4>1, <4>2
      <4>4. a = z
        BY <4>1, <4>2, <4>3, SeqEqual
      <4>5. QED
        BY <4>4 DEF a, z
    <3>5. FreeChainTo(f)[n + 1] = SubSeq(s, 1, n + 1)
      BY <2>1, <3>3, <3>4 DEF Longer
    <3>6. n + 1 <= Len(s) /\ n + 1 \in Nat
      BY <1>1, <2>3
    <3>7. QED
      BY <3>5, <3>6
  <2>4. CASE n >= Len(s)
    <3>1. q = s
      <4>1. n = Len(s) => SubSeq(s, 1, n) = s
        OBVIOUS
      <4>2. QED
        BY <1>1, <2>2, <2>4, <4>1
    <3>2. Following(f, s) = 0
      <4>1. CASE s = <<>>
        BY <4>1 DEF Following, Chain
      <4>2. CASE s # <<>>
        <5>1. Len(s) \in 1..Len(s) /\ Last(s) = s[Len(s)]
          BY <1>1, <4>2 DEF Last
        <5>2. s[Len(s)] \in DOMAIN f /\ f[s[Len(s)]].next = 0
          BY <5>1 DEF Chain
        <5>3. QED
          BY <4>2, <5>1, <5>2 DEF Following, BlockAt
      <4>3. QED
        BY <4>1, <4>2
    <3>3. n + 1 <= Len(s) => FALSE
      BY <1>1, <2>4
    <3>4. QED
      BY <2>1, <3>1, <3>2, <3>3 DEF Longer
  <2>5. QED
    BY <1>1, <2>3, <2>4
<1>4. Nat \subseteq Good
  <2> HIDE DEF Good
  <2>1. QED
    BY <1>2, <1>3, SetInduction
<1>5. QED
  BY <1>4

\* All of them, since the file has more blocks than the list.
LEMMA FreeChainMembers ==
  ASSUME NEW f, File(f), IsFiniteSet(DOMAIN f), NEW s \in Seq(Nat), Chain(f, s)
  PROVE  FreeChain(f) = s /\ ToSet(FreeChain(f)) = Members(s)
<1>1. Cardinality(DOMAIN f) \in Nat /\ Len(s) \in Nat
  BY FS_CardinalityType
<1>2. Len(s) <= Cardinality(DOMAIN f)
  <2> DEFINE g == [i \in 1..Len(s) |-> s[i]]
  <2>1. g \in Injection(1..Len(s), DOMAIN f)
    <3>1. g \in [1..Len(s) -> DOMAIN f]
      BY DEF Chain
    <3>2. \A i, j \in 1..Len(s) : g[i] = g[j] => i = j
      BY DEF Chain, Distinct
    <3>3. QED
      BY <3>1, <3>2 DEF Injection, IsInjective
  <2>2. IsFiniteSet(1..Len(s)) /\ Cardinality(1..Len(s)) = Len(s)
    <3>1. PICK o, m \in Nat : o = 1 /\ m = Len(s)
      BY <1>1
    <3>2. o \in Int /\ m \in Int
      OBVIOUS
    <3>3. IsFiniteSet(o..m) /\ Cardinality(o..m) = IF o > m THEN 0 ELSE m - o + 1
      BY ONLY <3>2, FS_Interval
    <3>4. QED
      BY <3>1, <3>3
  <2>3. Cardinality(1..Len(s)) <= Cardinality(DOMAIN f)
    <3> HIDE DEF g
    <3>1. QED
      BY <2>1, FS_Injection
  <2>4. QED
    BY <2>2, <2>3
<1>3. FreeChain(f) = s
  <2>1. FreeChain(f) = IF Cardinality(DOMAIN f) <= Len(s)
                       THEN SubSeq(s, 1, Cardinality(DOMAIN f)) ELSE s
    BY <1>1, FreeChainIs DEF FreeChain
  <2>2. SubSeq(s, 1, Len(s)) = s
    OBVIOUS
  <2>3. QED
    BY <1>1, <1>2, <2>1, <2>2
<1>4. QED
  BY <1>3 DEF ToSet, Members

-----------------------------------------------------------------------------
(* Levels *)

\* A file at rest: a tree below the block the header names, with no hole.
AtRestWith(f, lv) ==
  /\ File(f) /\ IsFiniteSet(DOMAIN f) /\ lv \in [Nat -> Nat]
  /\ Forest(f, lv, {}) /\ Rooted(f, RootOf(f)) /\ Full(f, RootOf(f))

LEMMA ChildrenAtRest ==
  ASSUME NEW f, NEW lv, AtRestWith(f, lv), NEW a \in Live(f)
  PROVE  /\ a \in Nat /\ lv[a] \in Nat /\ BlockAt(f, a) = f[a]
         /\ a \notin Inner(f) => f[a].tag = "leaf" /\ lv[a] = 0
         /\ a \in Inner(f) =>
              /\ f[a].tag = "node" /\ Branch(f[a]) /\ f[a].values[1] \in Kids(f[a])
              /\ ToSet(f[a].values) = Kids(f[a])
              /\ \A c \in Kids(f[a]) : c \in Live(f) /\ lv[c] \in Nat /\ lv[a] = lv[c] + 1
<1>1. /\ File(f) /\ lv \in [Nat -> Nat] /\ Forest(f, lv, {}) /\ Live(f) \subseteq Nat
  BY HeaderOf DEF AtRestWith
<1>2. a \in Nat /\ lv[a] \in Nat /\ a \in DOMAIN f /\ BlockAt(f, a) = f[a]
  BY <1>1, InnerLive DEF BlockAt
<1>3. a \notin Inner(f) => f[a].tag = "leaf" /\ lv[a] = 0
  BY <1>1, InnerLive DEF Forest
<1>4. ASSUME a \in Inner(f)
      PROVE  /\ f[a].tag = "node" /\ Branch(f[a]) /\ f[a].values[1] \in Kids(f[a])
             /\ ToSet(f[a].values) = Kids(f[a])
             /\ \A c \in Kids(f[a]) : c \in Live(f) /\ lv[c] \in Nat /\ lv[a] = lv[c] + 1
  <2>1. f[a].tag = "node" /\ Branch(f[a])
    BY <1>1, <1>2, <1>4, InnerLive DEF Branch, Forest, File
  <2>2. f[a].values[1] \in Kids(f[a])
    BY <2>1, BranchArrays
  <2>3. ToSet(f[a].values) = Kids(f[a])
    BY <1>1, <1>2, BlockAtIs DEF Kids
  <2>4. \A c \in Kids(f[a]) : c \in Live(f) /\ lv[c] \in Nat /\ lv[a] = lv[c] + 1
    BY <1>1, <1>4 DEF Forest
  <2>5. QED
    BY <2>1, <2>2, <2>3, <2>4
<1>5. QED
  BY <1>2, <1>3, <1>4

\* There is a block on every level, so the levels are fewer than the blocks.
LEMMA LevelsAreFew ==
  ASSUME NEW f, NEW lv, AtRestWith(f, lv)
  PROVE  /\ lv[RootOf(f)] \in Nat /\ Cardinality(DOMAIN f) \in Nat
         /\ lv[RootOf(f)] < Cardinality(DOMAIN f)
<1> DEFINE top == lv[RootOf(f)]
           Good == {n \in Nat : n <= top => \E a \in Live(f) : lv[a] = top - n}
<1>1. RootOf(f) \in Live(f) /\ top \in Nat /\ IsFiniteSet(DOMAIN f)
  BY ChildrenAtRest DEF AtRestWith, Rooted
<1> HIDE DEF top
<1>2. 0 \in Good
  BY <1>1 DEF top
<1>3. ASSUME NEW n \in Nat, n \in Good PROVE n + 1 \in Good
  <2> SUFFICES ASSUME n + 1 <= top PROVE \E a \in Live(f) : lv[a] = top - (n + 1)
    OBVIOUS
  <2>1. PICK a \in Live(f) : lv[a] = top - n
    BY <1>1, <1>3
  <2>2. lv[a] # 0
    BY <1>1, <2>1
  <2>3. a \in Inner(f)
    BY <2>2, ChildrenAtRest
  <2>4. PICK c \in Live(f) : lv[c] \in Nat /\ lv[a] = lv[c] + 1
    BY <2>3, ChildrenAtRest
  <2>5. QED
    BY <1>1, <2>1, <2>4
<1>4. Nat \subseteq Good
  <2> HIDE DEF Good
  <2>1. QED
    BY <1>2, <1>3, SetInduction
<1>5. \A l \in 0..top : \E a \in Live(f) : lv[a] = l
  <2> TAKE l \in 0..top
  <2>1. top - l \in Nat /\ top - l <= top /\ top - (top - l) = l
    BY <1>1
  <2>2. QED
    BY <1>4, <2>1
<1> HIDE DEF Good
<1>6. PICK g \in [0..top -> Live(f)] : \A l \in 0..top : lv[g[l]] = l
  <2> DEFINE g == [l \in 0..top |-> CHOOSE a \in Live(f) : lv[a] = l]
  <2>1. \A l \in 0..top : g[l] \in Live(f) /\ lv[g[l]] = l
    BY <1>5
  <2>2. QED
    BY <2>1
<1>7. g \in Injection(0..top, DOMAIN f)
  <2>1. g \in [0..top -> DOMAIN f]
    BY <1>6, InnerLive
  <2>2. \A i, j \in 0..top : g[i] = g[j] => i = j
    BY <1>6
  <2>3. QED
    BY <2>1, <2>2 DEF Injection, IsInjective
<1>8. Cardinality(0..top) = top + 1
  <2>1. PICK o, m \in Nat : o = 0 /\ m = top
    BY <1>1
  <2>2. o \in Int /\ m \in Int
    OBVIOUS
  <2>3. IsFiniteSet(o..m) /\ Cardinality(o..m) = IF o > m THEN 0 ELSE m - o + 1
    BY ONLY <2>2, FS_Interval
  <2>4. QED
    BY <2>1, <2>3
<1>9. Cardinality(0..top) <= Cardinality(DOMAIN f)
  BY <1>1, <1>7, FS_Injection
<1>10. Cardinality(DOMAIN f) \in Nat
  BY <1>1, FS_CardinalityType
<1>11. top < Cardinality(DOMAIN f)
  BY <1>1, <1>8, <1>9, <1>10
<1>12. QED
  BY <1>1, <1>10, <1>11 DEF top

LEMMA ReachedGrows ==
  ASSUME NEW f, File(f), NEW m \in Nat
  PROVE  \A n \in Nat : n >= m => ReachedIn(f)[m] \subseteq ReachedIn(f)[n]
<1> DEFINE Good == {n \in Nat : n >= m => ReachedIn(f)[m] \subseteq ReachedIn(f)[n]}
<1>1. 0 \in Good
  OBVIOUS
<1>2. ASSUME NEW n \in Nat, n \in Good PROVE n + 1 \in Good
  <2>1. ReachedIn(f)[n] \subseteq ReachedIn(f)[n + 1]
    BY ReachedSteps DEF OneMore
  <2>2. n + 1 >= m => n >= m \/ n + 1 = m
    OBVIOUS
  <2>3. QED
    BY <1>2, <2>1, <2>2
<1>3. Nat \subseteq Good
  <2> HIDE DEF Good
  <2>1. QED
    BY <1>1, <1>2, SetInduction
<1>4. QED
  BY <1>3

\* A block l levels below the root is reached in l steps, and the search for
\* blocks does not end before the leaves are reached.
LEMMA ReachedIsClosed ==
  ASSUME NEW f, NEW lv, AtRestWith(f, lv)
  PROVE  /\ Reached(f) \subseteq Live(f) /\ RootOf(f) \in Reached(f)
         /\ \A a \in Reached(f) \cap Inner(f) : Kids(f[a]) \subseteq Reached(f)
<1> DEFINE top == lv[RootOf(f)]
           all == Cardinality(DOMAIN f)
           R(n) == ReachedIn(f)[n]
           Good == {n \in Nat : \A a \in R(n) : lv[a] <= top /\ a \in R(top - lv[a])}
<1>1. /\ File(f) /\ IsFiniteSet(DOMAIN f) /\ RootOf(f) \in Live(f)
      /\ lv[RootOf(f)] \in Nat
      /\ \A a \in Inner(f) : Kids(f[a]) \subseteq Live(f)
  BY ChildrenAtRest, InnerLive DEF AtRestWith, Rooted
<1>2. Reached(f) \subseteq Live(f) /\ \A n \in Nat : R(n) \subseteq Live(f)
  BY <1>1, ReachedIsLive
<1>3. top \in Nat /\ all \in Nat /\ top < all
  BY LevelsAreFew
<1>4. R(0) = {RootOf(f)} /\ \A n \in Nat : R(n + 1) = OneMore(f, R(n))
  BY <1>1, ReachedSteps
<1>5. Reached(f) = R(all)
  BY DEF Reached
<1>6. \A m, n \in Nat : n >= m => R(m) \subseteq R(n)
  BY <1>1, ReachedGrows
<1> HIDE DEF R, all
\* A child is one step further.
<1>7. ASSUME NEW n \in Nat, NEW b \in R(n), b \in Inner(f), NEW c \in Kids(f[b])
      PROVE  c \in R(n + 1)
  <2>1. b \in Live(f) /\ BlockAt(f, b) = f[b] /\ f[b].tag = "node"
        /\ ToSet(f[b].values) = Kids(f[b])
    BY <1>2, <1>7, ChildrenAtRest
  <2>2. QED
    BY <1>4, <1>7, <2>1 DEF OneMore
<1>8. 0 \in Good
  <2>1. top <= top /\ top - top = 0
    BY <1>3
  <2>2. QED
    BY <1>4, <2>1
<1> HIDE DEF top
<1>9. ASSUME NEW n \in Nat, n \in Good PROVE n + 1 \in Good
  <2> SUFFICES ASSUME NEW a \in R(n + 1) PROVE lv[a] <= top /\ a \in R(top - lv[a])
    OBVIOUS
  <2>1. CASE a \in R(n)
    BY <1>9, <2>1
  <2>2. CASE a \notin R(n)
    <3>1. PICK b \in R(n) : BlockAt(f, b).tag = "node" /\ a \in ToSet(BlockAt(f, b).values)
      BY <1>4, <2>2 DEF OneMore
    <3>2. b \in Live(f)
      BY <1>2
    <3>3. b \in Inner(f)
      BY <3>1, <3>2, ChildrenAtRest
    <3>4. a \in Kids(f[b])
      BY <3>1, <3>2, <3>3, ChildrenAtRest
    <3>5. lv[a] \in Nat /\ lv[b] = lv[a] + 1
      BY <3>2, <3>3, <3>4, ChildrenAtRest
    <3>6. lv[b] <= top /\ b \in R(top - lv[b])
      BY <1>9
    <3>7. top - lv[b] \in Nat /\ (top - lv[b]) + 1 = top - lv[a] /\ lv[a] <= top
      BY <1>3, <3>5, <3>6
    <3>8. a \in R((top - lv[b]) + 1)
      BY <1>7, <3>3, <3>4, <3>6, <3>7
    <3>9. QED
      BY <3>7, <3>8
  <2>3. QED
    BY <2>1, <2>2
<1>10. Nat \subseteq Good
  <2> HIDE DEF Good
  <2>1. QED
    BY <1>8, <1>9, SetInduction
<1>11. ASSUME NEW a \in Reached(f), a \in Inner(f), NEW c \in Kids(f[a])
       PROVE  c \in Reached(f)
  <2>1. lv[a] <= top /\ a \in R(top - lv[a])
    BY <1>3, <1>5, <1>10
  <2>2. a \in Live(f)
    BY <1>2
  <2>3. lv[c] \in Nat /\ lv[a] = lv[c] + 1
    BY <1>11, <2>2, ChildrenAtRest
  <2>4. top - lv[a] \in Nat /\ (top - lv[a]) + 1 \in Nat /\ (top - lv[a]) + 1 <= all
    BY <1>3, <2>1, <2>3
  <2>5. c \in R((top - lv[a]) + 1)
    BY <1>7, <1>11, <2>1, <2>4
  <2>6. QED
    BY <1>3, <1>5, <1>6, <2>4, <2>5
<1>12. RootOf(f) \in Reached(f)
  <2>1. 0 \in Nat /\ all >= 0
    BY <1>3
  <2>2. QED
    BY <1>3, <1>4, <1>5, <1>6, <2>1
<1>13. QED
  BY <1>2, <1>11, <1>12

\* The recursive definition of Depths has a solution: the levels.
LEMMA DepthsAreLevels ==
  ASSUME NEW f, NEW lv, AtRestWith(f, lv)
  PROVE  \A a \in Reached(f) : Depths(f)[a] = lv[a] + 1
<1> DEFINE R == Reached(f)
           Def(g) == [a \in R |-> IF BlockAt(f, a).tag = "node"
                                  THEN 1 + g[BlockAt(f, a).values[1]] ELSE 1]
           h == [a \in R |-> lv[a] + 1]
           Good == {n \in Nat : \A a \in R : lv[a] = n => Depths(f)[a] = n + 1}
<1>1. \A a \in R : a \in Live(f) /\ lv[a] \in Nat /\ BlockAt(f, a) = f[a]
  BY ReachedIsClosed, ChildrenAtRest
<1>2. \A a \in R : IF f[a].tag = "node"
                   THEN f[a].values[1] \in R /\ lv[a] = lv[f[a].values[1]] + 1
                   ELSE lv[a] = 0
  <2> TAKE a \in R
  <2>1. a \in Live(f) /\ (f[a].tag = "node" <=> a \in Inner(f))
    BY <1>1, InnerLive
  <2>2. CASE a \in Inner(f)
    <3>1. f[a].values[1] \in Kids(f[a]) /\ \A c \in Kids(f[a]) : lv[a] = lv[c] + 1
      BY <2>1, <2>2, ChildrenAtRest
    <3>2. Kids(f[a]) \subseteq R
      BY <2>2, ReachedIsClosed
    <3>3. QED
      BY <2>1, <2>2, <3>1, <3>2
  <2>3. CASE a \notin Inner(f)
    BY <2>1, <2>3, ChildrenAtRest
  <2>4. QED
    BY <2>2, <2>3
<1> HIDE DEF R
<1>3. h = Def(h)
  <2>1. \A a \in R : h[a] = IF BlockAt(f, a).tag = "node"
                            THEN 1 + h[BlockAt(f, a).values[1]] ELSE 1
    <3> TAKE a \in R
    <3>1. CASE f[a].tag = "node"
      BY <1>1, <1>2, <3>1
    <3>2. CASE f[a].tag # "node"
      BY <1>1, <1>2, <3>2
    <3>3. QED
      BY <3>1, <3>2
  <2>2. QED
    BY <2>1
<1>4. Depths(f) = CHOOSE g : g = Def(g)
  BY DEF Depths, R
<1>5. Depths(f) = Def(Depths(f))
  <2> HIDE DEF Def, h
  <2>1. QED
    BY <1>3, <1>4
<1>6. \A a \in R : Depths(f)[a] = IF BlockAt(f, a).tag = "node"
                                  THEN 1 + Depths(f)[BlockAt(f, a).values[1]] ELSE 1
  BY <1>5
<1>7. 0 \in Good
  <2> SUFFICES ASSUME NEW a \in R, lv[a] = 0 PROVE Depths(f)[a] = 0 + 1
    OBVIOUS
  <2>1. f[a].tag # "node"
    BY <1>1, <1>2
  <2>2. QED
    BY <1>1, <1>6, <2>1
<1>8. ASSUME NEW n \in Nat, n \in Good PROVE n + 1 \in Good
  <2> SUFFICES ASSUME NEW a \in R, lv[a] = n + 1 PROVE Depths(f)[a] = (n + 1) + 1
    OBVIOUS
  <2>1. f[a].tag = "node" /\ f[a].values[1] \in R /\ lv[f[a].values[1]] = n
    BY <1>1, <1>2
  <2>2. Depths(f)[f[a].values[1]] = n + 1
    BY <1>8, <2>1
  <2>3. QED
    BY <1>1, <1>6, <2>1, <2>2
<1>9. Nat \subseteq Good
  <2> HIDE DEF Good
  <2>1. QED
    BY <1>7, <1>8, SetInduction
<1>10. QED
  BY <1>1, <1>9 DEF R

\* Such a file is as full and as level as it should be.
LEMMA RestIsFullAndLevel ==
  ASSUME NEW f, NEW lv, AtRestWith(f, lv)
  PROVE  FullAndLevel(f)
<1>1. /\ Reached(f) \subseteq Live(f)
      /\ \A a \in Live(f) : BlockAt(f, a) = f[a]
  BY ReachedIsClosed, ChildrenAtRest
<1>2. \A a \in Reached(f) \ {RootOf(f)} : HasEnough(f[a])
  BY <1>1 DEF AtRestWith, Full
<1>3. \A a \in TreeLeaves(f) \ {RootOf(f)} : nkeys(BlockAt(f, a)) >= MIN_NKEYS_LEAF
  BY <1>1, <1>2 DEF TreeLeaves, HasEnough
<1>4. \A a \in TreeNodes(f) \ {RootOf(f)} : nkeys(BlockAt(f, a)) >= MIN_NKEYS_NODE
  BY <1>1, <1>2 DEF TreeNodes, HasEnough
<1>5. RootOf(f) \in TreeNodes(f) => nkeys(BlockAt(f, RootOf(f))) >= 1
  BY <1>1 DEF TreeNodes, AtRestWith, Rooted
<1>6. ASSUME NEW a \in TreeNodes(f), NEW c \in ToSet(BlockAt(f, a).values)
      PROVE  Depths(f)[c] = Depths(f)[BlockAt(f, a).values[1]]
  <2>1. a \in Reached(f) /\ a \in Live(f) /\ BlockAt(f, a) = f[a] /\ f[a].tag = "node"
    BY <1>1 DEF TreeNodes
  <2>2. a \in Inner(f)
    BY <2>1, ChildrenAtRest
  <2>3. c \in Kids(f[a]) /\ f[a].values[1] \in Kids(f[a])
    BY <1>6, <2>1, <2>2, ChildrenAtRest
  <2>4. \A d \in Kids(f[a]) : d \in Reached(f) /\ lv[d] \in Nat /\ lv[a] = lv[d] + 1
    BY <2>1, <2>2, ChildrenAtRest, ReachedIsClosed
  <2>5. lv[c] = lv[f[a].values[1]]
    BY <2>3, <2>4
  <2>6. QED
    BY <2>1, <2>3, <2>4, <2>5, DepthsAreLevels
<1>7. QED
  BY <1>3, <1>4, <1>5, <1>6 DEF FullAndLevel

-----------------------------------------------------------------------------
(* Where the blocks are *)

KidsIn(b)  == IF b.tag = "node" THEN Kids(b) ELSE {}
Adopted(f) == UNION {Kids(f[a]) : a \in Inner(f)}

\* Every block but the header is on the free list s, is the child of a node or
\* is one of the blocks R, to which the program holds the only pointer.
Booked(f, s, R) ==
  /\ 0 \in DOMAIN f /\ f[0].tag = "header"
  /\ s \in Seq(Nat) /\ Chain(f, s)
  /\ \A a \in DOMAIN f : a = 0 \/ a \in Members(s) \/ a \in R \/ a \in Adopted(f)

LEMMA BookedMore ==
  ASSUME NEW f, NEW s, NEW R, Booked(f, s, R), NEW Q, R \subseteq Q \cup Members(s)
  PROVE  Booked(f, s, Q)
BY DEF Booked

\* A block that is not on the free list is written, and may be in R only now.
LEMMA BookedPut ==
  ASSUME NEW f, NEW s, NEW R, Booked(f, s, R),
         NEW x, x # 0, x \notin Members(s), NEW b, NEW Q, x \in DOMAIN f \cup Q,
         x \in Inner(f) => Kids(f[x]) \subseteq Q \cup Members(s) \cup KidsIn(b),
         R \subseteq Q \cup Members(s) \cup KidsIn(b)
  PROVE  Booked(Put(f, x, b), s, Q) /\ RootOf(Put(f, x, b)) = RootOf(f)
<1> DEFINE g == Put(f, x, b)
<1>1. /\ DOMAIN g = DOMAIN f \cup {x} /\ g[x] = b
      /\ \A a \in DOMAIN f : a # x => g[a] = f[a]
  BY DEF Put
<1>2. 0 \in DOMAIN f /\ f[0].tag = "header" /\ s \in Seq(Nat) /\ Chain(f, s)
  BY DEF Booked
<1> HIDE DEF g
<1>3. g[0] = f[0] /\ 0 \in DOMAIN g
  BY <1>1, <1>2
<1>4. RootOf(g) = RootOf(f) /\ FreeOf(g) = FreeOf(f)
  BY <1>2, <1>3 DEF RootOf, FreeOf, BlockAt
<1>5. \A j \in 1..Len(s) : s[j] # x
  BY DEF Members
<1>6. Chain(g, s)
  BY <1>1, <1>2, <1>4, <1>5 DEF Chain
<1>7. KidsIn(b) \subseteq Adopted(g)
  BY <1>1 DEF KidsIn, Adopted, Inner
<1>8. ASSUME NEW a \in Inner(f), NEW c \in Kids(f[a])
      PROVE  c \in Q \cup Members(s) \cup Adopted(g)
  <2>1. CASE a = x
    BY <1>7, <1>8, <2>1
  <2>2. CASE a # x
    BY <1>1, <1>8, <2>2 DEF Adopted, Inner
  <2>3. QED
    BY <2>1, <2>2
<1>9. ASSUME NEW a \in DOMAIN g
      PROVE  a = 0 \/ a \in Members(s) \/ a \in Q \/ a \in Adopted(g)
  <2>1. CASE a \notin DOMAIN f
    BY <1>1, <1>9, <2>1
  <2>2. CASE a \in DOMAIN f
    <3>1. a = 0 \/ a \in Members(s) \/ a \in R \/ a \in Adopted(f)
      BY <2>2 DEF Booked
    <3>2. a \in Adopted(f) => \E e \in Inner(f) : a \in Kids(f[e])
      BY DEF Adopted
    <3>3. QED
      BY <1>7, <1>8, <3>1, <3>2
  <2>3. QED
    BY <2>1, <2>2
<1>10. Booked(g, s, Q)
  BY <1>2, <1>3, <1>6, <1>9 DEF Booked
<1>11. QED
  BY <1>4, <1>10 DEF g

\* A live block is written.
LEMMA BookedOver ==
  ASSUME NEW f, NEW s, NEW R, Booked(f, s, R), NEW x \in Live(f), NEW b, NEW Q,
         KidsIn(f[x]) \cup R \subseteq Q \cup Members(s) \cup KidsIn(b)
  PROVE  Booked(Put(f, x, b), s, Q) /\ RootOf(Put(f, x, b)) = RootOf(f)
<1>1. f[0].tag = "header" /\ Chain(f, s)
  BY DEF Booked
<1>2. x # 0 /\ x \in DOMAIN f
  BY <1>1 DEF Live, IsLive
<1>3. x \notin Members(s)
  BY <1>1 DEF Live, IsLive, Chain, Members
<1>4. x \in Inner(f) => KidsIn(f[x]) = Kids(f[x])
  BY DEF Inner, KidsIn
<1>5. QED
  BY <1>2, <1>3, <1>4, BookedPut

\* The header is written with another root.
LEMMA BookedRoot ==
  ASSUME NEW f, File(f), NEW s, NEW R, Booked(f, s, R), NEW r \in Nat
  PROVE  Booked(Put(f, 0, Header(r, FreeOf(f))), s, R)
<1> DEFINE g == Put(f, 0, Header(r, FreeOf(f)))
<1>1. FreeOf(f) \in Nat
  BY HeaderOf
<1>2. /\ File(g) /\ SameLive(f, g) /\ DOMAIN g = DOMAIN f /\ FreeOf(g) = FreeOf(f)
      /\ \A a \in DOMAIN f : a # 0 => g[a] = f[a]
  <2>1. LET h == Put(f, 0, Header(r, FreeOf(f)))
        IN  /\ File(h) /\ SameLive(f, h) /\ DOMAIN h = DOMAIN f
            /\ RootOf(h) = r /\ FreeOf(h) = FreeOf(f)
            /\ \A a \in DOMAIN f : a # 0 => h[a] = f[a]
    BY <1>1, HeaderPut
  <2>2. QED
    BY <2>1
<1> HIDE DEF g
<1>3. Chain(g, s)
  BY <1>2, ChainHeader DEF Booked
<1>4. Adopted(g) = Adopted(f)
  BY <1>2, SameForest DEF Adopted
<1>5. Booked(g, s, R)
  BY <1>2, <1>3, <1>4 DEF Booked, File
<1>6. QED
  BY <1>5 DEF g

\* new_node: the block it takes is the program's.
LEMMA BookedTaken ==
  ASSUME NEW f, NEW lv, NEW z, NEW H, Woods(f, lv, z, H), NEW s, NEW R, Booked(f, s, R),
         NEW size \in Nat, size # 0, DOMAIN f = 0..(size - 1)
  PROVE  /\ \E t \in Seq(Nat) : /\ Booked(Taken(f), t, R \cup {Fresh(f, size)})
                                /\ Fresh(f, size) \notin Members(t)
         /\ SameLive(f, Taken(f)) /\ DOMAIN Taken(f) = DOMAIN f
         /\ RootOf(Taken(f)) = RootOf(f)
         /\ Fresh(f, size) # 0 /\ Fresh(f, size) \notin Live(f)
         /\ DOMAIN f \cup {Fresh(f, size)} = 0..(FreshSize(f, size) - 1)
<1>1. s \in Seq(Nat) /\ Chain(f, s) /\ Woods(f, lv, s, H) /\ File(f)
  BY DEF Booked, Woods
<1>2. CASE FreeOf(f) = 0
  <2>1. Fresh(f, size) = size /\ FreshSize(f, size) = size + 1 /\ Taken(f) = f
    BY <1>2 DEF Fresh, FreshSize, Taken
  <2>2. size \notin DOMAIN f /\ DOMAIN f \cup {size} = 0..((size + 1) - 1)
    OBVIOUS
  <2>3. size \notin Members(s) /\ size \notin Live(f) /\ SameLive(f, f)
    BY <1>1, <2>2 DEF Chain, Members, Live, SameLive
  <2>4. Booked(f, s, R \cup {size})
    BY BookedMore
  <2>5. QED
    BY <1>1, <2>1, <2>2, <2>3, <2>4
<1>3. CASE FreeOf(f) # 0
  <2>1. PICK t, n, g : t = Tail(s) /\ n = FreeOf(f) /\ g = Taken(f)
    OBVIOUS
  <2>2. Fresh(f, size) = n /\ FreshSize(f, size) = size
    BY <1>3, <2>1 DEF Fresh, FreshSize
  <2>3. /\ Woods(g, lv, t, H) /\ SameLive(f, g) /\ DOMAIN g = DOMAIN f
        /\ RootOf(g) = RootOf(f) /\ n \in DOMAIN f /\ n \notin Live(f) /\ n \notin Members(t)
    BY <1>1, <1>3, <2>1, FirstTaken
  <2>4. Members(s) \subseteq Members(t) \cup {n}
    <3>1. s # <<>> /\ n = s[1]
      BY <1>1, <1>3, <2>1 DEF Chain
    <3>2. /\ Len(t) = Len(s) - 1 /\ Len(s) \in Nat /\ Len(s) >= 1
          /\ \A j \in 1..(Len(s) - 1) : t[j] = s[j + 1]
      BY <1>1, <2>1, <3>1, TailIs
    <3>3. ASSUME NEW j \in 1..Len(s), j # 1 PROVE s[j] \in Members(t)
      <4>1. j - 1 \in 1..(Len(s) - 1) /\ (j - 1) + 1 = j
        BY <3>2, <3>3
      <4>2. t[j - 1] = s[j] /\ j - 1 \in 1..Len(t)
        BY <3>2, <4>1
      <4>3. QED
        BY <4>2 DEF Members
    <3>4. QED
      BY <3>1, <3>3 DEF Members
  <2>5. Adopted(g) = Adopted(f)
    BY <2>3, SameForest DEF Adopted
  <2>6. Booked(g, t, R \cup {n})
    BY <2>3, <2>4, <2>5 DEF Booked, Woods, File
  <2>7. n # 0 /\ DOMAIN f \cup {n} = 0..(size - 1) /\ t \in Seq(Nat)
    BY <1>3, <2>1, <2>3 DEF Woods
  <2>8. QED
    BY <2>1, <2>2, <2>3, <2>6, <2>7
<1>4. QED
  BY <1>2, <1>3

\* The file has the blocks 0 to size - 1.
Spans(f, size) == DOMAIN f = 0..(size - 1)

\* A block x and a new one n beside it are written, as b and c: between them they
\* have the children x had.
Parting(f, s, R, size, x, b, n, c, Q) ==
  /\ Booked(f, s, R)
  /\ size \in Nat /\ size # 0 /\ DOMAIN f = 0..(size - 1)
  /\ x \in Live(f) /\ n = Fresh(f, size)
  /\ KidsIn(f[x]) \cup R \subseteq Q \cup KidsIn(b) \cup KidsIn(c)

LEMMA BookedSplit ==
  ASSUME NEW f, NEW lv, NEW z, NEW H, Woods(f, lv, z, H),
         NEW s, NEW R, NEW size, NEW x, NEW b, NEW n, NEW c, NEW Q,
         Parting(f, s, R, size, x, b, n, c, Q)
  PROVE  LET g == Split(f, x, b, n, c)
         IN  /\ \E t : Booked(g, t, Q \cup {n})
             /\ Spans(g, FreshSize(f, size))
<1> USE DEF Parting
<1>1. PICK e, h, g : e = Taken(f) /\ h = Put(e, x, b) /\ g = Put(h, n, c)
  OBVIOUS
<1>2. PICK t : Booked(e, t, R \cup {n}) /\ n \notin Members(t)
  BY <1>1, BookedTaken
<1>3. /\ SameLive(f, e) /\ DOMAIN e = DOMAIN f /\ n # 0 /\ n \notin Live(f)
      /\ DOMAIN f \cup {n} = 0..(FreshSize(f, size) - 1)
  BY <1>1, BookedTaken
<1>4. x \in Live(e) /\ e[x] = f[x] /\ n \notin Live(e) /\ x # n
  BY <1>3 DEF SameLive
<1>5. PICK P : P = Q \cup KidsIn(c) \cup {n}
  OBVIOUS
<1>6. Booked(h, t, P)
  <2>1. KidsIn(e[x]) \cup (R \cup {n}) \subseteq P \cup Members(t) \cup KidsIn(b)
    BY <1>4, <1>5
  <2>2. QED
    BY <1>1, <1>2, <1>4, <2>1, BookedOver
<1>7. n \notin Inner(h)
  <2>1. n \notin Inner(e)
    BY <1>4, InnerLive
  <2>2. QED
    BY <1>1, <1>4, <2>1 DEF Inner, Put
<1>8. Booked(g, t, Q \cup {n})
  <2>1. n \in DOMAIN h \cup (Q \cup {n})
    OBVIOUS
  <2>2. P \subseteq (Q \cup {n}) \cup Members(t) \cup KidsIn(c)
    BY <1>5
  <2>3. QED
    BY <1>1, <1>2, <1>3, <1>6, <1>7, <2>1, <2>2, BookedPut
<1>9. DOMAIN g = 0..(FreshSize(f, size) - 1)
  <2>1. x \in DOMAIN f
    BY InnerLive
  <2>2. DOMAIN g = (DOMAIN e \cup {x}) \cup {n}
    BY <1>1 DEF Put
  <2>3. QED
    BY <1>3, <2>1, <2>2
<1>10. g = Split(f, x, b, n, c)
  BY <1>1 DEF Split
<1>11. Spans(g, FreshSize(f, size))
  BY <1>9 DEF Spans
<1>12. QED
  BY <1>8, <1>10, <1>11

\* free: the block is on the free list, its children are the program's.
LEMMA BookedFreed ==
  ASSUME NEW f, NEW lv, NEW z, NEW H, Woods(f, lv, z, H), NEW s, NEW R, Booked(f, s, R),
         NEW x \in Live(f), NEW g, g = Freed(f, x)
  PROVE  /\ \E t : Booked(g, t, R \cup KidsIn(f[x])) /\ Members(t) = Members(s) \cup {x}
         /\ DOMAIN g = DOMAIN f /\ RootOf(g) = RootOf(f)
         /\ Live(g) = Live(f) \ {x} /\ \A a \in Live(f) : a # x => g[a] = f[a]
<1>1. Woods(f, lv, s, H)
  BY DEF Booked, Woods
<1>2. PICK t \in Seq(Nat) : Woods(g, lv, t, H \cup {x}) /\ Members(t) = Members(s) \cup {x}
  <2>1. /\ \E t \in Seq(Nat) : /\ Woods(Freed(f, x), lv, t, H \cup {x})
                               /\ Members(t) = Members(s) \cup {x}
        /\ Live(Freed(f, x)) = Live(f) \ {x} /\ Inner(Freed(f, x)) = Inner(f) \ {x}
        /\ \A a \in Live(f) : a # x => Freed(f, x)[a] = f[a]
        /\ DOMAIN Freed(f, x) = DOMAIN f
        /\ RootOf(Freed(f, x)) = RootOf(f)
    BY ONLY <1>1, x \in Live(f), BlockIsFreed
  <2>2. QED
    BY <2>1
<1>3. /\ Live(g) = Live(f) \ {x} /\ Inner(g) = Inner(f) \ {x}
      /\ \A a \in Live(f) : a # x => g[a] = f[a]
      /\ DOMAIN g = DOMAIN f /\ RootOf(g) = RootOf(f)
  BY <1>1, BlockIsFreed
<1>4. ASSUME NEW a \in Adopted(f) PROVE a \in Adopted(g) \/ a \in KidsIn(f[x])
  <2>1. PICK e \in Inner(f) : a \in Kids(f[e])
    BY DEF Adopted
  <2>2. CASE e = x
    BY <2>1, <2>2 DEF KidsIn, Inner
  <2>3. CASE e # x
    <3>1. e \in Inner(g) /\ g[e] = f[e]
      BY <1>3, <2>1, <2>3, InnerLive
    <3>2. QED
      BY <2>1, <3>1 DEF Adopted
  <2>4. QED
    BY <2>2, <2>3
<1>5. Booked(g, t, R \cup KidsIn(f[x]))
  BY <1>2, <1>3, <1>4 DEF Booked, Woods, File
<1>6. QED
  BY <1>2, <1>3, <1>5

\* A block is freed, and another written that has the children of both but those
\* that are free.
LEMMA BookedMerged ==
  ASSUME NEW f, NEW lv, NEW z, NEW H, Woods(f, lv, z, H), NEW s, NEW R, Booked(f, s, R),
         NEW l \in Live(f), NEW r \in Live(f), l # r, NEW b,
         KidsIn(f[l]) \cup KidsIn(f[r]) \subseteq Members(s) \cup KidsIn(b),
         NEW g, g = Put(Freed(f, r), l, b)
  PROVE  \E t : Booked(g, t, R) /\ r \in Members(t)
<1>1. PICK e : e = Freed(f, r)
  OBVIOUS
<1>2. /\ \E t : Booked(e, t, R \cup KidsIn(f[r])) /\ Members(t) = Members(s) \cup {r}
      /\ DOMAIN e = DOMAIN f /\ RootOf(e) = RootOf(f)
      /\ Live(e) = Live(f) \ {r} /\ \A a \in Live(f) : a # r => e[a] = f[a]
  <2>1. Woods(f, lv, z, H) /\ Booked(f, s, R) /\ r \in Live(f) /\ e = Freed(f, r)
    BY <1>1
  <2>2. QED
    BY ONLY <2>1, BookedFreed
<1>3. l \in Live(e) /\ e[l] = f[l]
  BY <1>2
<1>4. PICK t : Booked(e, t, R \cup KidsIn(f[r])) /\ Members(t) = Members(s) \cup {r}
  BY <1>2
<1>5. KidsIn(e[l]) \cup (R \cup KidsIn(f[r])) \subseteq R \cup Members(t) \cup KidsIn(b)
  BY <1>3, <1>4
<1>6. Booked(g, t, R)
  BY <1>1, <1>3, <1>4, <1>5, BookedOver
<1>7. QED
  BY <1>4, <1>6

\* A live block that is not reached has a parent that is not reached, one level up.
LEMMA UnreachedAbove ==
  ASSUME NEW f, NEW lv, AtRestWith(f, lv), NEW s, Booked(f, s, {RootOf(f)}),
         NEW a \in Live(f) \ Reached(f)
  PROVE  \E p \in Live(f) \ Reached(f) : lv[p] = lv[a] + 1
<1>1. RootOf(f) \in Reached(f) /\ \A p \in Reached(f) \cap Inner(f) : Kids(f[p]) \subseteq Reached(f)
  BY ReachedIsClosed
<1>2. a # 0 /\ a \notin Members(s) /\ a \in DOMAIN f
  BY DEF Booked, Live, IsLive, Chain, Members
<1>3. a \in Adopted(f)
  BY <1>1, <1>2 DEF Booked
<1>4. PICK p \in Inner(f) : a \in Kids(f[p])
  BY <1>3 DEF Adopted
<1>5. p \in Live(f) /\ p \notin Reached(f)
  BY <1>1, <1>4, InnerLive
<1>6. lv[p] = lv[a] + 1
  BY <1>4 DEF AtRestWith, Forest
<1>7. QED
  BY <1>5, <1>6

\* So all are reached: there are not levels enough to go up for ever.
LEMMA LiveIsReached ==
  ASSUME NEW f, NEW lv, AtRestWith(f, lv), NEW s, Booked(f, s, {RootOf(f)})
  PROVE  Live(f) \subseteq Reached(f)
<1> SUFFICES ASSUME NEW b \in Live(f) \ Reached(f) PROVE FALSE
  OBVIOUS
<1> DEFINE U == Live(f) \ Reached(f)
           l == lv[b]
           Up == {n \in Nat : \E a \in U : lv[a] = l + n}
           size == Cardinality(DOMAIN f)
<1>1. l \in Nat /\ \A a \in U : lv[a] \in Nat /\ \E p \in U : lv[p] = lv[a] + 1
  <2>1. \A a \in Live(f) : lv[a] \in Nat
    BY ChildrenAtRest
  <2>2. \A a \in U : \E p \in U : lv[p] = lv[a] + 1
    BY UnreachedAbove
  <2>3. QED
    BY <2>1, <2>2
<1>2. IsFiniteSet(DOMAIN f) /\ size \in Nat
  BY FS_CardinalityType DEF AtRestWith
<1>3. Nat \subseteq Up
  <2>1. 0 \in Up
    BY <1>1
  <2>2. ASSUME NEW n \in Nat, n \in Up PROVE n + 1 \in Up
    <3>1. PICK a \in U : lv[a] = l + n
      BY <2>2
    <3>2. PICK p \in U : lv[p] = (l + n) + 1
      BY <1>1, <3>1
    <3>3. QED
      BY <1>1, <3>2
  <2> HIDE DEF Up
  <2>3. QED
    BY <2>1, <2>2, SetInduction
<1>4. PICK m \in Nat : m = size
  BY <1>2
<1>5. PICK g \in [0..m -> U] : \A n \in 0..m : lv[g[n]] = l + n
  <2> DEFINE g == [n \in 0..m |-> CHOOSE a \in U : lv[a] = l + n]
  <2>1. \A n \in 0..m : \E a \in U : lv[a] = l + n
    BY <1>3
  <2>2. \A n \in 0..m : g[n] \in U /\ lv[g[n]] = l + n
    BY <2>1
  <2>3. QED
    BY <2>2
<1>6. g \in Injection(0..m, DOMAIN f)
  <2>1. g \in [0..m -> DOMAIN f]
    BY <1>5, InnerLive
  <2>2. \A i, j \in 0..m : g[i] = g[j] => i = j
    BY SMTT(30), ZenonT(30), <1>1, <1>5
  <2>3. QED
    BY <2>1, <2>2 DEF Injection, IsInjective
<1>7. Cardinality(0..m) = m + 1
  <2>1. PICK o, n \in Nat : o = 0 /\ n = m
    OBVIOUS
  <2>2. o \in Int /\ n \in Int
    OBVIOUS
  <2>3. IsFiniteSet(o..n) /\ Cardinality(o..n) = IF o > n THEN 0 ELSE n - o + 1
    BY ONLY <2>2, FS_Interval
  <2>4. QED
    BY <2>1, <2>3
<1>8. Cardinality(0..m) <= size
  BY <1>2, <1>6, FS_Injection
<1>9. QED
  BY <1>2, <1>4, <1>7, <1>8

\* Every block but the header is on the free list or in the tree.
LEMMA EveryBlockFound ==
  ASSUME NEW f, NEW lv, AtRestWith(f, lv), NEW s, Booked(f, s, {RootOf(f)})
  PROVE  \A a \in DOMAIN f : a = 0 \/ a \in Members(s) \/ a \in Reached(f)
<1>1. Live(f) \subseteq Reached(f)
  BY LiveIsReached
<1>2. RootOf(f) \in Live(f)
  BY DEF AtRestWith, Rooted
<1>3. Adopted(f) \subseteq Live(f)
  BY DEF AtRestWith, Forest, Adopted
<1>4. QED
  BY <1>1, <1>2, <1>3 DEF Booked

-----------------------------------------------------------------------------
(* DiskBTree: types and arrays *)

USE WordAssumption, NoneAssumption

\* The two ways in which the modules say that a block is sound.
LEMMA SoundBlocksAreSound ==
  ASSUME NEW b
  PROVE  b \in SoundBlocks <=> Sound(b)
BY DEF SoundBlocks, Sound

-----------------------------------------------------------------------------
(* Reads *)

\* Whatever is read, written or not, is a sound block; block 0 is the header.
LEMMA ReadSound ==
  ASSUME DiskInv, NEW a \in Nat
  PROVE  Read(a) \in SoundBlocks /\ (a = 0 /\ 0 \in DOMAIN disk => Read(a).tag = "header")
<1>1. ZeroBlock \in SoundBlocks
  BY OtherBlocksSound, SoundBlocksAreSound
<1>2. QED
  BY <1>1 DEF DiskInv, Read

\* The header's pointers.
LEMMA HeaderPointers ==
  ASSUME DiskInv, 0 \in DOMAIN disk
  PROVE  root_ptr \in Nat /\ free_ptr \in Nat
<1>1. Sound(Read(0)) /\ Read(0).tag = "header"
  BY ReadSound, SoundBlocksAreSound
<1>2. Read(0).values \in Seq(Nat) /\ Len(Read(0).values) = 2
  BY <1>1, SoundArrays
<1>3. QED
  BY <1>2 DEF root_ptr, free_ptr

\* A node just read is a frame.
LEMMA FrameRead ==
  ASSUME DiskInv, 0 \in DOMAIN disk, NEW a \in Nat
  PROVE  Frame(a) \in Frames
<1>1. Read(a) \in SoundBlocks /\ (a = 0 => Read(a).tag = "header")
  BY ReadSound
<1>2. nkeys(Read(a)) \in Nat
  BY <1>1, SoundBlocksAreSound, SoundArrays
<1>3. QED
  BY <1>1, <1>2 DEF Frame, Frames

-----------------------------------------------------------------------------
(* Writes *)

\* A sound block written to an address that is not the header's.
LEMMA NodeWrite ==
  ASSUME NEW a \in Nat, a # 0, NEW b, Sound(b)
  PROVE  W(a, b) \in Writes
BY SoundBlocksAreSound DEF W, Writes

\* A header written to block 0.
LEMMA HeaderWrite ==
  ASSUME NEW r \in Nat, NEW f \in Nat
  PROVE  W(0, Header(r, f)) \in Writes
BY OtherBlocksSound, SoundBlocksAreSound DEF W, Writes

\* new_node (btree.py:156-169) never hands out the header, and writes a header.
LEMMA NewNode ==
  ASSUME DiskInv, 0 \in DOMAIN disk, file_size \in Nat, file_size # 0
  PROVE  /\ new_addr \in Nat /\ new_addr # 0
         /\ new_size \in Nat /\ new_size # 0
         /\ new_node_writes \in Seq(Writes)
<1>1. root_ptr \in Nat /\ free_ptr \in Nat
  BY HeaderPointers
<1>2. Read(free_ptr).next \in Nat
  BY <1>1, ReadSound, SoundBlocksAreSound, SoundArrays
<1>3. W(0, Header(root_ptr, Read(free_ptr).next)) \in Writes
  BY <1>1, <1>2, HeaderWrite
<1>4. new_node_writes \in Seq(Writes)
  BY <1>3 DEF new_node_writes
<1>5. QED
  BY <1>1, <1>4 DEF new_addr, new_size

\* free (btree.py:185-192).
LEMMA FreeWrites ==
  ASSUME DiskInv, 0 \in DOMAIN disk, NEW a \in Nat, a # 0
  PROVE  free_writes(a) \in Seq(Writes) /\ Len(free_writes(a)) = 2
<1>1. root_ptr \in Nat /\ free_ptr \in Nat
  BY HeaderPointers
<1>2. W(0, Header(root_ptr, a)) \in Writes
  BY <1>1, HeaderWrite
<1>3. W(a, FreeBlock(free_ptr)) \in Writes
  BY <1>1, OtherBlocksSound, NodeWrite
<1>4. QED
  BY <1>2, <1>3 DEF free_writes

-----------------------------------------------------------------------------
(* The nodes in memory *)

\* The node a step works on.
LEMMA TopFrame ==
  ASSUME IInv, pc \in {"search", "scan", "insert_up", "new_root", "delete_up"}
  PROVE  /\ 0 \in DOMAIN disk
         /\ Len(path) \in Nat /\ Len(path) >= 1
         /\ Top \in Frames /\ Top.addr \in Nat /\ Top.i \in 0..nkeys(Top.block)
         /\ Sound(Top.block)
         /\ Top.block.tag # "header" => Top.addr # 0
         /\ pc \in {"insert_up", "delete_up"} => Top.block.tag = "node"
<1>1. 0 \in DOMAIN disk
  BY DEF IInv, DiskInv
<1>2. path \in Seq(Frames) /\ path # <<>>
  BY DEF IInv, PathInv
<1>3. Len(path) \in Nat /\ Len(path) >= 1 /\ Len(path) \in 1..Len(path)
  BY <1>2, EmptySeq, LenProperties
<1>4. Top \in Frames
  BY <1>2, <1>3, ElementOfSeq DEF Top
<1>5. /\ Sound(Top.block) /\ Top.addr \in Nat /\ Top.i \in Nat
      /\ Top.i <= nkeys(Top.block)
      /\ Top.addr = 0 => Top.block.tag = "header"
  BY <1>4, SoundBlocksAreSound DEF Frames
<1>6. nkeys(Top.block) \in Nat
  BY <1>5, SoundArrays
<1>7. pc \in {"insert_up", "delete_up"} => Top.block.tag = "node"
  BY <1>3 DEF IInv, PathInv, Top
<1>8. QED
  BY <1>1, <1>3, <1>4, <1>5, <1>6, <1>7

\* The node above it.
LEMMA ParentFrame ==
  ASSUME IInv, pc \in {"search", "insert_up", "delete_up"}, ~AtRoot
  PROVE  /\ Len(path) >= 2
         /\ Parent \in Frames /\ Parent.addr \in Nat /\ Parent.i \in 0..nkeys(Parent.block)
         /\ Sound(Parent.block) /\ Parent.block.tag = "node"
         /\ Front(path) \in Seq(Frames)
         /\ Len(Front(path)) = Len(path) - 1
         /\ \A j \in 1..(Len(path) - 1) :
              Front(path)[j] = path[j] /\ path[j].block.tag = "node"
<1>1. path \in Seq(Frames)
  BY DEF IInv, PathInv
<1>2. Len(path) \in Nat /\ Len(path) >= 2
  BY TopFrame DEF AtRoot
<1>3. Len(path) - 1 \in 1..Len(path)
  BY <1>2
<1>4. Parent \in Frames
  BY <1>1, <1>3, ElementOfSeq DEF Parent
<1>5. /\ Sound(Parent.block) /\ Parent.addr \in Nat /\ Parent.i \in Nat
      /\ Parent.i <= nkeys(Parent.block)
  BY <1>4, SoundBlocksAreSound DEF Frames
<1>6. nkeys(Parent.block) \in Nat
  BY <1>5, SoundArrays
<1>7. Parent.block.tag = "node"
  BY <1>2, <1>3 DEF IInv, PathInv, Parent
<1>8. /\ Front(path) \in Seq(Frames)
      /\ Len(Front(path)) = Len(path) - 1
      /\ \A j \in 1..(Len(path) - 1) : Front(path)[j] = path[j]
  BY <1>1, <1>2 DEF Front
<1>9. \A j \in 1..(Len(path) - 1) : path[j].block.tag = "node"
  BY <1>2 DEF IInv, PathInv
<1>10. QED
  BY <1>2, <1>4, <1>5, <1>6, <1>7, <1>8, <1>9

\* The arguments of the call in progress.
LEMMA CallArguments ==
  ASSUME IInv, op \in Ops
  PROVE  /\ op.k \in Int \cup {None}
         /\ op.kind \in {"get", "insert", "update", "delete", "range"}
         /\ op.kind \in {"get", "insert", "update", "delete"} => op.k \in Int
         /\ op.kind \in {"insert", "update"} => op.v \in Int
<1>1. op \in Op
  BY OpsAssumption
<1>2. op.kind \in {"get", "insert", "update", "delete"} => op.k \in Int
  BY OpsAssumption
<1>3. op.kind \in {"insert", "update"} => op.v \in Int
  BY OpsAssumption
<1>4. op.kind # "none"
  BY OpsAssumption
<1>5. QED
  BY <1>1, <1>2, <1>3, <1>4 DEF Op, IntOrNone

-----------------------------------------------------------------------------
(* What the steps have in common *)

\* A handler that is done (Finish) leaves the invariant true.
LEMMA FinishInv ==
  ASSUME IInv, 0 \in DOMAIN disk, NEW r \in Results, NEW ws \in Seq(Writes),
         Finish(r, ws), file_size' \in Nat, file_size' # 0
  PROVE  IInv'
<1>1. DiskInv'
  BY DEF IInv, DiskInv, Finish
<1>2. PathInv'
  BY DEF Finish, PathInv
<1>3. CallInv'
  BY DEF IInv, CallInv, Finish, NoRv, ReturnValues, PC
<1>4. QED
  BY <1>1, <1>2, <1>3 DEF IInv

\* The results that are no range.
LEMMA ResultTypes ==
  /\ Done \in Results /\ Raised \in Results /\ NoResult \in Results
  /\ \A v \in Nat \cup {None} : Answer(v) \in Results
  /\ \A ps \in Seq(Nat \X Nat) : Pairs(ps) \in Results
BY DEF Done, Raised, NoResult, Answer, Pairs, Results

\* A split handed to the node above, or to a new root.
LEMMA ReturnSplitInv ==
  ASSUME IInv, pc \in {"search", "insert_up"},
         NEW a \in Nat, NEW k \in Nat, NEW ws \in Seq(Writes), ReturnSplit(a, k, ws)
  PROVE  IInv'
<1>1. 0 \in DOMAIN disk /\ Len(path) \in Nat /\ Len(path) >= 1
  BY TopFrame
<1>2. new_size \in Nat /\ new_size # 0
  BY <1>1, NewNode DEF IInv, CallInv
<1>3. DiskInv'
  BY <1>1 DEF IInv, DiskInv, ReturnSplit
<1>4. CallInv'
  BY <1>2 DEF IInv, CallInv, ReturnSplit, SplitOff, ReturnValues, PC
<1>5. CASE AtRoot
  <2>1. PathInv'
    <3>1. path' = path /\ pc' = "new_root" /\ Len(path) = 1
      BY <1>5 DEF ReturnSplit, AtRoot
    <3>2. QED
      BY <1>1, <3>1 DEF IInv, PathInv
  <2>2. QED
    BY <1>3, <1>4, <2>1 DEF IInv
<1>6. CASE ~AtRoot
  <2>1. path' = Front(path) /\ pc' = "insert_up"
    BY <1>6 DEF ReturnSplit
  <2>2. PathInv'
    <3>1. /\ Front(path) \in Seq(Frames) /\ Len(Front(path)) = Len(path) - 1
          /\ Len(path) >= 2
          /\ \A j \in 1..(Len(path) - 1) :
               Front(path)[j] = path[j] /\ path[j].block.tag = "node"
      BY <1>6, ParentFrame
    <3>2. QED
      BY <1>1, <2>1, <3>1 DEF PathInv
  <2>3. QED
    BY <1>3, <1>4, <2>2 DEF IInv
<1>7. QED
  BY <1>5, <1>6

\* A key of the parent changed in memory after an element was moved.
LEMMA ReturnBorrowInv ==
  ASSUME IInv, pc \in {"search", "delete_up"}, ~AtRoot,
         NEW ind \in Nat, ind < nkeys(Parent.block), NEW k \in Nat,
         NEW ws \in Seq(Writes), ReturnBorrow(ind, k, ws)
  PROVE  IInv'
<1> DEFINE n    == Len(path) - 1
           b    == [Parent.block EXCEPT !.keys[ind + 1] = k]
           f    == [Parent EXCEPT !.block = b]
           rest == Front(path)
<1>1. 0 \in DOMAIN disk
  BY TopFrame
<1>2. DiskInv'
  BY <1>1 DEF IInv, DiskInv, ReturnBorrow
<1>3. CallInv'
  BY DEF IInv, CallInv, ReturnBorrow, NoRv, ReturnValues, PC
<1>4. /\ rest \in Seq(Frames) /\ Len(rest) = n /\ n \in 1..Len(rest)
      /\ rest[n] = Parent
      /\ \A j \in 1..n : rest[j].block.tag = "node"
  <2>1. n \in 1..n
    BY TopFrame, ParentFrame
  <2>2. QED
    BY <2>1, ParentFrame DEF Parent
<1>5. f \in Frames /\ f.block.tag = "node"
  <2>1. Parent \in Frames /\ Sound(Parent.block) /\ Parent.block.tag = "node"
    BY ParentFrame
  <2>2. ind + 1 \in 1..nkeys(Parent.block)
    BY <2>1, SoundArrays
  <2>3. Sound(b) /\ b.tag = "node" /\ nkeys(b) = nkeys(Parent.block)
    BY <2>1, <2>2, KeyReplacedSound
  <2> HIDE DEF b
  <2>4. QED
    BY <2>1, <2>3, SoundBlocksAreSound DEF Frames
<1>6. path' = [rest EXCEPT ![n] = f]
  BY <1>4 DEF ReturnBorrow
<1> HIDE DEF rest, f, n
<1>7. /\ path' \in Seq(Frames) /\ Len(path') = Len(rest)
      /\ \A j \in 1..Len(rest) : path'[j] = IF j = n THEN f ELSE rest[j]
  BY <1>4, <1>5, <1>6, ExceptSeq
<1>8. PathInv'
  BY <1>4, <1>5, <1>7 DEF PathInv
<1>9. QED
  BY <1>2, <1>3, <1>8 DEF IInv

\* Two siblings merged: the parent gets the index of a key of its own to delete.
LEMMA ReturnMergeInv ==
  ASSUME IInv, pc \in {"search", "delete_up"}, ~AtRoot,
         NEW ind \in Nat, ind < nkeys(Parent.block),
         NEW right \in Nat, right # 0, NEW left \in Nat, left # 0,
         NEW merged, Sound(merged), ReturnMerge(ind, right, left, merged)
  PROVE  IInv'
<1>1. 0 \in DOMAIN disk
  BY TopFrame
<1>2. free_writes(right) \in Seq(Writes) /\ W(left, merged) \in Writes
  BY <1>1, FreeWrites, NodeWrite DEF IInv
<1>3. writes' \in Seq(Writes)
  BY <1>2, AppendProperties DEF ReturnMerge
<1>4. DiskInv'
  BY <1>1 DEF IInv, DiskInv, ReturnMerge
<1>5. path' = Front(path) /\ pc' = "delete_up" /\ rv' = DelInd(ind)
  BY DEF ReturnMerge
<1>6. PathInv'
  BY SMTT(30), ZenonT(30), <1>5, TopFrame, ParentFrame DEF PathInv
<1>7. Top' = Parent
  <2>1. Len(path) - 1 \in 1..(Len(path) - 1)
    BY TopFrame, ParentFrame
  <2>2. QED
    BY <1>5, <2>1, ParentFrame DEF Top, Parent
<1>8. CallInv'
  BY <1>3, <1>5, <1>7 DEF IInv, CallInv, ReturnMerge, DelInd, ReturnValues, PC
<1>9. QED
  BY <1>4, <1>6, <1>8 DEF IInv

-----------------------------------------------------------------------------
(* The invariant holds at first and is kept by every step *)

LEMMA InitInv == Init => IInv
<1> SUFFICES ASSUME Init PROVE IInv
  OBVIOUS
<1>1. DOMAIN disk = {}
  BY DEF Init
<1>2. DiskInv
  BY <1>1, FS_EmptySet DEF Init, DiskInv
<1>3. PathInv
  BY DEF Init, PathInv
<1>4. CallInv
  BY ResultTypes DEF Init, CallInv, PC, NoRv, ReturnValues
<1>5. QED
  BY <1>2, <1>3, <1>4 DEF IInv

\* A queued write reaches the file.
LEMMA WriteBlockInv == IInv /\ WriteBlock => IInv'
<1> SUFFICES ASSUME IInv, WriteBlock PROVE IInv'
  OBVIOUS
<1> DEFINE w == writes[1]
<1>1. writes \in Seq(Writes) /\ writes # <<>>
  BY DEF IInv, CallInv, WriteBlock
<1>2. /\ w \in Writes
      /\ Tail(writes) \in Seq(Writes)
  BY <1>1
<1>3. /\ w.addr \in Nat /\ w.block \in SoundBlocks
      /\ w.addr = 0 => w.block.tag = "header"
  BY <1>2 DEF Writes
<1>4. disk' = [a \in DOMAIN disk \cup {w.addr} |-> IF a = w.addr THEN w.block ELSE disk[a]]
  BY DEF WriteBlock
<1> HIDE DEF w
<1>5. DOMAIN disk' = DOMAIN disk \cup {w.addr}
  BY <1>4
<1>6. IsFiniteSet(DOMAIN disk')
  <2>1. IsFiniteSet(DOMAIN disk) /\ IsFiniteSet({w.addr})
    BY FS_Singleton DEF IInv, DiskInv
  <2>2. QED
    BY <1>5, <2>1, FS_Union
<1>7. disk' \in [DOMAIN disk' -> SoundBlocks] /\ DOMAIN disk' \subseteq Nat
  BY <1>3, <1>4, <1>5 DEF IInv, DiskInv
<1>8. 0 \in DOMAIN disk'
  BY <1>5 DEF IInv, DiskInv, CallInv, WriteBlock, w
<1>9. disk'[0].tag = "header"
  BY <1>3, <1>4, <1>5, <1>8 DEF IInv, DiskInv
<1>10. DiskInv'
  BY <1>6, <1>7, <1>8, <1>9 DEF DiskInv
<1>11. PathInv'
  BY DEF IInv, PathInv, WriteBlock
<1>12. CallInv'
  BY <1>2 DEF IInv, CallInv, WriteBlock, Top
<1>13. QED
  BY <1>10, <1>11, <1>12 DEF IInv

\* Opening, closing, calling and returning.
LEMMA CallerInv ==
  IInv /\ (OpenNew \/ OpenExisting \/ Close \/ Return \/ \E o \in Ops : Call(o)) => IInv'
<1> SUFFICES ASSUME IInv,
                    OpenNew \/ OpenExisting \/ Close \/ Return \/ \E o \in Ops : Call(o)
             PROVE  IInv'
  OBVIOUS
<1>1. CASE OpenNew
  <2>1. W(0, Header(1, 0)) \in Writes
    BY HeaderWrite
  <2>2. W(1, Leaf(<<>>, <<>>, 0)) \in Writes
    <3>1. Sound(Leaf(<<>>, <<>>, 0))
      <4>1. <<>> \in Seq(Nat) /\ Len(<<>>) = 0
        OBVIOUS
      <4>2. QED
        BY <4>1 DEF Sound, Fitting, Block, Leaf, nkeys
    <3>2. QED
      BY <3>1, NodeWrite
  <2>3. writes' \in Seq(Writes) /\ writes' # <<>> /\ writes'[1].addr = 0
    BY <1>1, <2>1, <2>2 DEF OpenNew, W
  <2>4. DiskInv'
    BY <1>1, <2>3 DEF IInv, DiskInv, OpenNew
  <2>5. PathInv'
    BY <1>1 DEF IInv, PathInv, OpenNew, At
  <2>6. CallInv'
    BY <1>1, <2>3 DEF IInv, CallInv, OpenNew, PC
  <2>7. QED
    BY <2>4, <2>5, <2>6 DEF IInv
<1>2. CASE OpenExisting
  <2>1. PICK last \in DOMAIN disk : file_size' = last + 1
    BY <1>2 DEF OpenExisting
  <2>2. file_size' \in Nat /\ file_size' # 0
    BY <2>1 DEF IInv, DiskInv
  <2>3. DiskInv'
    BY <1>2, <2>1 DEF IInv, DiskInv, OpenExisting
  <2>4. PathInv'
    BY <1>2 DEF IInv, PathInv, OpenExisting, At
  <2>5. CallInv'
    BY <1>2, <2>2 DEF IInv, CallInv, OpenExisting, PC
  <2>6. QED
    BY <2>3, <2>4, <2>5 DEF IInv
<1>3. CASE Close
  <2>1. DiskInv'
    BY <1>3 DEF IInv, DiskInv, Close, At
  <2>2. PathInv'
    BY <1>3 DEF IInv, PathInv, Close, At
  <2>3. CallInv'
    BY <1>3 DEF IInv, CallInv, Close, At, PC
  <2>4. QED
    BY <2>1, <2>2, <2>3 DEF IInv
<1>4. CASE Return
  <2>1. DiskInv'
    BY <1>4 DEF IInv, DiskInv, Return, At
  <2>2. PathInv'
    BY <1>4 DEF IInv, PathInv, Return, At
  <2>3. CallInv'
    BY <1>4 DEF IInv, CallInv, Return, At, PC
  <2>4. QED
    BY <2>1, <2>2, <2>3 DEF IInv
<1>5. ASSUME NEW o \in Ops, Call(o)
      PROVE  IInv'
  <2>1. 0 \in DOMAIN disk
    BY <1>5 DEF IInv, DiskInv, Call, At
  <2>2. Frame(root_ptr) \in Frames
    BY <2>1, HeaderPointers, FrameRead DEF IInv
  <2>3. DiskInv'
    BY <1>5, <2>1 DEF IInv, DiskInv, Call
  <2>4. PathInv'
    BY <1>5, <2>2 DEF PathInv, Call
  <2>5. CallInv'
    BY <1>5, ResultTypes DEF IInv, CallInv, Call, At, PC
  <2>6. QED
    BY <2>3, <2>4, <2>5 DEF IInv
<1>6. QED
  BY <1>1, <1>2, <1>3, <1>4, <1>5

\* One level down: the index is that of a child.
LEMMA DescendInv == IInv /\ Descend => IInv'
<1> SUFFICES ASSUME IInv, Descend PROVE IInv'
  OBVIOUS
<1> DEFINE b     == Top.block
           i     == child_index(b)
           addr  == b.values[i + 1]
           f     == [Top EXCEPT !.i = i]
           down  == [path EXCEPT ![Len(path)].i = i]
<1>1. pc = "search" /\ pc' = "search" /\ b.tag = "node"
  BY DEF Descend, At
<1>2. /\ 0 \in DOMAIN disk /\ Len(path) \in Nat /\ Len(path) >= 1
      /\ Top \in Frames /\ Sound(b)
  BY <1>1, TopFrame
<1>3. path \in Seq(Frames)
  BY DEF IInv, PathInv
<1>4. i \in 0..nkeys(b)
  <2>1. op \in Ops
    BY <1>1 DEF IInv, CallInv
  <2>2. CASE op.kind = "range" /\ op.k = None
    BY <1>2, <2>2, SoundArrays DEF child_index
  <2>3. CASE ~(op.kind = "range" /\ op.k = None)
    <3>1. op.k \in Int
      BY <2>1, <2>3, CallArguments
    <3>2. b \in Block
      BY <1>2 DEF Sound
    <3>3. search_node(b, op.k) \in 0..nkeys(b)
      BY <3>1, <3>2, SearchNodeRange
    <3>4. QED
      BY <2>3, <3>3 DEF child_index
  <2>4. QED
    BY <2>2, <2>3
<1>5. addr \in Nat
  <2>1. b.values \in Seq(Nat) /\ Len(b.values) = nkeys(b) + 1 /\ nkeys(b) \in Nat
    BY <1>1, <1>2, SoundArrays
  <2> HIDE DEF i
  <2>2. i + 1 \in 1..Len(b.values)
    BY <1>4, <2>1
  <2>3. QED
    BY <2>1, <2>2
<1>6. Frame(addr) \in Frames
  BY <1>2, <1>5, FrameRead DEF IInv
<1> HIDE DEF i
<1>7. f \in Frames /\ f.block = b
  <2>1. nkeys(b) \in Nat
    BY <1>2, SoundArrays
  <2>2. QED
    BY <1>2, <1>4, <2>1 DEF Frames
<1>8. path' = <<Frame(addr)>> \/ path' = Append(down, Frame(addr))
  BY DEF Descend, i
<1>9. CASE path' = <<Frame(addr)>>
  <2> HIDE DEF addr
  <2>1. PathInv'
    BY <1>1, <1>6, <1>9 DEF PathInv
  <2>2. DiskInv' /\ CallInv'
    BY <1>1, <1>2 DEF IInv, DiskInv, CallInv, Descend
  <2>3. QED
    BY <2>1, <2>2 DEF IInv
<1>10. CASE path' = Append(down, Frame(addr))
  <2>1. down = [path EXCEPT ![Len(path)] = f]
    BY DEF Top
  <2> HIDE DEF down, f, addr
  <2>2. Len(path) \in 1..Len(path)
    BY <1>2
  <2>3. /\ down \in Seq(Frames) /\ Len(down) = Len(path)
        /\ \A j \in 1..Len(path) : down[j] = IF j = Len(path) THEN f ELSE path[j]
    BY <1>3, <1>7, <2>1, <2>2, ExceptSeq
  <2>4. /\ path' \in Seq(Frames) /\ Len(path') = Len(path) + 1
        /\ \A j \in 1..Len(path) : path'[j] = down[j]
    BY <1>6, <1>10, <2>3, AppendProperties
  <2>5. \A j \in 1..Len(path) : path'[j].block.tag = "node"
    BY <1>1, <1>2, <1>7, <2>3, <2>4 DEF IInv, PathInv
  <2>6. PathInv'
    BY <1>1, <1>2, <2>4, <2>5 DEF PathInv
  <2>7. DiskInv' /\ CallInv'
    BY <1>1, <1>2 DEF IInv, DiskInv, CallInv, Descend
  <2>8. QED
    BY <2>6, <2>7 DEF IInv
<1>11. QED
  BY <1>8, <1>9, <1>10

\* The pairs a range takes from a leaf are pairs of words.
LEMMA TakenType ==
  ASSUME NEW b, Sound(b), b.tag = "leaf", NEW i \in 0..nkeys(b),
         op.limit \in Int \cup {None}, ret \in Results
  PROVE  taken(b, i) \in Seq(Nat \X Nat)
<1> DEFINE within == {j \in (i + 1)..nkeys(b) : op.hi = None \/ b.keys[j] <= op.hi}
           room   == IF op.limit = None THEN nkeys(b)
                     ELSE IF op.limit < 1 THEN 1 ELSE op.limit - Len(ret.pairs)
           n      == IF Cardinality(within) < room THEN Cardinality(within) ELSE room
<1>1. /\ b.keys \in Seq(Nat) /\ Len(b.keys) = nkeys(b)
      /\ b.values \in Seq(Nat) /\ Len(b.values) = nkeys(b)
      /\ nkeys(b) \in Nat
  BY SoundArrays
<1>2. Cardinality(within) \in Nat /\ Cardinality(within) <= nkeys(b) - i
  <2>1. /\ IsFiniteSet((i + 1)..nkeys(b))
        /\ Cardinality((i + 1)..nkeys(b)) = nkeys(b) - i
    BY SMTT(30), ZenonT(30), <1>1, FS_Interval
  <2>2. within \in SUBSET ((i + 1)..nkeys(b))
    OBVIOUS
  <2>3. QED
    BY <2>1, <2>2, FS_Subset, FS_CardinalityType
<1>3. room \in Int
  <2>1. Len(ret.pairs) \in Nat
    BY DEF Results
  <2>2. QED
    BY <1>1, <2>1
<1> HIDE DEF within, room
<1>4. n \in Int /\ n <= nkeys(b) - i
  BY <1>1, <1>2, <1>3
<1> HIDE DEF n
<1>5. \A j \in 1..n : <<b.keys[i + j], b.values[i + j]>> \in Nat \X Nat
  <2>1. SUFFICES ASSUME NEW j \in 1..n
                 PROVE  b.keys[i + j] \in Nat /\ b.values[i + j] \in Nat
    OBVIOUS
  <2> DEFINE h == i + j
  <2>2. h \in 1..Len(b.keys) /\ h \in 1..Len(b.values)
    BY <1>1, <1>4
  <2> HIDE DEF h
  <2>3. b.keys[h] \in Nat /\ b.values[h] \in Nat
    BY <1>1, <2>2, ElementOfSeq
  <2>4. QED
    BY <2>3 DEF h
<1>6. taken(b, i) = [j \in 1..n |-> <<b.keys[i + j], b.values[i + j]>>]
  BY DEF taken, within, room, n
<1> DEFINE pairs == [j \in 1..n |-> <<b.keys[i + j], b.values[i + j]>>]
<1>7. CASE n \in Nat
  <2>1. pairs \in [1..n -> Nat \X Nat]
    BY <1>5
  <2> HIDE DEF pairs
  <2>2. pairs \in Seq(Nat \X Nat)
    BY <1>7, <2>1
  <2>3. QED
    BY <1>6, <2>2 DEF pairs
<1>8. CASE n \notin Nat
  <2>1. 1..n = 1..0
    BY <1>4, <1>8
  <2>2. taken(b, i) = [j \in 1..0 |-> <<b.keys[i + j], b.values[i + j]>>]
    BY <1>6, <2>1
  <2>3. [j \in 1..0 |-> <<b.keys[i + j], b.values[i + j]>>] \in Seq(Nat \X Nat)
    OBVIOUS
  <2>4. QED
    BY <2>2, <2>3
<1>9. QED
  BY <1>7, <1>8

\* A range reads a leaf.
LEMMA ScanLeafInv == IInv /\ ScanLeaf => IInv'
<1> SUFFICES ASSUME IInv, ScanLeaf PROVE IInv'
  OBVIOUS
<1> DEFINE b      == Top.block
           i      == IF pc = "scan" \/ op.k = None THEN 0 ELSE search_leaf(b, op.k)
           result == Pairs(ret.pairs \o taken(b, i))
<1>1. pc \in {"search", "scan"} /\ b.tag = "leaf"
  BY DEF ScanLeaf, AtLeaf, At
<1>2. 0 \in DOMAIN disk /\ Sound(b) /\ b \in Block /\ nkeys(b) \in Nat /\ b.next \in Nat
  BY <1>1, TopFrame, SoundArrays DEF Sound
<1>3. op \in Ops /\ op \in Op
  BY <1>1, OpsAssumption DEF IInv, CallInv
<1>4. i \in 0..nkeys(b)
  BY <1>2, <1>3, CallArguments, SearchLeafRange
<1>5. taken(b, i) \in Seq(Nat \X Nat)
  <2>1. op.limit \in Int \cup {None}
    BY <1>3 DEF Op, IntOrNone
  <2>2. QED
    BY <1>1, <1>2, <1>4, <2>1, TakenType DEF IInv, CallInv
<1>6. result \in Results
  <2>1. ret.pairs \in Seq(Nat \X Nat)
    BY DEF IInv, CallInv, Results
  <2>2. ret.pairs \o taken(b, i) \in Seq(Nat \X Nat)
    BY <1>5, <2>1, Concat
  <2>3. QED
    BY <2>2, ResultTypes
<1>7. file_size' = file_size
  BY DEF ScanLeaf
<1>8. \/ Finish(result, <<>>)
      \/ /\ pc' = "scan" /\ ret' = result /\ path' = <<Frame(b.next)>>
         /\ UNCHANGED <<disk, op, rv, writes>>
  BY DEF ScanLeaf
<1> HIDE DEF result, i
<1>9. CASE Finish(result, <<>>)
  <2>1. file_size' \in Nat /\ file_size' # 0
    BY <1>1, <1>7 DEF IInv, CallInv
  <2>2. QED
    BY <1>2, <1>6, <1>9, <2>1, FinishInv, EmptySeq
<1>10. CASE /\ pc' = "scan" /\ ret' = result /\ path' = <<Frame(b.next)>>
            /\ UNCHANGED <<disk, op, rv, writes>>
  <2>1. Frame(b.next) \in Frames
    BY <1>2, FrameRead DEF IInv
  <2>2. DiskInv' /\ CallInv'
    BY <1>1, <1>2, <1>3, <1>6, <1>7, <1>10 DEF IInv, DiskInv, CallInv, PC
  <2>3. PathInv'
    BY <1>10, <2>1 DEF PathInv
  <2>4. QED
    BY <2>2, <2>3 DEF IInv
<1>11. QED
  BY <1>8, <1>9, <1>10

-----------------------------------------------------------------------------
(* Lookups, inserts and updates *)

\* What a handler that works on a leaf finds.
LEMMA LeafAtHand ==
  ASSUME IInv, pc = "search", Top.block.tag = "leaf",
         op.kind \in {"get", "insert", "update", "delete"}
  PROVE  /\ 0 \in DOMAIN disk /\ file_size \in Nat /\ file_size # 0
         /\ Sound(Top.block) /\ Top.addr \in Nat /\ Top.addr # 0
         /\ op \in Ops /\ op.k \in Int
         /\ search_leaf(Top.block, op.k) \in 0..nkeys(Top.block)
         /\ Found(Top.block, op.k) =>
              search_leaf(Top.block, op.k) \in 0..(nkeys(Top.block) - 1)
<1>1. /\ 0 \in DOMAIN disk /\ Sound(Top.block)
      /\ Top.addr \in Nat /\ Top.addr # 0
  BY TopFrame
<1>2. file_size \in Nat /\ file_size # 0 /\ op \in Ops
  BY DEF IInv, CallInv
<1>3. op.k \in Int
  BY <1>2, CallArguments
<1>4. Top.block \in Block /\ nkeys(Top.block) \in Nat
  BY <1>1, SoundArrays DEF Sound
<1>5. /\ search_leaf(Top.block, op.k) \in 0..nkeys(Top.block)
      /\ Found(Top.block, op.k) => search_leaf(Top.block, op.k) < nkeys(Top.block)
  BY <1>3, <1>4, SearchLeafRange
<1>6. QED
  BY <1>1, <1>2, <1>3, <1>4, <1>5

\* A word is a natural number.
LEMMA PackableNat ==
  ASSUME NEW x, Packable(x)
  PROVE  x \in Nat
BY DEF Packable

\* get
LEMMA GetInv == IInv /\ Get => IInv'
<1> SUFFICES ASSUME IInv, Get PROVE IInv'
  OBVIOUS
<1> DEFINE b == Top.block
           i == search_leaf(b, op.k)
           v == IF Found(b, op.k) THEN b.values[i + 1] ELSE None
<1>1. pc = "search" /\ b.tag = "leaf" /\ op.kind = "get" /\ file_size' = file_size
  BY DEF Get, AtLeaf, At
<1>2. /\ 0 \in DOMAIN disk /\ file_size \in Nat /\ file_size # 0 /\ Sound(b)
      /\ Found(b, op.k) => i \in 0..(nkeys(b) - 1)
  BY <1>1, LeafAtHand
<1>3. v \in Nat \cup {None}
  <2>1. b.values \in Seq(Nat) /\ Len(b.values) = nkeys(b) /\ nkeys(b) \in Nat
    BY <1>1, <1>2, SoundArrays
  <2> HIDE DEF i
  <2>2. CASE Found(b, op.k)
    <3>1. i + 1 \in 1..Len(b.values)
      BY <1>2, <2>1, <2>2
    <3>2. b.values[i + 1] \in Nat
      BY <2>1, <3>1, ElementOfSeq
    <3>3. QED
      BY <2>2, <3>2
  <2>3. QED
    BY <2>2
<1>4. Finish(Answer(v), <<>>)
  BY DEF Get
<1> HIDE DEF v
<1>5. Answer(v) \in Results
  BY <1>3, ResultTypes
<1>6. QED
  BY <1>1, <1>2, <1>4, <1>5, FinishInv, EmptySeq

\* An insert of a key that is there, a delete of one that is not.
LEMMA RefusedInv == IInv /\ (InsertDuplicate \/ DeleteMissing) => IInv'
<1> SUFFICES ASSUME IInv, InsertDuplicate \/ DeleteMissing PROVE IInv'
  OBVIOUS
<1>1. /\ pc = "search" /\ Top.block.tag = "leaf" /\ op.kind \in {"insert", "delete"}
      /\ file_size' = file_size /\ Finish(Raised, <<>>)
  BY DEF InsertDuplicate, DeleteMissing, AtLeaf, At
<1>2. 0 \in DOMAIN disk /\ file_size \in Nat /\ file_size # 0
  BY <1>1, LeafAtHand
<1>3. QED
  BY <1>1, <1>2, ResultTypes, FinishInv, EmptySeq

\* A handler that writes one node and is done.
LEMMA WriteAndFinishInv ==
  ASSUME IInv, 0 \in DOMAIN disk, file_size \in Nat, file_size # 0,
         file_size' = file_size, NEW a \in Nat, a # 0, NEW b, Sound(b),
         Finish(Done, <<W(a, b)>>)
  PROVE  IInv'
<1>1. <<W(a, b)>> \in Seq(Writes)
  BY NodeWrite
<1>2. QED
  BY <1>1, ResultTypes, FinishInv

\* update of a key that is there, insert or update into a leaf with room.
LEMMA LeafWriteInv == IInv /\ (UpdateLeaf \/ InsertLeaf) => IInv'
<1> SUFFICES ASSUME IInv, UpdateLeaf \/ InsertLeaf PROVE IInv'
  OBVIOUS
<1> DEFINE b == Top.block
           i == search_leaf(b, op.k)
<1>1. /\ pc = "search" /\ b.tag = "leaf" /\ op.kind \in {"insert", "update"}
      /\ file_size' = file_size
  BY DEF UpdateLeaf, InsertLeaf, AtInsertLeaf, AtLeaf, At
<1>2. /\ 0 \in DOMAIN disk /\ file_size \in Nat /\ file_size # 0
      /\ Sound(b) /\ Top.addr \in Nat /\ Top.addr # 0
      /\ i \in 0..nkeys(b)
      /\ Found(b, op.k) => i \in 0..(nkeys(b) - 1)
  BY <1>1, LeafAtHand
<1>3. CASE Finish(Raised, <<>>)
  BY <1>1, <1>2, <1>3, ResultTypes, FinishInv, EmptySeq
<1>4. CASE UpdateLeaf /\ Packable(op.v)
  <2>1. op.v \in Nat /\ Found(b, op.k)
    BY <1>4, PackableNat DEF UpdateLeaf
  <2>2. Sound(update_leaf(b, i, op.v))
    BY <1>1, <1>2, <2>1, UpdateLeafSound
  <2>3. Finish(Done, <<W(Top.addr, update_leaf(b, i, op.v))>>)
    BY <1>4 DEF UpdateLeaf
  <2>4. QED
    BY <1>1, <1>2, <2>2, <2>3, WriteAndFinishInv
<1>5. CASE InsertLeaf /\ Fits
  <2>1. op.k \in Nat /\ op.v \in Nat /\ nkeys(b) < MAX_NKEYS
    BY <1>5, PackableNat DEF InsertLeaf, Fits
  <2>2. Sound(leaf_insert(b, i, op.k, op.v))
    BY <1>1, <1>2, <2>1, LeafInsertSound
  <2>3. Finish(Done, <<W(Top.addr, leaf_insert(b, i, op.k, op.v))>>)
    BY <1>5 DEF InsertLeaf
  <2>4. QED
    BY <1>1, <1>2, <2>2, <2>3, WriteAndFinishInv
<1>6. QED
  BY <1>3, <1>4, <1>5 DEF UpdateLeaf, InsertLeaf

\* The split that raises leaves the header and the new size as they should be.
LEMMA InsertLeafSplitRaisesInv == IInv /\ InsertLeafSplitRaises => IInv'
<1> SUFFICES ASSUME IInv, InsertLeafSplitRaises PROVE IInv'
  OBVIOUS
<1>1. /\ pc = "search" /\ Top.block.tag = "leaf" /\ op.kind \in {"insert", "update"}
      /\ file_size' = new_size /\ Finish(Raised, new_node_writes)
  BY DEF InsertLeafSplitRaises, AtInsertLeaf, AtLeaf, At
<1>2. 0 \in DOMAIN disk /\ file_size \in Nat /\ file_size # 0
  BY <1>1, LeafAtHand
<1>3. new_size \in Nat /\ new_size # 0 /\ new_node_writes \in Seq(Writes)
  BY <1>2, NewNode DEF IInv
<1>4. QED
  BY <1>1, <1>2, <1>3, ResultTypes, FinishInv

\* What a split writes: the header if the new node was a free one, then the
\* two halves.
LEMMA SplitWrites ==
  ASSUME IInv, 0 \in DOMAIN disk, file_size \in Nat, file_size # 0,
         NEW a \in Nat, a # 0, NEW old, Sound(old), NEW new, Sound(new)
  PROVE  new_node_writes \o <<W(a, old), W(new_addr, new)>> \in Seq(Writes)
<1>1. new_node_writes \in Seq(Writes) /\ new_addr \in Nat /\ new_addr # 0
  BY NewNode DEF IInv
<1>2. W(a, old) \in Writes /\ W(new_addr, new) \in Writes
  BY <1>1, NodeWrite
<1>3. <<W(a, old), W(new_addr, new)>> \in Seq(Writes)
  BY <1>2
<1>4. QED
  BY <1>1, <1>3, Concat

\* insert_leaf on a full leaf.
LEMMA InsertLeafSplitInv == IInv /\ InsertLeafSplit => IInv'
<1> SUFFICES ASSUME IInv, InsertLeafSplit PROVE IInv'
  OBVIOUS
<1> DEFINE b == Top.block
           i == search_leaf(b, op.k)
           s == split_leaf(b, i, op.k, op.v, new_addr)
           ws == new_node_writes \o <<W(Top.addr, s.old), W(new_addr, s.new)>>
<1>1. /\ pc = "search" /\ b.tag = "leaf" /\ op.kind \in {"insert", "update"}
      /\ nkeys(b) >= MAX_NKEYS /\ Fits
  BY DEF InsertLeafSplit, AtInsertLeaf, AtLeaf, At
<1>2. /\ 0 \in DOMAIN disk /\ file_size \in Nat /\ file_size # 0
      /\ Sound(b) /\ Top.addr \in Nat /\ Top.addr # 0
      /\ i \in 0..nkeys(b)
  BY <1>1, LeafAtHand
<1>3. op.k \in Nat /\ op.v \in Nat /\ nkeys(b) = MAX_NKEYS
  BY <1>1, <1>2, PackableNat, SoundArrays DEF Fits
<1>4. new_addr \in Nat /\ new_addr # 0
  BY <1>2, NewNode DEF IInv
<1>5. Sound(s.old) /\ Sound(s.new) /\ s.new.keys[1] \in Nat
  BY <1>1, <1>2, <1>3, <1>4, SplitLeafSound
<1>6. ReturnSplit(new_addr, s.new.keys[1], ws)
  BY DEF InsertLeafSplit
<1> HIDE DEF s
<1>7. ws \in Seq(Writes)
  BY <1>2, <1>5, SplitWrites
<1> HIDE DEF ws
<1>8. QED
  BY <1>1, <1>4, <1>5, <1>6, <1>7, ReturnSplitInv

\* insert_node, with room and without.
LEMMA InsertNodeInv == IInv /\ (InsertNode \/ InsertNodeSplit) => IInv'
<1> SUFFICES ASSUME IInv, InsertNode \/ InsertNodeSplit PROVE IInv'
  OBVIOUS
<1> DEFINE b == Top.block
           i == Top.i
           n == node_insert(b, i, i + 1, rv.key, rv.addr)
           s == split_node(b, i, rv.key, rv.addr)
           ws == new_node_writes \o <<W(Top.addr, s.old), W(new_addr, s.new)>>
<1>1. pc = "insert_up" /\ b.tag = "node"
  BY DEF InsertNode, InsertNodeSplit, At
<1>2. /\ 0 \in DOMAIN disk /\ Sound(b) /\ Top.addr \in Nat /\ Top.addr # 0
      /\ i \in 0..nkeys(b)
  BY <1>1, TopFrame
<1>3. file_size \in Nat /\ file_size # 0 /\ rv.key \in Nat /\ rv.addr \in Nat
  BY <1>1 DEF IInv, CallInv, ReturnValues
<1>4. nkeys(b) \in Nat /\ nkeys(b) <= MAX_NKEYS
  BY <1>2, SoundArrays
<1>5. CASE InsertNode
  <2>1. nkeys(b) < MAX_NKEYS /\ i + 1 \in 0..(nkeys(b) + 1)
    BY <1>2, <1>4, <1>5 DEF InsertNode
  <2>2. Sound(n)
    BY <1>1, <1>2, <1>3, <2>1, NodeInsertSound
  <2>3. Finish(Done, <<W(Top.addr, n)>>) /\ file_size' = file_size
    BY <1>5 DEF InsertNode
  <2> HIDE DEF n
  <2>4. QED
    BY <1>2, <1>3, <2>2, <2>3, WriteAndFinishInv
<1>6. CASE InsertNodeSplit
  <2>1. nkeys(b) = MAX_NKEYS
    BY <1>4, <1>6 DEF InsertNodeSplit
  <2>2. Sound(s.old) /\ Sound(s.new) /\ s.key \in Nat
    BY <1>1, <1>2, <1>3, <2>1, SplitNodeSound
  <2>3. ReturnSplit(new_addr, s.key, ws)
    BY <1>6 DEF InsertNodeSplit
  <2>4. new_addr \in Nat
    BY <1>2, <1>3, NewNode DEF IInv
  <2> HIDE DEF s
  <2>5. ws \in Seq(Writes)
    BY <1>2, <1>3, <2>2, SplitWrites
  <2> HIDE DEF ws
  <2>6. QED
    BY <1>1, <2>2, <2>3, <2>4, <2>5, ReturnSplitInv
<1>7. QED
  BY <1>5, <1>6

\* A new root above the two halves of the old one.
LEMMA NewRootInv == IInv /\ NewRoot => IInv'
<1> SUFFICES ASSUME IInv, NewRoot PROVE IInv'
  OBVIOUS
<1> DEFINE root == Node(<<rv.key>>, <<Top.addr, rv.addr>>)
<1>1. pc = "new_root"
  BY DEF NewRoot, At
<1>2. 0 \in DOMAIN disk /\ Top.addr \in Nat
  BY <1>1, TopFrame
<1>3. file_size \in Nat /\ file_size # 0 /\ rv.key \in Nat /\ rv.addr \in Nat
  BY <1>1 DEF IInv, CallInv, ReturnValues
<1>4. /\ new_addr \in Nat /\ new_addr # 0 /\ new_node_writes \in Seq(Writes)
      /\ new_size \in Nat /\ new_size # 0
  BY <1>2, <1>3, NewNode DEF IInv
<1>5. Sound(root)
  <2> DEFINE ks == <<rv.key>>
             vs == <<Top.addr, rv.addr>>
  <2>1. ks \in Seq(Nat) /\ Len(ks) = 1 /\ vs \in Seq(Nat) /\ Len(vs) = 2
    BY <1>2, <1>3
  <2> HIDE DEF ks, vs
  <2>2. Len(ks) <= MAX_NKEYS /\ Len(vs) = Len(ks) + 1
    BY <2>1
  <2>3. Sound(Node(ks, vs))
    BY <2>1, <2>2, NodeSound
  <2>4. QED
    BY <2>3 DEF ks, vs
<1> HIDE DEF root
<1>6. W(new_addr, root) \in Writes
  BY <1>4, <1>5, NodeWrite
<1>7. new_node_writes \o <<W(new_addr, root)>> \in Seq(Writes)
  <2>1. <<W(new_addr, root)>> \in Seq(Writes)
    BY <1>6
  <2>2. QED
    BY <1>4, <2>1, Concat
<1>8. DiskInv'
  BY <1>2 DEF IInv, DiskInv, NewRoot
<1>9. PathInv'
  BY DEF NewRoot, PathInv
<1>10. CallInv'
  BY <1>4, <1>7 DEF IInv, CallInv, NewRoot, NewRootAt, ReturnValues, PC, root
<1>11. QED
  BY <1>8, <1>9, <1>10 DEF IInv

\* set_root
LEMMA SetRootInv == IInv /\ SetRoot => IInv'
<1> SUFFICES ASSUME IInv, SetRoot PROVE IInv'
  OBVIOUS
<1>1. 0 \in DOMAIN disk
  BY DEF IInv, DiskInv, SetRoot, At
<1>2. file_size \in Nat /\ file_size # 0 /\ rv.addr \in Nat
  BY DEF IInv, CallInv, ReturnValues, SetRoot, At
<1>3. free_ptr \in Nat
  BY <1>1, HeaderPointers DEF IInv
<1>4. set_root_writes(rv.addr) \in Seq(Writes)
  BY <1>2, <1>3, HeaderWrite DEF set_root_writes
<1>5. QED
  BY <1>1, <1>2, <1>4, ResultTypes, FinishInv DEF SetRoot

-----------------------------------------------------------------------------
(* Deletes *)

\* The minima leave room for a merge, and for a key less.
LEMMA Minima ==
  /\ MIN_NKEYS_LEAF \in Nat /\ MIN_NKEYS_LEAF >= 1
  /\ 2 * MIN_NKEYS_LEAF <= MAX_NKEYS + 1
  /\ MIN_NKEYS_NODE \in Nat /\ MIN_NKEYS_NODE >= 1
  /\ 2 * MIN_NKEYS_NODE <= MAX_NKEYS
BY DEF MIN_NKEYS_LEAF, MIN_NKEYS_NODE

\* get_sibs_and_nkeys: the siblings are sound blocks, and the key between each
\* of them and the node is a key of the parent.
LEMMA Siblings ==
  ASSUME IInv, pc \in {"search", "delete_up"}, ~AtRoot
  PROVE  /\ Parent.i \in Nat
         /\ has_left =>
              /\ left_addr \in Nat /\ Sound(left_sib)
              /\ left_sib.tag # "header" => left_addr # 0
              /\ Parent.i - 1 \in Nat /\ Parent.i - 1 < nkeys(Parent.block)
              /\ Parent.block.keys[Parent.i] \in Nat
         /\ has_right =>
              /\ right_addr \in Nat /\ Sound(right_sib)
              /\ right_sib.tag # "header" => right_addr # 0
              /\ Parent.i < nkeys(Parent.block)
              /\ Parent.block.keys[Parent.i + 1] \in Nat
<1> DEFINE p == Parent.block
           i == Parent.i
<1>1. 0 \in DOMAIN disk /\ i \in 0..nkeys(p) /\ Sound(p) /\ p.tag = "node"
  BY TopFrame, ParentFrame
<1>2. /\ p.keys \in Seq(Nat) /\ Len(p.keys) = nkeys(p)
      /\ p.values \in Seq(Nat) /\ Len(p.values) = nkeys(p) + 1
      /\ nkeys(p) \in Nat
  BY <1>1, SoundArrays
<1>3. \A a \in Nat : Sound(Read(a)) /\ (Read(a).tag # "header" => a # 0)
  BY <1>1, ReadSound, SoundBlocksAreSound DEF IInv
<1> HIDE DEF p, i
<1>4. ASSUME has_left
      PROVE  /\ left_addr \in Nat /\ Sound(left_sib)
             /\ left_sib.tag # "header" => left_addr # 0
             /\ Parent.i - 1 \in Nat /\ Parent.i - 1 < nkeys(Parent.block)
             /\ Parent.block.keys[Parent.i] \in Nat
  <2>1. i \in 1..Len(p.keys) /\ i \in 1..Len(p.values)
    BY <1>1, <1>2, <1>4 DEF has_left, i
  <2>2. p.keys[i] \in Nat /\ p.values[i] \in Nat
    BY <1>2, <2>1, ElementOfSeq
  <2>3. left_addr \in Nat
    BY <2>2 DEF left_addr, p, i
  <2>4. Sound(left_sib) /\ (left_sib.tag # "header" => left_addr # 0)
    BY <1>3, <2>3 DEF left_sib
  <2>5. i - 1 \in Nat /\ i - 1 < nkeys(p)
    BY <1>2, <2>1
  <2>6. QED
    BY <2>2, <2>3, <2>4, <2>5 DEF p, i
<1>5. ASSUME has_right
      PROVE  /\ right_addr \in Nat /\ Sound(right_sib)
             /\ right_sib.tag # "header" => right_addr # 0
             /\ Parent.i < nkeys(Parent.block)
             /\ Parent.block.keys[Parent.i + 1] \in Nat
  <2> DEFINE k == i + 1
             v == i + 2
  <2>1. i < nkeys(p) /\ i \in Nat
    BY <1>1, <1>5 DEF has_right, p, i
  <2>2. k \in 1..Len(p.keys) /\ v \in 1..Len(p.values)
    BY <1>2, <2>1
  <2> HIDE DEF k, v
  <2>3. p.keys[k] \in Nat /\ p.values[v] \in Nat
    BY <1>2, <2>2, ElementOfSeq
  <2>4. right_addr \in Nat
    BY <2>3 DEF right_addr, p, i, v
  <2>5. Sound(right_sib) /\ (right_sib.tag # "header" => right_addr # 0)
    BY <1>3, <2>4 DEF right_sib
  <2>6. QED
    BY <2>1, <2>3, <2>4, <2>5 DEF p, i, k
<1>6. Parent.i \in Nat
  BY <1>1, <1>2 DEF i, p
<1>7. QED
  BY <1>4, <1>5, <1>6

\* The leaf without the key, as delete_leaf has it in memory.
LEMMA PoppedLeaf ==
  ASSUME IInv, AtDeleteLeaf
  PROVE  /\ pc = "search" /\ 0 \in DOMAIN disk /\ file_size \in Nat /\ file_size # 0
         /\ Sound(popped_leaf) /\ popped_leaf.tag = "leaf" /\ nkeys(popped_leaf) \in Nat
         /\ Top.addr \in Nat /\ Top.addr # 0
<1>1. /\ pc = "search" /\ Top.block.tag = "leaf" /\ op.kind \in {"delete"}
      /\ Found(Top.block, op.k)
  BY DEF AtDeleteLeaf, AtLeaf, At
<1>2. /\ 0 \in DOMAIN disk /\ file_size \in Nat /\ file_size # 0
      /\ Sound(Top.block) /\ Top.addr \in Nat /\ Top.addr # 0
      /\ search_leaf(Top.block, op.k) \in 0..(nkeys(Top.block) - 1)
  BY <1>1, LeafAtHand
<1>3. Sound(popped_leaf) /\ popped_leaf.tag = "leaf"
  BY <1>1, <1>2, LeafPopSound DEF popped_leaf
<1>4. nkeys(popped_leaf) \in Nat
  BY <1>3, SoundArrays
<1>5. QED
  BY <1>1, <1>2, <1>3, <1>4

\* The node without the key and the child, as delete_node has it in memory.
LEMMA PoppedNode ==
  ASSUME IInv, AtDeleteNode
  PROVE  /\ pc = "delete_up" /\ 0 \in DOMAIN disk /\ file_size \in Nat /\ file_size # 0
         /\ Sound(popped_node) /\ popped_node.tag = "node" /\ nkeys(popped_node) \in Nat
         /\ Top.addr \in Nat /\ Top.addr # 0
<1>1. pc = "delete_up" /\ rv.ind # None /\ Top.block.tag = "node"
  BY DEF AtDeleteNode, At
<1>2. 0 \in DOMAIN disk /\ Sound(Top.block) /\ Top.addr \in Nat /\ Top.addr # 0
  BY <1>1, TopFrame
<1>3. /\ file_size \in Nat /\ file_size # 0
      /\ rv.ind \in Nat /\ rv.ind < nkeys(Top.block)
  BY <1>1 DEF IInv, CallInv, ReturnValues
<1>4. nkeys(Top.block) \in Nat
  BY <1>2, SoundArrays
<1>5. rv.ind \in 0..(nkeys(Top.block) - 1) /\ rv.ind + 1 \in 0..nkeys(Top.block)
  BY <1>3, <1>4
<1>6. Sound(popped_node) /\ popped_node.tag = "node"
  BY <1>1, <1>2, <1>5, NodePopSound DEF popped_node
<1>7. nkeys(popped_node) \in Nat
  BY <1>6, SoundArrays
<1>8. QED
  BY <1>1, <1>2, <1>3, <1>6, <1>7

\* A key or child address in a node is a natural number.
LEMMA FirstAndLast ==
  ASSUME NEW b, Sound(b), nkeys(b) >= 1, b.tag \in {"leaf", "node"}
  PROVE  /\ nkeys(b) \in Nat
         /\ b.keys[1] \in Nat /\ b.keys[nkeys(b)] \in Nat
         /\ b.values[1] \in Nat /\ b.values[nkeys(b)] \in Nat
         /\ b.tag = "node" => b.values[nkeys(b) + 1] \in Nat
<1> DEFINE n == nkeys(b)
           m == n + 1
<1>1. /\ b.keys \in Seq(Nat) /\ Len(b.keys) = n /\ n \in Nat
      /\ b.values \in Seq(Nat) /\ Len(b.values) >= n /\ Len(b.values) \in Nat
      /\ b.tag = "node" => Len(b.values) = m
  BY SoundArrays
<1> HIDE DEF n
<1>2. n >= 1
  BY DEF n
<1>3. /\ 1 \in 1..Len(b.keys) /\ n \in 1..Len(b.keys)
      /\ 1 \in 1..Len(b.values) /\ n \in 1..Len(b.values)
      /\ b.tag = "node" => m \in 1..Len(b.values)
  BY <1>1, <1>2
<1> HIDE DEF m
<1>4. QED
  BY <1>1, <1>3, ElementOfSeq DEF n, m

\* The writes of a move between siblings.
LEMMA TwoWrites ==
  ASSUME NEW a1 \in Nat, a1 # 0, NEW b1, Sound(b1),
         NEW a2 \in Nat, a2 # 0, NEW b2, Sound(b2)
  PROVE  <<W(a1, b1), W(a2, b2)>> \in Seq(Writes)
<1>1. W(a1, b1) \in Writes /\ W(a2, b2) \in Writes
  BY NodeWrite
<1>2. QED
  BY <1>1

\* A node that needs no rebalancing is written and the call is done.
LEMMA DeleteWriteInv ==
  IInv /\ (DeleteFromLeaf \/ DeleteFromNode \/ WriteModifiedNode) => IInv'
<1> SUFFICES ASSUME IInv, DeleteFromLeaf \/ DeleteFromNode \/ WriteModifiedNode
             PROVE  IInv'
  OBVIOUS
<1>1. CASE DeleteFromLeaf
  <2>1. AtDeleteLeaf /\ Finish(Done, <<W(Top.addr, popped_leaf)>>) /\ file_size' = file_size
    BY <1>1 DEF DeleteFromLeaf
  <2>2. QED
    BY <2>1, PoppedLeaf, WriteAndFinishInv
<1>2. CASE DeleteFromNode
  <2>1. AtDeleteNode /\ Finish(Done, <<W(Top.addr, popped_node)>>) /\ file_size' = file_size
    BY <1>2 DEF DeleteFromNode
  <2>2. QED
    BY <2>1, PoppedNode, WriteAndFinishInv
<1>3. CASE WriteModifiedNode
  <2>1. pc = "delete_up" /\ Finish(Done, <<W(Top.addr, Top.block)>>) /\ file_size' = file_size
    BY <1>3 DEF WriteModifiedNode, At
  <2>2. 0 \in DOMAIN disk /\ Sound(Top.block) /\ Top.addr \in Nat /\ Top.addr # 0
    BY <2>1, TopFrame
  <2>3. file_size \in Nat /\ file_size # 0
    BY <2>1 DEF IInv, CallInv
  <2>4. QED
    BY <2>1, <2>2, <2>3, WriteAndFinishInv
<1>4. QED
  BY <1>1, <1>2, <1>3

\* delete_leaf, an element from the left sibling.
LEMMA BorrowLeafLeftInv == IInv /\ BorrowLeafLeft => IInv'
<1> SUFFICES ASSUME IInv, BorrowLeafLeft PROVE IInv'
  OBVIOUS
<1> DEFINE n     == nkeys(left_sib)
           left  == leaf_pop(left_sib, n - 1)
           right == leaf_insert(popped_leaf, 0, left_sib.keys[n], left_sib.values[n])
           ws    == <<W(left_addr, left), W(Top.addr, right)>>
<1>1. /\ AtDeleteLeaf /\ ~AtRoot /\ nkeys(popped_leaf) < MIN_NKEYS_LEAF
      /\ has_left /\ left_sib.tag = "leaf" /\ n > MIN_NKEYS_LEAF
      /\ ReturnBorrow(Parent.i - 1, left_sib.keys[n], ws)
  BY DEF BorrowLeafLeft, LeafUnderflows, CanBorrowLeft
<1>2. /\ pc = "search"
      /\ Sound(popped_leaf) /\ popped_leaf.tag = "leaf" /\ nkeys(popped_leaf) \in Nat
      /\ Top.addr \in Nat /\ Top.addr # 0
  BY <1>1, PoppedLeaf
<1>3. /\ left_addr \in Nat /\ left_addr # 0 /\ Sound(left_sib)
      /\ Parent.i - 1 \in Nat /\ Parent.i - 1 < nkeys(Parent.block)
  BY <1>1, <1>2, Siblings
<1>4. n \in Nat /\ n >= 1
  BY <1>1, <1>3, Minima, SoundArrays
<1>5. left_sib.keys[n] \in Nat /\ left_sib.values[n] \in Nat
  BY <1>1, <1>3, <1>4, FirstAndLast
<1>6. Sound(left)
  BY <1>1, <1>3, <1>4, LeafPopSound
<1>7. Sound(right)
  <2>1. 0 \in 0..nkeys(popped_leaf) /\ nkeys(popped_leaf) < MAX_NKEYS
    BY <1>1, <1>2, Minima
  <2>2. QED
    BY <1>2, <1>5, <2>1, LeafInsertSound
<1> HIDE DEF left, right
<1>8. ws \in Seq(Writes)
  BY <1>2, <1>3, <1>6, <1>7, TwoWrites
<1> HIDE DEF n, ws
<1>9. QED
  BY <1>1, <1>2, <1>3, <1>5, <1>8, ReturnBorrowInv

\* delete_leaf, an element from the right sibling.
LEMMA BorrowLeafRightInv == IInv /\ BorrowLeafRight => IInv'
<1> SUFFICES ASSUME IInv, BorrowLeafRight PROVE IInv'
  OBVIOUS
<1> DEFINE n    == nkeys(popped_leaf)
           rest == leaf_pop(right_sib, 0)
           left == leaf_insert(popped_leaf, n, right_sib.keys[1], right_sib.values[1])
           ws   == <<W(right_addr, rest), W(Top.addr, left)>>
<1>1. /\ AtDeleteLeaf /\ ~AtRoot /\ n < MIN_NKEYS_LEAF
      /\ has_right /\ right_sib.tag = "leaf" /\ nkeys(right_sib) > MIN_NKEYS_LEAF
      /\ ReturnBorrow(Parent.i, rest.keys[1], ws)
  BY DEF BorrowLeafRight, LeafUnderflows, CanBorrowRight
<1>2. /\ pc = "search"
      /\ Sound(popped_leaf) /\ popped_leaf.tag = "leaf" /\ n \in Nat
      /\ Top.addr \in Nat /\ Top.addr # 0
  BY <1>1, PoppedLeaf
<1>3. /\ right_addr \in Nat /\ right_addr # 0 /\ Sound(right_sib)
      /\ Parent.i \in Nat /\ Parent.i < nkeys(Parent.block)
  BY <1>1, <1>2, Siblings
<1>4. nkeys(right_sib) \in Nat /\ nkeys(right_sib) >= 2
  BY <1>1, <1>3, Minima, SoundArrays
<1>5. right_sib.keys[1] \in Nat /\ right_sib.values[1] \in Nat
  BY <1>1, <1>3, <1>4, FirstAndLast
<1>6. Sound(rest) /\ rest.tag = "leaf" /\ nkeys(rest) = nkeys(right_sib) - 1
  <2>1. 0 \in 0..(nkeys(right_sib) - 1)
    BY <1>4
  <2>2. QED
    BY <1>1, <1>3, <2>1, LeafPopSound
<1>7. Sound(left)
  <2>1. n \in 0..nkeys(popped_leaf) /\ nkeys(popped_leaf) < MAX_NKEYS
    BY <1>1, <1>2, Minima
  <2>2. QED
    BY <1>2, <1>5, <2>1, LeafInsertSound
<1> HIDE DEF left, rest
<1>8. ws \in Seq(Writes)
  BY <1>2, <1>3, <1>6, <1>7, TwoWrites
<1>9. rest.keys[1] \in Nat
  BY <1>4, <1>6, FirstAndLast
<1> HIDE DEF n, ws
<1>10. QED
  BY <1>1, <1>2, <1>3, <1>8, <1>9, ReturnBorrowInv

\* delete_leaf, two leaves become one.
LEMMA MergeLeavesInv == IInv /\ MergeLeaves => IInv'
<1> SUFFICES ASSUME IInv, MergeLeaves PROVE IInv'
  OBVIOUS
<1>1. /\ AtDeleteLeaf /\ ~AtRoot /\ nkeys(popped_leaf) < MIN_NKEYS_LEAF
      /\ MustMerge(MIN_NKEYS_LEAF, "leaf")
  BY DEF MergeLeaves, LeafUnderflows
<1>2. /\ pc = "search"
      /\ Sound(popped_leaf) /\ popped_leaf.tag = "leaf" /\ nkeys(popped_leaf) \in Nat
      /\ Top.addr \in Nat /\ Top.addr # 0
  BY <1>1, PoppedLeaf
<1>3. CASE has_left
  <2> DEFINE merged == merge_leaves(left_sib, popped_leaf)
  <2>1. ReturnMerge(Parent.i - 1, Top.addr, left_addr, merged)
    BY <1>3 DEF MergeLeaves
  <2>2. left_sib.tag = "leaf" /\ nkeys(left_sib) <= MIN_NKEYS_LEAF
    BY <1>1, <1>3 DEF MustMerge
  <2>3. /\ left_addr \in Nat /\ left_addr # 0 /\ Sound(left_sib)
        /\ Parent.i - 1 \in Nat /\ Parent.i - 1 < nkeys(Parent.block)
    BY <1>1, <1>2, <1>3, <2>2, Siblings
  <2>4. nkeys(left_sib) + nkeys(popped_leaf) <= MAX_NKEYS
    BY <1>1, <1>2, <2>2, <2>3, Minima, SoundArrays
  <2>5. Sound(merged)
    BY <1>2, <2>3, <2>4, MergeLeavesSound
  <2> HIDE DEF merged
  <2>6. QED
    BY <1>1, <1>2, <2>1, <2>3, <2>5, ReturnMergeInv
<1>4. CASE ~has_left
  <2> DEFINE merged == merge_leaves(popped_leaf, right_sib)
  <2>1. ReturnMerge(Parent.i, right_addr, Top.addr, merged)
    BY <1>4 DEF MergeLeaves
  <2>2. has_right /\ right_sib.tag = "leaf" /\ nkeys(right_sib) <= MIN_NKEYS_LEAF
    BY <1>1, <1>4 DEF MustMerge
  <2>3. /\ right_addr \in Nat /\ right_addr # 0 /\ Sound(right_sib)
        /\ Parent.i \in Nat /\ Parent.i < nkeys(Parent.block)
    BY <1>1, <1>2, <2>2, Siblings
  <2>4. nkeys(popped_leaf) + nkeys(right_sib) <= MAX_NKEYS
    BY <1>1, <1>2, <2>2, <2>3, Minima, SoundArrays
  <2>5. Sound(merged)
    BY <1>2, <2>3, <2>4, MergeLeavesSound
  <2> HIDE DEF merged
  <2>6. QED
    BY <1>1, <1>2, <2>1, <2>3, <2>5, ReturnMergeInv
<1>5. QED
  BY <1>3, <1>4

\* delete_node of a root that is left with one child.
LEMMA ShrinkRootInv == IInv /\ ShrinkRoot => IInv'
<1> SUFFICES ASSUME IInv, ShrinkRoot PROVE IInv'
  OBVIOUS
<1> DEFINE child == popped_node.values[1]
<1>1. AtDeleteNode /\ nkeys(popped_node) = 0
  BY DEF ShrinkRoot
<1>2. /\ pc = "delete_up" /\ 0 \in DOMAIN disk /\ file_size \in Nat /\ file_size # 0
      /\ Sound(popped_node) /\ popped_node.tag = "node"
      /\ Top.addr \in Nat /\ Top.addr # 0
  BY <1>1, PoppedNode
<1>3. child \in Nat
  <2> DEFINE vs == popped_node.values
  <2>1. vs \in Seq(Nat) /\ Len(vs) = nkeys(popped_node) + 1
    BY <1>2, SoundArrays
  <2> HIDE DEF vs
  <2>2. 1 \in 1..Len(vs)
    BY <1>1, <2>1
  <2>3. vs[1] \in Nat
    BY <2>1, <2>2, ElementOfSeq
  <2>4. QED
    BY <2>3 DEF vs
<1>4. free_writes(Top.addr) \in Seq(Writes)
  BY <1>2, FreeWrites DEF IInv
<1> HIDE DEF child
<1>5. rv' \in ReturnValues
  BY <1>3 DEF ShrinkRoot, NewRootAt, ReturnValues, child
<1>6. DiskInv'
  BY <1>2 DEF IInv, DiskInv, ShrinkRoot
<1>7. PathInv'
  BY DEF ShrinkRoot, PathInv
<1>8. CallInv'
  BY <1>2, <1>4, <1>5 DEF IInv, CallInv, ShrinkRoot, PC
<1>9. QED
  BY <1>6, <1>7, <1>8 DEF IInv

\* delete_node, a child from the left sibling.
LEMMA BorrowNodeLeftInv == IInv /\ BorrowNodeLeft => IInv'
<1> SUFFICES ASSUME IInv, BorrowNodeLeft PROVE IInv'
  OBVIOUS
<1> DEFINE n     == nkeys(left_sib)
           key   == Parent.block.keys[Parent.i]
           child == left_sib.values[n + 1]
           left  == node_pop(left_sib, n - 1, n)
           right == node_insert(popped_node, 0, 0, key, child)
           ws    == <<W(left_addr, left), W(Top.addr, right)>>
<1>1. /\ AtDeleteNode /\ ~AtRoot /\ nkeys(popped_node) < MIN_NKEYS_NODE
      /\ has_left /\ left_sib.tag = "node" /\ n > MIN_NKEYS_NODE
      /\ ReturnBorrow(Parent.i - 1, left_sib.keys[n], ws)
  BY DEF BorrowNodeLeft, NodeUnderflows, CanBorrowLeft
<1>2. /\ pc = "delete_up"
      /\ Sound(popped_node) /\ popped_node.tag = "node" /\ nkeys(popped_node) \in Nat
      /\ Top.addr \in Nat /\ Top.addr # 0
  BY <1>1, PoppedNode
<1>3. /\ left_addr \in Nat /\ left_addr # 0 /\ Sound(left_sib)
      /\ Parent.i - 1 \in Nat /\ Parent.i - 1 < nkeys(Parent.block) /\ key \in Nat
  BY <1>1, <1>2, Siblings
<1>4. n \in Nat /\ n >= 1
  BY <1>1, <1>3, Minima, SoundArrays
<1>5. left_sib.keys[n] \in Nat /\ child \in Nat
  BY <1>1, <1>3, <1>4, FirstAndLast
<1>6. Sound(left)
  <2>1. n - 1 \in 0..(n - 1) /\ n \in 0..n
    BY <1>4
  <2>2. QED
    BY <1>1, <1>3, <2>1, NodePopSound
<1> HIDE DEF key, child
<1>7. Sound(right)
  <2>1. /\ 0 \in 0..nkeys(popped_node) /\ 0 \in 0..(nkeys(popped_node) + 1)
        /\ nkeys(popped_node) < MAX_NKEYS
    BY <1>1, <1>2, Minima
  <2>2. QED
    BY <1>2, <1>3, <1>5, <2>1, NodeInsertSound
<1> HIDE DEF left, right
<1>8. ws \in Seq(Writes)
  BY <1>2, <1>3, <1>6, <1>7, TwoWrites
<1> HIDE DEF n, ws
<1>9. QED
  BY <1>1, <1>2, <1>3, <1>5, <1>8, ReturnBorrowInv

\* delete_node, a child from the right sibling.
LEMMA BorrowNodeRightInv == IInv /\ BorrowNodeRight => IInv'
<1> SUFFICES ASSUME IInv, BorrowNodeRight PROVE IInv'
  OBVIOUS
<1> DEFINE n     == nkeys(popped_node)
           key   == Parent.block.keys[Parent.i + 1]
           child == right_sib.values[1]
           rest  == node_pop(right_sib, 0, 0)
           left  == node_insert(popped_node, n, n + 1, key, child)
           ws    == <<W(right_addr, rest), W(Top.addr, left)>>
<1>1. /\ AtDeleteNode /\ ~AtRoot /\ n < MIN_NKEYS_NODE
      /\ has_right /\ right_sib.tag = "node" /\ nkeys(right_sib) > MIN_NKEYS_NODE
      /\ ReturnBorrow(Parent.i, right_sib.keys[1], ws)
  BY DEF BorrowNodeRight, NodeUnderflows, CanBorrowRight
<1>2. /\ pc = "delete_up"
      /\ Sound(popped_node) /\ popped_node.tag = "node" /\ n \in Nat
      /\ Top.addr \in Nat /\ Top.addr # 0
  BY <1>1, PoppedNode
<1>3. /\ right_addr \in Nat /\ right_addr # 0 /\ Sound(right_sib)
      /\ Parent.i \in Nat /\ Parent.i < nkeys(Parent.block) /\ key \in Nat
  BY <1>1, <1>2, Siblings
<1>4. nkeys(right_sib) \in Nat /\ nkeys(right_sib) >= 1
  BY <1>1, <1>3, Minima, SoundArrays
<1>5. right_sib.keys[1] \in Nat /\ child \in Nat
  BY <1>1, <1>3, <1>4, FirstAndLast
<1>6. Sound(rest)
  <2>1. 0 \in 0..(nkeys(right_sib) - 1) /\ 0 \in 0..nkeys(right_sib)
    BY <1>4
  <2>2. QED
    BY <1>1, <1>3, <2>1, NodePopSound
<1> HIDE DEF key, child
<1>7. Sound(left)
  <2>1. n \in 0..n /\ n + 1 \in 0..(n + 1) /\ n < MAX_NKEYS
    BY <1>1, <1>2, Minima
  <2>2. QED
    BY <1>2, <1>3, <1>5, <2>1, NodeInsertSound
<1> HIDE DEF left, rest
<1>8. ws \in Seq(Writes)
  BY <1>2, <1>3, <1>6, <1>7, TwoWrites
<1> HIDE DEF n, ws
<1>9. QED
  BY <1>1, <1>2, <1>3, <1>5, <1>8, ReturnBorrowInv

\* delete_node, two nodes and the key between them become one.
LEMMA MergeNodesInv == IInv /\ MergeNodes => IInv'
<1> SUFFICES ASSUME IInv, MergeNodes PROVE IInv'
  OBVIOUS
<1>1. /\ AtDeleteNode /\ ~AtRoot /\ nkeys(popped_node) < MIN_NKEYS_NODE
      /\ MustMerge(MIN_NKEYS_NODE, "node")
  BY DEF MergeNodes, NodeUnderflows
<1>2. /\ pc = "delete_up"
      /\ Sound(popped_node) /\ popped_node.tag = "node" /\ nkeys(popped_node) \in Nat
      /\ Top.addr \in Nat /\ Top.addr # 0
  BY <1>1, PoppedNode
<1>3. CASE has_left
  <2> DEFINE key    == Parent.block.keys[Parent.i]
             merged == merge_nodes(left_sib, key, popped_node)
  <2>1. ReturnMerge(Parent.i - 1, Top.addr, left_addr, merged)
    BY <1>3 DEF MergeNodes
  <2>2. left_sib.tag = "node" /\ nkeys(left_sib) <= MIN_NKEYS_NODE
    BY <1>1, <1>3 DEF MustMerge
  <2>3. /\ left_addr \in Nat /\ left_addr # 0 /\ Sound(left_sib) /\ key \in Nat
        /\ Parent.i - 1 \in Nat /\ Parent.i - 1 < nkeys(Parent.block)
    BY <1>1, <1>2, <1>3, <2>2, Siblings
  <2> HIDE DEF key
  <2>4. nkeys(left_sib) + nkeys(popped_node) + 1 <= MAX_NKEYS
    BY <1>1, <1>2, <2>2, <2>3, Minima, SoundArrays
  <2>5. Sound(merged)
    BY <1>2, <2>3, <2>4, MergeNodesSound
  <2> HIDE DEF merged
  <2>6. QED
    BY <1>1, <1>2, <2>1, <2>3, <2>5, ReturnMergeInv
<1>4. CASE ~has_left
  <2> DEFINE key    == Parent.block.keys[Parent.i + 1]
             merged == merge_nodes(popped_node, key, right_sib)
  <2>1. ReturnMerge(Parent.i, right_addr, Top.addr, merged)
    BY <1>4 DEF MergeNodes
  <2>2. has_right /\ right_sib.tag = "node" /\ nkeys(right_sib) <= MIN_NKEYS_NODE
    BY <1>1, <1>4 DEF MustMerge
  <2>3. /\ right_addr \in Nat /\ right_addr # 0 /\ Sound(right_sib) /\ key \in Nat
        /\ Parent.i \in Nat /\ Parent.i < nkeys(Parent.block)
    BY <1>1, <1>2, <2>2, Siblings
  <2> HIDE DEF key
  <2>4. nkeys(popped_node) + nkeys(right_sib) + 1 <= MAX_NKEYS
    BY <1>1, <1>2, <2>2, <2>3, Minima, SoundArrays
  <2>5. Sound(merged)
    BY <1>2, <2>3, <2>4, MergeNodesSound
  <2> HIDE DEF merged
  <2>6. QED
    BY <1>1, <1>2, <2>1, <2>3, <2>5, ReturnMergeInv
<1>5. QED
  BY <1>3, <1>4

-----------------------------------------------------------------------------
(* The theorems *)

\* No step of the code or of its caller leaves the invariant.
LEMMA StepInv == IInv /\ [Next]_vars => IInv'
<1> SUFFICES ASSUME IInv, [Next]_vars PROVE IInv'
  OBVIOUS
<1>1. CASE CallerStep \/ Return
  BY <1>1, CallerInv DEF CallerStep
<1>2. CASE WriteBlock \/ Descend \/ Get \/ ScanLeaf \/ SetRoot
  BY <1>2, WriteBlockInv, DescendInv, GetInv, ScanLeafInv, SetRootInv
<1>3. CASE InsertStep
  BY <1>3, RefusedInv, LeafWriteInv, InsertLeafSplitRaisesInv, InsertLeafSplitInv,
     InsertNodeInv, NewRootInv DEF InsertStep
<1>4. CASE DeleteStep
  BY <1>4, RefusedInv, DeleteWriteInv, BorrowLeafLeftInv, BorrowLeafRightInv,
     MergeLeavesInv, ShrinkRootInv, BorrowNodeLeftInv, BorrowNodeRightInv,
     MergeNodesInv DEF DeleteStep
<1>5. CASE UNCHANGED vars
  BY <1>5 DEF vars, IInv, DiskInv, PathInv, CallInv, Top
<1>6. QED
  BY <1>1, <1>2, <1>3, <1>4, <1>5 DEF Next, CodeStep

\* A sequence over a set is one over a larger set.
LEMMA SeqOfSubset ==
  ASSUME NEW T, NEW S \in SUBSET T, NEW s \in Seq(S)
  PROVE  s \in Seq(T)
<1>1. Len(s) \in Nat /\ s = [j \in 1..Len(s) |-> s[j]]
  BY LenProperties
<1>2. \A j \in 1..Len(s) : s[j] \in T
  BY ElementOfSeq
<1>3. QED
  BY <1>1, <1>2

\* The inductive invariant: what each handler of btree.py needs of the ones
\* before it, in every reachable state.
THEOREM InvariantHolds == Spec => []IInv
<1>1. Init => IInv
  BY InitInv
<1>2. IInv /\ [Next]_vars => IInv'
  BY StepInv
<1>3. QED
  BY <1>1, <1>2, PTL DEF Spec

\* Every variable keeps its type, whatever the capacity and the calls.
THEOREM TypeCorrect == Spec => []TypeOK
<1>1. IInv => TypeOK
  <2> SUFFICES ASSUME IInv PROVE TypeOK
    OBVIOUS
  <2>1. disk \in [DOMAIN disk -> Block]
    BY DEF IInv, DiskInv, SoundBlocks
  <2>2. path \in Seq([addr : Nat, block : Block, i : Nat])
    <3>1. Frames \subseteq [addr : Nat, block : Block, i : Nat]
      BY DEF Frames, SoundBlocks
    <3>2. QED
      BY <3>1, SeqOfSubset DEF IInv, PathInv
  <2>3. writes \in Seq([addr : Nat, block : Block])
    <3>1. Writes \subseteq [addr : Nat, block : Block]
      BY DEF Writes, SoundBlocks
    <3>2. QED
      BY <3>1, SeqOfSubset DEF IInv, CallInv
  <2>4. QED
    BY <2>1, <2>2, <2>3 DEF IInv, DiskInv, CallInv, TypeOK
<1>2. QED
  BY <1>1, InvariantHolds, PTL

\* No array of a node ever runs over and no value loses its key, in the file,
\* in memory or on the way between them: the capacity checks of insert_leaf and
\* insert_node and the minima of delete_leaf and delete_node are enough for
\* every capacity from 2 on.
THEOREM NodesAlwaysFit == Spec => []NodesFit
<1>1. IInv => NodesFit
  <2> SUFFICES ASSUME IInv PROVE NodesFit
    OBVIOUS
  <2>1. \A a \in DOMAIN disk : Fitting(disk[a])
    BY DEF IInv, DiskInv, SoundBlocks
  <2>2. \A j \in 1..Len(path) : Fitting(path[j].block)
    <3>1. \A f \in Frames : Fitting(f.block)
      BY DEF Frames, SoundBlocks
    <3>2. path \in Seq(Frames)
      BY DEF IInv, PathInv
    <3>3. QED
      BY <3>1, <3>2, ElementOfSeq
  <2>3. \A j \in 1..Len(writes) : Fitting(writes[j].block)
    <3>1. \A w \in Writes : Fitting(w.block)
      BY DEF Writes, SoundBlocks
    <3>2. writes \in Seq(Writes)
      BY DEF IInv, CallInv
    <3>3. QED
      BY <3>1, <3>2, ElementOfSeq
  <2>4. QED
    BY <2>1, <2>2, <2>3 DEF NodesFit
<1>2. QED
  BY <1>1, InvariantHolds, PTL
=============================================================================
