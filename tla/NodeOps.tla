------------------------------ MODULE NodeOps ------------------------------
(***************************************************************************)
(* Blocks of a bongodb file and the operations on one node buffer, as      *)
(* btree.py performs them on the arrays `keys` and `values` of a NodeBuf.  *)
(*                                                                         *)
(* A block is a record.  `keys` and `values` are the live prefixes of the  *)
(* two arrays, so get_nkeys() is Len(b.keys); the slots behind the prefix  *)
(* are not kept.  Indices are those of the code (from 0); slot i of an     *)
(* array is arr[i+1].  Addresses are block numbers: byte address divided   *)
(* by BLOCK_SIZE.  The address 0 is the header and doubles as null.        *)
(***************************************************************************)
EXTENDS Integers, FiniteSets, SequencesExt

CONSTANT MAX_NKEYS  \* the capacity of a node; 255 with 4096-byte blocks

\* The capacity the code can be built with: pybtree.py:6 asserts n >= 2, and
\* MIN_NKEYS_NODE must not be 0.
ASSUME MaxNkeysAssumption == MAX_NKEYS \in Nat /\ MAX_NKEYS >= 2

MIN_NKEYS_LEAF == (MAX_NKEYS + 1) \div 2
MIN_NKEYS_NODE == MAX_NKEYS \div 2

-----------------------------------------------------------------------------
(* Blocks *)

Tags == {"header", "leaf", "node", "free"}

\* A leaf: values[MAX_NKEYS], the slot after the largest leaf, is `next`.
Leaf(keys, values, next) ==
  [tag |-> "leaf", keys |-> keys, values |-> values, next |-> next]

\* An inner node: values holds one child address more than there are keys.
Node(keys, values) ==
  [tag |-> "node", keys |-> keys, values |-> values, next |-> 0]

\* A block of the free list: nkeys is INVALID_NKEYS, `next` the next free block.
FreeBlock(next) ==
  [tag |-> "free", keys |-> <<>>, values |-> <<>>, next |-> next]

\* Block 0: root pointer and free list pointer.
Header(root_ptr, free_ptr) ==
  [tag |-> "header", keys |-> <<>>, values |-> <<root_ptr, free_ptr>>, next |-> 0]

\* What a read finds where nothing was written: nkeys = 0, is_leaf = 0, pointers 0.
ZeroBlock == Node(<<>>, <<0>>)

nkeys(b) == Len(b.keys)

\* The blocks: keys, values and pointers are unsigned words.
Block == [tag : Tags, keys : Seq(Nat), values : Seq(Nat), next : Nat]

\* What lies inside the arrays of a block: at most MAX_NKEYS keys, a value for
\* each key of a leaf, one child more than keys in an inner node.
Fitting(b) ==
  /\ nkeys(b) <= MAX_NKEYS
  /\ b.tag = "leaf" => Len(b.values) = nkeys(b)
  /\ b.tag = "node" => Len(b.values) = nkeys(b) + 1
  /\ b.tag = "header" => Len(b.values) = 2

-----------------------------------------------------------------------------
(* Arrays *)

\* The first n slots of an array: a slot behind the live prefix reads as 0.
Slots(arr, n) == [j \in 1..n |-> IF j <= Len(arr) THEN arr[j] ELSE 0]

array_insert(arr, index, x) == InsertAt(arr, index + 1, x)

array_delete(arr, index) == RemoveAt(arr, index + 1)

array_merge_append(src, dest) == dest \o src

\* The two arrays array_insert_split leaves: x goes to `index`, then the
\* elements from `midpoint` on are in the new array.
split_low(arr, index, midpoint, x) ==
  SubSeq(array_insert(arr, index, x), 1, midpoint)

split_high(arr, index, midpoint, x) ==
  SubSeq(array_insert(arr, index, x), midpoint + 1, Len(arr) + 1)

-----------------------------------------------------------------------------
(* Search within a node *)

\* Mutant of search_node: a key equal to a separator is looked for left of it.
search_node_strict(b, k) == Cardinality({j \in 1..nkeys(b) : b.keys[j] < k})

\* search_node: the index of the child for k, the number of keys up to k.
search_node(b, k) == Cardinality({j \in 1..nkeys(b) : b.keys[j] <= k})

\* search_leaf: the index of k, or where k would go, and whether k is there.
search_leaf(b, k) == Cardinality({j \in 1..nkeys(b) : b.keys[j] < k})

Found(b, k) == \E j \in 1..nkeys(b) : b.keys[j] = k

-----------------------------------------------------------------------------
(* Operations on a node buffer *)

leaf_insert(leaf, i, k, v) ==
  Leaf(array_insert(leaf.keys, i, k), array_insert(leaf.values, i, v), leaf.next)

leaf_pop(leaf, i) ==
  Leaf(array_delete(leaf.keys, i), array_delete(leaf.values, i), leaf.next)

node_insert(node, ind_k, ind_v, k, v) ==
  Node(array_insert(node.keys, ind_k, k), array_insert(node.values, ind_v, v))

node_pop(node, ind_k, ind_v) ==
  Node(array_delete(node.keys, ind_k), array_delete(node.values, ind_v))

update_leaf(leaf, i, v) == [leaf EXCEPT !.values[i + 1] = v]

\* Mutant of split_leaf: the old leaf goes on pointing past the new one.
split_leaf_unlinked(leaf, i, k, v, new_addr) ==
  LET midpoint == (nkeys(leaf) + 2) \div 2
  IN  [old |-> Leaf(split_low(leaf.keys, i, midpoint, k),
                    split_low(leaf.values, i, midpoint, v), leaf.next),
       new |-> Leaf(split_high(leaf.keys, i, midpoint, k),
                    split_high(leaf.values, i, midpoint, v), leaf.next)]

\* insert_leaf on a full leaf: the leaf that stays at its address and the
\* new one at new_addr, linked in behind it.
split_leaf(leaf, i, k, v, new_addr) ==
  LET midpoint == (nkeys(leaf) + 2) \div 2
  IN  [old |-> Leaf(split_low(leaf.keys, i, midpoint, k),
                    split_low(leaf.values, i, midpoint, v), new_addr),
       new |-> Leaf(split_high(leaf.keys, i, midpoint, k),
                    split_high(leaf.values, i, midpoint, v), leaf.next)]

\* insert_node on a full node: the middle key goes to the parent.
split_node(node, i, new_key, new_child) ==
  LET kmidpoint == (MAX_NKEYS + 1) \div 2
      vmidpoint == kmidpoint + 1
      low       == split_low(node.keys, i, kmidpoint + 1, new_key)
  IN  [old |-> Node(SubSeq(low, 1, kmidpoint),
                    split_low(node.values, i + 1, vmidpoint, new_child)),
       new |-> Node(split_high(node.keys, i, kmidpoint + 1, new_key),
                    split_high(node.values, i + 1, vmidpoint, new_child)),
       key |-> low[kmidpoint + 1]]

\* Mutant of merge_leaves: a value too many is copied, as it is for inner nodes.
merge_leaves_as_nodes(left, right) ==
  Leaf(array_merge_append(right.keys, left.keys),
       array_merge_append(Slots(right.values, nkeys(right) + 1),
                          Slots(left.values, nkeys(left) + 1)),
       right.next)

\* Mutant of merge_leaves: the merged leaf goes on pointing to the freed one.
merge_leaves_unlinked(left, right) ==
  Leaf(array_merge_append(right.keys, left.keys),
       array_merge_append(Slots(right.values, nkeys(right)),
                          Slots(left.values, nkeys(left))),
       left.next)

\* delete_leaf's merge: the right leaf's elements and its successor go left.
merge_leaves(left, right) ==
  Leaf(array_merge_append(right.keys, left.keys),
       array_merge_append(Slots(right.values, nkeys(right)),
                          Slots(left.values, nkeys(left))),
       right.next)

\* delete_node's merge: the key between the two is pulled down from the parent.
merge_nodes(left, key_between, right) ==
  Node(array_merge_append(right.keys, Append(left.keys, key_between)),
       array_merge_append(Slots(right.values, nkeys(right) + 1),
                          Slots(left.values, nkeys(left) + 1)))
=============================================================================
