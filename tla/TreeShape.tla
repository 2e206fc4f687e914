----------------------------- MODULE TreeShape -----------------------------
(***************************************************************************)
(* The tree, the list of leaves and the free list, as a reader of a        *)
(* bongodb file finds them by following the pointers from the header, and  *)
(* what makes them sound.  Used for the file of btree.py and of btree.c.   *)
(* A file is a function from block numbers to blocks.                      *)
(***************************************************************************)
EXTENDS NodeOps

BlockAt(file, addr) == IF addr \in DOMAIN file THEN file[addr] ELSE ZeroBlock
RootOf(file)        == BlockAt(file, 0).values[1]
FreeOf(file)        == BlockAt(file, 0).values[2]

\* The blocks reached from the root by following at most n child pointers.
ReachedIn(file) ==
  LET up_to[n \in Nat] ==
        IF n = 0 THEN {RootOf(file)}
        ELSE LET above == up_to[n - 1]
             IN  above \cup UNION {ToSet(BlockAt(file, a).values) :
                                    a \in {b \in above : BlockAt(file, b).tag = "node"}}
  IN  up_to

Reached(file) == ReachedIn(file)[Cardinality(DOMAIN file)]

TreeLeaves(file) == {a \in Reached(file) : BlockAt(file, a).tag = "leaf"}
TreeNodes(file)  == {a \in Reached(file) : BlockAt(file, a).tag = "node"}

\* The nodes from a down to a leaf, by their first children.
Depths(file) ==
  LET down[a \in Reached(file)] ==
        IF BlockAt(file, a).tag = "node" THEN 1 + down[BlockAt(file, a).values[1]] ELSE 1
  IN  down

Depth(file) == Depths(file)[RootOf(file)]

Entry(file, a, k) == BlockAt(file, a).values[search_leaf(BlockAt(file, a), k) + 1]

\* The map the leaves in the set `leaves` hold.
MapOf(file, leaves) ==
  [k \in UNION {ToSet(BlockAt(file, a).keys) : a \in leaves} |->
     LET home == CHOOSE a \in leaves : Found(BlockAt(file, a), k) IN Entry(file, home, k)]

TreeContent(file) == MapOf(file, IF DOMAIN file = {} THEN {} ELSE TreeLeaves(file))

\* The block the search for k ends at when it reads the file now: a leaf, unless
\* the pointers lead it to a block that is none.
SearchEnd(file, k) ==
  LET down[n \in Nat] ==
        IF n = 0 THEN RootOf(file)
        ELSE LET a == down[n - 1]
                 b == BlockAt(file, a)
             IN  IF b.tag = "node" THEN b.values[search_node(b, k) + 1] ELSE a
  IN  down[Cardinality(DOMAIN file)]

\* Block 1 and the leaves behind it: block 1 is the leftmost leaf, since splits
\* put the new leaf on the right and merges free the right one.
LeafChain(file) ==
  LET after[n \in Nat] ==
        IF n = 0 THEN <<1>>
        ELSE LET seen == after[n - 1]
                 next == BlockAt(file, Last(seen)).next
             IN  IF next = 0 THEN seen ELSE Append(seen, next)
  IN  after[Cardinality(DOMAIN file)]

\* The free blocks in the order new_node would take them: the first n of them, or all.
FreeChainTo(file) ==
  LET taken_by[n \in Nat] ==
        IF n = 0 THEN <<>>
        ELSE LET seen == taken_by[n - 1]
                 next == IF seen = <<>> THEN FreeOf(file) ELSE BlockAt(file, Last(seen)).next
             IN  IF next = 0 THEN seen ELSE Append(seen, next)
  IN  taken_by

FreeChain(file) == FreeChainTo(file)[Cardinality(DOMAIN file)]

-----------------------------------------------------------------------------
(* Sound files *)

\* Of a file of `size` blocks every block is the root or the child of exactly
\* one node, or is on the free list, which is one linear list; the leaves are
\* one linear list.
AllBlocksOnce(file, size) ==
  /\ Cardinality({c \in TreeNodes(file) \X (1..MAX_NKEYS + 1) : c[2] <= Len(BlockAt(file, c[1]).values)})
       = Cardinality(Reached(file)) - 1
  /\ Reached(file) = TreeLeaves(file) \cup TreeNodes(file)
  /\ ToSet(FreeChain(file)) = 1..(size - 1) \ Reached(file)
  /\ \A a \in ToSet(FreeChain(file)) : BlockAt(file, a).tag = "free"
  /\ FreeOf(file) # 0 => BlockAt(file, Last(FreeChain(file))).next = 0
  /\ ToSet(LeafChain(file)) = TreeLeaves(file)
  /\ BlockAt(file, Last(LeafChain(file))).next = 0

\* Every key is found where the search looks for it, and the keys of the list of
\* leaves ascend strictly.
Searchable(file) ==
  /\ \A a \in TreeLeaves(file) : \A k \in ToSet(BlockAt(file, a).keys) : SearchEnd(file, k) = a
  /\ LET keys == FlattenSeq([j \in 1..Len(LeafChain(file)) |-> BlockAt(file, LeafChain(file)[j]).keys])
     IN  \A j \in 1..(Len(keys) - 1) : keys[j] < keys[j + 1]

\* All leaves are equally deep, every node but the root has at least the minimum
\* of keys and a root that is a node has one.
FullAndLevel(file) ==
  /\ \A a \in TreeLeaves(file) \ {RootOf(file)} : nkeys(BlockAt(file, a)) >= MIN_NKEYS_LEAF
  /\ \A a \in TreeNodes(file) \ {RootOf(file)} : nkeys(BlockAt(file, a)) >= MIN_NKEYS_NODE
  /\ RootOf(file) \in TreeNodes(file) => nkeys(BlockAt(file, RootOf(file))) >= 1
  /\ LET depth == Depths(file)
     IN  \A a \in TreeNodes(file) : \A c \in ToSet(BlockAt(file, a).values) :
           depth[c] = depth[BlockAt(file, a).values[1]]
=============================================================================
