-------------------------- MODULE DiskBTreeProps --------------------------
(***************************************************************************)
(* What must hold of DiskBTree: the invariants of the tree and of the free *)
(* list, what the file holds in the middle of a call, and that the tree    *)
(* implements OrderedMap.                                                  *)
(*                                                                         *)
(* `before` is a history variable: the map the tree held when the current  *)
(* call (or the current closing and reopening) began.                      *)
(***************************************************************************)
EXTENDS DiskBTree, TreeShape

VARIABLE before

-----------------------------------------------------------------------------
(* The specification with its history *)

PInit == Init /\ before = EmptyMap

Remember == before' = IF pc = "idle" THEN TreeContent(disk) ELSE before

PNext == Next /\ Remember

pvars == <<vars, before>>

PSpec == PInit /\ [][PNext]_pvars /\ WF_pvars(CodeStep /\ Remember)

-----------------------------------------------------------------------------
(* The tree between calls *)

\* NodeFile.check_integrity (btree.py:194-263), between calls: every block is
\* the root or the child of exactly one node, or is on the free list, which the
\* header leads to and which is one linear list; the leaves are one linear list.
\* A block leaked, freed twice or shared by two parents would violate it.
Integrity == pc = "idle" => AllBlocksOnce(disk, file_size)

\* Between calls every key of every leaf is found where search_until_leaf looks
\* for it, and the keys of the leaf list ascend strictly: the separators that
\* splits push up, borrows replace and merges pull down are never off by one.
SearchTree == pc = "idle" => Searchable(disk)

\* Between calls all leaves are equally deep, every node but the root has at
\* least the minimum of keys and a root that is a node has one: what makes every
\* call O(log n) after any history of splits, borrows and merges.
Balanced == pc = "idle" => FullAndLevel(disk)

\* NodeFile.check_integrity, btree.py:200: "every block is either in free list or
\* in the tree (or is header)".
NoOrphans ==
  pc = "idle" => \A a \in 1..(file_size - 1) : Read(a).tag = "free" \/ a \in Reached(disk)

-----------------------------------------------------------------------------
(* NodeFile.check_integrity, which looks at every block of the file *)

blocks == 1..(file_size - 1)
free_list_ptrs == {a \in blocks : Read(a).tag = "free"}
next_leaf_ptrs == {a \in blocks : Read(a).tag = "leaf"}

\* The blocks have one head, and the walk from it passes all of them and ends at 0.
SingleLinearList(ptrs) ==
  LET pointees == {Read(a).next : a \in ptrs}
      From(head) ==
        LET walk[n \in Nat] ==
              IF n = 0 THEN <<head>>
              ELSE LET seen == walk[n - 1]
                   IN  IF Last(seen) \in ptrs THEN Append(seen, Read(Last(seen)).next) ELSE seen
        IN  walk[Cardinality(ptrs)]
  IN  \E head \in ptrs : ptrs \ pointees = {head} /\ ToSet(From(head)) = ptrs \cup {0}

\* From the root every block is met once, and is a leaf or a node.
NodesHaveOneParent ==
  /\ Reached(disk) \subseteq blocks \ free_list_ptrs
  /\ Cardinality({c \in TreeNodes(disk) \X (1..MAX_NKEYS + 1) : c[2] <= Len(Read(c[1]).values)})
       = Cardinality(Reached(disk)) - 1

\* No assertion of check_integrity fails, and no look-up of a block.
check_integrity ==
  /\ NodesHaveOneParent
  /\ free_list_ptrs # {} => SingleLinearList(free_list_ptrs)
  /\ SingleLinearList(next_leaf_ptrs)
  /\ blocks \ (free_list_ptrs \cup Reached(disk)) = {}

\* The blocks new_node cannot hand out again although they are not in the tree.
Lost == blocks \ (Reached(disk) \cup ToSet(FreeChain(disk)))

\* check_integrity accepts every file that no block is lost from, also after
\* calls that raised, and rejects a lost block unless it is marked free: the
\* check finds the list of free blocks by their marks and does not look whether
\* the header leads to its head, so that a block that was taken from the free
\* list and then lost (an insert that raises while it splits) passes.
IntegrityCheckIsRight ==
  pc = "idle" =>
    /\ Lost = {} => check_integrity
    /\ check_integrity => Lost \subseteq free_list_ptrs

-----------------------------------------------------------------------------
(* In the middle of a call, as a crash would leave the file *)

\* What the map may be while a call runs, and so what may be on file.
MayHold == {before, Effect(before, op)}

\* In a file left behind at any instant of any call (a search through pointers
\* may end at a freed or unwritten block, or miss a key that is being moved),
\* a search that does find a key finds a value it has before or after the call.
CrashFindsNoWrongValue ==
  pc \notin {"closed", "idle"} /\ 0 \in DOMAIN disk =>
    \A k \in UNION {ToSet(disk[a].keys) : a \in {b \in DOMAIN disk : disk[b].tag = "leaf"}} :
      LET end == SearchEnd(disk, k)
      IN  Read(end).tag = "leaf" /\ Found(Read(end), k) =>
            \E m \in MayHold : k \in DOMAIN m /\ Entry(disk, end, k) = m[k]

\* While an insert or update runs, whatever block the pointers on file lead to
\* has been written and is a live node: insert_node and insert write a new node
\* before they write the pointer to it, so a crash leaves no dangling child.
InsertLeavesNoDanglingChild ==
  op.kind \in {"insert", "update"} =>
    \A a \in Reached(disk) : a \in DOMAIN disk /\ Read(a).tag \in {"leaf", "node"}

\* Once the writes a handler issued are in the file the list of leaves holds
\* exactly the map from before or from after the call, whatever is left to do
\* further up: the leaf level is done first and is never touched again.
LeafListIsBeforeOrAfter ==
  writes = <<>> /\ pc \notin {"closed", "idle"} /\ 0 \in DOMAIN disk =>
    MapOf(disk, ToSet(LeafChain(disk))) \in MayHold

\* Every block of the free list on file is marked free, at any instant of any call,
\* but for one window: free() (btree.py:191-192) writes the header before it marks
\* the block, so that the first of the list may still be, whole, the leaf or node
\* that a delete gives up, and then marking it is the very next write.  A crash in
\* that window leaves new_node a live block to hand out, and nothing else does:
\* new_node takes a block off the list (btree.py:168) before its caller fills it.
FreeListIsMarked ==
  0 \in DOMAIN disk =>
    \/ \A a \in ToSet(FreeChain(disk)) : Read(a).tag = "free"
    \/ /\ op.kind = "delete" /\ writes # <<>>
       /\ writes[1].addr = FreeOf(disk) /\ writes[1].block.tag = "free"

-----------------------------------------------------------------------------
(* What the caller sees *)

\* The tree is a map: its content between calls is what the leaves hold, a call
\* takes effect when it returns and returns what the map says.
Map == INSTANCE OrderedMap WITH
         content <- IF pc = "idle" THEN TreeContent(disk) ELSE before,
         call    <- op,
         result  <- IF pc \in {"idle", "closed"} \/ op = NoOp THEN ret ELSE NoResult

\* Every get, range, insert, update and delete, over splits, borrows, merges,
\* reuse of freed blocks and reopening, answers and acts as on a map.
ImplementsMap == Map!MapSpec

\* Every call returns: no descent, scan or rebalancing goes on for ever.
CallsReturn == op # NoOp ~> op = NoOp
=============================================================================
