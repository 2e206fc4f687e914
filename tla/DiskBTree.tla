----------------------------- MODULE DiskBTree -----------------------------
(***************************************************************************)
(* The disk B+tree of btree.py (BTree, NodeFile and the search, insert,    *)
(* range and delete functions), with the cache off as CACHE_SIZE = 0 has   *)
(* it: every read comes from the file and every write goes to it.          *)
(*                                                                         *)
(* A call is a sequence of steps.  A step is the work a function does on   *)
(* one node between its reads and its writes; the writes are queued and    *)
(* reach the file one block per step, in the order the code issues them,   *)
(* so that the file is seen in every state a crash could leave it in.      *)
(* The recursion of insert_recurse and delete_recurse is the stack `path`. *)
(*                                                                         *)
(* Where the code would fail on an assertion or on a missing sibling no    *)
(* step is enabled: such a state is a deadlock.                            *)
(***************************************************************************)
EXTENDS NodeOps, MapCalls

ASSUME WordAssumption == Word \subseteq Nat /\ 0 \in Word

ASSUME NoneAssumption == None \notin Int

VARIABLES
  disk,       \* the blocks written so far: block number -> block
  file_size,  \* NodeFile.file_size, in blocks
  pc,         \* what the code is doing
  op,         \* the call in progress
  path,       \* the nodes held in memory, root first
  rv,         \* what the call one level down returned
  ret,        \* the result of the call
  writes      \* block writes issued and not yet performed

vars == <<disk, file_size, pc, op, path, rv, ret, writes>>

PC == {"closed", "idle", "search", "scan", "insert_up", "new_root",
       "set_root", "delete_up", "return"}

-----------------------------------------------------------------------------
(* Reading and writing blocks *)

\* A read of a block that was never written finds zeroes.
Read(addr) == IF addr \in DOMAIN disk THEN disk[addr] ELSE ZeroBlock

W(addr, block) == [addr |-> addr, block |-> block]

root_ptr == Read(0).values[1]
free_ptr == Read(0).values[2]

\* new_node: the address it returns, what it writes and the size it leaves.
new_addr == IF free_ptr = 0 THEN file_size ELSE free_ptr
new_size == IF free_ptr = 0 THEN file_size + 1 ELSE file_size

new_node_writes ==
  IF free_ptr = 0 THEN <<>> ELSE <<W(0, Header(root_ptr, Read(free_ptr).next))>>

\* free: the header first, then the block.
free_writes(addr) == <<W(0, Header(root_ptr, addr)), W(addr, FreeBlock(free_ptr))>>

\* set_root
set_root_writes(addr) == <<W(0, Header(addr, free_ptr))>>

\* One queued write reaches the file.
WriteBlock ==
  /\ writes # <<>>
  /\ disk' = [a \in DOMAIN disk \cup {writes[1].addr} |->
                IF a = writes[1].addr THEN writes[1].block ELSE disk[a]]
  /\ writes' = Tail(writes)
  /\ UNCHANGED <<file_size, pc, op, path, rv, ret>>

-----------------------------------------------------------------------------
(* The stack of nodes in memory *)

\* A node read from the file; i is the index of the child the code went into.
Frame(addr) == [addr |-> addr, block |-> Read(addr), i |-> 0]

Top    == path[Len(path)]
Parent == path[Len(path) - 1]
AtRoot == Len(path) = 1

NoRv          == [addr |-> 0, key |-> 0, ind |-> None]
SplitOff(a,k) == [addr |-> a, key |-> k, ind |-> None]  \* (new_node, new_key)
NewRootAt(a)  == [addr |-> a, key |-> 0, ind |-> None]  \* new_root_addr
DelInd(i)     == [addr |-> 0, key |-> 0, ind |-> i]     \* (del_ind, True)

At(p) == pc = p /\ writes = <<>>

AtLeaf(kinds) == At("search") /\ op.kind \in kinds /\ Top.block.tag = "leaf"

\* Nothing is left for the call to do but to issue the writes ws and return r.
Finish(r, ws) ==
  /\ pc' = "return" /\ ret' = r /\ writes' = ws
  /\ path' = <<>> /\ rv' = NoRv
  /\ UNCHANGED <<disk, op>>

-----------------------------------------------------------------------------
(* Opening and closing the file, calls and returns *)

\* NodeFile.__init__ on a new file; _init_file makes block 0 the header and
\* block 1 the root.
OpenNew ==
  /\ At("closed")
  /\ DOMAIN disk = {}
  /\ pc' = "return"
  /\ file_size' = 2
  /\ writes' = <<W(0, Header(1, 0)), W(1, Leaf(<<>>, <<>>, 0))>>
  /\ UNCHANGED <<disk, op, path, rv, ret>>

\* NodeFile.__init__ on an existing file: st_size counts the last block written.
OpenExisting ==
  /\ At("closed")
  /\ pc' = "return"
  /\ \E last \in DOMAIN disk :
       /\ \A a \in DOMAIN disk : a <= last
       /\ file_size' = last + 1
  /\ UNCHANGED <<disk, op, path, rv, ret, writes>>

\* NodeFile.close: the cache is empty, flush writes nothing.
Close ==
  /\ At("idle")
  /\ pc' = "closed" /\ file_size' = 0
  /\ UNCHANGED <<disk, op, path, rv, ret, writes>>

\* Every call starts at the root (get_root).
Call(o) ==
  /\ At("idle")
  /\ pc' = "search" /\ op' = o /\ ret' = NoResult
  /\ path' = <<Frame(root_ptr)>>
  /\ UNCHANGED <<disk, file_size, rv, writes>>

Return ==
  /\ At("return")
  /\ pc' = "idle" /\ op' = NoOp
  /\ UNCHANGED <<disk, file_size, path, rv, ret, writes>>

-----------------------------------------------------------------------------
(* Search and ranges *)

\* range() without a lower bound goes to the leftmost leaf.
child_index(block) ==
  IF op.kind = "range" /\ op.k = None THEN 0 ELSE search_node(block, op.k)

\* One level down.  get() and range() hold one node at a time, insert and
\* delete keep the nodes above in the frames of their recursion.
Descend ==
  /\ At("search")
  /\ Top.block.tag = "node"
  /\ LET i     == child_index(Top.block)
         child == Frame(Top.block.values[i + 1])
     IN  path' = IF op.kind \in {"get", "range"}
                 THEN <<child>>
                 ELSE Append([path EXCEPT ![Len(path)].i = i], child)
  /\ UNCHANGED <<disk, file_size, pc, op, rv, ret, writes>>

\* search
Get ==
  /\ AtLeaf({"get"})
  /\ LET leaf == Top.block
     IN  Finish(Answer(IF Found(leaf, op.k)
                       THEN leaf.values[search_leaf(leaf, op.k) + 1] ELSE None), <<>>)
  /\ UNCHANGED file_size

\* The pairs tree_range takes from a leaf, from index i on: up to the first
\* key above hi, and until the list has `limit` pairs.
taken(leaf, i) ==
  LET within == {j \in (i + 1)..nkeys(leaf) : op.hi = None \/ leaf.keys[j] <= op.hi}
      room   == IF op.limit = None THEN nkeys(leaf)
                ELSE IF op.limit < 1 THEN 1 ELSE op.limit - Len(ret.pairs)
      n      == IF Cardinality(within) < room THEN Cardinality(within) ELSE room
  IN  [j \in 1..n |-> <<leaf.keys[i + j], leaf.values[i + j]>>]

\* One round of iter_leaves: the first leaf from where `lo` is, the next ones
\* from their start.
ScanLeaf ==
  /\ AtLeaf({"range"}) \/ (At("scan") /\ Top.block.tag = "leaf")
  /\ LET leaf   == Top.block
         i      == IF pc = "scan" \/ op.k = None THEN 0 ELSE search_leaf(leaf, op.k)
         result == Pairs(ret.pairs \o taken(leaf, i))
         full   == op.limit # None /\ result.pairs # <<>> /\ Len(result.pairs) >= op.limit
         above  == \E j \in (i + 1)..nkeys(leaf) : op.hi # None /\ leaf.keys[j] > op.hi
     IN  IF full \/ above \/ leaf.next = 0
         THEN Finish(result, <<>>)
         ELSE /\ pc' = "scan" /\ ret' = result
              /\ path' = <<Frame(leaf.next)>>
              /\ UNCHANGED <<disk, op, rv, writes>>
  /\ UNCHANGED file_size

-----------------------------------------------------------------------------
(* Insert and update *)

\* insert() of a key that is there raises.
InsertDuplicate ==
  /\ AtLeaf({"insert"})
  /\ Found(Top.block, op.k)
  /\ Finish(Raised, <<>>)
  /\ UNCHANGED file_size

\* update_leaf; an integer that does not fit 8 bytes raises before the write.
UpdateLeaf ==
  /\ AtLeaf({"update"})
  /\ Found(Top.block, op.k)
  /\ IF Packable(op.v)
     THEN Finish(Done, <<W(Top.addr, update_leaf(Top.block, search_leaf(Top.block, op.k), op.v))>>)
     ELSE Finish(Raised, <<>>)
  /\ UNCHANGED file_size

\* insert_leaf is reached for a key that is not in the leaf.
AtInsertLeaf == AtLeaf({"insert", "update"}) /\ ~Found(Top.block, op.k)

Fits == Packable(op.k) /\ Packable(op.v)

\* Mutant of InsertLeaf: one key too many.
InsertLeafTooMany ==
  /\ AtInsertLeaf
  /\ nkeys(Top.block) <= MAX_NKEYS
  /\ IF Fits
     THEN Finish(Done, <<W(Top.addr, leaf_insert(Top.block, search_leaf(Top.block, op.k), op.k, op.v))>>)
     ELSE Finish(Raised, <<>>)
  /\ UNCHANGED file_size

\* insert_leaf with room.
InsertLeaf ==
  /\ AtInsertLeaf
  /\ nkeys(Top.block) < MAX_NKEYS
  /\ IF Fits
     THEN Finish(Done, <<W(Top.addr, leaf_insert(Top.block, search_leaf(Top.block, op.k), op.k, op.v))>>)
     ELSE Finish(Raised, <<>>)
  /\ UNCHANGED file_size

\* insert_leaf on a full leaf with an integer that does not fit: the new node
\* has been allocated when array_insert_split raises.
InsertLeafSplitRaises ==
  /\ AtInsertLeaf
  /\ nkeys(Top.block) >= MAX_NKEYS
  /\ ~Fits
  /\ Finish(Raised, new_node_writes)
  /\ file_size' = new_size

\* A split hands (new_node, new_key) to the caller: insert_recurse of the node
\* above, or insert when the root was split.
ReturnSplit(a, k, ws) ==
  /\ rv' = SplitOff(a, k)
  /\ writes' = ws
  /\ file_size' = new_size
  /\ IF AtRoot THEN pc' = "new_root" /\ UNCHANGED path
               ELSE pc' = "insert_up" /\ path' = Front(path)
  /\ UNCHANGED <<disk, op, ret>>

\* Mutant of InsertLeafSplit: the header is written after the leaves.
InsertLeafSplitHeaderLast ==
  /\ AtInsertLeaf
  /\ nkeys(Top.block) >= MAX_NKEYS
  /\ Fits
  /\ LET s == split_leaf(Top.block, search_leaf(Top.block, op.k), op.k, op.v, new_addr)
     IN  ReturnSplit(new_addr, s.new.keys[1],
                     <<W(Top.addr, s.old), W(new_addr, s.new)>> \o new_node_writes)

\* insert_leaf on a full leaf.
InsertLeafSplit ==
  /\ AtInsertLeaf
  /\ nkeys(Top.block) >= MAX_NKEYS
  /\ Fits
  /\ LET s == split_leaf(Top.block, search_leaf(Top.block, op.k), op.k, op.v, new_addr)
     IN  ReturnSplit(new_addr, s.new.keys[1],
                     new_node_writes \o <<W(Top.addr, s.old), W(new_addr, s.new)>>)

\* insert_node with room.
InsertNode ==
  /\ At("insert_up")
  /\ Top.block.tag = "node"
  /\ nkeys(Top.block) < MAX_NKEYS
  /\ Finish(Done, <<W(Top.addr, node_insert(Top.block, Top.i, Top.i + 1, rv.key, rv.addr))>>)
  /\ UNCHANGED file_size

\* insert_node on a full node.
InsertNodeSplit ==
  /\ At("insert_up")
  /\ Top.block.tag = "node"
  /\ nkeys(Top.block) >= MAX_NKEYS
  /\ LET s == split_node(Top.block, Top.i, rv.key, rv.addr)
     IN  ReturnSplit(new_addr, s.key,
                     new_node_writes \o <<W(Top.addr, s.old), W(new_addr, s.new)>>)

\* Mutant of NewRoot: the header points to the new root before it is written.
NewRootHeaderFirst ==
  /\ At("new_root")
  /\ pc' = "set_root"
  /\ rv' = NewRootAt(new_addr)
  /\ writes' = <<W(0, Header(new_addr, IF free_ptr = 0 THEN 0 ELSE Read(free_ptr).next)),
                 W(new_addr, Node(<<rv.key>>, <<Top.addr, rv.addr>>))>>
  /\ file_size' = new_size
  /\ path' = <<>>
  /\ UNCHANGED <<disk, op, ret>>

\* insert: a new root above the two halves of the old one ...
NewRoot ==
  /\ At("new_root")
  /\ pc' = "set_root"
  /\ rv' = NewRootAt(new_addr)
  /\ writes' = new_node_writes \o <<W(new_addr, Node(<<rv.key>>, <<Top.addr, rv.addr>>))>>
  /\ file_size' = new_size
  /\ path' = <<>>
  /\ UNCHANGED <<disk, op, ret>>

\* ... and BTree._insert or BTree.delete makes it the root.
SetRoot ==
  /\ At("set_root")
  /\ Finish(Done, set_root_writes(rv.addr))
  /\ UNCHANGED file_size

-----------------------------------------------------------------------------
(* Delete *)

\* delete() of a key that is not there raises, an empty tree included.
DeleteMissing ==
  /\ AtLeaf({"delete"})
  /\ ~Found(Top.block, op.k)
  /\ Finish(Raised, <<>>)
  /\ UNCHANGED file_size

AtDeleteLeaf == AtLeaf({"delete"}) /\ Found(Top.block, op.k)

popped_leaf == leaf_pop(Top.block, search_leaf(Top.block, op.k))

\* A leaf that keeps enough keys, or is the root, is written and that is all.
DeleteFromLeaf ==
  /\ AtDeleteLeaf
  /\ AtRoot \/ nkeys(popped_leaf) >= MIN_NKEYS_LEAF
  /\ Finish(Done, <<W(Top.addr, popped_leaf)>>)
  /\ UNCHANGED file_size

LeafUnderflows == AtDeleteLeaf /\ ~AtRoot /\ nkeys(popped_leaf) < MIN_NKEYS_LEAF

\* get_sibs_and_nkeys.  A left sibling with a key to spare is taken unseen of
\* the right one.
has_left   == Parent.i > 0
has_right  == Parent.i < nkeys(Parent.block)
left_addr  == Parent.block.values[Parent.i]
right_addr == Parent.block.values[Parent.i + 2]
left_sib   == Read(left_addr)
right_sib  == Read(right_addr)

\* Mutant of CanBorrowLeft: the sibling need not have a key to spare.
CanBorrowLeftAtMin(min, tag) ==
  has_left /\ left_sib.tag = tag /\ nkeys(left_sib) >= min

CanBorrowLeft(min, tag) ==
  has_left /\ left_sib.tag = tag /\ nkeys(left_sib) > min

CanBorrowRight(min, tag) ==
  /\ has_left => nkeys(left_sib) <= min
  /\ has_right /\ right_sib.tag = tag /\ nkeys(right_sib) > min
MustMerge(min, tag) ==
  /\ has_left => left_sib.tag = tag /\ nkeys(left_sib) <= min
  /\ has_right => right_sib.tag = tag /\ nkeys(right_sib) <= min
  /\ has_left \/ has_right

\* An element moved between siblings: the key between them in the parent is
\* changed in memory, and (None, True) is returned.
ReturnBorrow(ind_key, key, ws) ==
  /\ pc' = "delete_up"
  /\ rv' = NoRv
  /\ writes' = ws
  /\ path' = [Front(path) EXCEPT ![Len(path) - 1].block.keys[ind_key + 1] = key]
  /\ UNCHANGED <<disk, file_size, op, ret>>

\* Mutant of ReturnMerge: the right sibling is not freed.
ReturnMergeLeak(ind_key_between, right, left, merged) ==
  /\ pc' = "delete_up"
  /\ rv' = DelInd(ind_key_between)
  /\ writes' = <<W(left, merged)>>
  /\ path' = Front(path)
  /\ UNCHANGED <<disk, file_size, op, ret>>

\* Two siblings were merged into the left one: the right one is freed before
\* the left one is written, and (ind_key_between, True) is returned.
ReturnMerge(ind_key_between, right, left, merged) ==
  /\ pc' = "delete_up"
  /\ rv' = DelInd(ind_key_between)
  /\ writes' = Append(free_writes(right), W(left, merged))
  /\ path' = Front(path)
  /\ UNCHANGED <<disk, file_size, op, ret>>

\* delete_leaf
BorrowLeafLeft ==
  /\ LeafUnderflows
  /\ CanBorrowLeft(MIN_NKEYS_LEAF, "leaf")
  /\ LET n   == nkeys(left_sib)
         key == left_sib.keys[n]
     IN  ReturnBorrow(Parent.i - 1, key,
           <<W(left_addr, leaf_pop(left_sib, n - 1)),
             W(Top.addr, leaf_insert(popped_leaf, 0, key, left_sib.values[n]))>>)

BorrowLeafRight ==
  /\ LeafUnderflows
  /\ CanBorrowRight(MIN_NKEYS_LEAF, "leaf")
  /\ LET rest == leaf_pop(right_sib, 0)
     IN  ReturnBorrow(Parent.i, rest.keys[1],
           <<W(right_addr, rest),
             W(Top.addr, leaf_insert(popped_leaf, nkeys(popped_leaf),
                                     right_sib.keys[1], right_sib.values[1]))>>)

\* Mutant of MergeLeaves: the key between is always taken to be the left one.
MergeLeavesLeftKey ==
  /\ LeafUnderflows
  /\ MustMerge(MIN_NKEYS_LEAF, "leaf")
  /\ IF has_left
     THEN ReturnMerge(Parent.i - 1, Top.addr, left_addr, merge_leaves(left_sib, popped_leaf))
     ELSE ReturnMerge(Parent.i - 1, right_addr, Top.addr, merge_leaves(popped_leaf, right_sib))

MergeLeaves ==
  /\ LeafUnderflows
  /\ MustMerge(MIN_NKEYS_LEAF, "leaf")
  /\ IF has_left
     THEN ReturnMerge(Parent.i - 1, Top.addr, left_addr, merge_leaves(left_sib, popped_leaf))
     ELSE ReturnMerge(Parent.i, right_addr, Top.addr, merge_leaves(popped_leaf, right_sib))

\* delete_recurse and delete, back at a node of which only a key has changed.
WriteModifiedNode ==
  /\ At("delete_up")
  /\ rv.ind = None
  /\ Finish(Done, <<W(Top.addr, Top.block)>>)
  /\ UNCHANGED file_size

AtDeleteNode == At("delete_up") /\ rv.ind # None /\ Top.block.tag = "node"

popped_node == node_pop(Top.block, rv.ind, rv.ind + 1)

\* Mutant of DeleteFromNode: a node may have one key less than the minimum.
DeleteFromNodeTooFew ==
  /\ AtDeleteNode
  /\ nkeys(popped_node) >= (IF AtRoot THEN 1 ELSE MIN_NKEYS_NODE - 1)
  /\ Finish(Done, <<W(Top.addr, popped_node)>>)
  /\ UNCHANGED file_size

\* A node that keeps enough keys (a root: one) is written and that is all.
DeleteFromNode ==
  /\ AtDeleteNode
  /\ nkeys(popped_node) >= (IF AtRoot THEN 1 ELSE MIN_NKEYS_NODE)
  /\ Finish(Done, <<W(Top.addr, popped_node)>>)
  /\ UNCHANGED file_size

\* A root with one child is freed and the child becomes the root.
ShrinkRoot ==
  /\ AtDeleteNode
  /\ AtRoot
  /\ nkeys(popped_node) = 0
  /\ pc' = "set_root"
  /\ rv' = NewRootAt(popped_node.values[1])
  /\ writes' = free_writes(Top.addr)
  /\ path' = <<>>
  /\ UNCHANGED <<disk, file_size, op, ret>>

NodeUnderflows == AtDeleteNode /\ ~AtRoot /\ nkeys(popped_node) < MIN_NKEYS_NODE

\* Mutant of BorrowNodeLeft: the separator in the parent stays as it is.
BorrowNodeLeftSameKey ==
  /\ NodeUnderflows
  /\ CanBorrowLeft(MIN_NKEYS_NODE, "node")
  /\ LET n == nkeys(left_sib)
     IN  ReturnBorrow(Parent.i - 1, Parent.block.keys[Parent.i],
           <<W(left_addr, node_pop(left_sib, n - 1, n)),
             W(Top.addr, node_insert(popped_node, 0, 0, Parent.block.keys[Parent.i],
                                     left_sib.values[n + 1]))>>)

\* delete_node: the key between the siblings comes down from the parent, the
\* sibling's outermost key goes up.
BorrowNodeLeft ==
  /\ NodeUnderflows
  /\ CanBorrowLeft(MIN_NKEYS_NODE, "node")
  /\ LET n == nkeys(left_sib)
     IN  ReturnBorrow(Parent.i - 1, left_sib.keys[n],
           <<W(left_addr, node_pop(left_sib, n - 1, n)),
             W(Top.addr, node_insert(popped_node, 0, 0, Parent.block.keys[Parent.i],
                                     left_sib.values[n + 1]))>>)

\* Mutant of BorrowNodeRight: the sibling's first key is read after it was popped.
BorrowNodeRightAfterPop ==
  /\ NodeUnderflows
  /\ CanBorrowRight(MIN_NKEYS_NODE, "node")
  /\ LET n    == nkeys(popped_node)
         rest == node_pop(right_sib, 0, 0)
     IN  ReturnBorrow(Parent.i, rest.keys[1],
           <<W(right_addr, rest),
             W(Top.addr, node_insert(popped_node, n, n + 1, Parent.block.keys[Parent.i + 1],
                                     right_sib.values[1]))>>)

BorrowNodeRight ==
  /\ NodeUnderflows
  /\ CanBorrowRight(MIN_NKEYS_NODE, "node")
  /\ LET n == nkeys(popped_node)
     IN  ReturnBorrow(Parent.i, right_sib.keys[1],
           <<W(right_addr, node_pop(right_sib, 0, 0)),
             W(Top.addr, node_insert(popped_node, n, n + 1, Parent.block.keys[Parent.i + 1],
                                     right_sib.values[1]))>>)

MergeNodes ==
  /\ NodeUnderflows
  /\ MustMerge(MIN_NKEYS_NODE, "node")
  /\ IF has_left
     THEN ReturnMerge(Parent.i - 1, Top.addr, left_addr,
            merge_nodes(left_sib, Parent.block.keys[Parent.i], popped_node))
     ELSE ReturnMerge(Parent.i, right_addr, Top.addr,
            merge_nodes(popped_node, Parent.block.keys[Parent.i + 1], right_sib))

-----------------------------------------------------------------------------
(* The specification *)

Init ==
  /\ disk = [a \in {} |-> ZeroBlock]
  /\ file_size = 0
  /\ pc = "closed"
  /\ op = NoOp /\ path = <<>> /\ rv = NoRv /\ ret = NoResult /\ writes = <<>>

InsertStep ==
  \/ InsertDuplicate \/ UpdateLeaf \/ InsertLeaf \/ InsertLeafSplitRaises
  \/ InsertLeafSplit \/ InsertNode \/ InsertNodeSplit \/ NewRoot

DeleteStep ==
  \/ DeleteMissing \/ DeleteFromLeaf \/ BorrowLeafLeft \/ BorrowLeafRight
  \/ MergeLeaves \/ WriteModifiedNode \/ DeleteFromNode \/ ShrinkRoot
  \/ BorrowNodeLeft \/ BorrowNodeRight \/ MergeNodes

\* The steps of the code.
CodeStep ==
  \/ WriteBlock \/ Return \/ Descend \/ Get \/ ScanLeaf
  \/ InsertStep \/ DeleteStep \/ SetRoot

\* The steps of its caller.
CallerStep == OpenNew \/ OpenExisting \/ Close \/ \E o \in Ops : Call(o)

Next == CodeStep \/ CallerStep

\* The code is one thread that runs until the call is over.
Spec == Init /\ [][Next]_vars /\ WF_vars(CodeStep)

-----------------------------------------------------------------------------
(* Types, and the arrays *)

ReturnValues == [addr : Nat, key : Nat, ind : Nat \cup {None}]

Results == [status : {"done", "raised", "value", "pairs", "none"},
            value : Nat \cup {None}, pairs : Seq(Nat \X Nat)]

\* The variables have their types: blocks and block numbers of the file, the
\* frames of the call in progress, its result.
TypeOK ==
  /\ IsFiniteSet(DOMAIN disk) /\ DOMAIN disk \subseteq Nat
  /\ disk \in [DOMAIN disk -> Block]
  /\ file_size \in Nat
  /\ pc \in PC
  /\ op \in Ops \cup {NoOp}
  /\ path \in Seq([addr : Nat, block : Block, i : Nat])
  /\ rv \in ReturnValues
  /\ ret \in Results
  /\ writes \in Seq([addr : Nat, block : Block])

\* No array of a node runs over, and keys and values stay in step, in every
\* block of the file, in memory and on its way to the file: the splits, the
\* moves between siblings and the merges of btree.py:414-831 never lose count.
NodesFit ==
  /\ \A a \in DOMAIN disk : Fitting(disk[a])
  /\ \A j \in 1..Len(path) : Fitting(path[j].block)
  /\ \A j \in 1..Len(writes) : Fitting(writes[j].block)

-----------------------------------------------------------------------------
(* The inductive invariant behind NodesFit *)

SoundBlocks == {b \in Block : Fitting(b)}

\* A frame's index is that of a child; only block 0 holds the header, so that no
\* node is ever written over it.
Frames ==
  {f \in [addr : Nat, block : SoundBlocks, i : Nat] :
     f.i <= nkeys(f.block) /\ (f.addr = 0 => f.block.tag = "header")}

Writes ==
  {w \in [addr : Nat, block : SoundBlocks] : w.addr = 0 => w.block.tag = "header"}

\* TypeOK and NodesFit again, with what each step needs of the one before it.
DiskInv ==
  /\ IsFiniteSet(DOMAIN disk) /\ DOMAIN disk \subseteq Nat
  /\ disk \in [DOMAIN disk -> SoundBlocks]
  /\ 0 \in DOMAIN disk => disk[0].tag = "header"
  /\ 0 \notin DOMAIN disk =>
       /\ DOMAIN disk = {}
       /\ pc = "closed" \/ (pc = "return" /\ writes # <<>> /\ writes[1].addr = 0)

PathInv ==
  /\ path \in Seq(Frames)
  /\ pc \in {"search", "scan", "insert_up", "new_root", "delete_up"} => path # <<>>
  /\ \A j \in 1..Len(path) :
       j < Len(path) \/ pc \in {"insert_up", "delete_up"} => path[j].block.tag = "node"

CallInv ==
  /\ pc \in PC
  /\ file_size \in Nat /\ (pc # "closed" => file_size # 0)
  /\ op \in Ops \cup {NoOp} /\ (pc \in {"search", "scan"} => op \in Ops)
  /\ rv \in ReturnValues
  /\ pc = "delete_up" /\ rv.ind # None => rv.ind < nkeys(Top.block)
  /\ ret \in Results
  /\ writes \in Seq(Writes) /\ (pc = "closed" => writes = <<>>)

IInv == DiskInv /\ PathInv /\ CallInv
=============================================================================
