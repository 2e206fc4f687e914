------------------------------ MODULE CBTree ------------------------------
(***************************************************************************)
(* The disk B+tree of btree.c, in the steps of DiskBTree: a step is the    *)
(* work of a function on one node between its reads and its writes, and    *)
(* the writes reach the file one by one, in the order of the code.         *)
(*                                                                         *)
(* What btree.c has and btree.py has not: a pool of NUM_BUFS buffers that  *)
(* every read takes one of and the code gives back by hand, results of     *)
(* recursive calls in structs of fixed-width integers, a static variable   *)
(* that says which sibling to read first, and assertions that end the      *)
(* process.                                                                *)
(*                                                                         *)
(* The nodes above a node are the frames of the recursion; bt_insert and   *)
(* bt_delete themselves are the frame of the root.                         *)
(*                                                                         *)
(* An allocated buffer is not cleared.  Only what the code sets in it is   *)
(* kept here; the rest of a leaf or node is never looked at, but in a free *)
(* block what tells it from a leaf or node is not set either: see Unset.   *)
(***************************************************************************)
EXTENDS NodeOps, MapCalls

CONSTANTS
  NUM_BUFS,  \* the buffers of a struct btree; 10 in the code
  KEY_BITS,  \* the bits of a key or value; 64
  INT_BITS   \* the bits of an int; 32

ASSUME WidthAssumption ==
  /\ NUM_BUFS \in Nat
  /\ KEY_BITS \in Nat /\ INT_BITS \in 1..KEY_BITS
  /\ Word = 0..(2^KEY_BITS - 1)

ASSUME ArgumentsAssumption ==
  \A o \in Ops :
    /\ o.k \in Word
    /\ o.kind \in {"insert", "update"} => o.v \in Word
    /\ o.kind = "range" => o.hi \in Word /\ o.limit \in Nat

VARIABLES
  disk,             \* the blocks of the file: block number -> block
  file_size,        \* bt->file_size, in blocks
  buf_count,        \* bt->buf_count, the buffers taken
  highest_buf_count,
  read_left_first,  \* the static variable of bt_delete_get_sibling
  pc, op, path, rv, ret, writes  \* as in DiskBTree

cvars == <<disk, file_size, buf_count, highest_buf_count, read_left_first,
           pc, op, path, rv, ret, writes>>

-----------------------------------------------------------------------------
(* Buffers *)

\* A step takes up to `most` buffers more than are taken now, and in the end has
\* taken n more (given back, if n < 0).  bt_new_block_buf exits when there is
\* none left; no step is enabled then.
TakeBuffers(n, most) ==
  /\ buf_count + most <= NUM_BUFS
  /\ buf_count' = buf_count + n
  /\ highest_buf_count' = IF buf_count + most > highest_buf_count
                          THEN buf_count + most ELSE highest_buf_count

-----------------------------------------------------------------------------
(* Blocks *)

W(addr, block) == [addr |-> addr, block |-> block]

root_ptr == disk[0].values[1]
free_ptr == disk[0].values[2]

\* What bt_free_node puts in place of a node: a buffer of the pool in which only
\* values[0] is set, the next free block.  nkeys and is_leaf are bytes of the pool's
\* own pointer, keys and other values are left from whatever the buffer held.  So the
\* tag "free" is the model's and not the file's: it stands for a block of which
\* nothing but `next` is known, whoever reads it as a node may take it for anything
\* (MayAnswer in CBTreeProps), and no step of this module looks for the tag.
Unset(next) == FreeBlock(next)

\* Mutant of bt_free_node: the rest of the free list is forgotten.
bt_free_node_unlinked(addr) == <<W(0, Header(root_ptr, addr)), W(addr, Unset(0))>>

\* bt_free_node: the header first, then the block.
bt_free_node(addr) == <<W(0, Header(root_ptr, addr)), W(addr, Unset(free_ptr))>>

\* bt_new_node takes a block from behind the end of the file ...
new_addr == file_size
Extends  == free_ptr = 0 /\ file_size' = file_size + 1

\* One queued write reaches the file.
bt_write_node ==
  /\ writes # <<>>
  /\ disk' = [a \in DOMAIN disk \cup {writes[1].addr} |->
                IF a = writes[1].addr THEN writes[1].block ELSE disk[a]]
  /\ writes' = Tail(writes)
  /\ UNCHANGED <<file_size, buf_count, highest_buf_count, read_left_first,
                 pc, op, path, rv, ret>>

-----------------------------------------------------------------------------
(* Search in a node: the binary searches as they are, since nothing but the  *)
(* code's own care keeps the keys sorted                                     *)

binary_search(keys, key) ==
  LET from[left \in 0..Len(keys), right \in -1..(Len(keys) - 1)] ==
        LET mid == (left + right) \div 2
        IN  CASE left > right         -> [i |-> left, success |-> FALSE]
              [] OTHER ->
                 CASE keys[mid + 1] < key -> from[mid + 1, right]
                   [] keys[mid + 1] > key -> from[left, mid - 1]
                   [] OTHER               -> [i |-> mid, success |-> TRUE]
  IN  from[0, Len(keys) - 1]

lookup_leaf(leaf, key) == binary_search(leaf.keys, key)

lookup_intnode(intnode, key) ==
  LET r == binary_search(intnode.keys, key) IN IF r.success THEN r.i + 1 ELSE r.i

-----------------------------------------------------------------------------
(* Frames and results *)

Frame(addr) == [addr |-> addr, block |-> disk[addr], i |-> 0]

Top    == path[Len(path)]
Parent == path[Len(path) - 1]
AtRoot == Len(path) = 1

Cases == {"NONE", "NEW_NODE", "MODIFY_KEY", "DELETE_KEY"}

\* struct insert_recurse_result and struct delete_recurse_result
NoRv             == [cond |-> "NONE",       ind |-> 0, key |-> 0, addr |-> 0]
NewNode(a, k)    == [cond |-> "NEW_NODE",   ind |-> 0, key |-> k, addr |-> a]
ModifyKey(i, k)  == [cond |-> "MODIFY_KEY", ind |-> i, key |-> k, addr |-> 0]
DeleteKey(i)     == [cond |-> "DELETE_KEY", ind |-> i, key |-> 0, addr |-> 0]

\* A key that was put into an int and is made a key again: the low bits, with the
\* sign carried up.
as_int(k) ==
  LET low == k % 2^INT_BITS
  IN  IF low < 2^(INT_BITS - 1) THEN low ELSE 2^KEY_BITS - 2^INT_BITS + low

At(p) == pc = p /\ writes = <<>>

AtLeaf(kinds) == At("search") /\ op.kind \in kinds /\ Top.block.tag = "leaf"

\* Nothing is left to do but to issue the writes ws, to give back the buffers of
\* the frames on the way up, and to return r.  Up to `most` buffers more are used.
Finish(r, ws, most) ==
  /\ pc' = "return" /\ ret' = r /\ writes' = ws
  /\ path' = <<>> /\ rv' = NoRv
  /\ TakeBuffers(-Len(path), most)
  /\ UNCHANGED <<disk, op>>

-----------------------------------------------------------------------------
(* bt_open, bt_close, calls and returns *)

\* bt_open of an empty file: block 0 becomes the header, block 1 the root.
OpenNew ==
  /\ At("closed")
  /\ DOMAIN disk = {}
  /\ pc' = "return"
  /\ file_size' = 2
  /\ buf_count' = 0 /\ highest_buf_count' = 2
  /\ writes' = <<W(0, Header(1, 0)), W(1, Leaf(<<>>, <<>>, 0))>>
  /\ UNCHANGED <<disk, read_left_first, op, path, rv, ret>>

OpenExisting ==
  /\ At("closed")
  /\ pc' = "return"
  /\ \E last \in DOMAIN disk :
       /\ \A a \in DOMAIN disk : a <= last
       /\ file_size' = last + 1
  /\ buf_count' = 0 /\ highest_buf_count' = 0
  /\ UNCHANGED <<disk, read_left_first, op, path, rv, ret, writes>>

bt_close ==
  /\ At("idle")
  /\ pc' = "closed"
  /\ UNCHANGED <<disk, file_size, buf_count, highest_buf_count, read_left_first,
                 op, path, rv, ret, writes>>

\* The process ends and another one uses the file later.
Exit ==
  /\ At("closed")
  /\ read_left_first' = TRUE
  /\ UNCHANGED <<disk, file_size, buf_count, highest_buf_count, pc,
                 op, path, rv, ret, writes>>

\* bt_lookup, bt_insert, bt_delete, bt_range up to bt_get_root.  All but bt_lookup
\* assert that no buffer is taken.
Call(o) ==
  /\ At("idle")
  /\ o.kind # "get" => buf_count = 0
  /\ pc' = "search" /\ op' = o /\ ret' = NoResult
  /\ path' = <<Frame(root_ptr)>>
  /\ TakeBuffers(1, 1)
  /\ UNCHANGED <<disk, file_size, read_left_first, rv, writes>>

Return ==
  /\ At("return")
  /\ pc' = "idle" /\ op' = NoOp
  /\ UNCHANGED <<disk, file_size, buf_count, highest_buf_count, read_left_first,
                 path, rv, ret, writes>>

-----------------------------------------------------------------------------
(* Lookup and ranges *)

\* One level down.  bt_lookup and bt_range give the node back before they read
\* its child; bt_insert_recurse and bt_delete_recurse keep it.
Descend ==
  /\ At("search")
  /\ Top.block.tag = "node"
  /\ LET i     == lookup_intnode(Top.block, op.k)
         child == Frame(Top.block.values[i + 1])
     IN  IF op.kind \in {"get", "range"}
         THEN path' = <<child>> /\ TakeBuffers(0, 0)
         ELSE path' = Append([path EXCEPT ![Len(path)].i = i], child) /\ TakeBuffers(1, 1)
  /\ UNCHANGED <<disk, file_size, read_left_first, pc, op, rv, ret, writes>>

bt_lookup ==
  /\ AtLeaf({"get"})
  /\ LET found == lookup_leaf(Top.block, op.k)
     IN  Finish(Answer(IF found.success THEN Top.block.values[found.i + 1] ELSE None), <<>>, 0)
  /\ UNCHANGED <<file_size, read_left_first>>

\* Mutant of copied: the limit is looked at after the pair is copied.
copied_past_limit(leaf, i) ==
  Cardinality({j \in i..(nkeys(leaf) - 1) :
    \A h \in i..j : leaf.keys[h + 1] <= op.hi /\ Len(ret.pairs) + (h - i) # op.limit + 1})

\* How many pairs bt_range copies from a leaf, from index i on.
copied(leaf, i) ==
  Cardinality({j \in i..(nkeys(leaf) - 1) :
    \A h \in i..j : leaf.keys[h + 1] <= op.hi /\ Len(ret.pairs) + (h - i) # op.limit})

\* One round of bt_range's loop.
bt_range ==
  /\ AtLeaf({"range"}) \/ At("scan")
  /\ LET leaf   == Top.block
         i      == IF pc = "scan" THEN 0 ELSE lookup_leaf(leaf, op.k).i
         n      == copied(leaf, i)
         result == Pairs(ret.pairs \o [j \in 1..n |-> <<leaf.keys[i + j], leaf.values[i + j]>>])
     IN  IF i + n < nkeys(leaf) \/ leaf.next = 0
         THEN Finish(result, <<>>, 0)
         ELSE /\ pc' = "scan" /\ ret' = result
              /\ path' = <<Frame(leaf.next)>>
              /\ TakeBuffers(0, 0)
              /\ UNCHANGED <<disk, op, rv, writes>>
  /\ UNCHANGED <<file_size, read_left_first>>

-----------------------------------------------------------------------------
(* Insert and update *)

AtInsertLeaf == AtLeaf({"insert", "update"})

found_in_leaf == lookup_leaf(Top.block, op.k)

\* Without allow_update a key that is there is an error.
InsertDuplicate ==
  /\ AtInsertLeaf
  /\ op.kind = "insert" /\ found_in_leaf.success
  /\ Finish(Raised, <<>>, 0)
  /\ UNCHANGED <<file_size, read_left_first>>

UpdateLeaf ==
  /\ AtInsertLeaf
  /\ op.kind = "update" /\ found_in_leaf.success
  /\ Finish(Done, <<W(Top.addr, update_leaf(Top.block, found_in_leaf.i, op.v))>>, 0)
  /\ UNCHANGED <<file_size, read_left_first>>

\* Mutant of InsertLeaf: one key too many.
InsertLeafTooMany ==
  /\ AtInsertLeaf
  /\ ~found_in_leaf.success
  /\ nkeys(Top.block) <= MAX_NKEYS
  /\ Finish(Done, <<W(Top.addr, leaf_insert(Top.block, found_in_leaf.i, op.k, op.v))>>, 0)
  /\ UNCHANGED <<file_size, read_left_first>>

\* bt_insert_leaf with room.
InsertLeaf ==
  /\ AtInsertLeaf
  /\ ~found_in_leaf.success
  /\ nkeys(Top.block) < MAX_NKEYS
  /\ Finish(Done, <<W(Top.addr, leaf_insert(Top.block, found_in_leaf.i, op.k, op.v))>>, 0)
  /\ UNCHANGED <<file_size, read_left_first>>

LeafSplits ==
  AtInsertLeaf /\ ~found_in_leaf.success /\ nkeys(Top.block) >= MAX_NKEYS

AtInsertIntnode == At("insert_up") /\ Top.block.tag = "node"
IntnodeSplits   == AtInsertIntnode /\ nkeys(Top.block) >= MAX_NKEYS

\* ... while of a block of the free list it asserts that nkeys is INVALID_NKEYS.
\* bt_free_node does not set it: the block begins with the pointer to the next
\* free buffer that was in its buffer, a multiple of 8, and 9999 is odd.
NewNodeAborts ==
  /\ LeafSplits \/ IntnodeSplits \/ At("new_root")
  /\ free_ptr # 0
  /\ pc' = "closed" /\ ret' = [Raised EXCEPT !.status = "aborted"]
  /\ op' = NoOp /\ path' = <<>> /\ rv' = NoRv
  /\ read_left_first' = TRUE
  /\ UNCHANGED <<disk, file_size, buf_count, highest_buf_count, writes>>

\* Mutant of ReturnNewNode: no new root is made.
ReturnNewNodeNoRoot(key, ws) ==
  /\ rv' = NewNode(new_addr, key)
  /\ writes' = ws
  /\ pc' = "insert_up"
  /\ path' = IF AtRoot THEN path ELSE Front(path)
  /\ TakeBuffers(-1, 2)
  /\ UNCHANGED <<disk, read_left_first, op, ret>>

\* INSERT_RECURSE_CASE_NEW_NODE: the node is given back by its caller, which is
\* bt_insert_recurse of the node above or bt_insert.
ReturnNewNode(key, ws) ==
  /\ rv' = NewNode(new_addr, key)
  /\ writes' = ws
  /\ IF AtRoot THEN pc' = "new_root" /\ UNCHANGED path
               ELSE pc' = "insert_up" /\ path' = Front(path)
  /\ TakeBuffers(-1, 2)
  /\ UNCHANGED <<disk, read_left_first, op, ret>>

\* Mutant of InsertLeafSplit: the new leaf is not given back.
InsertLeafSplitKeepsBuffer ==
  /\ LeafSplits
  /\ Extends
  /\ LET s == split_leaf(Top.block, found_in_leaf.i, op.k, op.v, new_addr)
     IN  /\ rv' = NewNode(new_addr, s.new.keys[1])
         /\ writes' = <<W(Top.addr, s.old), W(new_addr, s.new)>>
  /\ IF AtRoot THEN pc' = "new_root" /\ UNCHANGED path
               ELSE pc' = "insert_up" /\ path' = Front(path)
  /\ TakeBuffers(0, 2)
  /\ UNCHANGED <<disk, read_left_first, op, ret>>

\* bt_insert_leaf on a full leaf.
InsertLeafSplit ==
  /\ LeafSplits
  /\ Extends
  /\ LET s == split_leaf(Top.block, found_in_leaf.i, op.k, op.v, new_addr)
     IN  ReturnNewNode(s.new.keys[1], <<W(Top.addr, s.old), W(new_addr, s.new)>>)

\* bt_insert_intnode with room.
InsertIntnode ==
  /\ AtInsertIntnode
  /\ nkeys(Top.block) < MAX_NKEYS
  /\ Finish(Done, <<W(Top.addr, node_insert(Top.block, Top.i, Top.i + 1, rv.key, rv.addr))>>, 0)
  /\ UNCHANGED <<file_size, read_left_first>>

\* bt_insert_intnode on a full node.
InsertIntnodeSplit ==
  /\ IntnodeSplits
  /\ Extends
  /\ LET s == split_node(Top.block, Top.i, rv.key, rv.addr)
     IN  ReturnNewNode(s.key, <<W(Top.addr, s.old), W(new_addr, s.new)>>)

\* bt_insert, when the root was split: the old root has been given back.
NewRoot ==
  /\ At("new_root")
  /\ Extends
  /\ pc' = "return" /\ ret' = Done
  /\ writes' = <<W(new_addr, Node(<<rv.key>>, <<Top.addr, rv.addr>>)),
                 W(0, Header(new_addr, free_ptr))>>
  /\ path' = <<>> /\ rv' = NoRv
  /\ TakeBuffers(0, 2)
  /\ UNCHANGED <<disk, read_left_first, op>>

-----------------------------------------------------------------------------
(* Delete *)

DeleteMissing ==
  /\ AtLeaf({"delete"})
  /\ ~found_in_leaf.success
  /\ Finish(Raised, <<>>, 0)
  /\ UNCHANGED <<file_size, read_left_first>>

AtDeleteLeaf == AtLeaf({"delete"}) /\ found_in_leaf.success

cut_leaf == leaf_pop(Top.block, found_in_leaf.i)

DeleteFromLeaf ==
  /\ AtDeleteLeaf
  /\ AtRoot \/ nkeys(cut_leaf) >= MIN_NKEYS_LEAF
  /\ Finish(Done, <<W(Top.addr, cut_leaf)>>, 0)
  /\ UNCHANGED <<file_size, read_left_first>>

\* A child that lacks a key: bt_delete_get_sibling of its parent.  At an edge there
\* is one sibling; else the two are read first in turn.
is_edge_case   == Parent.i \in {0, nkeys(Parent.block)}
left_addr      == Parent.block.values[Parent.i]
right_addr     == Parent.block.values[Parent.i + 2]
first_sib_addr == IF read_left_first THEN left_addr ELSE right_addr

\* Mutant of is_left_sib: the second sibling is never looked at.
is_left_sib_first(min_nkeys) ==
  IF is_edge_case THEN Parent.i # 0 ELSE read_left_first

is_left_sib(min_nkeys) ==
  IF is_edge_case THEN Parent.i # 0
  ELSE IF nkeys(disk[first_sib_addr]) > min_nkeys THEN read_left_first
  ELSE ~read_left_first

sibling_addr(min_nkeys) == IF is_left_sib(min_nkeys) THEN left_addr ELSE right_addr
sibling(min_nkeys)      == disk[sibling_addr(min_nkeys)]

SiblingRead == read_left_first' = IF is_edge_case THEN read_left_first ELSE ~read_left_first

\* Mutant of ReturnToParent: the sibling first read is kept while the other is used.
ReturnToParentBothSiblings(result, ws, most) ==
  /\ SiblingRead
  /\ pc' = "delete_up" /\ rv' = result /\ writes' = ws
  /\ path' = Front(path)
  /\ TakeBuffers(-1, most + 1)
  /\ UNCHANGED <<disk, file_size, op, ret>>

\* The child and its sibling are done with; the parent goes on with the result.
ReturnToParent(result, ws, most) ==
  /\ SiblingRead
  /\ pc' = "delete_up" /\ rv' = result /\ writes' = ws
  /\ path' = Front(path)
  /\ TakeBuffers(-1, most)
  /\ UNCHANGED <<disk, file_size, op, ret>>

\* DELETE_RECURSE_CASE_MODIFY_KEY: `modified_key` is an int.
ReturnBorrow(index, modified_key, child, sib, min_nkeys) ==
  ReturnToParent(ModifyKey(index, as_int(modified_key)),
                 <<W(Top.addr, child), W(sibling_addr(min_nkeys), sib)>>, 1)

\* Mutant of ReturnMerge: the right one is freed before the left one is written.
ReturnMergeFreesFirst(ind_key_between, merge_right_addr, merge_left_addr, merge_left) ==
  ReturnToParent(DeleteKey(ind_key_between),
                 Append(bt_free_node(merge_right_addr), W(merge_left_addr, merge_left)), 3)

\* DELETE_RECURSE_CASE_DELETE_KEY: the left one is written, the right one freed.
ReturnMerge(ind_key_between, merge_right_addr, merge_left_addr, merge_left) ==
  ReturnToParent(DeleteKey(ind_key_between),
                 <<W(merge_left_addr, merge_left)>> \o bt_free_node(merge_right_addr), 3)

LeafLacksKey == AtDeleteLeaf /\ ~AtRoot /\ nkeys(cut_leaf) < MIN_NKEYS_LEAF

\* bt_delete_leaf
BorrowLeaf ==
  /\ LeafLacksKey
  /\ LET sib == sibling(MIN_NKEYS_LEAF)
         n   == nkeys(sib)
         m   == nkeys(cut_leaf)
     IN  /\ n > MIN_NKEYS_LEAF
         /\ IF is_left_sib(MIN_NKEYS_LEAF)
            THEN ReturnBorrow(Parent.i - 1, sib.keys[n],
                   leaf_insert(cut_leaf, 0, sib.keys[n], sib.values[n]),
                   leaf_pop(sib, n - 1), MIN_NKEYS_LEAF)
            ELSE ReturnBorrow(Parent.i, sib.keys[2],
                   leaf_insert(cut_leaf, m, sib.keys[1], sib.values[1]),
                   leaf_pop(sib, 0), MIN_NKEYS_LEAF)

MergeLeaves ==
  /\ LeafLacksKey
  /\ LET sib == sibling(MIN_NKEYS_LEAF)
     IN  /\ nkeys(sib) <= MIN_NKEYS_LEAF
         /\ IF is_left_sib(MIN_NKEYS_LEAF)
            THEN ReturnMerge(Parent.i - 1, Top.addr, left_addr, merge_leaves(sib, cut_leaf))
            ELSE ReturnMerge(Parent.i, right_addr, Top.addr, merge_leaves(cut_leaf, sib))

\* bt_delete_recurse or bt_delete, with a key of the node modified.
WriteModifiedNode ==
  /\ At("delete_up")
  /\ rv.cond = "MODIFY_KEY"
  /\ Finish(Done, <<W(Top.addr, [Top.block EXCEPT !.keys[rv.ind + 1] = rv.key])>>, 0)
  /\ UNCHANGED <<file_size, read_left_first>>

AtDeleteIntnode == At("delete_up") /\ rv.cond = "DELETE_KEY"

cut_node == node_pop(Top.block, rv.ind, rv.ind + 1)

\* Mutant of DeleteFromIntnode: a node may have one key less than the minimum.
DeleteFromIntnodeTooFew ==
  /\ AtDeleteIntnode
  /\ nkeys(cut_node) >= (IF AtRoot THEN 1 ELSE MIN_NKEYS_NODE - 1)
  /\ Finish(Done, <<W(Top.addr, cut_node)>>, 0)
  /\ UNCHANGED <<file_size, read_left_first>>

DeleteFromIntnode ==
  /\ AtDeleteIntnode
  /\ nkeys(cut_node) >= (IF AtRoot THEN 1 ELSE MIN_NKEYS_NODE)
  /\ Finish(Done, <<W(Top.addr, cut_node)>>, 0)
  /\ UNCHANGED <<file_size, read_left_first>>

\* Mutant of ShrinkRoot: bt_free_node comes last, with the header as it was before.
ShrinkRootStaleHeader ==
  /\ AtDeleteIntnode
  /\ AtRoot /\ nkeys(cut_node) = 0
  /\ Finish(Done, <<W(0, Header(cut_node.values[1], free_ptr))>> \o bt_free_node(Top.addr), 2)
  /\ UNCHANGED <<file_size, read_left_first>>

\* bt_delete, when the root has one child left: the root is freed, then the child
\* is made the root.
ShrinkRoot ==
  /\ AtDeleteIntnode
  /\ AtRoot /\ nkeys(cut_node) = 0
  /\ Finish(Done, Append(bt_free_node(Top.addr), W(0, Header(cut_node.values[1], Top.addr))), 2)
  /\ UNCHANGED <<file_size, read_left_first>>

IntnodeLacksKey == AtDeleteIntnode /\ ~AtRoot /\ nkeys(cut_node) < MIN_NKEYS_NODE

\* Mutant of BorrowIntnode: the sibling's outermost key comes over as it is.
BorrowIntnodeOwnKey ==
  /\ IntnodeLacksKey
  /\ LET sib == sibling(MIN_NKEYS_NODE)
         n   == nkeys(sib)
         m   == nkeys(cut_node)
     IN  /\ n > MIN_NKEYS_NODE
         /\ IF is_left_sib(MIN_NKEYS_NODE)
            THEN ReturnBorrow(Parent.i - 1, sib.keys[n],
                   node_insert(cut_node, 0, 0, sib.keys[n], sib.values[n + 1]),
                   node_pop(sib, n - 1, n), MIN_NKEYS_NODE)
            ELSE ReturnBorrow(Parent.i, sib.keys[1],
                   node_insert(cut_node, m, m + 1, sib.keys[1], sib.values[1]),
                   node_pop(sib, 0, 0), MIN_NKEYS_NODE)

\* bt_delete_intnode: the key between the two comes down, the outermost key of
\* the sibling goes up.
BorrowIntnode ==
  /\ IntnodeLacksKey
  /\ LET sib == sibling(MIN_NKEYS_NODE)
         n   == nkeys(sib)
         m   == nkeys(cut_node)
     IN  /\ n > MIN_NKEYS_NODE
         /\ IF is_left_sib(MIN_NKEYS_NODE)
            THEN ReturnBorrow(Parent.i - 1, sib.keys[n],
                   node_insert(cut_node, 0, 0, Parent.block.keys[Parent.i], sib.values[n + 1]),
                   node_pop(sib, n - 1, n), MIN_NKEYS_NODE)
            ELSE ReturnBorrow(Parent.i, sib.keys[1],
                   node_insert(cut_node, m, m + 1, Parent.block.keys[Parent.i + 1], sib.values[1]),
                   node_pop(sib, 0, 0), MIN_NKEYS_NODE)

MergeIntnodes ==
  /\ IntnodeLacksKey
  /\ LET sib == sibling(MIN_NKEYS_NODE)
     IN  /\ nkeys(sib) <= MIN_NKEYS_NODE
         /\ IF is_left_sib(MIN_NKEYS_NODE)
            THEN ReturnMerge(Parent.i - 1, Top.addr, left_addr,
                   merge_nodes(sib, Parent.block.keys[Parent.i], cut_node))
            ELSE ReturnMerge(Parent.i, right_addr, Top.addr,
                   merge_nodes(cut_node, Parent.block.keys[Parent.i + 1], sib))

-----------------------------------------------------------------------------
(* The specification *)

Init ==
  /\ disk = [a \in {} |-> ZeroBlock]
  /\ file_size = 0
  /\ buf_count = 0 /\ highest_buf_count = 0
  /\ read_left_first = TRUE
  /\ pc = "closed"
  /\ op = NoOp /\ path = <<>> /\ rv = NoRv /\ ret = NoResult /\ writes = <<>>

InsertStep ==
  \/ InsertDuplicate \/ UpdateLeaf \/ InsertLeaf \/ InsertLeafSplit
  \/ InsertIntnode \/ InsertIntnodeSplit \/ NewRoot \/ NewNodeAborts

DeleteStep ==
  \/ DeleteMissing \/ DeleteFromLeaf \/ BorrowLeaf \/ MergeLeaves
  \/ WriteModifiedNode \/ DeleteFromIntnode \/ ShrinkRoot
  \/ BorrowIntnode \/ MergeIntnodes

CodeStep ==
  bt_write_node \/ Return \/ Descend \/ bt_lookup \/ bt_range \/ InsertStep \/ DeleteStep

CallerStep == OpenNew \/ OpenExisting \/ bt_close \/ Exit \/ \E o \in Ops : Call(o)

Next == CodeStep \/ CallerStep

\* One thread, which runs until the call is over.
Spec == Init /\ [][Next]_cvars /\ WF_cvars(CodeStep)
=============================================================================
