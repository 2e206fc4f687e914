---------------------------- MODULE CBTreeProps ----------------------------
(***************************************************************************)
(* What must hold of CBTree.  `before` is a history variable: the map the  *)
(* tree held when the current call began.                                  *)
(***************************************************************************)
EXTENDS CBTree, TreeShape

VARIABLE before

-----------------------------------------------------------------------------
(* The specification with its history *)

CPInit == Init /\ before = EmptyMap

Remember == before' = IF pc \in {"idle", "closed"} THEN TreeContent(disk) ELSE before

CPNext == Next /\ Remember

cpvars == <<cvars, before>>

CPSpec == CPInit /\ [][CPNext]_cpvars /\ WF_cpvars(CodeStep /\ Remember)

-----------------------------------------------------------------------------
(* Between calls, and after a call that ended the process *)

Settled == pc \in {"idle", "closed"} /\ DOMAIN disk # {}

\* The variables have their types.
CTypeOK ==
  /\ DOMAIN disk \subseteq Nat /\ \A a \in DOMAIN disk : disk[a] \in Block /\ Fitting(disk[a])
  /\ file_size \in Nat
  /\ buf_count \in 0..NUM_BUFS /\ highest_buf_count \in buf_count..NUM_BUFS
  /\ read_left_first \in BOOLEAN
  /\ op \in Ops \cup {NoOp}
  /\ path \in Seq([addr : Nat, block : {b \in Block : Fitting(b)}, i : Nat])
  /\ rv \in [cond : Cases, ind : Nat, key : Word, addr : Nat]
  /\ writes \in Seq([addr : Nat, block : {b \in Block : Fitting(b)}])

\* Every block is once in the tree or once on the free list, and the leaves form
\* one list, also when an assertion in bt_insert ended the process: bt_new_node
\* (btree.c:194-216) fails before the call has written anything.
FileIntact == Settled => AllBlocksOnce(disk, file_size)

\* What is stored is found, and in order: the separators stay right through the
\* alternation between siblings, borrows of either side and merges
\* (btree.c:882-1137), for keys that fit an int.
KeysFound == Settled => Searchable(disk)

\* All leaves are equally deep and no node has less than the minimum of keys.
Level == Settled => FullAndLevel(disk)

\* bt_insert, bt_delete and bt_range assert that no buffer is taken when they
\* begin (btree.c:386, 693, 1196): every path through every function gives back
\* what it took.
NoBufferLeaked == pc = "idle" => buf_count = 0

\* A call never holds more than three buffers beyond the depth of the tree: the
\* nodes on the path, a sibling, and the header and the free block in
\* bt_free_node.  The ten buffers (NUM_BUFS) are enough up to seven levels.
BuffersFollowDepth ==
  [][highest_buf_count' > highest_buf_count /\ DOMAIN disk # {} =>
       highest_buf_count' <= Depth(disk) + 3]_cpvars

\* bt_delete_get_sibling, btree.c:775: "Returns a sibling with nkeys > min_nkeys
\* if one exists": whichever sibling is read first, two nodes are merged only if
\* neither neighbour in the parent could lend a key.
MergesOnlyWithoutLender ==
  [][pc' = "delete_up" /\ rv'.cond = "DELETE_KEY" /\ Len(path') < Len(path) =>
       LET min == IF Top.block.tag = "leaf" THEN MIN_NKEYS_LEAF ELSE MIN_NKEYS_NODE
       IN  \A j \in {Parent.i - 1, Parent.i + 1} \cap 0..nkeys(Parent.block) :
             nkeys(disk[Parent.block.values[j + 1]]) <= min]_cpvars

-----------------------------------------------------------------------------
(* In the middle of a call, as the end of the process would leave the file *)

MayHold == {before, Effect(before, op)}

\* What bt_lookup may answer for k in a file left behind now.  A freed block cannot be
\* recognised (btree.c:218-231): it may pass for a leaf that holds k, with the pointer
\* to the next free block or an old value for it, or for a node that leads anywhere.
MayAnswer(k) ==
  LET end == SearchEnd(disk, k)
  IN  CASE BlockAt(disk, end).tag = "free"    -> Word \cup {None}
        [] Found(BlockAt(disk, end), k)       -> {Entry(disk, end, k)}
        [] OTHER                              -> {None}

\* What is no wrong answer: a value from before or after the call, or none.
Right(k) == {None} \cup {m[k] : m \in {n \in MayHold : k \in DOMAIN n}}

\* The delete under way has freed block a, and the block that leads to it on file, its
\* parent or the header, is in memory without it or about to be written.
BeingDropped(a) ==
  /\ op.kind = "delete" /\ BlockAt(disk, a).tag = "free"
  /\ \E p \in {w.addr : w \in ToSet(writes)} \cup (IF pc = "delete_up" THEN {Top.addr} ELSE {}) :
       a \in IF p = 0 THEN {RootOf(disk)} ELSE ToSet(BlockAt(disk, p).values)

\* In a file left behind at any write of any call, bt_lookup answers wrongly only if it
\* comes upon a freed block, and it comes upon one only in the window of a delete
\* between the write of that block and the write of the parent (or, for the old root,
\* of the header) that still leads to it.  bt_range does not walk into one: the leaf
\* before a freed leaf is written first (btree.c:993-994), so no leaf leads to it.
OnlyAnUnwrittenParentMisleads ==
  op # NoOp =>
    /\ \A k \in {o.k : o \in Ops} :
         MayAnswer(k) \subseteq Right(k) \/ BeingDropped(SearchEnd(disk, k))
    /\ \A a \in DOMAIN disk :
         disk[a].tag = "leaf" => BlockAt(disk, disk[a].next).tag # "free"

\* At no instant of a delete is a pair that stays lost from both its leaf and the
\* file's other leaves: a borrow writes the leaf that gains the pair before the
\* sibling that loses it (btree.c:931-932, 952-953), a merge writes the left leaf before it
\* frees the right one (btree.c:993-994).
DeleteKeepsACopy ==
  op.kind = "delete" =>
    \A k \in DOMAIN before \ {op.k} :
      \E a \in DOMAIN disk : disk[a].tag = "leaf" /\ Found(disk[a], k) /\ Entry(disk, a, k) = before[k]

-----------------------------------------------------------------------------
(* What the caller sees *)

\* The content of the map is what the leaves hold between calls; a call takes
\* effect when it returns.  A failed assertion ends the call without effect.
Map == INSTANCE CMap WITH
         content <- IF pc \in {"idle", "closed"} THEN TreeContent(disk) ELSE before,
         call    <- op,
         result  <- IF pc \in {"idle", "closed"} \/ op = NoOp THEN ret ELSE NoResult

\* For keys that fit an int the tree answers and acts as a map.
ImplementsCMap == Map!CMapSpec

\* Every call returns, or ends the process.
CallsEnd == op # NoOp ~> op = NoOp

-----------------------------------------------------------------------------
(* What btree.c says of itself and does not do *)

\* bt_new_node, btree.c:205: assert(node->nkeys == INVALID_NKEYS).
NewNodeAssertionHolds == ret.status # "aborted"

\* bt_insert, btree.c:689-690: "Return zero on success, non-zero on error.  Error
\* occurs in one situation: a duplicate key when allow_update is false."
DuplicateIsError ==
  pc = "return" /\ op.kind = "insert" /\ ret = Done => op.k \notin DOMAIN before
=============================================================================
