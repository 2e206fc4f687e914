--------------------------- MODULE CBTree_proofs ---------------------------
(***************************************************************************)
(* btree.c, for every node capacity, every pool of buffers, every set of   *)
(* calls and whatever the blocks of the file hold: every path through      *)
(* every function gives back the buffers it took.                          *)
(***************************************************************************)
EXTENDS CBTreeProps, SequenceTheorems, TLAPS

-----------------------------------------------------------------------------
(* The frames of the recursion are the buffers taken                       *)

IsSequence(s) == \E S : s \in Seq(S)

\* Between calls and while a call returns there are no frames; get and range
\* hold one; every other call has taken one buffer for each frame, but when it
\* makes a new root, after the buffer of the old one is given back.
BuffersInv ==
  /\ IsSequence(path)
  /\ buf_count \in Int
  /\ pc \in {"idle", "return", "closed"} => path = <<>>
  /\ pc \in {"search", "scan", "insert_up", "delete_up", "new_root"} => path # <<>>
  /\ pc \in {"scan", "new_root"} => Len(path) = 1
  /\ pc = "search" /\ op.kind \in {"get", "range"} => Len(path) = 1
  /\ pc # "closed" => buf_count = IF pc = "new_root" THEN 0 ELSE Len(path)

LEMMA SequenceLength ==
  ASSUME NEW s, IsSequence(s)
  PROVE  Len(s) \in Nat /\ (s # <<>> => Len(s) >= 1) /\ (s = <<>> => Len(s) = 0)
BY DEF IsSequence

LEMMA EmptyIsSequence == IsSequence(<<>>) /\ Len(<<>>) = 0
BY DEF IsSequence

LEMMA OneIsSequence ==
  ASSUME NEW e
  PROVE  IsSequence(<<e>>) /\ Len(<<e>>) = 1 /\ <<e>> # <<>>
<1>1. <<e>> \in Seq({e})
  OBVIOUS
<1>2. QED
  BY <1>1 DEF IsSequence

LEMMA FrontIsSequence ==
  ASSUME NEW s, IsSequence(s), Len(s) >= 2
  PROVE  IsSequence(Front(s)) /\ Len(Front(s)) = Len(s) - 1 /\ Front(s) # <<>>
<1>1. PICK S : s \in Seq(S)
  BY DEF IsSequence
<1>2. Front(s) \in Seq(S) /\ Len(Front(s)) = Len(s) - 1
  BY <1>1 DEF Front
<1>3. Front(s) # <<>>
  BY <1>1, <1>2
<1>4. QED
  BY <1>2, <1>3 DEF IsSequence

\* A frame whose index is set, and one more.
Indexed(s, n, i) == [s EXCEPT ![n].i = i]

LEMMA DeeperIsSequence ==
  ASSUME NEW s, IsSequence(s), s # <<>>, NEW i, NEW e
  PROVE  /\ IsSequence(Append(Indexed(s, Len(s), i), e))
         /\ Len(Append(Indexed(s, Len(s), i), e)) = Len(s) + 1
         /\ Append(Indexed(s, Len(s), i), e) # <<>>
<1> DEFINE n == Len(s)
           f == [s[n] EXCEPT !.i = i]
           t == [s EXCEPT ![n] = f]
<1>1. PICK S : s \in Seq(S)
  BY DEF IsSequence
<1>2. n \in 1..Len(s) /\ Len(s) \in Nat
  BY <1>1
<1>3. Indexed(s, n, i) = t
  BY DEF Indexed
<1>4. s \in Seq(S \cup {f, e}) /\ f \in S \cup {f, e}
  BY <1>1
<1> HIDE DEF f
<1>5. t \in Seq(S \cup {f, e}) /\ Len(t) = Len(s)
  BY <1>2, <1>4, ExceptSeq
<1>6. /\ Append(t, e) \in Seq(S \cup {f, e}) /\ Len(Append(t, e)) = Len(s) + 1
      /\ Append(t, e) # <<>>
  BY <1>5
<1>7. QED
  BY <1>3, <1>6 DEF IsSequence

-----------------------------------------------------------------------------
(* The ways in which a step takes and gives back                           *)

\* A call that is done gives back the buffers of all its frames.
LEMMA FinishBuffers ==
  ASSUME BuffersInv, pc \in {"search", "scan", "insert_up", "delete_up"},
         NEW r, NEW ws, NEW most, Finish(r, ws, most)
  PROVE  BuffersInv'
<1>1. path' = <<>> /\ pc' = "return" /\ buf_count' = buf_count + -Len(path)
  BY DEF Finish, TakeBuffers
<1>2. buf_count = Len(path) /\ Len(path) \in Nat
  BY SequenceLength DEF BuffersInv
<1>3. QED
  BY <1>1, <1>2, EmptyIsSequence DEF BuffersInv

\* A node that is done is given back, and the one above goes on.
LEMMA UpBuffers ==
  ASSUME BuffersInv, pc \in {"search", "insert_up", "delete_up"}, ~AtRoot,
         path' = Front(path), pc' \in {"insert_up", "delete_up"}, NEW most, TakeBuffers(-1, most)
  PROVE  BuffersInv'
<1>1. IsSequence(path) /\ Len(path) \in Nat /\ Len(path) >= 2 /\ buf_count = Len(path)
  <2>1. IsSequence(path) /\ path # <<>> /\ buf_count = Len(path)
    BY DEF BuffersInv
  <2>2. Len(path) \in Nat /\ Len(path) >= 1
    BY <2>1, SequenceLength
  <2>3. QED
    BY <2>1, <2>2 DEF AtRoot
<1>2. IsSequence(path') /\ Len(path') = Len(path) - 1 /\ path' # <<>>
  BY <1>1, FrontIsSequence
<1>3. buf_count' = buf_count - 1
  BY <1>1 DEF TakeBuffers
<1>4. QED
  BY <1>1, <1>2, <1>3 DEF BuffersInv

LEMMA ReturnToParentBuffers ==
  ASSUME BuffersInv, pc \in {"search", "delete_up"}, ~AtRoot,
         NEW result, NEW ws, NEW most, ReturnToParent(result, ws, most)
  PROVE  BuffersInv'
BY UpBuffers DEF ReturnToParent

LEMMA ReturnNewNodeBuffers ==
  ASSUME BuffersInv, pc \in {"search", "insert_up"}, op.kind \notin {"get", "range"} \/ pc # "search",
         NEW key, NEW ws, ReturnNewNode(key, ws)
  PROVE  BuffersInv'
<1>1. CASE ~AtRoot
  BY <1>1, UpBuffers DEF ReturnNewNode
<1>2. CASE AtRoot
  <2>1. path' = path /\ pc' = "new_root" /\ buf_count' = buf_count - 1 /\ Len(path) = 1
    BY <1>2 DEF ReturnNewNode, TakeBuffers, AtRoot, BuffersInv
  <2>2. buf_count = 1
    BY <1>2 DEF BuffersInv, AtRoot
  <2>3. QED
    BY <2>1, <2>2 DEF BuffersInv
<1>3. QED
  BY <1>1, <1>2

LEMMA DescendBuffers == BuffersInv /\ Descend => BuffersInv'
<1> SUFFICES ASSUME BuffersInv, Descend PROVE BuffersInv'
  OBVIOUS
<1>1. pc = "search" /\ pc' = "search" /\ op' = op
  BY DEF Descend, At
<1>2. IsSequence(path) /\ path # <<>> /\ Len(path) \in Nat /\ buf_count = Len(path)
  BY <1>1, SequenceLength DEF BuffersInv
<1>3. CASE op.kind \in {"get", "range"}
  <2>1. PICK child : path' = <<child>> /\ TakeBuffers(0, 0)
    BY <1>3 DEF Descend
  <2>2. IsSequence(path') /\ Len(path') = 1 /\ path' # <<>>
    BY <2>1, OneIsSequence
  <2>3. buf_count' = 1
    BY <1>1, <1>2, <1>3, <2>1 DEF BuffersInv, TakeBuffers
  <2>4. QED
    BY <1>1, <2>2, <2>3 DEF BuffersInv
<1>4. CASE op.kind \notin {"get", "range"}
  <2>1. PICK i, child : path' = Append(Indexed(path, Len(path), i), child) /\ TakeBuffers(1, 1)
    BY <1>4 DEF Descend, Indexed
  <2>2. IsSequence(path') /\ Len(path') = Len(path) + 1 /\ path' # <<>>
    BY <1>2, <2>1, DeeperIsSequence
  <2>3. buf_count' = buf_count + 1
    BY <2>1 DEF TakeBuffers
  <2>4. QED
    BY <1>1, <1>2, <1>4, <2>2, <2>3 DEF BuffersInv
<1>5. QED
  BY <1>3, <1>4

LEMMA RangeBuffers == BuffersInv /\ bt_range => BuffersInv'
<1> SUFFICES ASSUME BuffersInv, bt_range PROVE BuffersInv'
  OBVIOUS
<1>1. pc = "scan" \/ (pc = "search" /\ op.kind = "range")
  BY DEF bt_range, AtLeaf, At
<1>2. Len(path) = 1 /\ buf_count = 1
  BY <1>1 DEF BuffersInv
<1>3. CASE \E r : Finish(r, <<>>, 0)
  BY <1>1, <1>3, FinishBuffers
<1>4. CASE \E next : path' = <<Frame(next)>> /\ pc' = "scan" /\ TakeBuffers(0, 0)
  <2>1. PICK next : path' = <<Frame(next)>> /\ pc' = "scan" /\ TakeBuffers(0, 0)
    BY <1>4
  <2>2. IsSequence(path') /\ Len(path') = 1 /\ path' # <<>>
    BY <2>1, OneIsSequence
  <2>3. buf_count' = 1
    BY <1>2, <2>1 DEF TakeBuffers
  <2>4. QED
    BY <2>1, <2>2, <2>3 DEF BuffersInv
<1>5. QED
  BY <1>3, <1>4 DEF bt_range

\* bt_insert and what it calls.
LEMMA InsertBuffers == BuffersInv /\ InsertStep => BuffersInv'
<1> SUFFICES ASSUME BuffersInv, InsertStep PROVE BuffersInv'
  OBVIOUS
<1>1. CASE InsertDuplicate \/ UpdateLeaf \/ InsertLeaf
  <2>1. pc = "search"
    BY <1>1 DEF InsertDuplicate, UpdateLeaf, InsertLeaf, AtInsertLeaf, AtLeaf, At
  <2>2. \E r, ws : Finish(r, ws, 0)
    BY <1>1 DEF InsertDuplicate, UpdateLeaf, InsertLeaf
  <2>3. QED
    BY <2>1, <2>2, FinishBuffers
<1>2. CASE InsertLeafSplit
  <2>1. pc = "search" /\ op.kind \in {"insert", "update"}
    BY <1>2 DEF InsertLeafSplit, LeafSplits, AtInsertLeaf, AtLeaf, At
  <2>2. \E key, ws : ReturnNewNode(key, ws)
    BY <1>2 DEF InsertLeafSplit
  <2>3. QED
    BY <2>1, <2>2, ReturnNewNodeBuffers
<1>3. CASE InsertIntnode
  <2>1. pc = "insert_up"
    BY <1>3 DEF InsertIntnode, AtInsertIntnode, At
  <2>2. \E r, ws : Finish(r, ws, 0)
    BY <1>3 DEF InsertIntnode
  <2>3. QED
    BY <2>1, <2>2, FinishBuffers
<1>4. CASE InsertIntnodeSplit
  <2>1. pc = "insert_up"
    BY <1>4 DEF InsertIntnodeSplit, IntnodeSplits, AtInsertIntnode, At
  <2>2. \E key, ws : ReturnNewNode(key, ws)
    BY <1>4 DEF InsertIntnodeSplit
  <2>3. QED
    BY <2>1, <2>2, ReturnNewNodeBuffers
<1>5. CASE NewRoot
  <2>1. pc = "new_root" /\ pc' = "return" /\ path' = <<>> /\ buf_count' = buf_count + 0
    BY <1>5 DEF NewRoot, At, TakeBuffers
  <2>2. buf_count' = 0
    BY <2>1 DEF BuffersInv
  <2>3. QED
    BY <2>1, <2>2, EmptyIsSequence DEF BuffersInv
<1>6. CASE NewNodeAborts
  <2>1. path' = <<>> /\ pc' = "closed" /\ buf_count' = buf_count
    BY <1>6 DEF NewNodeAborts
  <2>2. QED
    BY <2>1, EmptyIsSequence DEF BuffersInv
<1>7. QED
  BY <1>1, <1>2, <1>3, <1>4, <1>5, <1>6 DEF InsertStep

\* bt_delete and what it calls: a sibling that is not used is given back, and the
\* child and the sibling that are, when the parent goes on.
LEMMA DeleteBuffers == BuffersInv /\ DeleteStep => BuffersInv'
<1> SUFFICES ASSUME BuffersInv, DeleteStep PROVE BuffersInv'
  OBVIOUS
<1>1. CASE DeleteMissing \/ DeleteFromLeaf
  <2>1. pc = "search"
    BY <1>1 DEF DeleteMissing, DeleteFromLeaf, AtDeleteLeaf, AtLeaf, At
  <2>2. \E r, ws : Finish(r, ws, 0)
    BY <1>1 DEF DeleteMissing, DeleteFromLeaf
  <2>3. QED
    BY <2>1, <2>2, FinishBuffers
<1>2. CASE WriteModifiedNode \/ DeleteFromIntnode \/ ShrinkRoot
  <2>1. pc = "delete_up"
    BY <1>2 DEF WriteModifiedNode, DeleteFromIntnode, ShrinkRoot, AtDeleteIntnode, At
  <2>2. \E r, ws, most : Finish(r, ws, most)
    BY <1>2 DEF WriteModifiedNode, DeleteFromIntnode, ShrinkRoot
  <2>3. QED
    BY <2>1, <2>2, FinishBuffers
<1>3. CASE BorrowLeaf \/ MergeLeaves
  <2>1. pc = "search" /\ ~AtRoot
    BY <1>3 DEF BorrowLeaf, MergeLeaves, LeafLacksKey, AtDeleteLeaf, AtLeaf, At
  <2>2. \E result, ws, most : ReturnToParent(result, ws, most)
    BY <1>3 DEF BorrowLeaf, MergeLeaves, ReturnBorrow, ReturnMerge
  <2>3. QED
    BY <2>1, <2>2, ReturnToParentBuffers
<1>4. CASE BorrowIntnode \/ MergeIntnodes
  <2>1. pc = "delete_up" /\ ~AtRoot
    BY <1>4 DEF BorrowIntnode, MergeIntnodes, IntnodeLacksKey, AtDeleteIntnode, At
  <2>2. \E result, ws, most : ReturnToParent(result, ws, most)
    BY <1>4 DEF BorrowIntnode, MergeIntnodes, ReturnBorrow, ReturnMerge
  <2>3. QED
    BY <2>1, <2>2, ReturnToParentBuffers
<1>5. QED
  BY <1>1, <1>2, <1>3, <1>4 DEF DeleteStep

\* Opening, closing, calling and returning.
LEMMA CallerBuffers == BuffersInv /\ CallerStep => BuffersInv'
<1> SUFFICES ASSUME BuffersInv, CallerStep PROVE BuffersInv'
  OBVIOUS
<1>1. CASE OpenNew \/ OpenExisting
  <2>1. pc = "closed" /\ pc' = "return" /\ path' = path /\ buf_count' = 0
    BY <1>1 DEF OpenNew, OpenExisting, At
  <2>2. QED
    BY <2>1, EmptyIsSequence DEF BuffersInv
<1>2. CASE bt_close \/ Exit
  <2>1. pc \in {"idle", "closed"} /\ pc' = "closed" /\ path' = path /\ buf_count' = buf_count
    BY <1>2 DEF bt_close, Exit, At
  <2>2. QED
    BY <2>1 DEF BuffersInv
<1>3. CASE \E o \in Ops : Call(o)
  <2>1. /\ pc = "idle" /\ pc' = "search"
        /\ path' = <<Frame(root_ptr)>> /\ buf_count' = buf_count + 1
    BY <1>3 DEF Call, At, TakeBuffers
  <2>2. buf_count = 0
    BY <2>1, EmptyIsSequence DEF BuffersInv
  <2>3. IsSequence(path') /\ Len(path') = 1 /\ path' # <<>>
    BY <2>1, OneIsSequence
  <2>4. QED
    BY <2>1, <2>2, <2>3 DEF BuffersInv
<1>4. QED
  BY <1>1, <1>2, <1>3 DEF CallerStep

LEMMA BuffersStep == BuffersInv /\ [Next]_cvars => BuffersInv'
<1> SUFFICES ASSUME BuffersInv, [Next]_cvars PROVE BuffersInv'
  OBVIOUS
<1>1. CASE bt_write_node
  BY <1>1 DEF bt_write_node, BuffersInv
<1>2. CASE Return
  <2>1. pc = "return" /\ pc' = "idle" /\ path' = path /\ buf_count' = buf_count
    BY <1>2 DEF Return, At
  <2>2. QED
    BY <2>1 DEF BuffersInv
<1>3. CASE bt_lookup
  BY <1>3, FinishBuffers DEF bt_lookup, AtLeaf, At
<1>4. CASE UNCHANGED cvars
  BY <1>4 DEF cvars, BuffersInv
<1>5. QED
  BY <1>1, <1>2, <1>3, <1>4, DescendBuffers, RangeBuffers, InsertBuffers, DeleteBuffers,
     CallerBuffers DEF Next, CodeStep

-----------------------------------------------------------------------------

\* Whenever a call begins no buffer is taken: the assertions of bt_insert,
\* bt_delete and bt_range that bt->buf_count is 0 (btree.c:386, 693, 1196) hold
\* after every history of calls, whatever the file holds.
THEOREM BuffersAreGivenBack == CPSpec => []NoBufferLeaked
<1>1. CPInit => BuffersInv
  BY EmptyIsSequence DEF CPInit, Init, BuffersInv
<1>2. BuffersInv /\ [CPNext]_cpvars => BuffersInv'
  BY BuffersStep DEF CPNext, cpvars
<1>3. BuffersInv => NoBufferLeaked
  BY EmptyIsSequence DEF BuffersInv, NoBufferLeaked
<1>4. QED
  BY <1>1, <1>2, <1>3, PTL DEF CPSpec
=============================================================================
