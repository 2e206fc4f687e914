--------------------------- MODULE MemBTreeProps ---------------------------
(***************************************************************************)
(* What must hold of MemBTree.  Two history variables tell what an         *)
(* iteration has seen: `seen`, every pair the tree has held since it       *)
(* began, and `nth`, the pairs it has yielded, None once the tree has been *)
(* changed under it.                                                       *)
(***************************************************************************)
EXTENDS MemBTree

VARIABLES seen, nth

pvars == <<vars, seen, nth>>

-----------------------------------------------------------------------------
(* The pairs of the tree *)

PairsOf(h, r) ==
  LET pairs[a \in DOMAIN h] ==
        IF h[a].is_leaf THEN [i \in 1..h[a].nkeys |-> <<h[a].keys[i - 1], h[a].values[i - 1]>>]
        ELSE FoldLeft(LAMBDA ps, c : ps \o pairs[c], <<>>, Children(h[a]))
  IN  pairs[r]

Content == PairsOf(heap, root)
MapOf(pairs) == [k \in {p[1] : p \in ToSet(pairs)} |-> (CHOOSE p \in ToSet(pairs) : p[1] = k)[2]]

\* The lengths of the paths from a node to the leaves under it.
Heights ==
  LET heights[a \in DOMAIN heap] ==
        IF heap[a].is_leaf THEN {1}
        ELSE {d + 1 : d \in UNION {heights[c] : c \in ToSet(Children(heap[a]))}}
  IN  heights[root]

-----------------------------------------------------------------------------
(* The specification with its history *)

PInit == Init /\ seen = {} /\ nth = 0

SawCall ==
  /\ seen' = IF frames = <<>> THEN {} ELSE seen \cup ToSet(Content')
  /\ nth' = IF frames # <<>> /\ heap' # heap THEN None ELSE nth

SawNext ==
  /\ seen' = IF frames' = <<>> THEN {} ELSE seen \cup ToSet(Content)
  /\ nth' = IF frames' = <<>> THEN 0 ELSE IF nth = None THEN None ELSE nth + 1

PNext ==
  \/ held /\ Call /\ SawCall
  \/ held /\ iter_next /\ SawNext

PSpec == PInit /\ [][PNext]_pvars /\ WF_pvars(held /\ iter_next /\ SawNext)

-----------------------------------------------------------------------------
(* The tree *)

\* None of the assertions of pybtree.py (the array bounds, Node.asserts and
\* assert_min_capacity after every split, borrow and merge) can fail.
AssertionsHold == held

\* BTree.size and BTree.depth, which insert and delete count up and down by
\* whether ValueError is raised and whether the root is another object, are the
\* number of pairs and the length of every path from the root to a leaf.
SizeAndDepthAgree == size = Len(Content) /\ Heights = {depth}

\* The keys ascend strictly from leaf to leaf, and every node but the root has
\* at least the minimum of keys (a root that is a node has one).
SortedAndFull ==
  /\ \A j \in 1..(Len(Content) - 1) : Content[j][1] < Content[j + 1][1]
  /\ \A a \in ToSet(Reach(heap, <<root>>)) :
       IF a = root THEN heap[a].is_leaf \/ heap[a].nkeys > 0 ELSE ~under_min_nkeys(heap[a])

\* Whatever call is made now has the effect and the result it has on a map:
\* separators lead every search to the key, insert of a key that is there and
\* delete of one that is not raise, and a call that raises changes no node.  (A
\* call does not look at the iteration: the trees without one are all trees.)
CallsActOnAMap ==
  frames = <<>> => \A m \in {MapOf(Content)}, o \in Ops : \A after \in {After(o)} :
    /\ MapOf(PairsOf(after.h, after.root)) = Effect(m, o)
    /\ after.raised = Raises(m, o)
    /\ after.raised => after = [h |-> heap, raised |-> TRUE, root |-> root,
                                size |-> size, depth |-> depth]
    /\ o.kind = "get" => Answer(get(o.k)) = Result(m, o)

-----------------------------------------------------------------------------
(* The iteration *)

\* A loop over a tree nobody changes yields its pairs in key order, each once.  A
\* loop whose body inserts and deletes may skip pairs, repeat them, yield
\* (None, None) or fail on a child that has moved away, but never yields a pair
\* the tree has not held since the loop began, nor a key with another's value.
IterationIsRight ==
  \E out \in {NextPair.out} :
    IF nth # None
    THEN out = IF nth < Len(Content) THEN Yield(Content[nth + 1][1], Content[nth + 1][2])
               ELSE StopIteration
    ELSE out.kind = "yield" => <<out.k, out.v>> \in seen \cup {<<None, None>>}

\* A loop over the tree ends, whatever its body inserts and deletes: the range
\* of a node is fixed when it is entered, and only its descendants follow.
IterationEnds == frames # <<>> ~> frames = <<>>
=============================================================================
