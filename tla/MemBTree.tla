----------------------------- MODULE MemBTree -----------------------------
(***************************************************************************)
(* The in-memory tree of pybtree.py: node objects with arrays of fixed     *)
(* length padded with None, a size and a depth counted beside them, and    *)
(* the generator that iterates over the pairs.                             *)
(*                                                                         *)
(* Nothing here fails half way but an assertion, so a call is one step.    *)
(* What interleaves with the calls is the generator: it runs only inside   *)
(* next(), and keeps the nodes it is in, and how far it counts in each,    *)
(* while its caller changes the tree.                                      *)
(*                                                                         *)
(* Arrays are indexed from 0, as in the code.  An assertion that fails     *)
(* clears the field ok of the node it looks at (`held` collects them).     *)
(***************************************************************************)
EXTENDS MapCalls

CONSTANT N  \* keys per node

\* BTree.__init__ asserts it.
ASSUME NAssumption == N \in Nat /\ N >= 2

VARIABLES
  heap,    \* the nodes, by identity: those the root or the generator leads to
  root,    \* BTree.root
  size,    \* BTree.size
  depth,   \* BTree.depth
  frames,  \* the generator's frames, outermost first; <<>>: no iteration
  held     \* no assertion has failed

vars == <<heap, root, size, depth, frames, held>>

Node(leaf) == [keys |-> [i \in 0..(N - 1) |-> None], nkeys |-> 0,
               values |-> [i \in 0..N |-> None], nvalues |-> 0,
               is_leaf |-> leaf, ok |-> TRUE]

Asserted(n, claim) == [n EXCEPT !.ok = @ /\ claim]

-----------------------------------------------------------------------------
(* Assertions and searches *)

asserts(n) ==
  /\ n.nvalues = IF n.is_leaf THEN n.nkeys ELSE n.nkeys + 1
  /\ n.nkeys \in 0..N
  /\ \A i \in 0..(n.nkeys - 1) : n.keys[i] # None
  /\ \A i \in 1..(n.nkeys - 1) : n.keys[i - 1] < n.keys[i]
  /\ \A i \in n.nkeys..(N - 1) : n.keys[i] = None
  /\ \A i \in n.nvalues..N : n.values[i] = None

min_nkeys_leaf == (N + 1) \div 2
min_nkeys_node == N \div 2
under_min_nkeys(n) == n.nkeys < (IF n.is_leaf THEN min_nkeys_leaf ELSE min_nkeys_node)

\* asserts() and assert_min_capacity()
AssertFull(n) == Asserted(n, asserts(n) /\ ~under_min_nkeys(n))

\* Mutant of search_node: a key equal to a separator is looked for on its left.
search_node_left(k, n) == Min({i \in 0..(n.nkeys - 1) : k <= n.keys[i]} \cup {n.nkeys})

\* The first index whose key is greater than k.
search_node(k, n) == Min({i \in 0..(n.nkeys - 1) : k < n.keys[i]} \cup {n.nkeys})

\* The first index whose key is k or greater, and whether it is k.
search_leaf(k, n) == Min({i \in 0..(n.nkeys - 1) : k <= n.keys[i]} \cup {n.nkeys})
Found(k, n) == search_leaf(k, n) < n.nkeys /\ n.keys[search_leaf(k, n)] = k

\* The way from node r down to the leaf for k: each node with the index taken
\* in it.
PathTo(h, k, r) ==
  LET path[a \in DOMAIN h] ==
        IF h[a].is_leaf THEN <<[node |-> a, ind |-> search_leaf(k, h[a])]>>
        ELSE LET i == search_node(k, h[a])
             IN  <<[node |-> a, ind |-> i]>> \o path[h[a].values[i]]
  IN  path[r]

search(k, h, r) ==
  LET n == h[Last(PathTo(h, k, r)).node]
  IN  IF Found(k, n) THEN n.values[search_leaf(k, n)] ELSE None

-----------------------------------------------------------------------------
(* Arrays *)

array_insert(index, x, arr, arr_len) ==
  [i \in DOMAIN arr |-> IF i = index THEN x
                        ELSE IF i \in (index + 1)..arr_len THEN arr[i - 1] ELSE arr[i]]

HasRoom(arr, arr_len) == arr_len \in DOMAIN arr /\ arr[arr_len] = None

\* The first `midpoint` elements, x among them or not, stay; the others move to
\* a new array.
array_insert_split(index, x, midpoint, arr) ==
  LET At(i) == IF i \in DOMAIN arr THEN arr[i] ELSE None
  IN  IF index < midpoint
      THEN [old |-> [i \in DOMAIN arr |-> IF i >= midpoint THEN None
                                          ELSE IF i = index THEN x
                                          ELSE IF i > index THEN arr[i - 1] ELSE arr[i]],
            new |-> [i \in DOMAIN arr |-> At(i + midpoint - 1)]]
      ELSE [old |-> [i \in DOMAIN arr |-> IF i >= midpoint THEN None ELSE arr[i]],
            new |-> [i \in DOMAIN arr |-> IF i + midpoint < index THEN arr[i + midpoint]
                                          ELSE IF i + midpoint = index THEN x
                                          ELSE At(i + midpoint - 1)]]

\* Mutant of array_delete: the slot behind the last element is not cleared.
array_delete_uncleared(index, arr, arr_len) ==
  [i \in DOMAIN arr |-> IF i \in index..(arr_len - 2) THEN arr[i + 1] ELSE arr[i]]

array_delete(index, arr, arr_len) ==
  [i \in DOMAIN arr |-> IF i = arr_len - 1 THEN None
                        ELSE IF i \in index..(arr_len - 2) THEN arr[i + 1] ELSE arr[i]]

\* Mutant of array_merge_prepend: the elements are appended.
array_merge_append(src, src_len, dest, dest_len) ==
  [i \in DOMAIN dest |-> IF i \in dest_len..(dest_len + src_len - 1) THEN src[i - dest_len]
                         ELSE dest[i]]

array_merge_prepend(src, src_len, dest, dest_len) ==
  [i \in DOMAIN dest |-> IF i < src_len THEN src[i]
                         ELSE IF i < src_len + dest_len THEN dest[i - src_len] ELSE dest[i]]

node_insert(k, v, ind_k, ind_v, n) ==
  [n EXCEPT !.keys = array_insert(ind_k, k, @, n.nkeys), !.nkeys = @ + 1,
            !.values = array_insert(ind_v, v, @, n.nvalues), !.nvalues = @ + 1,
            !.ok = @ /\ HasRoom(n.keys, n.nkeys) /\ HasRoom(n.values, n.nvalues)]

node_insert_right(k, v, n) == node_insert(k, v, n.nkeys, n.nvalues, n)

\* Mutant of node_pop: the values do not move up.
node_pop_keys_only(ind_k, ind_v, n) ==
  [n EXCEPT !.keys = array_delete(ind_k, @, n.nkeys), !.nkeys = @ - 1, !.nvalues = @ - 1,
            !.ok = @ /\ n.nkeys \in 1..N /\ n.nvalues \in 1..(N + 1)]

\* The node that is left; what was popped is n.keys[ind_k] and n.values[ind_v].
node_pop(ind_k, ind_v, n) ==
  [n EXCEPT !.keys = array_delete(ind_k, @, n.nkeys), !.nkeys = @ - 1,
            !.values = array_delete(ind_v, @, n.nvalues), !.nvalues = @ - 1,
            !.ok = @ /\ n.nkeys \in 1..N /\ n.nvalues \in 1..(N + 1)]

node_pop_right(n) == node_pop(n.nkeys - 1, n.nvalues - 1, n)

-----------------------------------------------------------------------------
(* Insert.  An outcome is the heap, whether ValueError was raised, and the node
   split off, if any, with the key that separates it. *)

Stored(h) == [h |-> h, raised |-> FALSE, new_node |-> None, new_key |-> None]
Split(h, old, a, new, key) ==
  LET fresh == Cardinality(DOMAIN h) + 1
  IN  [h |-> [h EXCEPT ![a] = old] @@ (fresh :> new),
       raised |-> FALSE, new_node |-> fresh, new_key |-> key]

insert_leaf(h, k, v, i, a) ==
  LET leaf == h[a]
      midpoint == (leaf.nkeys + 2) \div 2
      keys == array_insert_split(i, k, midpoint, leaf.keys)
      values == array_insert_split(i, v, midpoint, leaf.values)
      size_new == N - midpoint + 1
  IN  IF leaf.nkeys < N
      THEN Stored([h EXCEPT ![a] = node_insert(k, v, i, i, leaf)])
      ELSE Split(h, AssertFull([leaf EXCEPT !.keys = keys.old, !.nkeys = midpoint,
                                            !.values = values.old, !.nvalues = midpoint]), a,
                 AssertFull([Node(TRUE) EXCEPT !.keys = keys.new, !.nkeys = size_new,
                                               !.values = values.new, !.nvalues = size_new]),
                 keys.new[0])

\* The middle key stays in the lower array until it is taken out for the parent.
insert_node(h, new_key, new_child, i, a) ==
  LET node == Asserted(h[a], asserts(h[a]))
      kmidpoint == (node.nkeys + 1) \div 2
      vmidpoint == (node.nvalues + 2) \div 2
      keys == array_insert_split(i, new_key, kmidpoint + 1, node.keys)
      values == array_insert_split(i + 1, new_child, vmidpoint, node.values)
  IN  IF node.nkeys < N
      THEN Stored([h EXCEPT ![a] = node_insert(new_key, new_child, i, i + 1, node)])
      ELSE Split(h, AssertFull([node EXCEPT !.keys = [keys.old EXCEPT ![kmidpoint] = None],
                                            !.nkeys = kmidpoint,
                                            !.values = values.old, !.nvalues = vmidpoint]), a,
                 AssertFull([Node(FALSE) EXCEPT !.keys = keys.new, !.nkeys = N - kmidpoint,
                                                !.values = values.new,
                                                !.nvalues = (N + 1) - vmidpoint + 1]),
                 keys.old[kmidpoint])

\* Down to the leaf, and up again as long as nodes split.
insert_recurse(h, k, v, r) ==
  LET path == PathTo(h, k, r)
      leaf == Last(path)
      Up(step, below) == IF below.new_node = None THEN below
                         ELSE insert_node(below.h, below.new_key, below.new_node, step.ind, step.node)
  IN  IF Found(k, h[leaf.node]) THEN [Stored(h) EXCEPT !.raised = TRUE]
      ELSE FoldRight(Up, Front(path), insert_leaf(h, k, v, leaf.ind, leaf.node))

\* The root r, or a new one over it and the node split off from it.
Rooted(r, new) ==
  LET fresh == Cardinality(DOMAIN new.h) + 1
      top == [Node(FALSE) EXCEPT !.keys[0] = new.new_key, !.nkeys = 1,
                                 !.values[0] = r, !.values[1] = new.new_node, !.nvalues = 2]
  IN  IF new.new_node = None THEN [h |-> new.h, raised |-> new.raised, root |-> r]
      ELSE [h |-> new.h @@ (fresh :> Asserted(top, asserts(top))),
            raised |-> FALSE, root |-> fresh]

insert(h, k, v, r) == Rooted(r, insert_recurse(h, k, v, r))

-----------------------------------------------------------------------------
(* Delete.  An outcome is the heap, whether ValueError was raised, and the
   index of the key and of the child the parent has to drop, if any. *)

Settled(h)     == [h |-> h, raised |-> FALSE, del_ind |-> None]
Merged(h, ind) == [h |-> h, raised |-> FALSE, del_ind |-> ind]
NotThere(h)    == [h |-> h, raised |-> TRUE, del_ind |-> None]

get_sibs_and_nkeys(h, i, parent) ==
  LET n == h[parent]
      left == IF i > 0 THEN n.values[i - 1] ELSE None
      right == IF i < n.nvalues - 1 THEN n.values[i + 1] ELSE None
  IN  [left |-> left, left_nkeys |-> IF left = None THEN 0 ELSE h[left].nkeys,
       right |-> right, right_nkeys |-> IF right = None THEN 0 ELSE h[right].nkeys]

delete_leaf(g, i, parent, p_ind, a) ==
  LET h == [g EXCEPT ![a] = node_pop(i, i, @)]
      leaf == h[a]
      sibs == get_sibs_and_nkeys(h, p_ind, parent)
      has_left == sibs.left # None
      merge_left == h[IF has_left THEN sibs.left ELSE a]
      right == IF has_left THEN a ELSE sibs.right
      merge_right == h[right]
  IN  IF leaf.nkeys >= min_nkeys_leaf THEN Settled(h)
      ELSE IF sibs.left_nkeys > min_nkeys_leaf \/ sibs.right_nkeys > min_nkeys_leaf
      THEN IF sibs.left_nkeys > sibs.right_nkeys
           THEN LET sib == h[sibs.left]
                    key == sib.keys[sib.nkeys - 1]
                    value == sib.values[sib.nvalues - 1]
                IN  Settled([h EXCEPT ![sibs.left] = AssertFull(node_pop_right(sib)),
                                      ![a] = AssertFull(node_insert(key, value, 0, 0, leaf)),
                                      ![parent].keys[p_ind - 1] = key])
           ELSE LET sib == h[sibs.right]
                    rest == AssertFull(node_pop(0, 0, sib))
                IN  Settled([h EXCEPT ![sibs.right] = rest,
                                      ![a] = AssertFull(node_insert_right(sib.keys[0], sib.values[0], leaf)),
                                      ![parent].keys[p_ind] = rest.keys[0]])
      ELSE Merged([h EXCEPT ![right] = AssertFull(Asserted(
                     [merge_right EXCEPT
                        !.keys = array_merge_prepend(merge_left.keys, merge_left.nkeys, @, merge_right.nkeys),
                        !.nkeys = @ + merge_left.nkeys,
                        !.values = array_merge_prepend(merge_left.values, merge_left.nvalues, @, merge_right.nvalues),
                        !.nvalues = @ + merge_left.nvalues],
                     merge_left.nkeys + merge_right.nkeys <= N))],
                  IF has_left THEN p_ind - 1 ELSE p_ind)

\* The key of the parent between the two nodes comes down, and the sibling's
\* goes up or, in a merge, none.
delete_node(g, i, parent, p_ind, a) ==
  LET h == [g EXCEPT ![a] = node_pop(i, i, Asserted(@, asserts(@)))]
      node == h[a]
      keys == h[parent].keys
      sibs == get_sibs_and_nkeys(h, p_ind, parent)
      has_left == sibs.left # None
      between == IF has_left THEN p_ind - 1 ELSE p_ind
      merge_left == h[IF has_left THEN sibs.left ELSE a]
      right == IF has_left THEN a ELSE sibs.right
      merge_right == h[right]
  IN  IF node.nkeys >= min_nkeys_node THEN Settled(h)
      ELSE IF sibs.left_nkeys > min_nkeys_node \/ sibs.right_nkeys > min_nkeys_node
      THEN IF sibs.left_nkeys > sibs.right_nkeys
           THEN LET sib == h[sibs.left]
                    value == sib.values[sib.nvalues - 1]
                IN  Settled([h EXCEPT ![sibs.left] = AssertFull(node_pop_right(sib)),
                                      ![a] = AssertFull(node_insert(keys[p_ind - 1], value, 0, 0, node)),
                                      ![parent].keys[p_ind - 1] = sib.keys[sib.nkeys - 1]])
           ELSE LET sib == h[sibs.right]
                IN  Settled([h EXCEPT ![sibs.right] = AssertFull(node_pop(0, 0, sib)),
                                      ![a] = AssertFull(node_insert_right(keys[p_ind], sib.values[0], node)),
                                      ![parent].keys[p_ind] = sib.keys[0]])
      ELSE Merged([h EXCEPT ![right] = AssertFull(Asserted(
                     [merge_right EXCEPT
                        !.keys = array_merge_prepend(merge_left.keys, merge_left.nkeys,
                                   array_insert(0, keys[between], @, merge_right.nkeys),
                                   merge_right.nkeys + 1),
                        !.nkeys = @ + merge_left.nkeys + 1,
                        !.values = array_merge_prepend(merge_left.values, merge_left.nvalues, @, merge_right.nvalues),
                        !.nvalues = @ + merge_left.nvalues],
                     /\ HasRoom(merge_right.keys, merge_right.nkeys)
                     /\ merge_left.nkeys + merge_right.nkeys + 1 <= N
                     /\ merge_left.nvalues + merge_right.nvalues <= N + 1))],
                  between)

\* Down to the leaf, and up again as long as a child has to be dropped: path[j]
\* is the parent of path[j + 1].
delete_recurse(h, k, path) ==
  LET leaf == Last(path)
      Up(j, below) == IF below.del_ind = None THEN below
                      ELSE delete_node(below.h, below.del_ind,
                                       path[j - 1].node, path[j - 1].ind, path[j].node)
      parent == path[Len(path) - 1]
  IN  IF ~Found(k, h[leaf.node]) THEN NotThere(h)
      ELSE FoldRight(Up, [j \in 1..(Len(path) - 2) |-> j + 1],
                     delete_leaf(h, leaf.ind, parent.node, parent.ind, leaf.node))

\* A root left with one child makes way for it.
delete(h, k, r) ==
  LET path == PathTo(h, k, r)
      Popped(g, ind) == [g EXCEPT ![r] = node_pop(ind, ind, @)]
      Top(g) == IF g[r].nkeys = 0 THEN g[r].values[0] ELSE r
      Root(below) == IF below.del_ind = None
                     THEN [h |-> below.h, raised |-> below.raised, root |-> r]
                     ELSE [h |-> Popped(below.h, below.del_ind), raised |-> FALSE,
                           root |-> Top(Popped(below.h, below.del_ind))]
  IN  IF Len(path) > 1 THEN Root(delete_recurse(h, k, path))
      ELSE [h |-> IF Found(k, h[r]) THEN Popped(h, path[1].ind) ELSE h,
            raised |-> ~Found(k, h[r]), root |-> r]

-----------------------------------------------------------------------------
(* class BTree: what a call leaves of the tree *)

\* Mutant of Counted: a new root is always one more level.
Counted_deeper(new, n) ==
  [h |-> new.h, raised |-> new.raised, root |-> new.root,
   size  |-> IF new.raised THEN size ELSE size + n,
   depth |-> IF new.root # root THEN depth + 1 ELSE depth]

\* The counters after a call that adds n pairs unless it raises, and makes the
\* tree n higher if it leaves another root.
Counted(new, n) ==
  [h |-> new.h, raised |-> new.raised, root |-> new.root,
   size  |-> IF new.raised THEN size ELSE size + n,
   depth |-> IF new.root # root THEN depth + n ELSE depth]

AfterInsert(k, v) == Counted(insert(heap, k, v, root), 1)

AfterDelete(k) ==
  IF size = 0 THEN Counted([h |-> heap, raised |-> TRUE, root |-> root], -1)
  ELSE Counted(delete(heap, k, root), -1)

AfterGet(k) == Counted([h |-> heap, raised |-> FALSE, root |-> root], 0)
get(k) == search(k, heap, root)

After(o) == CASE o.kind = "get"    -> AfterGet(o.k)
              [] o.kind = "insert" -> AfterInsert(o.k, o.v)
              [] o.kind = "delete" -> AfterDelete(o.k)

-----------------------------------------------------------------------------
(* The generator.  A frame: the node object iter_node is in, the next index,
   and the end of its range, which is fixed when the range is made. *)

Frame(h, a) == [node |-> a, i |-> 0,
                end |-> IF h[a].is_leaf THEN h[a].nkeys ELSE h[a].nvalues]

Yield(k, v)    == [kind |-> "yield", k |-> k, v |-> v]
StopIteration  == [kind |-> "stop",  k |-> None, v |-> None]
AttributeError == [kind |-> "error", k |-> None, v |-> None]  \* iter_node(None)

\* Mutant of iter_node: a yielded pair is not counted.
iter_node_stays(h, frs) ==
  LET run[fs \in Seq([node : Nat, i : Nat, end : Nat])] ==
        IF fs = <<>> THEN [frames |-> <<>>, out |-> StopIteration]
        ELSE LET f == Last(fs)
                 n == h[f.node]
                 next == [fs EXCEPT ![Len(fs)].i = @ + 1]
             IN  IF f.i = f.end THEN run[Front(fs)]
                 ELSE IF n.is_leaf
                 THEN [frames |-> fs, out |-> Yield(n.keys[f.i], n.values[f.i])]
                 ELSE IF n.values[f.i] = None THEN [frames |-> <<>>, out |-> AttributeError]
                 ELSE run[Append(next, Frame(h, n.values[f.i]))]
  IN  run[frs]

\* Run until a pair is yielded or the generator is over.
iter_node(h, frs) ==
  LET run[fs \in Seq([node : Nat, i : Nat, end : Nat])] ==
        IF fs = <<>> THEN [frames |-> <<>>, out |-> StopIteration]
        ELSE LET f == Last(fs)
                 n == h[f.node]
                 next == [fs EXCEPT ![Len(fs)].i = @ + 1]
             IN  IF f.i = f.end THEN run[Front(fs)]
                 ELSE IF n.is_leaf
                 THEN [frames |-> next, out |-> Yield(n.keys[f.i], n.values[f.i])]
                 ELSE IF n.values[f.i] = None THEN [frames |-> <<>>, out |-> AttributeError]
                 ELSE run[Append(next, Frame(h, n.values[f.i]))]
  IN  run[frs]

\* What next() does now: __iter__ takes the root when it is first run.
NextPair == iter_node(heap, IF frames = <<>> THEN <<Frame(heap, root)>> ELSE frames)

-----------------------------------------------------------------------------
(* Objects *)

Children(n) == IF n.is_leaf THEN <<>> ELSE [i \in 1..n.nvalues |-> n.values[i - 1]]

\* The nodes that those of starts lead to, in the order they are met.
Reach(h, starts) ==
  LET reach[met \in Seq(Nat), todo \in Seq(Nat)] ==
        IF todo = <<>> THEN met
        ELSE IF Head(todo) \in ToSet(met) THEN reach[met, Tail(todo)]
        ELSE reach[Append(met, Head(todo)), Children(h[Head(todo)]) \o Tail(todo)]
  IN  reach[<<>>, starts]

\* A node nothing refers to is gone.  An identity is only ever compared within a
\* call, so the nodes that are left are numbered anew: states that differ in
\* the identities alone are one.
Keep(h, r, fs) ==
  \E live \in {Reach(h, <<r>> \o [j \in DOMAIN fs |-> fs[j].node])} :
    LET Id(a) == IF a = None THEN None ELSE CHOOSE j \in DOMAIN live : live[j] = a
        Moved(n) == IF n.is_leaf THEN n ELSE [n EXCEPT !.values = [i \in DOMAIN @ |-> Id(@[i])]]
    IN  /\ heap' = [j \in DOMAIN live |-> Moved(h[live[j]])]
        /\ root' = Id(r)
        /\ frames' = [j \in DOMAIN fs |-> [fs[j] EXCEPT !.node = Id(@)]]

-----------------------------------------------------------------------------
(* The specification *)

\* BTree.__init__
Init ==
  /\ heap = <<Node(TRUE)>> /\ root = 1 /\ size = 0 /\ depth = 1
  /\ frames = <<>> /\ held = TRUE

\* Every node on the way to the key is asserted; then what the call asserts.
Leave(k, after) ==
  /\ Keep(after.h, after.root, frames)
  /\ size' = after.size /\ depth' = after.depth
  /\ held' = /\ \A step \in ToSet(PathTo(heap, k, root)) : asserts(heap[step.node])
             /\ \A a \in DOMAIN after.h : after.h[a].ok

Get(o)    == o.kind = "get" /\ Leave(o.k, AfterGet(o.k))
Insert(o) == o.kind = "insert" /\ \E after \in {AfterInsert(o.k, o.v)} : Leave(o.k, after)
Delete(o) == o.kind = "delete" /\ \E after \in {AfterDelete(o.k)} : Leave(o.k, after)

iter_next ==
  \E next \in {NextPair} :
    /\ Keep(heap, root, next.frames)
    /\ UNCHANGED <<size, depth, held>>

Call == \E o \in Ops : Get(o) \/ Insert(o) \/ Delete(o)

\* A failed assertion ends the program.
Next == held /\ (Call \/ iter_next)

\* The loop over the tree goes on calling next().
Spec == Init /\ [][Next]_vars /\ WF_vars(held /\ iter_next)
=============================================================================
