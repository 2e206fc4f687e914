---------------------------- MODULE MCMemBTree ----------------------------
(***************************************************************************)
(* A small instance of MemBTreeProps for TLC: the calls, and a constraint  *)
(* on those made while an iteration is under way.                          *)
(***************************************************************************)
EXTENDS MemBTreeProps

CONSTANTS
  Keys,    \* the keys the caller uses
  Touched  \* those it inserts and deletes in the body of a loop over the tree

MCOps == UNION {{GetOp(k), InsertOp(k, k + 10), DeleteOp(k)} : k \in Keys}

LoopTouchesFew ==
  frames # <<>> /\ frames' # <<>> /\ heap' # heap =>
    \A old \in {ToSet(Content)}, new \in {ToSet(Content')} :
      \A p \in (old \cup new) \ (old \cap new) : p[1] \in Touched
=============================================================================
