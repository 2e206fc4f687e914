---------------------------- MODULE MCBlockCache ----------------------------
(***************************************************************************)
(* A small instance of BlockCacheProps for TLC.  No address is like no     *)
(* other, and no property here is one of liveness.                         *)
(***************************************************************************)
EXTENDS BlockCacheProps

Symmetry == Permutations(Addrs)
=============================================================================
