----------------------------- MODULE MCCBTree -----------------------------
(***************************************************************************)
(* Small instances of CBTreeProps for TLC.                                 *)
(***************************************************************************)
EXTENDS CBTreeProps

CONSTANTS
  Keys,        \* the keys that are inserted and deleted
  Updated,     \* the keys that are updated as well
  Lookups,     \* the keys that are looked up
  Bounds,      \* the bounds of ranges
  Limits,      \* the limits of ranges
  Few,         \* FewOrFilledThenDrained: the keys whose calls come in any order
  GrownSize,   \* and the blocks of a file that is refilled with all of them but one
  FillOrders,  \* and "up" and "down", the orders the others come in
  FillSize     \* FewOrFilledThenDrained: blocks in the file when the draining begins

MCWord == 0..(2^KEY_BITS - 1)

\* A value tells its key, and whether it was inserted or updated.
MCOps ==
  {InsertOp(k, k) : k \in Keys} \cup {DeleteOp(k) : k \in Keys}
  \cup {UpdateOp(k, k + 8) : k \in Updated}
  \cup {GetOp(k) : k \in Lookups}
  \cup {RangeOp(lo, hi, limit) : lo \in Bounds, hi \in Bounds, limit \in Limits}

\* Any calls with the keys of Few, the greatest ones (but not all of them at once
\* again when the file has grown to more than GrownSize blocks); or, in a new
\* file, inserts of keys in ascending or descending order until the file has
\* FillSize blocks, then deletes in any order.  Block 1 is the leftmost leaf.
FewOrFilledThenDrained ==
  pc = "idle" /\ op'.kind \in {"insert", "delete"} =>
    LET FewIn == ToSet(disk[1].keys) \subseteq Few
        Refills == op'.kind = "insert" /\ file_size > GrownSize
    IN  \/ op'.k \in Few /\ file_size < FillSize /\ FewIn
             /\ (Refills => Cardinality(DOMAIN TreeContent(disk)) < Cardinality(Few) - 1)
        \/ op'.kind = "insert" /\ file_size < (IF disk[1].keys = <<>> THEN 3 ELSE FillSize)
             /\ DOMAIN TreeContent(disk) \in
                  {{k \in Keys : k < op'.k} : d \in FillOrders \cap {"up"}}
                  \cup {{k \in Keys \ Few : k > op'.k} : d \in FillOrders \cap {"down"}}
        \/ op'.kind = "delete" /\ file_size >= FillSize
=============================================================================
