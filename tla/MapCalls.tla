----------------------------- MODULE MapCalls -----------------------------
(***************************************************************************)
(* The calls of class BTree (btree.py): their arguments, and the effect    *)
(* and the result each has on a map from integer keys to integer values.   *)
(***************************************************************************)
EXTENDS Integers, FiniteSets, SequencesExt

CONSTANTS
  Ops,   \* the calls the caller may make
  Word,  \* the integers that fit the 8 bytes a block has for one
  None   \* Python's None

Packable(x) == x \in Word

IntOrNone == Int \cup {None}

\* A call: its name, and its arguments, None where it has no such argument.  The
\* lower bound of a range is k.
Op == [kind : {"none", "get", "insert", "update", "delete", "range"},
       k : IntOrNone, v : IntOrNone, hi : IntOrNone, limit : IntOrNone]

-----------------------------------------------------------------------------
(* Calls and results *)

GetOp(k)             == [kind |-> "get",    k |-> k,    v |-> None, hi |-> None, limit |-> None]
InsertOp(k, v)       == [kind |-> "insert", k |-> k,    v |-> v,    hi |-> None, limit |-> None]
UpdateOp(k, v)       == [kind |-> "update", k |-> k,    v |-> v,    hi |-> None, limit |-> None]
DeleteOp(k)          == [kind |-> "delete", k |-> k,    v |-> None, hi |-> None, limit |-> None]
RangeOp(lo, hi, lim) == [kind |-> "range",  k |-> lo,   v |-> None, hi |-> hi,   limit |-> lim]
NoOp                 == [kind |-> "none",   k |-> None, v |-> None, hi |-> None, limit |-> None]

\* _insert, get and delete assert that the key, and _insert that the value, is
\* an int; any int is let through, also one that no block can hold.
ASSUME OpsAssumption ==
  /\ Ops \subseteq Op
  /\ \A o \in Ops :
       /\ o.kind # "none"
       /\ o.kind \in {"get", "insert", "update", "delete"} => o.k \in Int
       /\ o.kind \in {"insert", "update"} => o.v \in Int

\* A call that returns nothing, one that raises, one that returns a value
\* (None: the default), one that returns a list of pairs.
Done      == [status |-> "done",   value |-> None, pairs |-> <<>>]
Raised    == [status |-> "raised", value |-> None, pairs |-> <<>>]
Answer(v) == [status |-> "value",  value |-> v,    pairs |-> <<>>]
Pairs(ps) == [status |-> "pairs",  value |-> None, pairs |-> ps]
NoResult  == [status |-> "none",   value |-> None, pairs |-> <<>>]

-----------------------------------------------------------------------------
(* The effect and the result of a call on a map m *)

EmptyMap == [k \in {} |-> None]

\* insert() and update() raise for an integer that does not fit a block;
\* insert() raises for a key that is there, delete() for one that is not.
\* update() of a key that is not there inserts it.
Raises(m, o) ==
  \/ o.kind = "insert" /\ (o.k \in DOMAIN m \/ ~Packable(o.k) \/ ~Packable(o.v))
  \/ o.kind = "update" /\ (~Packable(o.k) \/ ~Packable(o.v))
  \/ o.kind = "delete" /\ o.k \notin DOMAIN m

Effect(m, o) ==
  IF Raises(m, o) THEN m
  ELSE CASE o.kind \in {"insert", "update"} ->
              [k \in DOMAIN m \cup {o.k} |-> IF k = o.k THEN o.v ELSE m[k]]
         [] o.kind = "delete" -> [k \in DOMAIN m \ {o.k} |-> m[k]]
         [] OTHER             -> m

\* All pairs with lo <= key <= hi in key order, cut after `limit` of them: a
\* limit of 0 still lets one pair through (the limit is tested after the append).
RangePairs(m, lo, hi, limit) ==
  LET inside == {k \in DOMAIN m : (lo = None \/ lo <= k) /\ (hi = None \/ k <= hi)}
      sorted == SetToSortSeq(inside, <)
      wanted == IF limit = None THEN Len(sorted) ELSE IF limit < 1 THEN 1 ELSE limit
      n      == IF wanted < Len(sorted) THEN wanted ELSE Len(sorted)
  IN  [j \in 1..n |-> <<sorted[j], m[sorted[j]]>>]

Result(m, o) ==
  IF Raises(m, o) THEN Raised
  ELSE CASE o.kind = "get"   -> Answer(IF o.k \in DOMAIN m THEN m[o.k] ELSE None)
         [] o.kind = "range" -> Pairs(RangePairs(m, o.k, o.hi, o.limit))
         [] OTHER            -> Done
=============================================================================
