------------------------------- MODULE CMap -------------------------------
(***************************************************************************)
(* What bt_lookup, bt_insert, bt_delete and bt_range of btree.c promise:   *)
(* a map, as in OrderedMap.  "raised" stands for the error code 1.  Two    *)
(* things differ: a limit of 0 lets no pair through, and the process may   *)
(* end on a failed assertion in bt_insert, which then has had no effect.   *)
(***************************************************************************)
EXTENDS MapCalls

VARIABLES content, call, result

cmapVars == <<content, call, result>>

Aborted == [status |-> "aborted", value |-> None, pairs |-> <<>>]

\* bt_range copies at most `limit` pairs.
AtMost(limit, ps) == SubSeq(ps, 1, IF limit < Len(ps) THEN limit ELSE Len(ps))

CResult(m, o) ==
  IF o.kind = "range"
  THEN Pairs(AtMost(o.limit, RangePairs(m, o.k, o.hi, None)))
  ELSE Result(m, o)

CMapInit == content = EmptyMap /\ call = NoOp /\ result = NoResult

CInvoke(o) ==
  /\ call = NoOp
  /\ call' = o /\ result' = NoResult
  /\ UNCHANGED content

CRespond ==
  /\ call # NoOp
  /\ content' = Effect(content, call)
  /\ result' = CResult(content, call)
  /\ call' = NoOp

CAbort ==
  /\ call.kind \in {"insert", "update"}
  /\ result' = Aborted /\ call' = NoOp
  /\ UNCHANGED content

CMapNext == CRespond \/ CAbort \/ \E o \in Ops : CInvoke(o)

CMapSpec == CMapInit /\ [][CMapNext]_cmapVars /\ WF_cmapVars(CRespond \/ CAbort)
=============================================================================
