---------------------------- MODULE OrderedMap ----------------------------
(***************************************************************************)
(* What class BTree of btree.py promises its caller: a map from integer    *)
(* keys to integer values.  A call is made, later it returns, and its      *)
(* whole effect happens in the step in which it returns.  There is one     *)
(* caller and one call at a time.                                          *)
(*                                                                         *)
(* The blocks, the tree and the file are absent here; DiskBTree is shown   *)
(* to implement this module.                                               *)
(***************************************************************************)
EXTENDS MapCalls

VARIABLES
  content,  \* the map
  call,     \* the call in progress, NoOp when there is none
  result    \* what the last call returned, NoResult while one is in progress

mapVars == <<content, call, result>>

MapInit == content = EmptyMap /\ call = NoOp /\ result = NoResult

Invoke(o) ==
  /\ call = NoOp
  /\ call' = o /\ result' = NoResult
  /\ UNCHANGED content

Respond ==
  /\ call # NoOp
  /\ content' = Effect(content, call)
  /\ result' = Result(content, call)
  /\ call' = NoOp

MapNext == Respond \/ \E o \in Ops : Invoke(o)

MapSpec == MapInit /\ [][MapNext]_mapVars /\ WF_mapVars(Respond)
=============================================================================
