---------------------------- MODULE IOTraceProps ----------------------------
(***************************************************************************)
(* IOTrace as the tree and an application use it: the application opens    *)
(* and closes scopes around its calls; calls of the tree do I/O in the     *)
(* active scope; check_integrity and print read the whole file in a scope  *)
(* of their own, which they close at their end (btree.py:206, 263).        *)
(*                                                                         *)
(* `doing` is the call under way, `io` says that it is in a system call.   *)
(* History: `want`, the scopes the application has, each with the I/Os     *)
(* counted in it: those it opened, and those that checks left it when they *)
(* raised; `checked`, the I/Os of the check under way.                     *)
(***************************************************************************)
EXTENDS IOTrace

CONSTANTS
  MaxIOs,    \* bound: I/Os counted in all scopes
  MaxScopes  \* bound: active scopes

VARIABLES doing, io, want, checked

tpvars == <<traceVars, doing, io, want, checked>>

NoIOs == [reads |-> <<>>, writes |-> <<>>]

TPInit ==
  /\ TraceInit
  /\ doing = "idle" /\ io = FALSE
  /\ want = <<NoIOs>> /\ checked = NoIOs

-----------------------------------------------------------------------------
(* The application *)

OpenScope ==
  /\ doing = "idle" /\ Len(stats) < MaxScopes
  /\ scope
  /\ want' = Append(want, NoIOs)
  /\ UNCHANGED <<doing, io, checked>>

\* The innermost scope goes, be it one that a check has left.
CloseScope ==
  /\ doing = "idle"
  /\ pop
  /\ want' = IF Len(want) < 2 THEN want ELSE Front(want)
  /\ UNCHANGED <<doing, io, checked>>

Call ==
  /\ doing = "idle"
  /\ doing' = "call" /\ raised' = FALSE
  /\ UNCHANGED <<stats, start, io, want, checked>>

\* check_integrity or print
Check ==
  /\ doing = "idle" /\ Len(stats) < MaxScopes
  /\ scope
  /\ doing' = "check" /\ checked' = NoIOs
  /\ UNCHANGED <<io, want>>

-----------------------------------------------------------------------------
(* Calls of the tree *)

\* A check that raises does not come to its pop (btree.py:263): its scope stays, and
\* is the application's from then on.
Raises ==
  /\ doing' = "idle" /\ io' = FALSE
  /\ want' = IF doing = "check" THEN Append(want, checked) ELSE want
  /\ checked' = NoIOs

StartIO ==
  /\ doing # "idle" /\ ~io
  /\ FoldLeft(LAMBDA n, s : n + Len(s.reads) + Len(s.writes), 0, stats) < MaxIOs
  /\ start_io
  /\ IF raised' THEN Raises ELSE io' = TRUE /\ UNCHANGED <<doing, want, checked>>

\* OSError: nothing takes the start time back.
IOFails == io /\ raised' = TRUE /\ UNCHANGED <<stats, start>> /\ Raises

\* An I/O of a call is the innermost scope's, one of a check the check's own.
CountedRead(t) ==
  IF doing = "check"
  THEN checked' = [checked EXCEPT !.reads = Append(@, t)] /\ want' = want
  ELSE want' = [want EXCEPT ![Len(want)].reads = Append(@, t)] /\ checked' = checked

CountedWrite(t) ==
  want' = [want EXCEPT ![Len(want)].writes = Append(@, t)] /\ checked' = checked

EndIO ==
  /\ io /\ io' = FALSE
  /\ \E t \in Times :
       \/ end_read(t) /\ CountedRead(t)
       \/ doing = "call" /\ end_write(t) /\ CountedWrite(t)
  /\ doing' = doing

Return ==
  /\ doing # "idle" /\ ~io
  /\ IF doing = "check" THEN pop ELSE UNCHANGED traceVars
  /\ doing' = "idle" /\ checked' = NoIOs
  /\ UNCHANGED <<io, want>>

\* An assertion of check_integrity fails, or an insert of a key that is there.
RaiseOther ==
  /\ doing # "idle" /\ ~io
  /\ raised' = TRUE /\ UNCHANGED <<stats, start>>
  /\ Raises

TPNext ==
  \/ OpenScope \/ CloseScope \/ Call \/ Check
  \/ StartIO \/ IOFails \/ EndIO \/ Return \/ RaiseOther

TPSpec == TPInit /\ [][TPNext]_tpvars

-----------------------------------------------------------------------------
(* Properties *)

Sums(ts) == LET sum[n \in 0..Len(ts)] == IF n = 0 THEN 0 ELSE sum[n - 1] + ts[n] IN sum
Sum(ts) == Sums(ts)[Len(ts)]
Squares(ts) == [i \in DOMAIN ts |-> Square(ts[i])]

\* The averages and deviations, computed from running sums (disk.py:213-216), are
\* those of the list of times get_data() returns: the deviation is the mean of the
\* squared differences from the mean, up to the rounding of floats. So it is in
\* every scope, whatever scopes were opened and left and whatever failed before.
AnswersAreOfTheTimes ==
  \A k \in 1..2 :
    LET ts  == get_data[k]
        n   == Len(ts)
        avg == get_avg[k]
    IN  /\ get_num[k] = n
        /\ n = 0 => avg[1] = 0 /\ get_stdev[k][1] = 0
        /\ n > 0 => /\ avg[1] * n = Sum(ts) * avg[2]
                    /\ n * get_stdev[k][1] = Sum(Squares([i \in DOMAIN ts |-> n * ts[i] - Sum(ts)]))

\* What a scope has counted.
IOs(s) == [reads |-> s.reads, writes |-> s.writes]

\* Whatever has raised, the scopes are those the application has, and on top that of the
\* check under way.  Each has counted the I/Os that ended while it was the innermost,
\* in their order, also those of calls that raised.  A check that returns leaves nothing
\* behind.  One that raises leaves its scope with its I/Os (btree.py:206, 263): the
\* calls after it are counted there, and the application's next pop takes that scope
\* and not its own.
ScopesAreTheCallers ==
  /\ Len(stats) = Len(want) + (IF doing = "check" THEN 1 ELSE 0)
  /\ \A i \in DOMAIN want : want[i] = IOs(stats[i])
  /\ doing = "check" => checked = IOs(stats[Len(stats)])
=============================================================================
