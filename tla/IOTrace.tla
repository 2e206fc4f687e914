------------------------------- MODULE IOTrace -------------------------------
(***************************************************************************)
(* disk._IOTrace: the times of the reads and writes, kept per scope, with  *)
(* their number, sum and sum of squares.  One object serves the process.   *)
(*                                                                         *)
(* Times are small integers.  A quotient is the pair of its numerator and  *)
(* denominator, and a standard deviation is told by the variance.          *)
(***************************************************************************)
EXTENDS Integers, SequencesExt

CONSTANT Times  \* what an I/O may take

ASSUME TimesAssumption == Times \subseteq Nat

VARIABLES
  stats,    \* _IOTrace._stats, the active scope last
  start,    \* _start is a time: an I/O was started and not ended
  raised    \* the last step ended with an exception

traceVars == <<stats, start, raised>>

IOTraceStats == [num_reads |-> 0, num_writes |-> 0, read_time |-> 0, write_time |-> 0,
                 read_sumsqr |-> 0, write_sumsqr |-> 0, reads |-> <<>>, writes |-> <<>>]

Square(n) == n * n

-----------------------------------------------------------------------------
(* Scopes *)

scope == stats' = Append(stats, IOTraceStats) /\ raised' = FALSE /\ UNCHANGED start

\* The outermost scope stays: ValueError.
pop ==
  /\ stats' = IF Len(stats) = 1 THEN stats ELSE Front(stats)
  /\ raised' = (Len(stats) = 1)
  /\ UNCHANGED start

_check_scope == stats # <<>>

stat == Last(stats)

-----------------------------------------------------------------------------
(* I/O *)

start_io ==
  /\ raised' = (~_check_scope \/ start)
  /\ start' = (start \/ _check_scope)
  /\ UNCHANGED stats

_end_io == _check_scope /\ start /\ start' = FALSE /\ raised' = FALSE

\* Mutant of end_read: the time goes to the outermost scope.
end_read_outermost(t) ==
  /\ _end_io
  /\ stats' = [stats EXCEPT ![1].num_reads = @ + 1, ![1].read_time = @ + t,
                            ![1].read_sumsqr = @ + Square(t), ![1].reads = Append(@, t)]

end_read(t) ==
  /\ _end_io
  /\ stats' = [stats EXCEPT ![Len(stats)].num_reads = @ + 1, ![Len(stats)].read_time = @ + t,
                            ![Len(stats)].read_sumsqr = @ + Square(t),
                            ![Len(stats)].reads = Append(@, t)]

end_write(t) ==
  /\ _end_io
  /\ stats' = [stats EXCEPT ![Len(stats)].num_writes = @ + 1, ![Len(stats)].write_time = @ + t,
                            ![Len(stats)].write_sumsqr = @ + Square(t),
                            ![Len(stats)].writes = Append(@, t)]

-----------------------------------------------------------------------------
(* What the active scope answers *)

get_num == <<stat.num_reads, stat.num_writes>>

Over(time, num) == IF num = 0 THEN <<0, 1>> ELSE <<time, num>>

get_avg == <<Over(stat.read_time, stat.num_reads), Over(stat.write_time, stat.num_writes)>>

\* Mutant of _stdev_from_sums: the mean is subtracted once.
_stdev_once(num_points, sum_points, sum_sqrs) ==
  <<Square(sum_points) + num_points * sum_sqrs - Square(sum_points), Square(num_points)>>

\* avg**2 + (sum_sqrs - 2*avg*sum_points) / num_points, over num_points ** 2.
_stdev_from_sums(num_points, sum_points, sum_sqrs) ==
  <<Square(sum_points) + num_points * sum_sqrs - 2 * Square(sum_points), Square(num_points)>>

get_stdev ==
  <<IF stat.num_reads = 0 THEN <<0, 1>>
    ELSE _stdev_from_sums(stat.num_reads, stat.read_time, stat.read_sumsqr),
    IF stat.num_writes = 0 THEN <<0, 1>>
    ELSE _stdev_from_sums(stat.num_writes, stat.write_time, stat.write_sumsqr)>>

get_data == <<stat.reads, stat.writes>>

-----------------------------------------------------------------------------
TraceInit == stats = <<IOTraceStats>> /\ start = FALSE /\ raised = FALSE
=============================================================================
