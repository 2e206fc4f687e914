--------------------------- MODULE IOTrace_proofs ---------------------------
(***************************************************************************)
(* For all times, any number of scopes and I/Os and any history of calls   *)
(* and failures: the scopes are the application's, and what the active one *)
(* answers is what its list of times says.                                 *)
(***************************************************************************)
EXTENDS IOTraceProps, Induction, SequenceTheorems

-----------------------------------------------------------------------------
(* Sums *)

\* The recursive definition of Sums has a solution, which is the sums.
LEMMA SumsStep ==
  ASSUME NEW ts \in Seq(Int)
  PROVE  /\ Sums(ts) \in [0..Len(ts) -> Int]
         /\ Sums(ts)[0] = 0
         /\ \A n \in 1..Len(ts) : Sums(ts)[n] = Sums(ts)[n - 1] + ts[n]
<1> DEFINE m == Len(ts)
           F == [n \in 1..m |-> [x \in Int |-> x + ts[n]]]
           Def(f) == [n \in 0..m |-> IF n = 0 THEN 0 ELSE f[n - 1] + ts[n]]
<1>1. m \in Nat /\ \A n \in 1..m : ts[n] \in Int
  OBVIOUS
<1>2. F \in [1..m -> [Int -> Int]] /\ \A n \in 1..m, x \in Int : F[n][x] = x + ts[n]
  BY <1>1
<1>3. Sums(ts) = CHOOSE f : f = Def(f)
  BY DEF Sums
<1> HIDE DEF m, F
<1>4. PICK g \in [0..m -> Int] : g[0] = 0 /\ \A n \in 1..m : g[n] = F[n][g[n - 1]]
  <2>1. 0 \in Int
    OBVIOUS
  <2>2. \E g \in [0..m -> Int] : Recurs(g, 0, F, m)
    BY <1>1, <1>2, <2>1, RecursionExists, Zenon
  <2>3. QED
    BY <2>2 DEF Recurs
<1>5. \A n \in 1..m : n - 1 \in 0..m /\ g[n - 1] \in Int /\ g[n] = g[n - 1] + ts[n]
  <2> TAKE n \in 1..m
  <2>1. n - 1 \in 0..m
    BY <1>1
  <2>2. g[n - 1] \in Int
    BY <2>1
  <2>3. QED
    BY <1>2, <1>4, <2>1, <2>2
<1>6. g = Def(g)
  BY <1>1, <1>4, <1>5
<1>7. Sums(ts) = Def(Sums(ts))
  <2> HIDE DEF Def
  <2>1. QED
    BY <1>3, <1>6
<1>8. Sums(ts)[0] = 0 /\ \A n \in 1..m : Sums(ts)[n] = Sums(ts)[n - 1] + ts[n]
  BY <1>1, <1>7
<1>9. \A n \in 0..m : Sums(ts)[n] = g[n]
  <2>1. GoOnAlike(Sums(ts), g, m)
    BY <1>5, <1>8 DEF GoOnAlike
  <2>2. Alike(Sums(ts), g, m)
    BY <1>1, <1>4, <1>8, <2>1, RecursionUnique
  <2>3. QED
    BY <2>2 DEF Alike
<1>10. Sums(ts) \in [0..m -> Int]
  <2>1. DOMAIN Sums(ts) = 0..m /\ Sums(ts) = [n \in 0..m |-> Sums(ts)[n]]
    BY <1>7
  <2>2. QED
    BY <1>9, <2>1
<1>11. QED
  BY <1>8, <1>10 DEF m

\* The sum of no times, and of one more.
LEMMA SumAppend ==
  /\ Sum(<<>>) = 0
  /\ \A ts \in Seq(Int), t \in Int : Sum(Append(ts, t)) = Sum(ts) + t
<1>1. Sum(<<>>) = 0
  <2>1. <<>> \in Seq(Int) /\ Len(<<>>) = 0
    OBVIOUS
  <2>2. QED
    BY <2>1, SumsStep DEF Sum
<1>2. ASSUME NEW ts \in Seq(Int), NEW t \in Int PROVE Sum(Append(ts, t)) = Sum(ts) + t
  <2> DEFINE m == Len(ts)
             longer == Append(ts, t)
  <2>1. m \in Nat /\ longer \in Seq(Int) /\ Len(longer) = m + 1 /\ longer[m + 1] = t
    BY AppendProperties
  <2>2. \A n \in 1..m : longer[n] = ts[n]
    BY AppendProperties
  <2>3. GoOnAlike(Sums(longer), Sums(ts), m)
    BY <2>1, <2>2, SumsStep DEF GoOnAlike
  <2>4. Sums(longer)[0] = Sums(ts)[0]
    BY <2>1, SumsStep
  <2>5. Sums(longer)[m] = Sums(ts)[m]
    <3>1. Alike(Sums(longer), Sums(ts), m)
      BY <2>1, <2>3, <2>4, RecursionUnique
    <3>2. QED
      BY <2>1, <3>1 DEF Alike
  <2>6. Sums(longer)[m + 1] = Sums(longer)[m] + t
    <3>1. m + 1 \in 1..Len(longer) /\ (m + 1) - 1 = m
      BY <2>1
    <3> HIDE DEF m, longer
    <3>2. Sums(longer)[m + 1] = Sums(longer)[(m + 1) - 1] + longer[m + 1]
      BY <2>1, <3>1, SumsStep
    <3>3. QED
      BY <2>1, <3>1, <3>2
  <2>7. QED
    BY <2>1, <2>5, <2>6 DEF Sum
<1>3. QED
  BY <1>1, <1>2

\* Times are numbers; their squares are the squares of the times, one by one.
LEMMA SquaresAppend ==
  /\ Squares(<<>>) = <<>>
  /\ \A ts \in Seq(Int) : Squares(ts) \in Seq(Int) /\ Len(Squares(ts)) = Len(ts)
  /\ \A ts \in Seq(Int), t \in Int : Squares(Append(ts, t)) = Append(Squares(ts), Square(t))
<1>1. Squares(<<>>) = <<>>
  BY DEF Squares
<1>2. ASSUME NEW ts \in Seq(Int)
      PROVE  Squares(ts) \in Seq(Int) /\ Len(Squares(ts)) = Len(ts)
  BY SMTT(30) DEF Squares, Square
<1>3. ASSUME NEW ts \in Seq(Int), NEW t \in Int
      PROVE  Squares(Append(ts, t)) = Append(Squares(ts), Square(t))
  BY DEF Squares, Square
<1>4. QED
  BY <1>1, <1>2, <1>3

\* The squared distances of numbers from c, n times as large, sum up to a polynomial
\* in their number, their sum and the sum of their squares.
LEMMA SumOfSquaredDistances ==
  ASSUME NEW ts \in Seq(Int), NEW n \in Int, NEW c \in Int
  PROVE  Sum(Squares([i \in DOMAIN ts |-> n * ts[i] - c]))
           = n * n * Sum(Squares(ts)) - 2 * n * c * Sum(ts) + Len(ts) * (c * c)
<1> DEFINE m == Len(ts)
           ds == [i \in DOMAIN ts |-> n * ts[i] - c]
           left == Sums(Squares(ds))
           right == [k \in 0..m |-> n * n * Sums(Squares(ts))[k] - 2 * n * c * Sums(ts)[k] + k * (c * c)]
<1>1. m \in Nat /\ ds \in Seq(Int) /\ Len(ds) = m
  <2>1. \A t \in Int : n * t - c \in Int
    OBVIOUS
  <2>2. m \in Nat /\ DOMAIN ts = 1..m /\ \A i \in 1..m : ts[i] \in Int
    OBVIOUS
  <2>3. \A i \in 1..m : n * ts[i] - c \in Int
    BY <2>1, <2>2
  <2>4. ds \in [1..m -> Int]
    BY <2>2, <2>3
  <2> HIDE DEF ds
  <2>5. QED
    BY <2>2, <2>4
<1>2. /\ Squares(ts) \in Seq(Int) /\ Len(Squares(ts)) = m
      /\ Squares(ds) \in Seq(Int) /\ Len(Squares(ds)) = m
  BY <1>1, SquaresAppend
<1>3. \A k \in 1..m : /\ ts[k] \in Int
                     /\ Squares(ts)[k] = ts[k] * ts[k]
                     /\ Squares(ds)[k] = (n * ts[k] - c) * (n * ts[k] - c)
  BY <1>1 DEF Squares, Square
<1>4. left[0] = right[0]
  <2>1. left[0] = 0 /\ Sums(ts)[0] = 0 /\ Sums(Squares(ts))[0] = 0
    BY <1>2, SumsStep
  <2>2. QED
    BY <1>1, <2>1
<1>5. GoOnAlike(left, right, m)
  <2> SUFFICES ASSUME NEW k \in 1..m, left[k - 1] = right[k - 1] PROVE left[k] = right[k]
    BY DEF GoOnAlike
  <2>1. k - 1 \in 0..m /\ k \in 0..m /\ k \in Int
    BY <1>1
  <2>2. /\ Sums(ts)[k - 1] \in Int /\ Sums(ts)[k] = Sums(ts)[k - 1] + ts[k]
    BY <2>1, SumsStep
  <2>3. /\ Sums(Squares(ts))[k - 1] \in Int
        /\ Sums(Squares(ts))[k] = Sums(Squares(ts))[k - 1] + ts[k] * ts[k]
    BY <1>2, <1>3, <2>1, SumsStep
  <2>4. left[k] = left[k - 1] + (n * ts[k] - c) * (n * ts[k] - c)
    BY <1>2, <1>3, <2>1, SumsStep
  <2>5. right[k - 1] = n * n * Sums(Squares(ts))[k - 1] - 2 * n * c * Sums(ts)[k - 1] + (k - 1) * (c * c)
    BY <2>1
  <2>6. right[k] = n * n * Sums(Squares(ts))[k] - 2 * n * c * Sums(ts)[k] + k * (c * c)
    BY <2>1
  <2>7. ts[k] \in Int
    BY <1>3
  <2>8. \A q, s, t \in Int :
          n * n * q - 2 * n * c * s + (k - 1) * (c * c) + (n * t - c) * (n * t - c)
            = n * n * (q + t * t) - 2 * n * c * (s + t) + k * (c * c)
    BY <2>1
  <2>9. right[k] = left[k - 1] + (n * ts[k] - c) * (n * ts[k] - c)
    <3> DEFINE q == Sums(Squares(ts))[k - 1]
               s == Sums(ts)[k - 1]
               t == ts[k]
    <3>1. right[k] = n * n * (q + t * t) - 2 * n * c * (s + t) + k * (c * c)
      BY <2>2, <2>3, <2>6, Zenon
    <3>2. left[k - 1] = n * n * q - 2 * n * c * s + (k - 1) * (c * c)
      BY <2>5, left[k - 1] = right[k - 1], Zenon
    <3>3. q \in Int /\ s \in Int /\ t \in Int
      BY <2>2, <2>3, <2>7
    <3> HIDE DEF left, right, q, s, t
    <3>4. n * n * q - 2 * n * c * s + (k - 1) * (c * c) + (n * t - c) * (n * t - c)
            = n * n * (q + t * t) - 2 * n * c * (s + t) + k * (c * c)
      BY <2>8, <3>3, ZenonT(90)
    <3>5. right[k] = left[k - 1] + (n * t - c) * (n * t - c)
      BY <3>1, <3>2, <3>4, Zenon
    <3>6. QED
      BY <3>5 DEF t
  <2>10. QED
    BY <2>4, <2>9
<1>6. left[m] = right[m]
  <2> HIDE DEF left, right
  <2>1. Alike(left, right, m)
    BY <1>1, <1>4, <1>5, RecursionUnique
  <2>2. QED
    BY <1>1, <2>1 DEF Alike
<1>7. QED
  BY <1>1, <1>2, <1>6 DEF Sum

-----------------------------------------------------------------------------
(* The invariant *)

TimesOf == [reads : Seq(Times), writes : Seq(Times)]

Stats == [num_reads : Int, num_writes : Int, read_time : Int, write_time : Int,
          read_sumsqr : Int, write_sumsqr : Int, reads : Seq(Times), writes : Seq(Times)]

\* A scope's numbers are those of its lists.
Tallied(s) ==
  /\ s.num_reads = Len(s.reads) /\ s.num_writes = Len(s.writes)
  /\ s.read_time = Sum(s.reads) /\ s.write_time = Sum(s.writes)
  /\ s.read_sumsqr = Sum(Squares(s.reads)) /\ s.write_sumsqr = Sum(Squares(s.writes))

\* There is always a scope, and each is tallied.
ScopesInv ==
  /\ stats \in Seq(Stats) /\ stats # <<>>
  /\ \A i \in 1..Len(stats) : Tallied(stats[i])

CallersInv ==
  /\ doing \in {"idle", "call", "check"}
  /\ want \in Seq(TimesOf) /\ want # <<>>
  /\ checked \in TimesOf
  /\ ScopesAreTheCallers

IInv == ScopesInv /\ CallersInv

-----------------------------------------------------------------------------
(* Scopes and I/O *)

\* One more time in a list.
LEMMA TimeAdded ==
  ASSUME NEW ts \in Seq(Times), NEW t \in Times
  PROVE  /\ Append(ts, t) \in Seq(Times)
         /\ t \in Int /\ Square(t) \in Int
         /\ Len(Append(ts, t)) = Len(ts) + 1
         /\ Sum(Append(ts, t)) = Sum(ts) + t
         /\ Sum(Squares(Append(ts, t))) = Sum(Squares(ts)) + Square(t)
<1>1. ts \in Seq(Int) /\ t \in Int /\ Square(t) \in Int
  <2>1. Times \subseteq Int
    BY TimesAssumption
  <2>2. t \in Int
    BY <2>1
  <2>3. Square(t) \in Int
    BY <2>2 DEF Square
  <2>4. ts \in Seq(Int)
    BY <2>1, SeqMonotonic
  <2>5. QED
    BY <2>2, <2>3, <2>4
<1>2. Squares(ts) \in Seq(Int)
  BY <1>1, SquaresAppend
<1>3. Sum(Squares(Append(ts, t))) = Sum(Squares(ts)) + Square(t)
  BY <1>1, <1>2, SquaresAppend, SumAppend
<1>4. QED
  BY <1>1, <1>3, SumAppend

\* A new scope is empty.
LEMMA NewScopeTallied == IOTraceStats \in Stats /\ Tallied(IOTraceStats)
<1>1. Sum(<<>>) = 0 /\ Squares(<<>>) = <<>> /\ <<>> \in Seq(Times) /\ Len(<<>>) = 0
  BY SumAppend, SquaresAppend
<1>2. QED
  BY <1>1 DEF IOTraceStats, Stats, Tallied

\* The active scope is another one, the rest are as they were.
LEMMA ActiveReplaced ==
  ASSUME ScopesInv, NEW s \in Stats, Tallied(s), stats' = [stats EXCEPT ![Len(stats)] = s]
  PROVE  /\ ScopesInv'
         /\ Len(stats') = Len(stats)
         /\ stats'[Len(stats)] = s
         /\ \A i \in 1..(Len(stats) - 1) : stats'[i] = stats[i]
<1>1. Len(stats) \in 1..Len(stats) /\ Len(stats) \in Nat
  BY EmptySeq DEF ScopesInv
<1>2. /\ stats' \in Seq(Stats) /\ Len(stats') = Len(stats)
      /\ \A i \in 1..Len(stats) : stats'[i] = IF i = Len(stats) THEN s ELSE stats[i]
  BY <1>1, ExceptSeq DEF ScopesInv
<1>3. stats' # <<>>
  BY <1>1, <1>2
<1>4. \A i \in 1..Len(stats') : Tallied(stats'[i])
  BY <1>2 DEF ScopesInv
<1>5. ScopesInv'
  BY <1>2, <1>3, <1>4 DEF ScopesInv
<1>6. stats'[Len(stats)] = s
  BY <1>1, <1>2
<1>7. \A i \in 1..(Len(stats) - 1) : stats'[i] = stats[i]
  <2>1. \A i \in 1..(Len(stats) - 1) : i \in 1..Len(stats) /\ i # Len(stats)
    BY <1>1
  <2>2. QED
    BY <1>2, <2>1
<1>8. QED
  BY <1>2, <1>5, <1>6, <1>7

\* A scope in which one more time of a read, or of a write, is counted.
ReadCounted(s, t) ==
  [s EXCEPT !.num_reads = @ + 1, !.read_time = @ + t,
            !.read_sumsqr = @ + Square(t), !.reads = Append(@, t)]

WriteCounted(s, t) ==
  [s EXCEPT !.num_writes = @ + 1, !.write_time = @ + t,
            !.write_sumsqr = @ + Square(t), !.writes = Append(@, t)]

\* It is a scope, and its numbers are still those of its lists.
LEMMA ReadCountedTallied ==
  ASSUME NEW s \in Stats, Tallied(s), NEW t \in Times
  PROVE  /\ ReadCounted(s, t) \in Stats /\ Tallied(ReadCounted(s, t))
         /\ ReadCounted(s, t).reads = Append(s.reads, t) /\ ReadCounted(s, t).writes = s.writes
<1> DEFINE a == [s EXCEPT !.num_reads = @ + 1]
           b == [a EXCEPT !.read_time = @ + t]
           c == [b EXCEPT !.read_sumsqr = @ + Square(t)]
           d == [c EXCEPT !.reads = Append(@, t)]
<1>1. s.reads \in Seq(Times)
  BY DEF Stats
<1>2. /\ Append(s.reads, t) \in Seq(Times)
      /\ t \in Int /\ Square(t) \in Int
      /\ Len(Append(s.reads, t)) = Len(s.reads) + 1
      /\ Sum(Append(s.reads, t)) = Sum(s.reads) + t
      /\ Sum(Squares(Append(s.reads, t))) = Sum(Squares(s.reads)) + Square(t)
  BY <1>1, TimeAdded
<1>3. a \in Stats /\ a.reads = s.reads
  BY SMTT(30) DEF Stats
<1>4. b \in Stats /\ b.reads = s.reads
  <2> HIDE DEF a
  <2>1. a.read_time \in Int
    BY <1>3 DEF Stats
  <2>2. a.read_time + t \in Int
    BY <1>2, <2>1
  <2>3. QED
    BY <1>3, <2>2 DEF Stats
<1>5. c \in Stats /\ c.reads = s.reads
  <2> HIDE DEF a, b
  <2>1. b.read_sumsqr \in Int
    BY <1>4 DEF Stats
  <2>2. b.read_sumsqr + Square(t) \in Int
    BY <1>2, <2>1
  <2>3. QED
    BY <1>4, <2>2 DEF Stats
<1>6. d \in Stats
  <2> HIDE DEF a, b, c
  <2>1. QED
    BY <1>2, <1>5 DEF Stats
<1>7. ReadCounted(s, t) = d
  BY DEF ReadCounted, Stats
<1>8. /\ d.num_reads = s.num_reads + 1 /\ d.read_time = s.read_time + t
      /\ d.read_sumsqr = s.read_sumsqr + Square(t) /\ d.reads = Append(s.reads, t)
      /\ d.num_writes = s.num_writes /\ d.write_time = s.write_time
      /\ d.write_sumsqr = s.write_sumsqr /\ d.writes = s.writes
  BY DEF Stats
<1> HIDE DEF d
<1>9. Tallied(d)
  BY <1>2, <1>8 DEF Tallied
<1>10. QED
  BY <1>6, <1>7, <1>8, <1>9

\* It is a scope, and its numbers are still those of its lists.
LEMMA WriteCountedTallied ==
  ASSUME NEW s \in Stats, Tallied(s), NEW t \in Times
  PROVE  /\ WriteCounted(s, t) \in Stats /\ Tallied(WriteCounted(s, t))
         /\ WriteCounted(s, t).writes = Append(s.writes, t) /\ WriteCounted(s, t).reads = s.reads
<1> DEFINE a == [s EXCEPT !.num_writes = @ + 1]
           b == [a EXCEPT !.write_time = @ + t]
           c == [b EXCEPT !.write_sumsqr = @ + Square(t)]
           d == [c EXCEPT !.writes = Append(@, t)]
<1>1. s.writes \in Seq(Times)
  BY DEF Stats
<1>2. /\ Append(s.writes, t) \in Seq(Times)
      /\ t \in Int /\ Square(t) \in Int
      /\ Len(Append(s.writes, t)) = Len(s.writes) + 1
      /\ Sum(Append(s.writes, t)) = Sum(s.writes) + t
      /\ Sum(Squares(Append(s.writes, t))) = Sum(Squares(s.writes)) + Square(t)
  BY <1>1, TimeAdded
<1>3. a \in Stats /\ a.writes = s.writes
  BY SMTT(30) DEF Stats
<1>4. b \in Stats /\ b.writes = s.writes
  <2> HIDE DEF a
  <2>1. a.write_time \in Int
    BY <1>3 DEF Stats
  <2>2. a.write_time + t \in Int
    BY <1>2, <2>1
  <2>3. QED
    BY <1>3, <2>2 DEF Stats
<1>5. c \in Stats /\ c.writes = s.writes
  <2> HIDE DEF a, b
  <2>1. b.write_sumsqr \in Int
    BY <1>4 DEF Stats
  <2>2. b.write_sumsqr + Square(t) \in Int
    BY <1>2, <2>1
  <2>3. QED
    BY <1>4, <2>2 DEF Stats
<1>6. d \in Stats
  <2> HIDE DEF a, b, c
  <2>1. QED
    BY <1>2, <1>5 DEF Stats
<1>7. WriteCounted(s, t) = d
  BY DEF WriteCounted, Stats
<1>8. /\ d.num_writes = s.num_writes + 1 /\ d.write_time = s.write_time + t
      /\ d.write_sumsqr = s.write_sumsqr + Square(t) /\ d.writes = Append(s.writes, t)
      /\ d.num_reads = s.num_reads /\ d.read_time = s.read_time
      /\ d.read_sumsqr = s.read_sumsqr /\ d.reads = s.reads
  BY DEF Stats
<1> HIDE DEF d
<1>9. Tallied(d)
  BY <1>2, <1>8 DEF Tallied
<1>10. QED
  BY <1>6, <1>7, <1>8, <1>9

\* end_read and end_write count one time in the active scope.
LEMMA EndCounts ==
  ASSUME ScopesInv, NEW t \in Times
  PROVE  /\ stats[Len(stats)] \in Stats /\ Tallied(stats[Len(stats)])
         /\ end_read(t) => stats' = [stats EXCEPT ![Len(stats)] = ReadCounted(@, t)]
         /\ end_write(t) => stats' = [stats EXCEPT ![Len(stats)] = WriteCounted(@, t)]
<1>1. Len(stats) \in 1..Len(stats) /\ DOMAIN stats = 1..Len(stats)
  BY EmptySeq DEF ScopesInv
<1>2. stats[Len(stats)] \in Stats /\ Tallied(stats[Len(stats)])
  BY <1>1 DEF ScopesInv
<1>3. end_read(t) => stats' = [stats EXCEPT ![Len(stats)] = ReadCounted(@, t)]
  BY <1>1, <1>2 DEF end_read, ReadCounted, Stats
<1>4. end_write(t) => stats' = [stats EXCEPT ![Len(stats)] = WriteCounted(@, t)]
  BY <1>1, <1>2 DEF end_write, WriteCounted, Stats
<1>5. QED
  BY <1>2, <1>3, <1>4

\* scope() and pop() keep the scopes below as they are.
LEMMA ScopePushed ==
  ASSUME ScopesInv, scope
  PROVE  /\ ScopesInv' /\ Len(stats') = Len(stats) + 1
         /\ \A i \in 1..Len(stats) : stats'[i] = stats[i]
         /\ stats'[Len(stats) + 1] = IOTraceStats
<1>1. stats' = Append(stats, IOTraceStats)
  BY DEF scope
<1>2. /\ stats' \in Seq(Stats) /\ stats' # <<>> /\ Len(stats') = Len(stats) + 1
      /\ \A i \in 1..Len(stats) : stats'[i] = stats[i]
      /\ stats'[Len(stats) + 1] = IOTraceStats
  BY <1>1, NewScopeTallied, AppendProperties DEF ScopesInv
<1>3. \A i \in 1..Len(stats') : Tallied(stats'[i])
  <2> TAKE i \in 1..Len(stats')
  <2>1. i \in 1..Len(stats) \/ i = Len(stats) + 1
    BY <1>2 DEF ScopesInv
  <2>2. QED
    BY <1>2, <2>1, NewScopeTallied DEF ScopesInv
<1>4. ScopesInv'
  BY <1>2, <1>3 DEF ScopesInv
<1>5. QED
  BY <1>2, <1>4

LEMMA ScopePopped ==
  ASSUME ScopesInv, pop
  PROVE  /\ ScopesInv'
         /\ Len(stats') = (IF Len(stats) = 1 THEN 1 ELSE Len(stats) - 1)
         /\ \A i \in 1..Len(stats') : stats'[i] = stats[i]
<1>1. Len(stats) \in Nat /\ Len(stats) # 0
  BY EmptySeq DEF ScopesInv
<1>2. CASE Len(stats) = 1
  <2>1. stats' = stats
    BY <1>2 DEF pop
  <2>2. QED
    BY <1>2, <2>1 DEF ScopesInv
<1>3. CASE Len(stats) # 1
  <2>1. stats' = SubSeq(stats, 1, Len(stats) - 1)
    BY <1>3 DEF pop, Front
  <2>2. /\ stats' \in Seq(Stats) /\ Len(stats') = Len(stats) - 1
        /\ \A i \in 1..Len(stats') : stats'[i] = stats[i]
    <3>1. stats \in Seq(Stats) /\ 1 \in Int /\ Len(stats) - 1 \in Int
      BY <1>1 DEF ScopesInv
    <3>2. \A i \in 1..(Len(stats) - 1) : stats[i] \in Stats
      BY <1>1, <3>1
    <3>3. /\ SubSeq(stats, 1, Len(stats) - 1) \in Seq(Stats)
          /\ Len(SubSeq(stats, 1, Len(stats) - 1)) = Len(stats) - 1
          /\ \A i \in 1..(Len(stats) - 1) : SubSeq(stats, 1, Len(stats) - 1)[i] = stats[i]
      <4> DEFINE n == Len(stats) - 1
      <4>1. n \in Int /\ 1 <= n
        BY <1>1, <1>3
      <4>2. /\ n - 1 + 1 = n /\ \A i \in 1..n : 1 + i - 1 = i
            /\ \A i \in 1..n : stats[i] \in Stats
        BY <3>2, <4>1
      <4> HIDE DEF n
      <4>3. /\ SubSeq(stats, 1, n) \in Seq(Stats) /\ Len(SubSeq(stats, 1, n)) = n - 1 + 1
            /\ \A i \in 1..(n - 1 + 1) : SubSeq(stats, 1, n)[i] = stats[1 + i - 1]
        BY <3>1, <4>1, <4>2, SubSeqProperties
      <4>4. QED
        BY <4>2, <4>3 DEF n
    <3>4. QED
      BY <2>1, <3>3
  <2>3. stats' # <<>>
    BY <1>1, <1>3, <2>2
  <2>4. \A i \in 1..Len(stats') : Tallied(stats'[i])
    BY <1>1, <2>2 DEF ScopesInv
  <2>5. ScopesInv'
    BY <2>2, <2>3, <2>4 DEF ScopesInv
  <2>6. QED
    BY <1>3, <2>2, <2>5
<1>4. QED
  BY <1>2, <1>3

-----------------------------------------------------------------------------
(* The actions *)

\* What the invariant says of the lengths, and of the application's scopes.
LEMMA ScopesMatch ==
  ASSUME IInv
  PROVE  /\ Len(want) \in Nat \ {0} /\ DOMAIN want = 1..Len(want)
         /\ Len(stats) = Len(want) + (IF doing = "check" THEN 1 ELSE 0)
         /\ \A i \in 1..Len(want) : want[i] = IOs(stats[i])
         /\ doing = "check" => checked = IOs(stats[Len(stats)])
<1>1. Len(want) \in Nat \ {0} /\ DOMAIN want = 1..Len(want)
  BY EmptySeq DEF IInv, CallersInv
<1>2. QED
  BY <1>1 DEF IInv, CallersInv, ScopesAreTheCallers

\* NoIOs is what a new scope has counted.
LEMMA NoIOsYet == NoIOs \in TimesOf /\ NoIOs = IOs(IOTraceStats)
BY DEF NoIOs, TimesOf, IOs, IOTraceStats

\* A call that raises leaves the scopes as they are; a check's becomes the application's.
LEMMA RaisesInv ==
  ASSUME IInv, Raises, UNCHANGED stats
  PROVE  IInv'
<1>1. ScopesInv'
  BY DEF IInv, ScopesInv
<1>2. /\ doing' = "idle" /\ checked' = NoIOs
      /\ want' = IF doing = "check" THEN Append(want, checked) ELSE want
  BY DEF Raises
<1>3. CASE doing # "check"
  BY <1>1, <1>2, <1>3, NoIOsYet DEF IInv, CallersInv, ScopesAreTheCallers
<1>4. CASE doing = "check"
  <2>1. /\ want' \in Seq(TimesOf) /\ want' # <<>> /\ Len(want') = Len(want) + 1
        /\ \A i \in 1..Len(want) : want'[i] = want[i]
        /\ want'[Len(want) + 1] = checked
    BY <1>2, <1>4, AppendProperties DEF IInv, CallersInv
  <2>2. /\ Len(want) \in Nat \ {0} /\ Len(stats) = Len(want) + 1
        /\ \A i \in 1..Len(want) : want[i] = IOs(stats[i])
        /\ checked = IOs(stats[Len(stats)])
    BY <1>4, ScopesMatch
  <2>3. \A i \in 1..Len(want') : want'[i] = IOs(stats'[i])
    <3> TAKE i \in 1..Len(want')
    <3>1. i \in 1..Len(want) \/ i = Len(want) + 1
      BY <2>1, <2>2
    <3>2. QED
      BY <2>1, <2>2, <3>1
  <2>4. DOMAIN want' = 1..Len(want') /\ Len(stats') = Len(want')
    BY <2>1, <2>2
  <2>5. ScopesAreTheCallers'
    BY <1>2, <2>3, <2>4 DEF ScopesAreTheCallers
  <2>6. QED
    BY <1>1, <1>2, <2>1, <2>5, NoIOsYet DEF IInv, CallersInv
<1>5. QED
  BY <1>3, <1>4

LEMMA OpenScopeInv ==
  ASSUME IInv, OpenScope
  PROVE  IInv'
<1>1. /\ scope /\ doing = "idle" /\ UNCHANGED <<doing, checked>>
      /\ want' = Append(want, NoIOs)
  BY DEF OpenScope
<1>2. /\ ScopesInv' /\ Len(stats') = Len(stats) + 1
      /\ \A i \in 1..Len(stats) : stats'[i] = stats[i]
      /\ stats'[Len(stats) + 1] = IOTraceStats
  BY <1>1, ScopePushed DEF IInv
<1>3. /\ Len(want) \in Nat \ {0} /\ Len(stats) = Len(want)
      /\ \A i \in 1..Len(want) : want[i] = IOs(stats[i])
  BY <1>1, ScopesMatch
<1>4. /\ want' \in Seq(TimesOf) /\ want' # <<>> /\ Len(want') = Len(want) + 1
      /\ \A i \in 1..Len(want) : want'[i] = want[i]
      /\ want'[Len(want) + 1] = NoIOs
  BY <1>1, NoIOsYet, AppendProperties DEF IInv, CallersInv
<1>5. \A i \in 1..Len(want') : want'[i] = IOs(stats'[i])
  <2> TAKE i \in 1..Len(want')
  <2>1. i \in 1..Len(want) \/ i = Len(want) + 1
    BY <1>3, <1>4
  <2>2. QED
    BY <1>2, <1>3, <1>4, <2>1, NoIOsYet
<1>6. DOMAIN want' = 1..Len(want') /\ Len(stats') = Len(want')
  BY <1>2, <1>3, <1>4
<1>7. ScopesAreTheCallers'
  BY <1>1, <1>5, <1>6 DEF ScopesAreTheCallers
<1>8. QED
  BY <1>1, <1>2, <1>4, <1>7 DEF IInv, CallersInv

LEMMA CloseScopeInv ==
  ASSUME IInv, CloseScope
  PROVE  IInv'
<1>1. /\ pop /\ doing = "idle" /\ UNCHANGED <<doing, checked>>
      /\ want' = IF Len(want) < 2 THEN want ELSE SubSeq(want, 1, Len(want) - 1)
  BY DEF CloseScope, Front
<1>2. /\ ScopesInv'
      /\ Len(stats') = (IF Len(stats) = 1 THEN 1 ELSE Len(stats) - 1)
      /\ \A i \in 1..Len(stats') : stats'[i] = stats[i]
  BY <1>1, ScopePopped DEF IInv
<1>3. want \in Seq(TimesOf) /\ Len(want) \in Nat
  BY DEF IInv, CallersInv
<1>4. /\ want' \in Seq(TimesOf)
      /\ Len(want') = IF Len(want) < 2 THEN Len(want) ELSE Len(want) - 1
      /\ \A i \in 1..Len(want') : want'[i] = want[i]
  BY <1>1, <1>3
<1>5. /\ Len(want) \in Nat \ {0} /\ Len(stats) = Len(want)
      /\ \A i \in 1..Len(want) : want[i] = IOs(stats[i])
  BY <1>1, ScopesMatch
<1>6. Len(want') = Len(stats') /\ Len(want') \in 1..Len(want)
  BY <1>2, <1>4, <1>5
<1>7. \A i \in 1..Len(want') : want'[i] = IOs(stats'[i])
  BY <1>2, <1>4, <1>5, <1>6
<1>8. want' # <<>> /\ DOMAIN want' = 1..Len(want')
  BY <1>4, <1>6
<1>9. ScopesAreTheCallers'
  BY <1>1, <1>6, <1>7, <1>8 DEF ScopesAreTheCallers
<1>10. QED
  BY <1>1, <1>2, <1>4, <1>8, <1>9 DEF IInv, CallersInv

LEMMA CallInv ==
  ASSUME IInv, Call
  PROVE  IInv'
BY DEF IInv, ScopesInv, CallersInv, ScopesAreTheCallers, Call

LEMMA CheckInv ==
  ASSUME IInv, Check
  PROVE  IInv'
<1>1. /\ scope /\ doing = "idle" /\ doing' = "check" /\ want' = want
      /\ checked' = NoIOs
  BY DEF Check
<1>2. /\ ScopesInv' /\ Len(stats') = Len(stats) + 1
      /\ \A i \in 1..Len(stats) : stats'[i] = stats[i]
      /\ stats'[Len(stats) + 1] = IOTraceStats
  BY <1>1, ScopePushed DEF IInv
<1>3. /\ Len(want) \in Nat \ {0} /\ Len(stats) = Len(want) /\ DOMAIN want = 1..Len(want)
      /\ \A i \in 1..Len(want) : want[i] = IOs(stats[i])
  BY <1>1, ScopesMatch
<1>4. \A i \in DOMAIN want' : want'[i] = IOs(stats'[i])
  BY <1>1, <1>2, <1>3
<1>5. Len(stats') = Len(want') + 1 /\ checked' = IOs(stats'[Len(stats')])
  BY <1>1, <1>2, <1>3, NoIOsYet
<1>6. ScopesAreTheCallers'
  BY <1>1, <1>4, <1>5 DEF ScopesAreTheCallers
<1>7. QED
  BY <1>1, <1>2, <1>6, NoIOsYet DEF IInv, CallersInv

LEMMA StartIOInv ==
  ASSUME IInv, StartIO
  PROVE  IInv'
<1>1. UNCHANGED stats
  BY DEF StartIO, start_io
<1>2. CASE raised'
  BY <1>1, <1>2, RaisesInv DEF StartIO
<1>3. CASE ~raised'
  BY <1>1, <1>3 DEF StartIO, IInv, ScopesInv, CallersInv, ScopesAreTheCallers
<1>4. QED
  BY <1>2, <1>3

\* A time more in one of the two lists of a scope.
LEMMA OneMore ==
  ASSUME NEW s \in Stats, NEW old \in Stats, NEW t \in Times
  PROVE  /\ IOs(s) \in TimesOf
         /\ s.reads = Append(old.reads, t) /\ s.writes = old.writes
              => [IOs(old) EXCEPT !.reads = Append(@, t)] = IOs(s)
         /\ s.writes = Append(old.writes, t) /\ s.reads = old.reads
              => [IOs(old) EXCEPT !.writes = Append(@, t)] = IOs(s)
<1>1. IOs(s) \in TimesOf
  BY DEF IOs, Stats, TimesOf
<1>2. \A a, b, c : [[reads |-> a, writes |-> b] EXCEPT !.reads = c] = [reads |-> c, writes |-> b]
  OBVIOUS
<1>3. \A a, b, c : [[reads |-> a, writes |-> b] EXCEPT !.writes = c] = [reads |-> a, writes |-> c]
  OBVIOUS
<1>4. IOs(old).reads = old.reads /\ IOs(old).writes = old.writes
  BY DEF IOs
<1>5. [IOs(old) EXCEPT !.reads = Append(@, t)]
        = [[reads |-> old.reads, writes |-> old.writes] EXCEPT !.reads = Append(old.reads, t)]
  BY <1>4, Zenon DEF IOs
<1>6. [IOs(old) EXCEPT !.writes = Append(@, t)]
        = [[reads |-> old.reads, writes |-> old.writes] EXCEPT !.writes = Append(old.writes, t)]
  BY <1>4, Zenon DEF IOs
<1>7. s.reads = Append(old.reads, t) /\ s.writes = old.writes
        => [IOs(old) EXCEPT !.reads = Append(@, t)] = IOs(s)
  <2>1. [IOs(old) EXCEPT !.reads = Append(@, t)] = [reads |-> Append(old.reads, t), writes |-> old.writes]
    BY <1>2, <1>5
  <2>2. QED
    BY <2>1, Zenon DEF IOs
<1>8. s.writes = Append(old.writes, t) /\ s.reads = old.reads
        => [IOs(old) EXCEPT !.writes = Append(@, t)] = IOs(s)
  <2>1. [IOs(old) EXCEPT !.writes = Append(@, t)] = [reads |-> old.reads, writes |-> Append(old.writes, t)]
    BY <1>3, <1>6
  <2>2. QED
    BY <2>1, Zenon DEF IOs
<1>9. QED
  BY <1>1, <1>7, <1>8

LEMMA EndIOInv ==
  ASSUME IInv, EndIO
  PROVE  IInv'
<1>1. UNCHANGED doing
  BY DEF EndIO
<1>2. PICK t \in Times :
        \/ end_read(t) /\ CountedRead(t)
        \/ doing = "call" /\ end_write(t) /\ CountedWrite(t)
  BY DEF EndIO
<1> DEFINE n == Len(stats)
           m == Len(want)
           old == stats[n]
<1>3. old \in Stats /\ Tallied(old) /\ n \in 1..n
  BY EndCounts, EmptySeq DEF IInv, ScopesInv
\* Scope and history go on alike.
<1>4. PICK s \in Stats :
        /\ Tallied(s) /\ stats' = [stats EXCEPT ![n] = s] /\ IOs(s) \in TimesOf
        /\ doing = "check" /\ checked = IOs(old) => checked' = IOs(s) /\ want' = want
        /\ doing # "check" /\ want[m] = IOs(old) => want' = [want EXCEPT ![m] = IOs(s)] /\ checked' = checked
  <2>1. CASE end_read(t) /\ CountedRead(t)
    <3>1. PICK s : s = ReadCounted(old, t)
      OBVIOUS
    <3>2. stats' = [stats EXCEPT ![n] = s]
      BY <2>1, <3>1, EndCounts DEF IInv
    <3>3. s \in Stats /\ Tallied(s) /\ s.reads = Append(old.reads, t) /\ s.writes = old.writes
      BY <1>3, <3>1, ReadCountedTallied
    <3>4. IOs(s) \in TimesOf /\ [IOs(old) EXCEPT !.reads = Append(@, t)] = IOs(s)
      BY <1>3, <3>3, OneMore
    <3> HIDE DEF n, old
    <3>5. CASE doing = "check"
      <4>1. checked' = [checked EXCEPT !.reads = Append(@, t)] /\ want' = want
        BY <2>1, <3>5 DEF CountedRead
      <4>2. QED
        BY <3>2, <3>3, <3>4, <3>5, <4>1
    <3>6. CASE doing # "check"
      <4>1. want' = [want EXCEPT ![m].reads = Append(@, t)] /\ checked' = checked
        BY <2>1, <3>6 DEF CountedRead
      <4>2. want[m] = IOs(old) => want' = [want EXCEPT ![m] = IOs(s)]
        BY <3>4, <4>1
      <4>3. QED
        BY <3>2, <3>3, <3>4, <3>6, <4>1, <4>2
    <3>7. QED
      BY <3>5, <3>6
  <2>2. CASE doing = "call" /\ end_write(t) /\ CountedWrite(t)
    <3>1. PICK s : s = WriteCounted(old, t)
      OBVIOUS
    <3>2. stats' = [stats EXCEPT ![n] = s]
      BY <2>2, <3>1, EndCounts DEF IInv
    <3>3. s \in Stats /\ Tallied(s) /\ s.writes = Append(old.writes, t) /\ s.reads = old.reads
      BY <1>3, <3>1, WriteCountedTallied
    <3>4. IOs(s) \in TimesOf /\ [IOs(old) EXCEPT !.writes = Append(@, t)] = IOs(s)
      BY <1>3, <3>3, OneMore
    <3> HIDE DEF n, old
    <3>5. want' = [want EXCEPT ![m].writes = Append(@, t)] /\ checked' = checked
      BY <2>2 DEF CountedWrite
    <3>6. want[m] = IOs(old) => want' = [want EXCEPT ![m] = IOs(s)]
      BY <3>4, <3>5
    <3>7. QED
      BY <2>2, <3>2, <3>3, <3>4, <3>5, <3>6
  <2>3. QED
    BY <1>2, <2>1, <2>2
<1>5. /\ ScopesInv' /\ Len(stats') = n /\ stats'[n] = s
      /\ \A i \in 1..(n - 1) : stats'[i] = stats[i]
  BY <1>4, ActiveReplaced DEF IInv
<1>6. /\ m \in Nat \ {0} /\ DOMAIN want = 1..m /\ want \in Seq(TimesOf)
      /\ n = m + (IF doing = "check" THEN 1 ELSE 0)
      /\ \A i \in 1..m : want[i] = IOs(stats[i])
      /\ doing = "check" => checked = IOs(old)
  BY ScopesMatch DEF IInv, CallersInv
<1>7. CASE doing = "check"
  <2>1. checked' = IOs(s) /\ want' = want
    BY <1>4, <1>6, <1>7
  <2>2. \A i \in DOMAIN want' : want'[i] = IOs(stats'[i])
    BY <1>5, <1>6, <1>7, <2>1
  <2>3. ScopesAreTheCallers'
    BY <1>1, <1>5, <1>6, <1>7, <2>1, <2>2 DEF ScopesAreTheCallers
  <2>4. QED
    BY <1>1, <1>4, <1>5, <2>1, <2>3 DEF IInv, CallersInv
<1> HIDE DEF n, m, old
<1>8. CASE doing # "check"
  <2>1. n = m /\ want[m] = IOs(old)
    BY <1>6, <1>8 DEF old
  <2>2. want' = [want EXCEPT ![m] = IOs(s)] /\ checked' = checked
    BY <1>4, <1>8, <2>1
  <2>3. /\ want' \in Seq(TimesOf) /\ Len(want') = m
        /\ \A i \in 1..m : want'[i] = IF i = m THEN IOs(s) ELSE want[i]
    BY <1>4, <1>6, <2>2, ExceptSeq
  <2>4. \A i \in 1..Len(want') : want'[i] = IOs(stats'[i])
    <3> TAKE i \in 1..Len(want')
    <3>1. i \in 1..m
      BY <2>3
    <3>2. i = m \/ i \in 1..(m - 1)
      BY <1>6, <3>1
    <3>3. QED
      BY <1>5, <1>6, <2>1, <2>3, <3>1, <3>2
  <2>5. want' # <<>> /\ DOMAIN want' = 1..Len(want') /\ Len(stats') = Len(want')
    <3>1. Len(want') # 0 /\ Len(stats') = Len(want')
      BY <1>5, <1>6, <2>1, <2>3
    <3>2. QED
      BY <2>3, <3>1
  <2>6. ScopesAreTheCallers'
    BY <1>1, <1>8, <2>4, <2>5 DEF ScopesAreTheCallers
  <2>7. QED
    BY <1>1, <1>5, <2>2, <2>3, <2>5, <2>6 DEF IInv, CallersInv
<1>9. QED
  BY <1>7, <1>8

LEMMA ReturnInv ==
  ASSUME IInv, Return
  PROVE  IInv'
<1>1. doing' = "idle" /\ want' = want /\ checked' = NoIOs
  BY DEF Return
<1>2. CASE doing # "check"
  BY <1>1, <1>2, NoIOsYet
     DEF Return, traceVars, IInv, ScopesInv, CallersInv, ScopesAreTheCallers
<1>3. CASE doing = "check"
  <2>1. pop
    BY <1>3 DEF Return
  <2>2. /\ ScopesInv'
        /\ Len(stats') = (IF Len(stats) = 1 THEN 1 ELSE Len(stats) - 1)
        /\ \A i \in 1..Len(stats') : stats'[i] = stats[i]
    BY <2>1, ScopePopped DEF IInv
  <2>3. /\ Len(want) \in Nat \ {0} /\ Len(stats) = Len(want) + 1
        /\ DOMAIN want = 1..Len(want)
        /\ \A i \in 1..Len(want) : want[i] = IOs(stats[i])
    BY <1>3, ScopesMatch
  <2>4. Len(stats') = Len(want)
    BY <2>2, <2>3
  <2>5. ScopesAreTheCallers'
    BY <1>1, <2>2, <2>3, <2>4 DEF ScopesAreTheCallers
  <2>6. QED
    BY <1>1, <2>2, <2>5, NoIOsYet DEF IInv, CallersInv
<1>4. QED
  BY <1>2, <1>3

LEMMA StepInv ==
  ASSUME IInv, [TPNext]_tpvars
  PROVE  IInv'
<1>1. CASE OpenScope
  BY <1>1, OpenScopeInv
<1>2. CASE CloseScope
  BY <1>2, CloseScopeInv
<1>3. CASE Call
  BY <1>3, CallInv
<1>4. CASE Check
  BY <1>4, CheckInv
<1>5. CASE StartIO
  BY <1>5, StartIOInv
<1>6. CASE IOFails
  BY <1>6, RaisesInv DEF IOFails
<1>7. CASE EndIO
  BY <1>7, EndIOInv
<1>8. CASE Return
  BY <1>8, ReturnInv
<1>9. CASE RaiseOther
  BY <1>9, RaisesInv DEF RaiseOther
<1>10. CASE UNCHANGED tpvars
  BY <1>10 DEF tpvars, traceVars, IInv, ScopesInv, CallersInv, ScopesAreTheCallers
<1>11. QED
  BY <1>1, <1>2, <1>3, <1>4, <1>5, <1>6, <1>7, <1>8, <1>9, <1>10 DEF TPNext

LEMMA InitInv == TPInit => IInv
<1> SUFFICES ASSUME TPInit PROVE IInv
  OBVIOUS
<1>1. /\ stats = <<IOTraceStats>> /\ want = <<NoIOs>> /\ checked = NoIOs
      /\ doing = "idle"
  BY DEF TPInit, TraceInit
<1>2. ScopesInv
  BY <1>1, NewScopeTallied DEF ScopesInv
<1>3. ScopesAreTheCallers
  BY <1>1, NoIOsYet DEF ScopesAreTheCallers
<1>4. want \in Seq(TimesOf) /\ want # <<>> /\ checked \in TimesOf
  BY <1>1, NoIOsYet
<1>5. QED
  BY <1>1, <1>2, <1>3, <1>4 DEF IInv, CallersInv

-----------------------------------------------------------------------------
(* The answers *)

\* The mean and the deviation of a list of times, from the running sums.
LEMMA AnswersOfOneList ==
  ASSUME NEW ts \in Seq(Times)
  PROVE  LET n == Len(ts)
             avg == Over(Sum(ts), n)
             stdev == _stdev_from_sums(n, Sum(ts), Sum(Squares(ts)))
         IN  /\ n = 0 => avg[1] = 0
             /\ n > 0 => /\ avg[1] * n = Sum(ts) * avg[2]
                         /\ n * stdev[1] = Sum(Squares([i \in DOMAIN ts |-> n * ts[i] - Sum(ts)]))
<1> DEFINE n == Len(ts)
           S == Sum(ts)
           Q == Sum(Squares(ts))
<1>1. ts \in Seq(Int) /\ n \in Int
  <2>1. Times \subseteq Int
    BY TimesAssumption
  <2>2. ts \in Seq(Int)
    BY <2>1, SeqMonotonic
  <2>3. QED
    BY <2>2
<1>2. S \in Int
  BY <1>1, SumsStep DEF Sum
<1>3. Q \in Int
  <2>1. Squares(ts) \in Seq(Int)
    BY <1>1, SquaresAppend
  <2>2. QED
    BY <2>1, SumsStep DEF Sum
<1>4. Sum(Squares([i \in DOMAIN ts |-> n * ts[i] - S])) = n * n * Q - 2 * n * S * S + n * (S * S)
  BY <1>1, <1>2, SumOfSquaredDistances
<1>5. /\ n > 0 => Over(S, n) = <<S, n>>
      /\ n = 0 => Over(S, n)[1] = 0
  BY <1>1 DEF Over
<1>6. _stdev_from_sums(n, S, Q)[1] = S * S + n * Q - 2 * (S * S)
  BY DEF _stdev_from_sums, Square
<1> HIDE DEF n, S, Q
<1>7. n * (S * S + n * Q - 2 * (S * S)) = n * n * Q - 2 * n * S * S + n * (S * S)
  BY <1>1, <1>2, <1>3
<1>8. n > 0 => Over(S, n)[1] * n = S * Over(S, n)[2]
  BY <1>5
<1>9. n * _stdev_from_sums(n, S, Q)[1] = Sum(Squares([i \in DOMAIN ts |-> n * ts[i] - S]))
  BY <1>4, <1>6, <1>7
<1>10. QED
  BY <1>5, <1>8, <1>9 DEF n, S, Q

LEMMA AnswersFollow ==
  ASSUME IInv
  PROVE  AnswersAreOfTheTimes
<1>1. stats[Len(stats)] \in Stats /\ Tallied(stats[Len(stats)])
  BY EmptySeq DEF IInv, ScopesInv
<1>2. stat = stats[Len(stats)]
  BY DEF stat, Last
<1>3. stat \in Stats /\ Tallied(stat)
  BY <1>1, <1>2
<1>4. stat.reads \in Seq(Times) /\ stat.writes \in Seq(Times)
  BY <1>3 DEF Stats
<1>5. /\ get_data[1] = stat.reads /\ get_data[2] = stat.writes
      /\ get_num[1] = Len(stat.reads) /\ get_num[2] = Len(stat.writes)
      /\ get_avg[1] = Over(Sum(stat.reads), Len(stat.reads))
      /\ get_avg[2] = Over(Sum(stat.writes), Len(stat.writes))
  BY <1>3 DEF get_data, get_num, get_avg, Tallied
<1>6. /\ Len(stat.reads) > 0 =>
            get_stdev[1] = _stdev_from_sums(Len(stat.reads), Sum(stat.reads), Sum(Squares(stat.reads)))
      /\ Len(stat.writes) > 0 =>
            get_stdev[2] = _stdev_from_sums(Len(stat.writes), Sum(stat.writes), Sum(Squares(stat.writes)))
      /\ Len(stat.reads) = 0 => get_stdev[1][1] = 0
      /\ Len(stat.writes) = 0 => get_stdev[2][1] = 0
  BY <1>3, <1>4 DEF get_stdev, Tallied
<1> DEFINE Right(k) ==
             LET ts  == get_data[k]
                 n   == Len(ts)
                 avg == get_avg[k]
             IN  /\ get_num[k] = n
                 /\ n = 0 => avg[1] = 0 /\ get_stdev[k][1] = 0
                 /\ n > 0 => /\ avg[1] * n = Sum(ts) * avg[2]
                             /\ n * get_stdev[k][1] = Sum(Squares([i \in DOMAIN ts |-> n * ts[i] - Sum(ts)]))
<1>7. Right(1)
  BY <1>4, <1>5, <1>6, AnswersOfOneList
<1>8. Right(2)
  BY <1>4, <1>5, <1>6, AnswersOfOneList
<1>9. \A k \in 1..2 : Right(k)
  <2> HIDE DEF Right
  <2>1. QED
    BY <1>7, <1>8
<1>10. QED
  BY <1>9 DEF AnswersAreOfTheTimes

-----------------------------------------------------------------------------
(* What holds in every history *)

\* Whatever has raised, there is always a scope, every scope's numbers are those of its
\* lists of times, and the scopes are the application's, those of raised checks
\* included, with one more during a check.
THEOREM TraceInvariantHolds == TPSpec => []IInv
<1>1. TPInit => IInv
  BY InitInv
<1>2. IInv /\ [TPNext]_tpvars => IInv'
  BY StepInv
<1>3. QED
  BY <1>1, <1>2, PTL DEF TPSpec

\* Each scope has counted the I/Os that ended while it was the innermost, and no others,
\* whatever calls, checks and I/Os have failed.  A check that returns leaves the
\* application's scopes as they were; one that raises leaves its own on top of them,
\* for the calls after it to count in and for the next pop to take
\* (disk.py:125-131, btree.py:206, 263).
THEOREM ScopesStayTheCallers == TPSpec => []ScopesAreTheCallers
<1>1. IInv => ScopesAreTheCallers
  BY DEF IInv, CallersInv
<1>2. QED
  BY <1>1, TraceInvariantHolds, PTL

\* The averages and deviations computed from running sums are those of the list of
\* times, for any times (disk.py:152-174, 213-216).
THEOREM AnswersStayRight == TPSpec => []AnswersAreOfTheTimes
<1>1. IInv => AnswersAreOfTheTimes
  BY AnswersFollow
<1>2. QED
  BY <1>1, TraceInvariantHolds, PTL
=============================================================================
