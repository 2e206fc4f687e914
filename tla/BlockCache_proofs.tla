------------------------- MODULE BlockCache_proofs -------------------------
(***************************************************************************)
(* For any addresses, contents, cache sizes and number of failing system   *)
(* calls: no write is lost, close() writes everything, and the cache       *)
(* implements BlockStore.                                                  *)
(***************************************************************************)
EXTENDS BlockCacheProps, FiniteSetTheorems, SequenceTheorems, TLAPS

USE SizesAssumption, ContentsAssumption, UnsureAssumption

-----------------------------------------------------------------------------
(* The invariant.  Its parts are about lists, files and so on that are     *)
(* given, so that they can be said of those in the middle of a call.       *)

Blocks == Contents \cup {Nothing}

Nodes == [addr : Addrs, block : Blocks, entry : BOOLEAN, shared : BOOLEAN]

\* The dictionary has a node at most once for an address; a node it does not know
\* is one whose write-back failed; and the block of a node it knows is the stored
\* one, unless the caller is changing it.
NodesOK(nodes, sto, chg) ==
  /\ nodes \in Seq(Nodes)
  /\ \A i, j \in 1..Len(nodes) :
       nodes[i].entry /\ nodes[j].entry /\ nodes[i].addr = nodes[j].addr => i = j
  /\ \A i \in 1..Len(nodes) : ~nodes[i].entry => sto[nodes[i].addr] = Unsure
  /\ \A i \in 1..Len(nodes) :
       nodes[i].entry /\ nodes[i].block # Nothing =>
         \/ sto[nodes[i].addr] = Unsure \/ nodes[i].addr \in chg
         \/ nodes[i].block = BlockOf(sto[nodes[i].addr])

\* The node of a, if the dictionary has it, with its block.
HasBlock(nodes, a) ==
  \E i \in 1..Len(nodes) : nodes[i].entry /\ nodes[i].addr = a /\ nodes[i].block # Nothing

\* A dirty block is in the cache, and was written.
DirtyOK(nodes, dirt, sto) ==
  /\ dirt \subseteq Addrs
  /\ \A a \in dirt : HasBlock(nodes, a) /\ sto[a] # Nothing

\* What is neither dirty nor being changed is on file.
FileOK(fil, dirt, sto, chg) ==
  /\ fil \in [Addrs -> Blocks]
  /\ \A a \in Addrs \ dirt :
       sto[a] = Unsure \/ (a \in chg /\ max_size > 0) \/ fil[a] = sto[a]

CacheTypes ==
  /\ max_size \in Nat
  /\ open \in BOOLEAN /\ started \in BOOLEAN /\ faults \in Nat
  /\ held \in [Addrs -> Blocks]
  /\ stored \in [Addrs -> Blocks \cup {Unsure}]
  /\ changed \subseteq Addrs
  /\ flushing \subseteq dirty

ModesInv ==
  /\ max_size = 0 => lru = <<>> /\ dirty = {}
  /\ \A a \in changed : held[a] # Nothing
  /\ ~open => lru = <<>> /\ dirty = {} /\ held = NoBuffers
  /\ flushing # {} =>
       /\ held = NoBuffers
       /\ \A a \in Addrs \ flushing : stored[a] = Unsure \/ file[a] = stored[a]

CacheInv ==
  /\ CacheTypes
  /\ NodesOK(lru, stored, changed)
  /\ DirtyOK(lru, dirty, stored)
  /\ FileOK(file, dirty, stored, changed)
  /\ ModesInv

-----------------------------------------------------------------------------
(* System calls *)

Ios == [ok : BOOLEAN, file : [Addrs -> Blocks], started : BOOLEAN, faults : Nat]

IoTypes == file \in [Addrs -> Blocks] /\ started \in BOOLEAN /\ faults \in Nat

LEMMA IoNowType ==
  ASSUME IoTypes
  PROVE  /\ IoNow \in Ios /\ IoNow.ok
         /\ IoNow.file = file /\ IoNow.started = started /\ IoNow.faults = faults
BY DEF IoNow, Ios, IoTypes

\* An I/O that is over, by its parts.
Io(ok, fil, str, fau) == [ok |-> ok, file |-> fil, started |-> str, faults |-> fau]

LEMMA IoParts ==
  ASSUME NEW now \in Ios
  PROVE  /\ now.ok \in BOOLEAN /\ now.file \in [Addrs -> Blocks]
         /\ now.started \in BOOLEAN /\ now.faults \in Nat /\ now.faults + 1 \in Nat
BY DEF Ios

LEMMA IoWithOk ==
  ASSUME NEW now \in Ios, NEW b \in BOOLEAN
  PROVE  [now EXCEPT !.ok = b] = Io(b, now.file, now.started, now.faults)
BY DEF Ios, Io

LEMMA IoWithStarted ==
  ASSUME NEW now \in Ios, NEW b \in BOOLEAN
  PROVE  [now EXCEPT !.started = b] = Io(now.ok, now.file, b, now.faults)
BY DEF Ios, Io

LEMMA IoWithFaults ==
  ASSUME NEW now \in Ios, NEW n \in Nat
  PROVE  [now EXCEPT !.faults = n] = Io(now.ok, now.file, now.started, n)
BY DEF Ios, Io

IoPut(now, a, c) == [now EXCEPT !.file[a] = c]

FilePut(fil, a, c) == [fil EXCEPT ![a] = c]

LEMMA IoWithBlock ==
  ASSUME NEW now \in Ios, NEW f \in [Addrs -> Blocks], now.file = f,
         NEW a \in Addrs, NEW c \in Contents
  PROVE  IoPut(now, a, c) = Io(now.ok, FilePut(f, a, c), now.started, now.faults)
BY DEF Ios, Io, IoPut, FilePut

\* An OSError changes no block and leaves its start time.
LEMMA OSErrorIs ==
  ASSUME NEW now \in Ios
  PROVE  [now EXCEPT !.ok = FALSE, !.started = TRUE, !.faults = @ + 1]
           = Io(FALSE, now.file, TRUE, now.faults + 1)
<1> DEFINE n1 == [now EXCEPT !.ok = FALSE]
           n2 == [n1 EXCEPT !.started = TRUE]
           n3 == [n2 EXCEPT !.faults = now.faults + 1]
<1>1. /\ now.file \in [Addrs -> Blocks] /\ now.started \in BOOLEAN
      /\ now.faults \in Nat /\ now.faults + 1 \in Nat
  BY IoParts
<1>2. n1 = Io(FALSE, now.file, now.started, now.faults)
  BY IoWithOk
<1>3. n1 \in Ios
  BY <1>1, <1>2 DEF Io, Ios
<1>4. n2 = Io(FALSE, now.file, TRUE, now.faults)
  <2> HIDE DEF n1
  <2>1. QED
    BY <1>1, <1>2, <1>3, IoWithStarted DEF Io
<1>5. n2 \in Ios
  BY <1>1, <1>4 DEF Io, Ios
<1>6. n3 = Io(FALSE, now.file, TRUE, now.faults + 1)
  <2> HIDE DEF n2
  <2>1. QED
    BY <1>1, <1>4, <1>5, IoWithFaults DEF Io
<1>7. QED
  BY <1>6

\* A short write changes its block alone.
LEMMA ShortWriteIs ==
  ASSUME NEW now \in Ios, NEW a \in Addrs, NEW c \in Contents
  PROVE  [now EXCEPT !.ok = FALSE, !.file[a] = c, !.faults = @ + 1]
           = Io(FALSE, [now.file EXCEPT ![a] = c], now.started, now.faults + 1)
<1> DEFINE n1 == [now EXCEPT !.ok = FALSE]
           n2 == [n1 EXCEPT !.file[a] = c]
           n3 == [n2 EXCEPT !.faults = now.faults + 1]
<1>1. /\ now.file \in [Addrs -> Blocks] /\ now.started \in BOOLEAN
      /\ now.faults \in Nat /\ now.faults + 1 \in Nat
      /\ [now.file EXCEPT ![a] = c] \in [Addrs -> Blocks]
  BY IoParts DEF Blocks
<1>2. n1 = Io(FALSE, now.file, now.started, now.faults)
  BY IoWithOk
<1>3. n1 \in Ios
  BY <1>1, <1>2 DEF Io, Ios
<1>4. n2 = Io(FALSE, [now.file EXCEPT ![a] = c], now.started, now.faults)
  <2> HIDE DEF n1
  <2>1. QED
    <3> DEFINE f == now.file
    <3>1. f \in [Addrs -> Blocks] /\ n1.file = f /\ n1.ok = FALSE
          /\ n1.started = now.started /\ n1.faults = now.faults
      BY <1>1, <1>2 DEF Io
    <3> HIDE DEF f
    <3>2. IoPut(n1, a, c) = Io(n1.ok, FilePut(f, a, c), n1.started, n1.faults)
      BY <1>3, <3>1, IoWithBlock
    <3>3. QED
      BY <3>1, <3>2 DEF f, IoPut, FilePut
<1>5. n2 \in Ios
  BY <1>1, <1>4 DEF Io, Ios
<1>6. n3 = Io(FALSE, [now.file EXCEPT ![a] = c], now.started, now.faults + 1)
  <2> HIDE DEF n2
  <2>1. QED
    BY <1>1, <1>4, <1>5, IoWithFaults DEF Io
<1>7. QED
  BY <1>6

\* A write changes its block alone, and none once an OSError has left its time.
LEMMA WriteBlockIs ==
  ASSUME IoTypes, NEW a \in Addrs, NEW c \in Contents, NEW io \in _write_block(IoNow, a, c)
  PROVE  /\ io \in Ios
         /\ \A b \in Addrs \ {a} : io.file[b] = file[b]
         /\ io.ok => io.file[a] = c /\ io.started = started /\ io.faults = faults
         /\ ~io.ok => started \/ io.faults > 0
         /\ started => io.file = file /\ io.started
         /\ io.faults >= faults
<1>1. /\ IoNow \in Ios /\ IoNow.ok
      /\ IoNow.file = file /\ IoNow.started = started /\ IoNow.faults = faults
  BY IoNowType
<1>2. [file EXCEPT ![a] = c] \in [Addrs -> Blocks] /\ faults + 1 \in Nat
  BY DEF IoTypes, Blocks
<1>3. CASE ~start_io(IoNow)
  <2>1. io = Io(FALSE, file, started, faults)
    BY <1>1, <1>3, IoWithOk DEF _write_block, Refused
  <2>2. started
    BY <1>1, <1>3 DEF start_io
  <2>3. QED
    BY <2>1, <2>2 DEF Io, Ios, IoTypes
<1>4. CASE start_io(IoNow)
  <2>1. ~started
    BY <1>1, <1>4 DEF start_io
  <2>2. CASE io = [IoNow EXCEPT !.file[a] = c]
    <3>1. io = Io(TRUE, [file EXCEPT ![a] = c], started, faults)
      <4>1. io = Io(IoNow.ok, [file EXCEPT ![a] = c], IoNow.started, IoNow.faults)
        <5>1. IoPut(IoNow, a, c)
                = Io(IoNow.ok, FilePut(file, a, c), IoNow.started, IoNow.faults)
          BY <1>1, IoWithBlock DEF IoTypes
        <5>2. QED
          BY <2>2, <5>1 DEF IoPut, FilePut
      <4>2. QED
        BY <1>1, <4>1 DEF IoNow
    <3>2. QED
      BY <1>2, <2>1, <3>1 DEF Io, Ios, IoTypes
  <2>3. CASE io \in OSErrors(IoNow)
    <3>1. io = Io(FALSE, file, TRUE, faults + 1)
      BY <1>1, <2>3, OSErrorIs DEF OSErrors
    <3>2. QED
      BY <1>2, <2>1, <3>1 DEF Io, Ios, IoTypes
  <2>4. CASE io \in ShortWrites(IoNow, a)
    <3>1. PICK d \in Contents : io = [IoNow EXCEPT !.ok = FALSE, !.file[a] = d, !.faults = @ + 1]
      BY <2>4 DEF ShortWrites
    <3>2. io = Io(FALSE, [file EXCEPT ![a] = d], started, faults + 1)
      BY <1>1, <3>1, ShortWriteIs
    <3>3. [file EXCEPT ![a] = d] \in [Addrs -> Blocks]
      BY DEF IoTypes, Blocks
    <3>4. QED
      BY <1>2, <2>1, <3>2, <3>3 DEF Io, Ios, IoTypes
  <2>5. QED
    BY <1>4, <2>2, <2>3, <2>4 DEF _write_block
<1>5. QED
  BY <1>3, <1>4

\* A read changes no block.
LEMMA ReadBlockIs ==
  ASSUME NEW now \in Ios, NEW io \in _read_block(now), now.ok
  PROVE  /\ io \in Ios /\ io.file = now.file
         /\ io.ok => io = now
         /\ ~io.ok => now.started \/ io.faults > 0
         /\ now.started => io.started
         /\ io.faults >= now.faults
<1>1. CASE ~start_io(now)
  <2>1. io = Io(FALSE, now.file, now.started, now.faults) /\ now.started
    BY <1>1, IoWithOk DEF _read_block, Refused, start_io
  <2>2. QED
    BY <2>1, IoParts DEF Io, Ios
<1>2. CASE start_io(now)
  <2>1. CASE io = now
    BY <2>1, IoParts
  <2>2. CASE io \in OSErrors(now)
    <3>1. io = Io(FALSE, now.file, TRUE, now.faults + 1)
      BY <2>2, OSErrorIs DEF OSErrors
    <3>2. QED
      BY <3>1, IoParts DEF Io, Ios
  <2>3. QED
    BY <1>2, <2>1, <2>2 DEF _read_block
<1>3. QED
  BY <1>1, <1>2

-----------------------------------------------------------------------------
(* Lists of nodes *)

\* The hit of _access: the node is moved to the end (disk.py:45-49).
LEMMA MovedToEnd ==
  ASSUME NEW S, NEW s \in Seq(S), NEW k \in 1..Len(s)
  PROVE  LET r == Append(RemoveAt(s, k), s[k])
         IN  /\ r \in Seq(S) /\ Len(r) = Len(s)
             /\ \A i \in 1..Len(s) :
                  r[i] = IF i < k THEN s[i] ELSE IF i < Len(s) THEN s[i + 1] ELSE s[k]
<1> DEFINE low  == SubSeq(s, 1, k - 1)
           high == SubSeq(s, k + 1, Len(s))
           rest == low \o high
           n    == Len(s)
<1>1. n \in Nat /\ k \in Int /\ k - 1 \in Int /\ k + 1 \in Int /\ 1 <= k /\ k <= n
  BY LenProperties
<1>2. low \in Seq(S) /\ Len(low) = k - 1 /\ \A i \in 1..(k - 1) : low[i] = s[i]
  <2>1. \A i \in 1..(k - 1) : s[i] \in S
    BY <1>1, ElementOfSeq
  <2>2. /\ low \in Seq(S) /\ Len(low) = IF 1 <= k - 1 THEN (k - 1) - 1 + 1 ELSE 0
        /\ \A i \in 1..((k - 1) - 1 + 1) : low[i] = s[1 + i - 1]
    BY <1>1, <2>1, SubSeqProperties
  <2>3. (k - 1) - 1 + 1 = k - 1 /\ \A i \in 1..(k - 1) : 1 + i - 1 = i
    BY <1>1
  <2>4. QED
    BY <1>1, <2>2, <2>3
<1>3. high \in Seq(S) /\ Len(high) = n - k /\ \A i \in 1..(n - k) : high[i] = s[k + i]
  <2>1. \A i \in (k + 1)..n : s[i] \in S
    BY <1>1, ElementOfSeq
  <2>2. /\ high \in Seq(S) /\ Len(high) = IF k + 1 <= n THEN n - (k + 1) + 1 ELSE 0
        /\ \A i \in 1..(n - (k + 1) + 1) : high[i] = s[(k + 1) + i - 1]
    BY <1>1, <2>1, SubSeqProperties
  <2>3. n - (k + 1) + 1 = n - k /\ \A i \in 1..(n - k) : (k + 1) + i - 1 = k + i
    BY <1>1
  <2>4. Len(high) = n - k
    <3> HIDE DEF high, n
    <3>1. QED
      BY <1>1, <2>2, <2>3
  <2>5. \A i \in 1..(n - k) : high[i] = s[k + i]
    <3> HIDE DEF high
    <3>1. QED
      BY <2>2, <2>3
  <2>6. QED
    BY <2>2, <2>4, <2>5
<1> HIDE DEF low, high
<1>4. /\ rest \in Seq(S) /\ Len(rest) = n - 1
      /\ \A i \in 1..(n - 1) : rest[i] = IF i < k THEN s[i] ELSE s[i + 1]
  <2>1. /\ rest \in Seq(S) /\ Len(rest) = Len(low) + Len(high)
        /\ \A i \in 1..(Len(low) + Len(high)) :
             rest[i] = IF i <= Len(low) THEN low[i] ELSE high[i - Len(low)]
    BY <1>2, <1>3, ConcatProperties, ZenonT(90)
  <2>2. Len(low) + Len(high) = n - 1
    BY <1>1, <1>2, <1>3
  <2>3. SUFFICES ASSUME NEW i \in 1..(n - 1) PROVE rest[i] = IF i < k THEN s[i] ELSE s[i + 1]
    BY <2>1, <2>2
  <2>4. CASE i < k
    BY <1>1, <1>2, <2>1, <2>2, <2>4
  <2>5. CASE ~(i < k)
    <3>1. i - (k - 1) \in 1..(n - k) /\ k + (i - (k - 1)) = i + 1
      BY <1>1, <2>5
    <3>2. rest[i] = high[i - (k - 1)]
      BY <1>1, <1>2, <2>1, <2>2, <2>5
    <3>3. QED
      BY <1>3, <2>5, <3>1, <3>2
  <2>6. QED
    BY <2>4, <2>5
<1>5. s[k] \in S
  BY ElementOfSeq
<1>6. RemoveAt(s, k) = rest
  BY DEF RemoveAt, low, high
<1> HIDE DEF rest
<1>7. /\ Append(rest, s[k]) \in Seq(S) /\ Len(Append(rest, s[k])) = (n - 1) + 1
      /\ \A i \in 1..(n - 1) : Append(rest, s[k])[i] = rest[i]
      /\ Append(rest, s[k])[(n - 1) + 1] = s[k]
  BY <1>4, <1>5, AppendProperties
<1>8. (n - 1) + 1 = n
  BY <1>1
<1>9. QED
  BY <1>1, <1>4, <1>6, <1>7, <1>8

\* Each node of r is one of s in its address, entry and block, and no two are
\* the same one.
From(r, s, p) ==
  /\ r \in Seq(Nodes) /\ p \in [1..Len(r) -> 1..Len(s)]
  /\ \A i, j \in 1..Len(r) : p[i] = p[j] => i = j
  /\ \A i \in 1..Len(r) : /\ r[i].addr = s[p[i]].addr /\ r[i].entry = s[p[i]].entry
                          /\ r[i].block = s[p[i]].block

LEMMA NodesFrom ==
  ASSUME NEW s, NEW r, NEW p, NEW sto, NEW chg, NodesOK(s, sto, chg), From(r, s, p)
  PROVE  NodesOK(r, sto, chg)
<1>1. \A i \in 1..Len(r) : p[i] \in 1..Len(s)
  BY DEF From
<1>2. r \in Seq(Nodes)
  BY DEF From
<1>3. ASSUME NEW i \in 1..Len(r), NEW j \in 1..Len(r),
             r[i].entry, r[j].entry, r[i].addr = r[j].addr
      PROVE  i = j
  BY <1>1, <1>3 DEF From, NodesOK
<1>4. ASSUME NEW i \in 1..Len(r), ~r[i].entry PROVE sto[r[i].addr] = Unsure
  BY <1>1, <1>4 DEF From, NodesOK
<1>5. ASSUME NEW i \in 1..Len(r), r[i].entry, r[i].block # Nothing
      PROVE  \/ sto[r[i].addr] = Unsure \/ r[i].addr \in chg
             \/ r[i].block = BlockOf(sto[r[i].addr])
  <2> DEFINE k == p[i]
  <2>1. /\ k \in 1..Len(s)
        /\ r[i].addr = s[k].addr /\ r[i].entry = s[k].entry /\ r[i].block = s[k].block
    BY <1>1 DEF From
  <2> HIDE DEF k
  <2>2. \/ sto[s[k].addr] = Unsure \/ s[k].addr \in chg
        \/ s[k].block = BlockOf(sto[s[k].addr])
    BY <1>5, <2>1 DEF NodesOK
  <2>3. QED
    BY <2>1, <2>2
<1>6. QED
  BY <1>2, <1>3, <1>4, <1>5 DEF NodesOK

\* A read block is known for what it was while what is stored becomes unsure at
\* most, and no block that is changed is forgotten but for those that are unsure.
Weaker(sto2, chg2, sto, chg) ==
  /\ \A a \in Addrs : sto2[a] = sto[a] \/ sto2[a] = Unsure
  /\ \A a \in chg : a \in chg2 \/ sto2[a] = Unsure

LEMMA NodesWeaker ==
  ASSUME NEW s, NEW sto, NEW chg, NEW sto2, NEW chg2,
         NodesOK(s, sto, chg), Weaker(sto2, chg2, sto, chg)
  PROVE  NodesOK(s, sto2, chg2)
<1>1. \A i \in 1..Len(s) : s[i].addr \in Addrs
  <2>1. \A i \in 1..Len(s) : s[i] \in Nodes
    BY ElementOfSeq DEF NodesOK
  <2>2. QED
    BY <2>1 DEF Nodes
<1>2. QED
  BY <1>1 DEF NodesOK, Weaker

LEMMA DirtyWeaker ==
  ASSUME NEW s, NEW dirt, NEW sto, NEW sto2, NEW chg, NEW chg2,
         DirtyOK(s, dirt, sto), Weaker(sto2, chg2, sto, chg)
  PROVE  DirtyOK(s, dirt, sto2)
BY DEF DirtyOK, Weaker

LEMMA FileWeaker ==
  ASSUME NEW fil, NEW dirt, NEW sto, NEW sto2, NEW chg, NEW chg2,
         FileOK(fil, dirt, sto, chg), Weaker(sto2, chg2, sto, chg)
  PROVE  FileOK(fil, dirt, sto2, chg2)
BY DEF FileOK, Weaker

\* A node made for a block that the dictionary does not know.
LEMMA NodesAppend ==
  ASSUME NEW s, NEW sto, NEW chg, NodesOK(s, sto, chg), NEW a \in Addrs,
         \A i \in 1..Len(s) : s[i].entry => s[i].addr # a
  PROVE  /\ NodesOK(Append(s, LRUNode(a)), sto, chg)
         /\ \A b : HasBlock(s, b) => HasBlock(Append(s, LRUNode(a)), b)
         /\ Len(Append(s, LRUNode(a))) = Len(s) + 1
         /\ Append(s, LRUNode(a))[Len(s) + 1] = LRUNode(a)
<1> DEFINE node == LRUNode(a)
           r == Append(s, node)
<1>1. node \in Nodes /\ node.entry /\ node.addr = a /\ node.block = Nothing
  BY DEF LRUNode, Nodes, Blocks
<1>2. s \in Seq(Nodes) /\ Len(s) \in Nat
  BY LenProperties DEF NodesOK
<1> HIDE DEF node
<1>3. /\ r \in Seq(Nodes) /\ Len(r) = Len(s) + 1
      /\ \A i \in 1..Len(s) : r[i] = s[i]
      /\ r[Len(s) + 1] = node
  BY <1>1, <1>2, AppendProperties
<1> HIDE DEF r
<1>4. \A i \in 1..Len(r) : i \in 1..Len(s) \/ i = Len(s) + 1
  BY <1>2, <1>3
<1>5. NodesOK(r, sto, chg)
  <2>1. ASSUME NEW i \in 1..Len(r), NEW j \in 1..Len(r),
               r[i].entry, r[j].entry, r[i].addr = r[j].addr
        PROVE  i = j
    BY <1>1, <1>3, <1>4, <2>1 DEF NodesOK
  <2>2. ASSUME NEW i \in 1..Len(r), ~r[i].entry PROVE sto[r[i].addr] = Unsure
    BY <1>1, <1>3, <1>4, <2>2 DEF NodesOK
  <2>3. ASSUME NEW i \in 1..Len(r), r[i].entry, r[i].block # Nothing
        PROVE  \/ sto[r[i].addr] = Unsure \/ r[i].addr \in chg
               \/ r[i].block = BlockOf(sto[r[i].addr])
    BY <1>1, <1>3, <1>4, <2>3 DEF NodesOK
  <2>4. QED
    BY <1>3, <2>1, <2>2, <2>3 DEF NodesOK
<1>6. ASSUME NEW b, HasBlock(s, b) PROVE HasBlock(r, b)
  <2>1. PICK i \in 1..Len(s) : s[i].entry /\ s[i].addr = b /\ s[i].block # Nothing
    BY <1>6 DEF HasBlock
  <2>2. i \in 1..Len(r) /\ r[i] = s[i]
    BY <1>2, <1>3
  <2>3. QED
    BY <2>1, <2>2 DEF HasBlock
<1>7. QED
  BY <1>3, <1>5, <1>6 DEF r, node

\* The caller's buffers are gone, the blocks are as they were.
LEMMA UnsharedAre ==
  ASSUME NEW s \in Seq(Nodes)
  PROVE  /\ Unshared(s) \in Seq(Nodes) /\ Len(Unshared(s)) = Len(s)
         /\ \A i \in 1..Len(s) : /\ Unshared(s)[i].addr = s[i].addr
                                 /\ Unshared(s)[i].entry = s[i].entry
                                 /\ Unshared(s)[i].block = s[i].block
<1> DEFINE r == Unshared(s)
<1>1. Len(s) \in Nat /\ DOMAIN s = 1..Len(s)
  BY LenProperties
<1>2. \A i \in 1..Len(s) : s[i] \in Nodes
  BY <1>1, ElementOfSeq
<1>3. \A i \in 1..Len(s) : [s[i] EXCEPT !.shared = FALSE] \in Nodes
  BY <1>2 DEF Nodes
<1>4. r = [i \in 1..Len(s) |-> [s[i] EXCEPT !.shared = FALSE]]
  BY <1>1 DEF Unshared
<1> HIDE DEF r
<1>5. r \in [1..Len(s) -> Nodes]
  BY <1>3, <1>4
<1>6. r \in Seq(Nodes) /\ Len(r) = Len(s)
  BY <1>1, <1>5
<1>7. \A i \in 1..Len(s) : /\ r[i].addr = s[i].addr /\ r[i].entry = s[i].entry
                           /\ r[i].block = s[i].block
  BY <1>2, <1>4 DEF Nodes
<1>8. QED
  BY <1>6, <1>7 DEF r

LEMMA NodesUnshared ==
  ASSUME NEW s, NEW sto, NEW chg, NodesOK(s, sto, chg)
  PROVE  /\ NodesOK(Unshared(s), sto, chg)
         /\ \A b : HasBlock(s, b) => HasBlock(Unshared(s), b)
         /\ s = <<>> => Unshared(s) = <<>>
<1> DEFINE r == Unshared(s)
           p == [i \in 1..Len(s) |-> i]
<1>1. s \in Seq(Nodes)
  BY DEF NodesOK
<1>2. /\ r \in Seq(Nodes) /\ Len(r) = Len(s)
      /\ \A i \in 1..Len(s) : /\ r[i].addr = s[i].addr /\ r[i].entry = s[i].entry
                              /\ r[i].block = s[i].block
  BY <1>1, UnsharedAre
<1> HIDE DEF r
<1>3. From(r, s, p)
  BY <1>2 DEF From
<1> HIDE DEF p
<1>4. NodesOK(r, sto, chg)
  BY <1>3, NodesFrom
<1>5. ASSUME NEW b, HasBlock(s, b) PROVE HasBlock(r, b)
  BY <1>2, <1>5 DEF HasBlock
<1>6. ASSUME s = <<>> PROVE r = <<>>
  BY <1>2, <1>6
<1>7. QED
  BY <1>4, <1>5, <1>6 DEF r

\* The list of Share: its last node has the block c, which the caller holds.
Shares(s, c) ==
  [i \in DOMAIN s |-> IF i = Len(s) THEN [s[i] EXCEPT !.block = c, !.shared = TRUE] ELSE s[i]]

LastIs(s, a) == s # <<>> /\ s[Len(s)].entry /\ s[Len(s)].addr = a

\* What is known of address a alone may change: to what the block c is.
Settled(sto2, chg2, sto, chg, s, a, c) ==
  /\ \A b \in Addrs \ {a} : sto2[b] = sto[b] /\ (b \in chg => b \in chg2)
  /\ sto2[a] = Unsure \/ a \in chg2 \/ c = BlockOf(sto2[a])
  /\ (\E i \in 1..Len(s) : s[i].addr = a /\ ~s[i].entry) => sto2[a] = Unsure

SharedNode(x, c) == [x EXCEPT !.block = c, !.shared = TRUE]

LEMMA SharedNodeIs ==
  ASSUME NEW x \in Nodes, NEW c \in Contents
  PROVE  /\ SharedNode(x, c) \in Nodes /\ SharedNode(x, c).block = c
         /\ SharedNode(x, c).addr = x.addr /\ SharedNode(x, c).entry = x.entry
<1> DEFINE y == [x EXCEPT !.block = c]
           z == [y EXCEPT !.shared = TRUE]
<1>1. y \in Nodes /\ y.block = c /\ y.addr = x.addr /\ y.entry = x.entry
  BY DEF Nodes, Blocks
<1>2. z \in Nodes /\ z.block = c /\ z.addr = x.addr /\ z.entry = x.entry
  <2> HIDE DEF y
  <2>1. QED
    BY <1>1 DEF Nodes
<1>3. z = SharedNode(x, c)
  BY DEF SharedNode
<1>4. QED
  BY <1>2, <1>3

LEMMA SharesAre ==
  ASSUME NEW s \in Seq(Nodes), s # <<>>, NEW c \in Contents
  PROVE  /\ Shares(s, c) \in Seq(Nodes) /\ Len(Shares(s, c)) = Len(s) /\ Shares(s, c) # <<>>
         /\ \A i \in 1..Len(s) : /\ Shares(s, c)[i].addr = s[i].addr
                                 /\ Shares(s, c)[i].entry = s[i].entry
                                 /\ i # Len(s) => Shares(s, c)[i].block = s[i].block
         /\ Shares(s, c)[Len(s)].block = c
<1> DEFINE r == Shares(s, c)
           n == Len(s)
<1>1. n \in Nat /\ DOMAIN s = 1..n /\ n \in 1..n
  BY EmptySeq, LenProperties
<1>2. \A i \in 1..n : s[i] \in Nodes
  BY <1>1, ElementOfSeq
<1>3. r = [i \in 1..n |-> IF i = n THEN SharedNode(s[i], c) ELSE s[i]]
  BY <1>1 DEF Shares, SharedNode
<1> HIDE DEF r
<1>4. /\ SharedNode(s[n], c) \in Nodes /\ SharedNode(s[n], c).block = c
      /\ SharedNode(s[n], c).addr = s[n].addr /\ SharedNode(s[n], c).entry = s[n].entry
  BY <1>1, <1>2, SharedNodeIs
<1>5. r \in [1..n -> Nodes]
  BY <1>2, <1>3, <1>4
<1>6. r \in Seq(Nodes) /\ Len(r) = n /\ r # <<>>
  BY <1>1, <1>5
<1>7. \A i \in 1..n : r[i].addr = s[i].addr /\ r[i].entry = s[i].entry
  BY <1>3, <1>4
<1>8. r[n].block = c /\ \A i \in 1..n : i # n => r[i].block = s[i].block
  BY <1>1, <1>3, <1>4
<1>9. QED
  BY <1>6, <1>7, <1>8 DEF r

LEMMA NodesShare ==
  ASSUME NEW s, NEW sto, NEW chg, NEW sto2, NEW chg2, NEW a \in Addrs, NEW c \in Contents,
         NodesOK(s, sto, chg), LastIs(s, a), Settled(sto2, chg2, sto, chg, s, a, c)
  PROVE  /\ NodesOK(Shares(s, c), sto2, chg2)
         /\ HasBlock(Shares(s, c), a)
         /\ \A b : HasBlock(s, b) => HasBlock(Shares(s, c), b)
<1> DEFINE r == Shares(s, c)
           n == Len(s)
<1>1. s \in Seq(Nodes) /\ n \in Nat /\ n \in 1..n
  BY EmptySeq DEF NodesOK, LastIs
<1>2. \A i \in 1..n : s[i].addr \in Addrs
  <2>1. \A i \in 1..n : s[i] \in Nodes
    BY <1>1, ElementOfSeq
  <2>2. QED
    BY <2>1 DEF Nodes
<1>3. /\ r \in Seq(Nodes) /\ Len(r) = n
      /\ \A i \in 1..n : /\ r[i].addr = s[i].addr /\ r[i].entry = s[i].entry
                         /\ i # n => r[i].block = s[i].block
      /\ r[n].block = c
  <2>1. s # <<>>
    BY DEF LastIs
  <2>2. s \in Seq(Nodes)
    BY <1>1
  <2> HIDE DEF r, n
  <2>3. /\ Shares(s, c) \in Seq(Nodes) /\ Len(Shares(s, c)) = Len(s)
        /\ \A i \in 1..Len(s) : /\ Shares(s, c)[i].addr = s[i].addr
                                /\ Shares(s, c)[i].entry = s[i].entry
                                /\ i # Len(s) => Shares(s, c)[i].block = s[i].block
        /\ Shares(s, c)[Len(s)].block = c
    BY <2>1, <2>2, SharesAre
  <2>4. QED
    BY <2>3 DEF r, n
<1> HIDE DEF r
<1>4. s[n].entry /\ s[n].addr = a /\ c # Nothing
  BY DEF LastIs
<1>5. NodesOK(r, sto2, chg2)
  <2>1. ASSUME NEW i \in 1..n, NEW j \in 1..n, r[i].entry, r[j].entry, r[i].addr = r[j].addr
        PROVE  i = j
    BY <1>3, <2>1 DEF NodesOK
  <2>2. ASSUME NEW i \in 1..n, ~r[i].entry PROVE sto2[r[i].addr] = Unsure
    <3>1. ~s[i].entry /\ sto[s[i].addr] = Unsure /\ r[i].addr = s[i].addr
      BY <1>3, <2>2 DEF NodesOK
    <3>2. QED
      BY <1>2, <3>1 DEF Settled
  <2>3. ASSUME NEW i \in 1..n, r[i].entry, r[i].block # Nothing
        PROVE  \/ sto2[r[i].addr] = Unsure \/ r[i].addr \in chg2
               \/ r[i].block = BlockOf(sto2[r[i].addr])
    <3>1. CASE i = n
      BY <1>3, <1>4, <3>1 DEF Settled
    <3>2. CASE i # n
      <4>1. s[i].entry /\ s[i].block # Nothing /\ r[i].addr = s[i].addr /\ r[i].block = s[i].block
        BY <1>3, <2>3, <3>2
      <4>2. s[i].addr # a
        BY <1>1, <1>4, <3>2, <4>1 DEF NodesOK
      <4>3. \/ sto[s[i].addr] = Unsure \/ s[i].addr \in chg
            \/ s[i].block = BlockOf(sto[s[i].addr])
        BY <4>1 DEF NodesOK
      <4>4. QED
        BY <1>2, <4>1, <4>2, <4>3 DEF Settled
    <3>3. QED
      BY <3>1, <3>2
  <2>4. QED
    BY <1>3, <2>1, <2>2, <2>3 DEF NodesOK
<1>6. HasBlock(r, a)
  BY <1>1, <1>3, <1>4 DEF HasBlock
<1>7. ASSUME NEW b, HasBlock(s, b) PROVE HasBlock(r, b)
  <2>1. PICK i \in 1..n : s[i].entry /\ s[i].addr = b /\ s[i].block # Nothing
    BY <1>7 DEF HasBlock
  <2>2. r[i].entry /\ r[i].addr = b /\ r[i].block # Nothing
    BY <1>3, <1>4, <2>1
  <2>3. QED
    BY <1>3, <2>2 DEF HasBlock
<1>8. QED
  BY <1>5, <1>6, <1>7 DEF r

-----------------------------------------------------------------------------
(* The dictionary, and what an eviction leaves *)

LEMMA CachedIs ==
  ASSUME lru \in Seq(Nodes)
  PROVE  \A a : a \in cached <=> \E i \in 1..Len(lru) : lru[i].entry /\ lru[i].addr = a
<1>1. DOMAIN lru = 1..Len(lru)
  BY LenProperties
<1>2. QED
  BY <1>1 DEF cached, Entries

LEMMA IndexIs ==
  ASSUME NodesOK(lru, stored, changed), NEW a \in cached
  PROVE  /\ index(a) \in 1..Len(lru) /\ lru[index(a)].entry /\ lru[index(a)].addr = a
         /\ \A i \in 1..Len(lru) : lru[i].entry /\ lru[i].addr = a => i = index(a)
<1>1. lru \in Seq(Nodes) /\ DOMAIN lru = 1..Len(lru)
  BY LenProperties DEF NodesOK
<1>2. \E i \in Entries : lru[i].addr = a
  BY DEF cached
<1>3. index(a) \in Entries /\ lru[index(a)].addr = a
  BY <1>2 DEF index
<1>4. index(a) \in 1..Len(lru) /\ lru[index(a)].entry
  BY <1>1, <1>3 DEF Entries
<1> HIDE DEF index
<1>5. QED
  BY <1>3, <1>4 DEF NodesOK

LEMMA HasBlockIs ==
  ASSUME NodesOK(lru, stored, changed), NEW a
  PROVE  HasBlock(lru, a) <=> a \in cached /\ lru[index(a)].block # Nothing
<1>1. lru \in Seq(Nodes)
  BY DEF NodesOK
<1>2. ASSUME HasBlock(lru, a) PROVE a \in cached /\ lru[index(a)].block # Nothing
  <2>1. PICK i \in 1..Len(lru) : lru[i].entry /\ lru[i].addr = a /\ lru[i].block # Nothing
    BY <1>2 DEF HasBlock
  <2>2. a \in cached
    BY <1>1, <2>1, CachedIs
  <2>3. i = index(a)
    BY <2>1, <2>2, IndexIs
  <2>4. QED
    BY <2>1, <2>2, <2>3
<1>3. ASSUME a \in cached, lru[index(a)].block # Nothing PROVE HasBlock(lru, a)
  BY <1>3, IndexIs DEF HasBlock
<1>4. QED
  BY <1>2, <1>3

\* Where there is no victim there is no eviction: a cache has a block at least.
LEMMA EvictsFrom ==
  ASSUME lru \in Seq(Nodes), max_size \in Nat, max_size > 0, NEW a, Evicts(a)
  PROVE  lru # <<>> /\ 1 \in 1..Len(lru) /\ victim \in Nodes
<1>1. ASSUME lru = <<>> PROVE FALSE
  <2>1. cached = {}
    BY <1>1, CachedIs, EmptySeq
  <2>2. Cardinality(cached) = 0
    BY <2>1, FS_EmptySet
  <2>3. Cardinality(cached) >= max_size
    BY DEF Evicts
  <2>4. QED
    BY <2>2, <2>3
<1>2. Len(lru) \in Nat \ {0}
  BY <1>1, EmptySeq
<1>3. 1 \in 1..Len(lru)
  BY <1>2
<1>4. QED
  BY <1>1, <1>3, ElementOfSeq DEF victim

\* del self.cache[...] makes an entry a node the dictionary does not know.
LEMMA UnhookedIs ==
  ASSUME lru \in Seq(Nodes)
  PROVE  /\ unhooked \in Seq(Nodes) /\ Len(unhooked) = Len(lru)
         /\ lru = <<>> <=> unhooked = <<>>
         /\ \A i \in 1..Len(lru) :
              /\ unhooked[i].addr = lru[i].addr /\ unhooked[i].block = lru[i].block
              /\ unhooked[i].entry = (lru[i].entry /\ lru[i].addr # victim.addr)
<1>1. Len(lru) \in Nat /\ DOMAIN lru = 1..Len(lru)
  BY LenProperties
<1>2. \A i \in 1..Len(lru) : lru[i] \in Nodes
  BY ElementOfSeq
<1> DEFINE off(x) == [x EXCEPT !.entry = FALSE]
<1>3. \A x \in Nodes : /\ off(x) \in Nodes /\ off(x).addr = x.addr /\ off(x).block = x.block
                       /\ off(x).entry = FALSE
  BY DEF Nodes
<1>4. unhooked = [i \in 1..Len(lru) |-> IF lru[i].addr = victim.addr THEN off(lru[i]) ELSE lru[i]]
  BY <1>1 DEF unhooked
<1> HIDE DEF off
<1>5. unhooked \in [1..Len(lru) -> Nodes]
  BY <1>2, <1>3, <1>4
<1>6. unhooked \in Seq(Nodes) /\ Len(unhooked) = Len(lru)
  BY <1>1, <1>5
<1>7. lru = <<>> <=> unhooked = <<>>
  BY <1>6, EmptySeq
<1>8. ASSUME NEW i \in 1..Len(lru)
      PROVE  /\ unhooked[i].addr = lru[i].addr /\ unhooked[i].block = lru[i].block
             /\ unhooked[i].entry = (lru[i].entry /\ lru[i].addr # victim.addr)
  <2>1. CASE lru[i].addr = victim.addr
    <3>1. unhooked[i] = off(lru[i])
      BY <1>4, <2>1
    <3>2. QED
      BY <1>2, <1>3, <2>1, <3>1
  <2>2. CASE lru[i].addr # victim.addr
    <3>1. unhooked[i] = lru[i]
      BY <1>4, <2>2
    <3>2. lru[i].entry \in BOOLEAN
      BY <1>2 DEF Nodes
    <3>3. QED
      BY <2>2, <3>1, <3>2
  <2>3. QED
    BY <2>1, <2>2
<1>9. QED
  BY <1>6, <1>7, <1>8

\* The list without its victim, which the dictionary has forgotten.
LEMMA VictimGone ==
  ASSUME NodesOK(lru, stored, changed), lru # <<>>
  PROVE  /\ NodesOK(Tail(unhooked), stored, changed)
         /\ Len(Tail(unhooked)) = Len(lru) - 1
         /\ \A i \in 1..(Len(lru) - 1) :
              /\ Tail(unhooked)[i].addr = lru[i + 1].addr
              /\ Tail(unhooked)[i].block = lru[i + 1].block
              /\ Tail(unhooked)[i].entry = (lru[i + 1].entry /\ lru[i + 1].addr # victim.addr)
         /\ \A b : b # victim.addr /\ HasBlock(lru, b) => HasBlock(Tail(unhooked), b)
<1> DEFINE r == Tail(unhooked)
           n == Len(lru)
<1>1. lru \in Seq(Nodes) /\ n \in Nat \ {0}
  BY EmptySeq DEF NodesOK
<1>2. /\ unhooked \in Seq(Nodes) /\ Len(unhooked) = n /\ unhooked # <<>>
      /\ \A i \in 1..n :
           /\ unhooked[i].addr = lru[i].addr /\ unhooked[i].block = lru[i].block
           /\ unhooked[i].entry = (lru[i].entry /\ lru[i].addr # victim.addr)
  BY <1>1, UnhookedIs
<1>3. r \in Seq(Nodes) /\ Len(r) = n - 1 /\ \A i \in 1..Len(r) : r[i] = unhooked[i + 1]
  BY <1>2, HeadTailProperties
<1> HIDE DEF r
<1>4. \A i \in 1..(n - 1) : i + 1 \in 1..n /\ i + 1 # 1 /\ i \in 1..Len(r)
  BY <1>1, <1>3
<1>5. \A i \in 1..(n - 1) :
        /\ r[i].addr = lru[i + 1].addr /\ r[i].block = lru[i + 1].block
        /\ r[i].entry = (lru[i + 1].entry /\ lru[i + 1].addr # victim.addr)
  BY <1>2, <1>3, <1>4
<1>6. 1 \in 1..n /\ lru[1] = victim
  BY <1>1 DEF victim
<1>7. NodesOK(r, stored, changed)
  <2>1. ASSUME NEW i \in 1..(n - 1), NEW j \in 1..(n - 1),
               r[i].entry, r[j].entry, r[i].addr = r[j].addr
        PROVE  i = j
    <3>1. i + 1 \in 1..n /\ j + 1 \in 1..n /\ lru[i + 1].entry /\ lru[j + 1].entry
          /\ lru[i + 1].addr = lru[j + 1].addr
      BY <1>4, <1>5, <2>1
    <3>2. i + 1 = j + 1
      BY <3>1 DEF NodesOK
    <3>3. QED
      BY <3>2
  <2>2. ASSUME NEW i \in 1..(n - 1), ~r[i].entry PROVE stored[r[i].addr] = Unsure
    <3>1. i + 1 \in 1..n /\ i + 1 # 1 /\ r[i].addr = lru[i + 1].addr
      BY <1>4, <1>5
    <3>2. CASE ~lru[i + 1].entry
      BY <3>1, <3>2 DEF NodesOK
    <3>3. CASE lru[i + 1].entry
      <4>1. lru[i + 1].addr = lru[1].addr
        BY <1>5, <1>6, <2>2, <3>3
      <4>2. ~lru[1].entry
        BY <1>6, <3>1, <3>3, <4>1 DEF NodesOK
      <4>3. stored[lru[1].addr] = Unsure
        BY <1>6, <4>2 DEF NodesOK
      <4>4. QED
        BY <3>1, <4>1, <4>3
    <3>4. QED
      BY <3>2, <3>3
  <2>3. ASSUME NEW i \in 1..(n - 1), r[i].entry, r[i].block # Nothing
        PROVE  \/ stored[r[i].addr] = Unsure \/ r[i].addr \in changed
               \/ r[i].block = BlockOf(stored[r[i].addr])
    <3>1. /\ i + 1 \in 1..n /\ r[i].addr = lru[i + 1].addr /\ r[i].block = lru[i + 1].block
          /\ lru[i + 1].entry
      BY <1>4, <1>5, <2>3
    <3>2. \/ stored[lru[i + 1].addr] = Unsure \/ lru[i + 1].addr \in changed
          \/ lru[i + 1].block = BlockOf(stored[lru[i + 1].addr])
      BY <2>3, <3>1 DEF NodesOK
    <3>3. QED
      BY <3>1, <3>2
  <2>4. QED
    BY <1>3, <2>1, <2>2, <2>3 DEF NodesOK
<1>8. ASSUME NEW b, b # victim.addr, HasBlock(lru, b) PROVE HasBlock(r, b)
  <2>1. PICK i \in 1..n : lru[i].entry /\ lru[i].addr = b /\ lru[i].block # Nothing
    BY <1>8 DEF HasBlock
  <2>2. i # 1
    BY <1>6, <1>8, <2>1
  <2>3. i - 1 \in 1..(n - 1) /\ (i - 1) + 1 = i
    BY <1>1, <2>2
  <2>4. /\ r[i - 1].addr = lru[i].addr /\ r[i - 1].block = lru[i].block
        /\ r[i - 1].entry = (lru[i].entry /\ lru[i].addr # victim.addr)
    BY <1>5, <2>3
  <2>5. r[i - 1].entry /\ r[i - 1].addr = b /\ r[i - 1].block # Nothing
    BY <1>8, <2>1, <2>4
  <2>6. QED
    BY <1>3, <2>3, <2>5 DEF HasBlock
<1>9. QED
  BY <1>3, <1>5, <1>7, <1>8 DEF r

\* What a written victim leaves in the file is what was stored there.
LEMMA VictimIsStored ==
  ASSUME NodesOK(lru, stored, changed), DirtyOK(lru, dirty, stored), lru # <<>>,
         victim.block # Nothing, victim.addr \in dirty
  PROVE  \/ stored[victim.addr] = Unsure \/ victim.addr \in changed
         \/ victim.block = stored[victim.addr]
<1>1. 1 \in 1..Len(lru) /\ lru[1] = victim
  BY EmptySeq DEF NodesOK, victim
<1>2. stored[victim.addr] # Nothing
  BY DEF DirtyOK
<1> HIDE DEF victim
<1>3. CASE ~victim.entry
  BY <1>1, <1>3 DEF NodesOK
<1>4. CASE victim.entry
  BY <1>1, <1>2, <1>4 DEF NodesOK, BlockOf
<1>5. QED
  BY <1>3, <1>4

\* The block of a victim whose write-back failed is unsure from now on.
LEMMA UnhookedOK ==
  ASSUME NEW sto, NEW chg, NodesOK(lru, stored, changed), Weaker(sto, chg, stored, changed),
         lru # <<>>, sto[victim.addr] = Unsure
  PROVE  /\ NodesOK(unhooked, sto, chg)
         /\ \A b : b # victim.addr /\ HasBlock(lru, b) => HasBlock(unhooked, b)
<1> DEFINE n == Len(lru)
<1>1. lru \in Seq(Nodes) /\ n \in Nat
  BY LenProperties DEF NodesOK
<1>2. /\ unhooked \in Seq(Nodes) /\ Len(unhooked) = n
      /\ \A i \in 1..n :
           /\ unhooked[i].addr = lru[i].addr /\ unhooked[i].block = lru[i].block
           /\ unhooked[i].entry = (lru[i].entry /\ lru[i].addr # victim.addr)
  BY <1>1, UnhookedIs
<1>3. NodesOK(lru, sto, chg)
  BY NodesWeaker
<1> HIDE DEF unhooked, victim, n
<1>4. ASSUME NEW i \in 1..n, NEW j \in 1..n,
             unhooked[i].entry, unhooked[j].entry, unhooked[i].addr = unhooked[j].addr
      PROVE  i = j
  BY <1>2, <1>3, <1>4 DEF NodesOK, n
<1>5. ASSUME NEW i \in 1..n, ~unhooked[i].entry PROVE sto[unhooked[i].addr] = Unsure
  BY <1>2, <1>3, <1>5 DEF NodesOK, n
<1>6. ASSUME NEW i \in 1..n, unhooked[i].entry, unhooked[i].block # Nothing
      PROVE  \/ sto[unhooked[i].addr] = Unsure \/ unhooked[i].addr \in chg
             \/ unhooked[i].block = BlockOf(sto[unhooked[i].addr])
  <2>1. lru[i].entry /\ unhooked[i].addr = lru[i].addr /\ unhooked[i].block = lru[i].block
    BY <1>2, <1>6
  <2>2. \/ sto[lru[i].addr] = Unsure \/ lru[i].addr \in chg
        \/ lru[i].block = BlockOf(sto[lru[i].addr])
    BY <1>3, <1>6, <2>1 DEF NodesOK, n
  <2>3. QED
    BY <2>1, <2>2
<1>7. NodesOK(unhooked, sto, chg)
  BY <1>2, <1>4, <1>5, <1>6 DEF NodesOK
<1>8. ASSUME NEW b, b # victim.addr, HasBlock(lru, b) PROVE HasBlock(unhooked, b)
  <2>1. PICK i \in 1..n : lru[i].entry /\ lru[i].addr = b /\ lru[i].block # Nothing
    BY <1>8 DEF HasBlock, n
  <2>2. unhooked[i].entry /\ unhooked[i].addr = b /\ unhooked[i].block # Nothing
    BY <1>2, <1>8, <2>1
  <2>3. QED
    BY <1>2, <2>2 DEF HasBlock
<1>9. QED
  BY <1>7, <1>8

-----------------------------------------------------------------------------
(* _access *)

\* It returned: the node of a is the last one.
AccessReturned(acc, a) ==
  /\ NodesOK(acc.lru, stored, changed) /\ LastIs(acc.lru, a)
  /\ DirtyOK(acc.lru, acc.dirty, stored)
  /\ FileOK(acc.io.file, acc.dirty, stored, changed)

\* It raised: a block that is no longer dirty is unsure.
AccessRaised(acc, sto) ==
  /\ NodesOK(acc.lru, sto, {})
  /\ DirtyOK(acc.lru, acc.dirty, sto)
  /\ FileOK(acc.io.file, acc.dirty, sto, {})

\* What a call that raised leaves is weaker than what was known.
LEMMA WithoutWeaker ==
  ASSUME CacheTypes, NEW lost, changed \subseteq lost
  PROVE  /\ Weaker(Store!Without(lost), {}, stored, changed)
         /\ \A a \in Addrs : a \in lost => Store!Without(lost)[a] = Unsure
         /\ Store!Without(lost) \in [Addrs -> Blocks \cup {Unsure}]
BY DEF Store!Without, Weaker, CacheTypes

\* A hit only moves the node of a.
LEMMA HitIs ==
  ASSUME NodesOK(lru, stored, changed), NEW a \in cached
  PROVE  /\ NodesOK(used(a), stored, changed) /\ LastIs(used(a), a)
         /\ \A b : HasBlock(lru, b) => HasBlock(used(a), b)
<1> DEFINE k == index(a)
           n == Len(lru)
           r == used(a)
           p == [i \in 1..n |-> IF i < k THEN i ELSE IF i < n THEN i + 1 ELSE k]
<1>1. lru \in Seq(Nodes) /\ n \in Nat
  BY LenProperties DEF NodesOK
<1>2. k \in 1..n /\ lru[k].entry /\ lru[k].addr = a
  BY IndexIs
<1>3. r = Append(RemoveAt(lru, k), lru[k])
  BY DEF used
<1> HIDE DEF k, r
<1>4. /\ r \in Seq(Nodes) /\ Len(r) = n
      /\ \A i \in 1..n : r[i] = IF i < k THEN lru[i] ELSE IF i < n THEN lru[i + 1] ELSE lru[k]
  BY <1>1, <1>2, <1>3, MovedToEnd
<1> HIDE DEF n
<1>5. \A i \in 1..n : p[i] \in 1..n
  BY <1>1, <1>2
<1>6. \A i \in 1..n : r[i] = lru[p[i]]
  BY <1>4
<1>7. \A i, j \in 1..n : p[i] = p[j] => i = j
  BY <1>1, <1>2
<1>8. From(r, lru, p)
  BY <1>4, <1>5, <1>6, <1>7 DEF From, n
<1>9. NodesOK(r, stored, changed)
  <2> HIDE DEF p
  <2>1. QED
    BY <1>8, NodesFrom
<1>10. r[n] = lru[k] /\ n \in 1..n
  BY <1>1, <1>2, <1>4
<1>11. LastIs(r, a)
  BY <1>2, <1>4, <1>10 DEF LastIs
<1>12. ASSUME NEW b, HasBlock(lru, b) PROVE HasBlock(r, b)
  <2>1. PICK i \in 1..n : lru[i].entry /\ lru[i].addr = b /\ lru[i].block # Nothing
    BY <1>12 DEF HasBlock, n
  <2>2. PICK j \in 1..n : p[j] = i
    <3>1. CASE i < k
      <4>1. p[i] = i
        BY <3>1
      <4>2. QED
        BY <4>1
    <3>2. CASE i = k
      <4>1. p[n] = k
        BY <1>1, <1>2, <1>10
      <4>2. QED
        BY <1>10, <3>2, <4>1
    <3>3. CASE i > k
      <4>1. i - 1 \in 1..n /\ ~(i - 1 < k) /\ i - 1 < n /\ (i - 1) + 1 = i
        BY <1>1, <1>2, <3>3
      <4>2. p[i - 1] = i
        BY <4>1
      <4>3. QED
        BY <4>1, <4>2
    <3>4. QED
      BY <1>1, <1>2, <3>1, <3>2, <3>3
  <2>3. r[j] = lru[i]
    BY <1>6, <2>2
  <2>4. QED
    BY <1>4, <2>1, <2>3 DEF HasBlock
<1>13. QED
  BY <1>9, <1>11, <1>12 DEF r

\* An eviction and the write-back before it, which has returned.
LEMMA EvictionIs ==
  ASSUME NodesOK(lru, stored, changed), DirtyOK(lru, dirty, stored), NEW a \in Addrs,
         Evicts(a), lru # <<>>
  PROVE  /\ NodesOK(used(a), stored, changed) /\ LastIs(used(a), a)
         /\ DirtyOK(used(a), dirty \ {victim.addr}, stored)
<1> DEFINE s == Tail(unhooked)
           r == Append(s, LRUNode(a))
<1>1. r = used(a) /\ a \notin cached
  BY DEF used, reused, Evicts
<1>2. lru \in Seq(Nodes) /\ Len(lru) \in Nat \ {0}
  BY EmptySeq DEF NodesOK
<1>3. /\ NodesOK(s, stored, changed) /\ Len(s) = Len(lru) - 1
      /\ \A i \in 1..(Len(lru) - 1) :
           /\ s[i].addr = lru[i + 1].addr
           /\ s[i].entry = (lru[i + 1].entry /\ lru[i + 1].addr # victim.addr)
      /\ \A b : b # victim.addr /\ HasBlock(lru, b) => HasBlock(s, b)
  BY VictimGone
<1> HIDE DEF s
<1>4. \A i \in 1..Len(s) : s[i].entry => s[i].addr # a
  <2>1. \A i \in 1..Len(s) : i + 1 \in 1..Len(lru) /\ i \in 1..(Len(lru) - 1)
    BY <1>2, <1>3
  <2>2. \A i \in 1..Len(lru) : lru[i].entry => lru[i].addr # a
    BY <1>1, <1>2, CachedIs
  <2>3. SUFFICES ASSUME NEW i \in 1..Len(s), s[i].entry PROVE s[i].addr # a
    OBVIOUS
  <2>4. i + 1 \in 1..Len(lru) /\ lru[i + 1].entry /\ s[i].addr = lru[i + 1].addr
    BY <1>3, <2>1, <2>3
  <2>5. QED
    BY <2>2, <2>4
<1>5. /\ NodesOK(r, stored, changed) /\ Len(r) = Len(s) + 1 /\ r[Len(s) + 1] = LRUNode(a)
      /\ \A b : HasBlock(s, b) => HasBlock(r, b)
  BY <1>3, <1>4, NodesAppend
<1> HIDE DEF r
<1>6. LastIs(r, a)
  <2>1. r # <<>>
    BY <1>2, <1>3, <1>5, EmptySeq
  <2>2. LRUNode(a).entry /\ LRUNode(a).addr = a
    BY DEF LRUNode
  <2>3. QED
    BY <1>5, <2>1, <2>2 DEF LastIs
<1>7. DirtyOK(r, dirty \ {victim.addr}, stored)
  BY <1>3, <1>5 DEF DirtyOK
<1>8. QED
  BY <1>1, <1>5, <1>6, <1>7

\* A miss, with room for a block more.
LEMMA MissIs ==
  ASSUME NodesOK(lru, stored, changed), NEW a \in Addrs, a \notin cached, ~Evicts(a)
  PROVE  /\ NodesOK(used(a), stored, changed) /\ LastIs(used(a), a)
         /\ \A b : HasBlock(lru, b) => HasBlock(used(a), b)
<1> DEFINE r == Append(lru, LRUNode(a))
<1>1. r = used(a)
  BY DEF used
<1>2. lru \in Seq(Nodes) /\ Len(lru) \in Nat
  BY LenProperties DEF NodesOK
<1>3. \A i \in 1..Len(lru) : lru[i].entry => lru[i].addr # a
  BY <1>2, CachedIs
<1>4. /\ NodesOK(r, stored, changed) /\ Len(r) = Len(lru) + 1 /\ r[Len(lru) + 1] = LRUNode(a)
      /\ \A b : HasBlock(lru, b) => HasBlock(r, b)
  BY <1>3, NodesAppend
<1> HIDE DEF r
<1>5. LastIs(r, a)
  <2>1. r # <<>>
    BY <1>2, <1>4, EmptySeq
  <2>2. LRUNode(a).entry /\ LRUNode(a).addr = a
    BY DEF LRUNode
  <2>3. QED
    BY <1>4, <2>1, <2>2 DEF LastIs
<1>6. QED
  BY <1>1, <1>4, <1>5

\* _access, however it ends.
LEMMA AccessIs ==
  ASSUME CacheInv, max_size > 0, NEW a \in Addrs, NEW acc \in _access(a)
  PROVE  /\ acc.io \in Ios /\ acc.io.faults >= faults
         /\ started => acc.io.started /\ acc.io.file = file
         /\ acc.io.ok => acc.lru = used(a) /\ (acc.io.started => started)
         /\ ~acc.io.ok => started \/ acc.io.faults > 0 \/ (Evicts(a) /\ Stuck)
         /\ acc.dirty \subseteq dirty
         /\ \E v \in Addrs : dirty \ acc.dirty \subseteq {v}
         /\ acc.io.ok => AccessReturned(acc, a)
         /\ ~acc.io.ok =>
              AccessRaised(acc, Store!Without(changed \cup (dirty \ acc.dirty)))
<1>1. /\ NodesOK(lru, stored, changed) /\ DirtyOK(lru, dirty, stored)
      /\ FileOK(file, dirty, stored, changed) /\ lru \in Seq(Nodes)
      /\ max_size \in Nat /\ dirty \subseteq Addrs /\ CacheTypes
  BY DEF CacheInv, CacheTypes, DirtyOK, NodesOK
<1>2. IoTypes
  BY DEF CacheInv, CacheTypes, FileOK, IoTypes
<1>3. /\ IoNow \in Ios /\ IoNow.ok
      /\ IoNow.file = file /\ IoNow.started = started /\ IoNow.faults = faults
      /\ faults \in Nat
  BY <1>2, IoNowType DEF IoTypes
<1>4. CASE Evicts(a) /\ Stuck
  <2> DEFINE io == [IoNow EXCEPT !.ok = FALSE]
             sto == Store!Without(changed \cup (dirty \ acc.dirty))
  <2>1. io = Io(FALSE, file, started, faults)
    BY <1>3, IoWithOk
  <2> HIDE DEF io
  <2>2. acc = [lru |-> lru, dirty |-> dirty, io |-> io]
    BY <1>4 DEF _access, io
  <2>3. acc.lru = lru /\ acc.dirty = dirty /\ acc.io = Io(FALSE, file, started, faults)
    BY <2>1, <2>2
  <2>4. Weaker(sto, {}, stored, changed)
    BY <1>1, <2>3, WithoutWeaker
  <2> HIDE DEF sto
  <2>5. /\ acc.io \in Ios /\ ~acc.io.ok /\ acc.io.file = file
        /\ (started => acc.io.started) /\ acc.io.faults >= faults
    BY <1>2, <2>3 DEF Io, Ios, IoTypes
  <2>6. AccessRaised(acc, sto)
    BY <1>1, <2>3, <2>4, <2>5, NodesWeaker, DirtyWeaker, FileWeaker DEF AccessRaised
  <2>7. \E v \in Addrs : dirty \ acc.dirty \subseteq {v}
    BY <2>3
  <2>8. QED
    BY <1>3, <1>4, <2>3, <2>5, <2>6, <2>7 DEF sto
<1>5. CASE ~(Evicts(a) /\ Stuck)
  <2>1. PICK io \in evicted(a) :
          acc = [lru |-> IF io.ok THEN used(a) ELSE unhooked, dirty |-> clean(a), io |-> io]
    BY <1>5 DEF _access
  <2>2. /\ acc.lru = (IF io.ok THEN used(a) ELSE unhooked)
        /\ acc.dirty = clean(a) /\ acc.io = io
    BY <2>1
  <2>3. CASE ~Evicts(a)
    <3>1. io = IoNow /\ acc.dirty = dirty
      BY <2>2, <2>3 DEF evicted, clean
    <3>2. acc.lru = used(a) /\ acc.io.ok
      BY <1>3, <2>2, <3>1
    <3>3. /\ NodesOK(used(a), stored, changed) /\ LastIs(used(a), a)
          /\ \A b : HasBlock(lru, b) => HasBlock(used(a), b)
      BY <1>1, <2>3, HitIs, MissIs
    <3>4. DirtyOK(used(a), dirty, stored)
      BY <1>1, <3>3 DEF DirtyOK
    <3>5. AccessReturned(acc, a)
      BY <1>1, <1>3, <2>2, <3>1, <3>2, <3>3, <3>4 DEF AccessReturned
    <3>6. QED
      BY <1>3, <2>2, <3>1, <3>2, <3>5
  <2>4. CASE Evicts(a)
    <3> DEFINE v == victim.addr
    <3>1. lru # <<>> /\ victim \in Nodes
      BY <1>1, <2>4, EvictsFrom
    <3>2. v \in Addrs /\ victim.block \in Contents
      BY <1>5, <2>4, <3>1 DEF Nodes, Blocks, Stuck
    <3>3. acc.dirty = dirty \ {v} /\ dirty \ acc.dirty \subseteq {v}
      BY <2>2, <2>4 DEF clean
    <3>4. CASE io.ok
      <4>1. acc.lru = used(a)
        BY <2>2, <3>4
      <4>2. /\ NodesOK(used(a), stored, changed) /\ LastIs(used(a), a)
            /\ DirtyOK(used(a), dirty \ {v}, stored)
        BY <1>1, <2>4, <3>1, EvictionIs
      <4>3. CASE v \in dirty
        <5>1. io \in _write_block(IoNow, v, victim.block)
          BY <2>4, <4>3 DEF evicted
        <5> HIDE DEF v
        <5>2. /\ io \in Ios /\ \A b \in Addrs \ {v} : io.file[b] = file[b]
              /\ io.file[v] = victim.block /\ io.started = started /\ io.faults = faults
              /\ started => io.file = file /\ io.started
          BY <1>2, <3>2, <3>4, <5>1, WriteBlockIs
        <5>3. \/ stored[v] = Unsure \/ v \in changed \/ victim.block = stored[v]
          BY <1>1, <3>1, <3>2, <4>3, VictimIsStored DEF v
        <5>4. io.file \in [Addrs -> Blocks]
          BY <5>2, IoParts
        <5>5. FileOK(io.file, dirty \ {v}, stored, changed)
          <6>1. ASSUME NEW b \in Addrs \ (dirty \ {v})
                PROVE  stored[b] = Unsure \/ (b \in changed /\ max_size > 0) \/ io.file[b] = stored[b]
            <7>1. CASE b = v
              BY <5>2, <5>3, <7>1
            <7>2. CASE b # v
              BY <1>1, <5>2, <6>1, <7>2 DEF FileOK
            <7>3. QED
              BY <7>1, <7>2
          <6>2. QED
            BY <5>4, <6>1 DEF FileOK
        <5>6. AccessReturned(acc, a)
          BY <2>2, <3>3, <4>1, <4>2, <5>5 DEF AccessReturned, v
        <5>7. QED
          BY <1>3, <2>2, <3>2, <3>3, <3>4, <4>1, <5>2, <5>6
      <4>4. CASE v \notin dirty
        <5>1. io = IoNow
          BY <2>4, <4>4 DEF evicted
        <5>2. dirty \ {v} = dirty
          BY <4>4
        <5>3. AccessReturned(acc, a)
          BY <1>1, <1>3, <2>2, <3>3, <4>1, <4>2, <5>1, <5>2 DEF AccessReturned
        <5>4. QED
          BY <1>3, <2>2, <3>2, <3>3, <3>4, <4>1, <5>1, <5>3
      <4>5. QED
        BY <4>3, <4>4
    <3>5. CASE ~io.ok
      <4> DEFINE sto == Store!Without(changed \cup (dirty \ acc.dirty))
      <4>1. acc.lru = unhooked
        BY <2>2, <3>5
      <4>2. v \in dirty /\ io \in _write_block(IoNow, v, victim.block)
        BY <1>3, <2>4, <3>5 DEF evicted
      <4>3. dirty \ acc.dirty = {v}
        BY <3>3, <4>2
      <4>4. /\ Weaker(sto, {}, stored, changed) /\ sto[v] = Unsure
        BY <1>1, <3>2, <4>3, WithoutWeaker
      <4> HIDE DEF sto, v
      <4>5. /\ io \in Ios /\ \A b \in Addrs \ {v} : io.file[b] = file[b]
            /\ started => io.file = file /\ io.started
            /\ started \/ io.faults > 0
            /\ io.faults >= faults
        BY <1>2, <3>2, <3>5, <4>2, WriteBlockIs
      <4>6. io.file \in [Addrs -> Blocks]
        BY <4>5, IoParts
      <4>7. NodesOK(unhooked, sto, {}) /\ \A b : b # v /\ HasBlock(lru, b) => HasBlock(unhooked, b)
        BY <1>1, <3>1, <4>4, UnhookedOK DEF v
      <4>8. DirtyOK(unhooked, dirty \ {v}, sto)
        BY <1>1, <4>4, <4>7 DEF DirtyOK, Weaker
      <4>9. FileOK(io.file, dirty \ {v}, sto, {})
        BY <1>1, <4>4, <4>5, <4>6 DEF FileOK, Weaker
      <4>10. AccessRaised(acc, sto)
        BY <2>2, <3>3, <4>1, <4>7, <4>8, <4>9 DEF AccessRaised
      <4>11. QED
        BY <2>2, <3>2, <3>3, <3>5, <4>5, <4>10 DEF sto
    <3>6. QED
      BY <3>4, <3>5
  <2>5. QED
    BY <2>3, <2>4
<1>6. QED
  BY <1>4, <1>5

-----------------------------------------------------------------------------
(* The steps *)

StoreStep == [Store!StoreNext]_(Store!storeVars)

\* The parts of the invariant after a step that leaves the size.
LEMMA InvAfter ==
  ASSUME max_size' = max_size, CacheTypes', NodesOK(lru', stored', changed'),
         DirtyOK(lru', dirty', stored'), FileOK(file', dirty', stored', changed'), ModesInv'
  PROVE  CacheInv'
<1>1. NodesOK(lru, stored, changed)'
  BY DEF NodesOK
<1>2. DirtyOK(lru, dirty, stored)'
  BY DEF DirtyOK, HasBlock
<1>3. FileOK(file, dirty, stored, changed)'
  BY DEF FileOK
<1>4. QED
  BY <1>1, <1>2, <1>3 DEF CacheInv

\* What is known of a call that returned, once it raises for another reason.
LEMMA ReturnedRaised ==
  ASSUME CacheTypes, NEW a, NEW acc, AccessReturned(acc, a)
  PROVE  AccessRaised(acc, Store!Without(changed \cup (dirty \ acc.dirty)))
<1> DEFINE sto == Store!Without(changed \cup (dirty \ acc.dirty))
<1>1. Weaker(sto, {}, stored, changed)
  BY WithoutWeaker
<1> HIDE DEF sto
<1>2. AccessRaised(acc, sto)
  BY <1>1, NodesWeaker, DirtyWeaker, FileWeaker DEF AccessReturned, AccessRaised
<1>3. QED
  BY <1>2 DEF sto

LEMMA NoBuffersHeld == NoBuffers \in [Addrs -> Blocks] /\ Store!NoBuffers = NoBuffers
BY DEF NoBuffers, Store!NoBuffers, Blocks

\* A call raised in a cache with blocks.
LEMMA RaiseStep ==
  ASSUME CacheInv, Ready, max_size > 0, NEW a \in Addrs, NEW acc,
         AccessRaised(acc, Store!Without(changed \cup (dirty \ acc.dirty))),
         \E v \in Addrs : dirty \ acc.dirty \subseteq {v},
         file' = acc.io.file, started' \in BOOLEAN, faults' \in Nat,
         Raise(acc.lru), dirty' = acc.dirty, Raised(a), UNCHANGED <<max_size, flushing, open>>
  PROVE  CacheInv' /\ StoreStep
<1> DEFINE lost == changed \cup (dirty \ acc.dirty)
           sto  == Store!Without(lost)
<1>1. /\ stored' = sto /\ changed' = {} /\ held' = NoBuffers /\ lru' = Unshared(acc.lru)
      /\ dirty' = acc.dirty /\ max_size' = max_size /\ flushing' = {} /\ open' = TRUE
  <2>1. InCache \cup (dirty \ dirty') \cup (IF max_size = 0 /\ file' # file THEN {a} ELSE {}) = lost
    BY DEF InCache, CacheInv, CacheTypes
  <2>2. QED
    BY <2>1 DEF Raised, Raise, Ready
<1>2. CacheTypes
  BY DEF CacheInv
<1>3. sto \in [Addrs -> Blocks \cup {Unsure}]
  BY <1>2, WithoutWeaker
<1> HIDE DEF sto
<1>4. /\ NodesOK(Unshared(acc.lru), sto, {})
      /\ \A b : HasBlock(acc.lru, b) => HasBlock(Unshared(acc.lru), b)
      /\ DirtyOK(acc.lru, acc.dirty, sto) /\ FileOK(acc.io.file, acc.dirty, sto, {})
  BY NodesUnshared DEF AccessRaised, sto
<1>5. DirtyOK(Unshared(acc.lru), acc.dirty, sto)
  BY <1>4 DEF DirtyOK
<1>6. CacheTypes'
  BY <1>1, <1>2, <1>3, NoBuffersHeld DEF CacheTypes
<1>7. ModesInv'
  BY <1>1, <1>2 DEF ModesInv, CacheTypes
<1>8. CacheInv'
  BY <1>1, <1>4, <1>5, <1>6, <1>7, InvAfter
<1>9. Store!StoreRaise
  <2>1. PICK v \in Addrs : dirty \ acc.dirty \subseteq {v}
    OBVIOUS
  <2>2. lost \in SUBSET (changed \cup {v})
    BY <2>1
  <2>3. stored' = Store!Without(lost)
    BY <1>1 DEF sto
  <2> HIDE DEF lost
  <2>4. \E b \in Addrs : \E l \in SUBSET (changed \cup {b}) : stored' = Store!Without(l)
    BY <2>2, <2>3
  <2>5. open' = open
    OBVIOUS
  <2>6. QED
    BY <1>1, <2>4, <2>5, NoBuffersHeld DEF Store!StoreRaise
<1>10. StoreStep
  BY <1>9 DEF StoreStep, Store!StoreNext, Ready
<1>11. QED
  BY <1>8, <1>10

\* A call raised without a cache: nothing is lost but a block that was half
\* written.
LEMMA RaiseStepNoCache ==
  ASSUME CacheInv, Ready, max_size = 0, NEW a \in Addrs,
         file' \in [Addrs -> Blocks], \A b \in Addrs \ {a} : file'[b] = file[b],
         started' \in BOOLEAN, faults' \in Nat,
         Raise(lru), dirty' = dirty, Raised(a), UNCHANGED <<max_size, flushing, open>>
  PROVE  CacheInv' /\ StoreStep
<1> DEFINE lost == IF file' # file THEN {a} ELSE {}
           sto  == Store!Without(lost)
<1>1. /\ CacheTypes /\ FileOK(file, dirty, stored, changed) /\ lru = <<>> /\ dirty = {}
      /\ NodesOK(lru, stored, changed)
  BY DEF CacheInv, ModesInv
<1>2. /\ stored' = sto /\ changed' = {} /\ held' = NoBuffers /\ lru' = <<>>
      /\ dirty' = {} /\ max_size' = 0 /\ flushing' = {} /\ open' = TRUE
  <2>1. InCache \cup (dirty \ dirty') \cup (IF max_size = 0 /\ file' # file THEN {a} ELSE {}) = lost
    BY <1>1 DEF InCache
  <2>2. lru' = <<>>
    BY <1>1, NodesUnshared DEF Raise
  <2>3. QED
    BY <1>1, <2>1, <2>2 DEF Raised, Raise, Ready
<1>3. /\ sto \in [Addrs -> Blocks \cup {Unsure}]
      /\ \A b \in Addrs : sto[b] = IF b \in lost THEN Unsure ELSE stored[b]
  BY <1>1 DEF CacheTypes, Store!Without
<1>4. Store!StoreRaise
  <2>1. lost \in SUBSET (changed \cup {a}) /\ stored' = Store!Without(lost)
    BY <1>2
  <2> HIDE DEF lost
  <2>2. \E b \in Addrs : \E l \in SUBSET (changed \cup {b}) : stored' = Store!Without(l)
    BY <2>1
  <2>3. open' = open
    OBVIOUS
  <2>4. QED
    BY <1>2, <2>2, <2>3, NoBuffersHeld DEF Store!StoreRaise
<1> HIDE DEF sto
<1>5. NodesOK(lru', stored', changed') /\ DirtyOK(lru', dirty', stored')
  BY <1>1, <1>2, EmptySeq DEF NodesOK, DirtyOK
<1>6. FileOK(file', dirty', stored', changed')
  <2>1. ASSUME NEW b \in Addrs PROVE stored'[b] = Unsure \/ file'[b] = stored'[b]
    <3>1. stored[b] = Unsure \/ file[b] = stored[b]
      BY <1>1 DEF FileOK
    <3>2. CASE b \in lost
      BY <1>2, <1>3, <3>2
    <3>3. CASE b \notin lost
      BY <1>2, <1>3, <3>1, <3>3
    <3>4. QED
      BY <3>2, <3>3
  <2>2. QED
    BY <1>2, <2>1 DEF FileOK
<1>7. CacheTypes'
  BY <1>1, <1>2, <1>3, NoBuffersHeld DEF CacheTypes
<1>8. ModesInv'
  BY <1>2 DEF ModesInv
<1>9. CacheInv'
  BY <1>2, <1>5, <1>6, <1>7, <1>8, InvAfter
<1>10. StoreStep
  BY <1>4 DEF StoreStep, Store!StoreNext, Ready
<1>11. QED
  BY <1>9, <1>10

\* What read() returns is what is stored.
LEMMA ReadIsStored ==
  ASSUME CacheInv, max_size > 0, NEW a \in Addrs, a \notin changed, NEW acc, AccessReturned(acc, a)
  PROVE  LET c == IF InNode(acc.lru) = Nothing THEN BlockOf(acc.io.file[a]) ELSE InNode(acc.lru)
         IN  c \in Contents /\ (stored[a] = Unsure \/ c = BlockOf(stored[a]))
<1> DEFINE s == acc.lru
           n == Len(s)
<1>1. /\ NodesOK(s, stored, changed) /\ LastIs(s, a) /\ DirtyOK(s, acc.dirty, stored)
      /\ FileOK(acc.io.file, acc.dirty, stored, changed)
  BY DEF AccessReturned
<1>2. InNode(s) = s[n].block
  BY DEF InNode, Last
<1>3. s \in Seq(Nodes) /\ n \in Nat /\ n \in 1..n /\ s[n].entry /\ s[n].addr = a
  BY <1>1, EmptySeq DEF NodesOK, LastIs
<1>4. s[n].block \in Blocks
  <2>1. s[n] \in Nodes
    BY <1>3, ElementOfSeq
  <2>2. QED
    BY <2>1 DEF Nodes
<1> HIDE DEF s, n
<1>5. CASE s[n].block = Nothing
  <2>1. a \notin acc.dirty
    <3>1. SUFFICES ASSUME a \in acc.dirty PROVE FALSE
      OBVIOUS
    <3>2. PICK i \in 1..n : s[i].entry /\ s[i].addr = a /\ s[i].block # Nothing
      BY <1>1, <3>1 DEF DirtyOK, HasBlock, n
    <3>3. i = n
      BY <1>1, <1>3, <3>2 DEF NodesOK, n
    <3>4. QED
      BY <1>5, <3>2, <3>3
  <2>2. acc.io.file[a] \in Blocks /\ (stored[a] = Unsure \/ acc.io.file[a] = stored[a])
    BY <1>1, <2>1 DEF FileOK
  <2>3. QED
    BY <1>2, <1>5, <2>2 DEF Blocks, BlockOf, s
<1>6. CASE s[n].block # Nothing
  <2>1. stored[a] = Unsure \/ s[n].block = BlockOf(stored[a])
    BY <1>1, <1>3, <1>6 DEF NodesOK, n
  <2>2. QED
    BY <1>2, <1>4, <1>6, <2>1 DEF Blocks, s
<1>7. QED
  BY <1>5, <1>6

\* read() (disk.py:84-99).
LEMMA ReadStep ==
  ASSUME CacheInv, NEW a \in Addrs, ReadBlock(a)
  PROVE  CacheInv' /\ StoreStep
<1>1. /\ CacheTypes /\ FileOK(file, dirty, stored, changed) /\ ModesInv /\ IoTypes
      /\ NodesOK(lru, stored, changed) /\ max_size \in Nat /\ held \in [Addrs -> Blocks]
  BY DEF CacheInv, CacheTypes, FileOK, IoTypes
<1>2. /\ IoNow \in Ios /\ IoNow.ok
      /\ IoNow.file = file /\ IoNow.started = started /\ IoNow.faults = faults
  BY <1>1, IoNowType
<1>3. /\ a \notin changed /\ Ready /\ UNCHANGED <<max_size, flushing, open>>
      /\ IF held' = NoBuffers THEN Raised(a) ELSE UNCHANGED <<stored, changed>>
  BY DEF ReadBlock, Read
<1>4. open = TRUE /\ flushing = {}
  BY <1>1, <1>3 DEF Ready, CacheTypes
<1>5. \A c \in Contents : held' = [held EXCEPT ![a] = c] => held' # NoBuffers
  BY <1>1 DEF NoBuffers, Blocks
<1>6. ASSUME NEW c \in Contents, held' = [held EXCEPT ![a] = c],
             stored[a] = Unsure \/ c = BlockOf(stored[a]), UNCHANGED <<stored, changed>>
      PROVE  StoreStep
  <2>1. c \in IF stored[a] = Unsure THEN Contents ELSE {Store!BlockRead(stored[a])}
    BY <1>6 DEF BlockOf, Store!BlockRead
  <2>2. Store!StoreRead(a)
    BY <1>3, <1>6, <2>1 DEF Store!StoreRead
  <2>3. QED
    BY <1>4, <2>2 DEF StoreStep, Store!StoreNext
<1>7. CASE max_size = 0
  <2>1. PICK io \in _read_block(IoNow) :
          /\ PerformIo(io) /\ dirty' = dirty
          /\ IF ~io.ok THEN Raise(lru)
             ELSE held' = [held EXCEPT ![a] = BlockOf(io.file[a])] /\ lru' = lru
    BY <1>2, <1>7 DEF ReadBlock, Read, InNode
  <2>2. /\ io \in Ios /\ io.file = file /\ (io.ok => io = IoNow)
        /\ file' = file /\ started' = io.started /\ faults' = io.faults
    BY <1>2, <2>1, ReadBlockIs DEF PerformIo
  <2>3. started' \in BOOLEAN /\ faults' \in Nat
    BY <2>2, IoParts
  <2>4. CASE ~io.ok
    <3>1. Raise(lru) /\ Raised(a)
      BY <1>3, <2>1, <2>4 DEF Raise
    <3>2. QED
      BY <1>1, <1>3, <1>7, <2>1, <2>2, <2>3, <3>1, RaiseStepNoCache DEF FileOK
  <2>5. CASE io.ok
    <3> DEFINE c == BlockOf(file[a])
    <3>1. c \in Contents /\ (stored[a] = Unsure \/ c = BlockOf(stored[a]))
      BY <1>1, <1>3, <1>7 DEF FileOK, BlockOf, Blocks, ModesInv
    <3>2. held' = [held EXCEPT ![a] = c] /\ lru' = lru
      BY <2>1, <2>2, <2>5
    <3> HIDE DEF c
    <3>3. UNCHANGED <<stored, changed>>
      BY <1>3, <1>5, <3>1, <3>2
    <3>4. StoreStep
      BY <1>6, <3>1, <3>2, <3>3
    <3>5. CacheTypes'
      BY <1>1, <1>3, <2>1, <2>3, <3>1, <3>2, <3>3 DEF CacheTypes, Blocks
    <3>6. ModesInv'
      BY <1>1, <1>3, <1>4, <2>1, <3>1, <3>2, <3>3 DEF ModesInv, CacheTypes
    <3>7. CacheInv'
      BY <1>3, <2>1, <2>2, <3>2, <3>3, <3>5, <3>6, InvAfter DEF CacheInv
    <3>8. QED
      BY <3>4, <3>7
  <2>6. QED
    BY <2>4, <2>5
<1>8. CASE max_size > 0
  <2>1. PICK acc \in _access(a) :
          \E io \in IF acc.io.ok /\ InNode(acc.lru) = Nothing THEN _read_block(acc.io) ELSE {acc.io} :
            /\ PerformIo(io)
            /\ dirty' = acc.dirty
            /\ IF ~io.ok THEN Raise(acc.lru)
               ELSE \E c \in {IF InNode(acc.lru) = Nothing THEN BlockOf(io.file[a]) ELSE InNode(acc.lru)} :
                      /\ held' = [held EXCEPT ![a] = c]
                      /\ Share(acc.lru, a, c)
    <3>1. max_size # 0
      BY <1>8
    <3>2. QED
      BY <3>1 DEF ReadBlock, Read
  <2>2. PICK io \in IF acc.io.ok /\ InNode(acc.lru) = Nothing THEN _read_block(acc.io) ELSE {acc.io} :
            /\ PerformIo(io)
            /\ dirty' = acc.dirty
            /\ IF ~io.ok THEN Raise(acc.lru)
               ELSE \E c \in {IF InNode(acc.lru) = Nothing THEN BlockOf(io.file[a]) ELSE InNode(acc.lru)} :
                      /\ held' = [held EXCEPT ![a] = c]
                      /\ Share(acc.lru, a, c)
    BY <2>1
  <2>3. /\ acc.io \in Ios
        /\ acc.dirty \subseteq dirty
        /\ \E v \in Addrs : dirty \ acc.dirty \subseteq {v}
        /\ acc.io.ok => AccessReturned(acc, a)
        /\ ~acc.io.ok => AccessRaised(acc, Store!Without(changed \cup (dirty \ acc.dirty)))
    BY <1>8, AccessIs
  <2>4. io \in Ios /\ io.file = acc.io.file /\ (io.ok => acc.io.ok /\ io = acc.io)
    BY <2>2, <2>3, ReadBlockIs
  <2>5. /\ file' = acc.io.file /\ started' = io.started /\ faults' = io.faults
        /\ started' \in BOOLEAN /\ faults' \in Nat
    BY <2>2, <2>4, IoParts DEF PerformIo
  <2>6. CASE ~io.ok
    <3>1. Raise(acc.lru) /\ Raised(a) /\ dirty' = acc.dirty
      BY <1>3, <2>2, <2>6 DEF Raise
    <3>2. AccessRaised(acc, Store!Without(changed \cup (dirty \ acc.dirty)))
      BY <1>1, <2>3, ReturnedRaised
    <3>3. QED
      BY <1>3, <1>8, <2>3, <2>5, <3>1, <3>2, RaiseStep
  <2>7. CASE io.ok
    <3> DEFINE c == IF InNode(acc.lru) = Nothing THEN BlockOf(acc.io.file[a]) ELSE InNode(acc.lru)
    <3>1. AccessReturned(acc, a)
      BY <2>3, <2>4, <2>7
    <3>2. held' = [held EXCEPT ![a] = c] /\ lru' = Shares(acc.lru, c)
      <4>1. PICK d \in {IF InNode(acc.lru) = Nothing THEN BlockOf(io.file[a]) ELSE InNode(acc.lru)} :
              held' = [held EXCEPT ![a] = d] /\ Share(acc.lru, a, d)
        BY <2>2, <2>7
      <4>2. d = c
        BY <2>4, <2>7, <4>1
      <4> HIDE DEF c
      <4>3. QED
        BY <4>1, <4>2 DEF Share, Shares
    <3>3. c \in Contents /\ (stored[a] = Unsure \/ c = BlockOf(stored[a]))
      BY <1>3, <1>8, <3>1, ReadIsStored
    <3> HIDE DEF c
    <3>4. UNCHANGED <<stored, changed>>
      BY <1>3, <1>5, <3>2, <3>3
    <3>5. StoreStep
      BY <1>6, <3>2, <3>3, <3>4
    <3>6. /\ NodesOK(acc.lru, stored, changed) /\ LastIs(acc.lru, a)
          /\ DirtyOK(acc.lru, acc.dirty, stored)
          /\ FileOK(acc.io.file, acc.dirty, stored, changed)
      BY <3>1 DEF AccessReturned
    <3>7. Settled(stored, changed, stored, changed, acc.lru, a, c)
      BY <3>3, <3>6 DEF Settled, NodesOK
    <3>8. /\ NodesOK(Shares(acc.lru, c), stored, changed)
          /\ \A b : HasBlock(acc.lru, b) => HasBlock(Shares(acc.lru, c), b)
      BY <3>3, <3>6, <3>7, NodesShare
    <3>9. DirtyOK(lru', dirty', stored')
      BY <2>2, <3>2, <3>4, <3>6, <3>8 DEF DirtyOK
    <3>10. CacheTypes'
      BY <1>1, <1>3, <1>4, <2>2, <2>5, <3>2, <3>3, <3>4 DEF CacheTypes, Blocks
    <3>11. ModesInv'
      BY <1>1, <1>3, <1>4, <1>8, <3>2, <3>3, <3>4 DEF ModesInv, CacheTypes
    <3>12. CacheInv'
      BY <1>3, <2>2, <2>5, <3>2, <3>4, <3>6, <3>8, <3>9, <3>10, <3>11, InvAfter
    <3>13. QED
      BY <3>5, <3>12
  <2>8. QED
    BY <2>6, <2>7
<1>9. QED
  BY <1>1, <1>7, <1>8

\* What write() stores: the block, or no one knows what if the list has a node
\* of a block of that address whose write-back failed.
Written(a) == IF \E i \in DOMAIN lru' : lru'[i].addr = a /\ ~lru'[i].entry THEN Unsure ELSE held[a]

\* write() (disk.py:101-112).
LEMMA WriteStep ==
  ASSUME CacheInv, NEW a \in Addrs, WriteHeld(a)
  PROVE  CacheInv' /\ StoreStep
<1>1. /\ CacheTypes /\ FileOK(file, dirty, stored, changed) /\ ModesInv /\ IoTypes
      /\ NodesOK(lru, stored, changed) /\ max_size \in Nat /\ held \in [Addrs -> Blocks]
      /\ stored \in [Addrs -> Blocks \cup {Unsure}]
  BY DEF CacheInv, CacheTypes, FileOK, IoTypes
<1>2. /\ Ready /\ held[a] # Nothing /\ UNCHANGED <<max_size, flushing, open>>
      /\ IF held' = NoBuffers THEN Raised(a)
         ELSE stored' = [stored EXCEPT ![a] = Written(a)] /\ changed' = changed \ {a}
  BY DEF WriteHeld, Write, Written
<1>3. open = TRUE /\ flushing = {} /\ held[a] \in Contents
  BY <1>1, <1>2 DEF Ready, CacheTypes, Blocks
<1>4. ASSUME held' = held
      PROVE  stored' = [stored EXCEPT ![a] = Written(a)] /\ changed' = changed \ {a}
  BY <1>2, <1>4 DEF NoBuffers
<1>5. ASSUME held' = held, Written(a) = held[a] \/ (stored[a] = Unsure /\ Written(a) = Unsure)
      PROVE  StoreStep
  <2>1. Written(a) \in {held[a]} \cup ({stored[a]} \cap {Unsure})
    BY <1>5
  <2>2. Store!StoreWrite(a)
    <3> DEFINE w == Written(a)
    <3>1. w \in {held[a]} \cup ({stored[a]} \cap {Unsure}) /\ stored' = [stored EXCEPT ![a] = w]
      BY <1>4, <1>5, <2>1
    <3> HIDE DEF w
    <3>2. QED
      BY <1>2, <1>4, <1>5, <3>1 DEF Store!StoreWrite
  <2>3. QED
    BY <1>3, <2>2 DEF StoreStep, Store!StoreNext
<1>6. CASE max_size = 0
  <2>1. PICK io \in _write_block(IoNow, a, held[a]) :
          /\ PerformIo(io) /\ dirty' = dirty
          /\ IF io.ok THEN UNCHANGED <<held, lru>> ELSE Raise(lru)
    BY <1>6 DEF WriteHeld, Write
  <2>2. /\ io \in Ios /\ \A b \in Addrs \ {a} : io.file[b] = file[b]
        /\ io.ok => io.file[a] = held[a]
        /\ file' = io.file /\ started' = io.started /\ faults' = io.faults
    BY <1>1, <1>3, <2>1, WriteBlockIs DEF PerformIo
  <2>3. started' \in BOOLEAN /\ faults' \in Nat /\ file' \in [Addrs -> Blocks]
    BY <2>2, IoParts
  <2>4. CASE ~io.ok
    <3>1. Raise(lru) /\ Raised(a)
      BY <1>2, <2>1, <2>4 DEF Raise
    <3>2. QED
      BY <1>2, <1>6, <2>1, <2>2, <2>3, <3>1, RaiseStepNoCache
  <2>5. CASE io.ok
    <3>1. held' = held /\ lru' = lru /\ lru = <<>> /\ dirty = {}
      BY <1>1, <1>6, <2>1, <2>5 DEF ModesInv
    <3>2. Written(a) = held[a]
      <4>1. DOMAIN lru' = {}
        BY <3>1
      <4>2. QED
        BY <4>1 DEF Written
    <3>3. stored' = [stored EXCEPT ![a] = held[a]] /\ changed' = changed \ {a}
      BY <1>4, <3>1, <3>2
    <3>4. StoreStep
      BY <1>5, <3>1, <3>2
    <3>5. FileOK(file', dirty', stored', changed')
      BY <1>1, <1>6, <2>1, <2>2, <2>3, <2>5, <3>1, <3>3 DEF FileOK
    <3>6. NodesOK(lru', stored', changed') /\ DirtyOK(lru', dirty', stored')
      BY <2>1, <3>1, EmptySeq DEF NodesOK, DirtyOK
    <3>7. CacheTypes'
      BY <1>1, <1>2, <2>1, <2>3, <3>1, <3>3 DEF CacheTypes
    <3>8. ModesInv'
      BY <1>1, <1>2, <1>3, <2>1, <3>1, <3>3 DEF ModesInv
    <3>9. QED
      BY <1>2, <3>4, <3>5, <3>6, <3>7, <3>8, InvAfter
  <2>6. QED
    BY <2>4, <2>5
<1>7. CASE max_size > 0
  <2>1. PICK acc \in _access(a) :
          /\ PerformIo(acc.io)
          /\ IF acc.io.ok THEN Share(acc.lru, a, held[a]) /\ UNCHANGED held ELSE Raise(acc.lru)
          /\ dirty' = IF acc.io.ok THEN acc.dirty \cup {a} ELSE acc.dirty
    <3>1. max_size # 0
      BY <1>7
    <3>2. QED
      BY <3>1 DEF WriteHeld, Write
  <2>2. /\ acc.io \in Ios
        /\ acc.dirty \subseteq dirty
        /\ \E v \in Addrs : dirty \ acc.dirty \subseteq {v}
        /\ acc.io.ok => AccessReturned(acc, a)
        /\ ~acc.io.ok => AccessRaised(acc, Store!Without(changed \cup (dirty \ acc.dirty)))
    BY <1>7, AccessIs
  <2>3. /\ file' = acc.io.file /\ started' = acc.io.started /\ faults' = acc.io.faults
        /\ started' \in BOOLEAN /\ faults' \in Nat
    BY <2>1, <2>2, IoParts DEF PerformIo
  <2>4. CASE ~acc.io.ok
    <3>1. Raise(acc.lru) /\ Raised(a) /\ dirty' = acc.dirty
      BY <1>2, <2>1, <2>4 DEF Raise
    <3>2. QED
      BY <1>2, <1>7, <2>2, <2>3, <2>4, <3>1, RaiseStep
  <2>5. CASE acc.io.ok
    <3> DEFINE c == held[a]
               s == acc.lru
    <3>1. held' = held /\ lru' = Shares(s, c) /\ dirty' = acc.dirty \cup {a}
      BY <2>1, <2>5 DEF Share, Shares
    <3>2. /\ NodesOK(s, stored, changed) /\ LastIs(s, a)
          /\ DirtyOK(s, acc.dirty, stored)
          /\ FileOK(acc.io.file, acc.dirty, stored, changed)
      BY <2>2, <2>5 DEF AccessReturned
    <3>3. stored' = [stored EXCEPT ![a] = Written(a)] /\ changed' = changed \ {a}
      BY <1>4, <3>1
    <3>4. s \in Seq(Nodes) /\ Len(s) \in Nat
      BY <3>2, LenProperties DEF NodesOK
    <3> HIDE DEF s, c
    <3>5. c \in Contents /\ c # Nothing
      BY <1>3 DEF c
    <3>6. /\ lru' \in Seq(Nodes) /\ Len(lru') = Len(s)
          /\ \A i \in 1..Len(s) : lru'[i].addr = s[i].addr /\ lru'[i].entry = s[i].entry
      <4>1. s \in Seq(Nodes) /\ s # <<>> /\ c \in Contents
        BY <3>2, <3>4, <3>5 DEF LastIs
      <4>2. /\ Shares(s, c) \in Seq(Nodes) /\ Len(Shares(s, c)) = Len(s)
            /\ \A i \in 1..Len(s) : /\ Shares(s, c)[i].addr = s[i].addr
                                    /\ Shares(s, c)[i].entry = s[i].entry
        BY ONLY <4>1, SharesAre
      <4>3. lru' = Shares(s, c)
        BY <3>1
      <4>4. QED
        BY ONLY <4>2, <4>3
    <3>7. DOMAIN lru' = 1..Len(s)
      BY <3>6, LenProperties
    <3>8. (\E i \in 1..Len(s) : s[i].addr = a /\ ~s[i].entry) => Written(a) = Unsure /\ stored[a] = Unsure
      BY <3>2, <3>6, <3>7 DEF Written, NodesOK
    <3>9. Written(a) = c \/ Written(a) = Unsure
      BY DEF Written, c
    <3>10. Written(a) = Unsure => \E i \in 1..Len(s) : s[i].addr = a /\ ~s[i].entry
      BY <3>5, <3>6, <3>7 DEF Written, c
    <3>11. Written(a) \in Contents \cup {Unsure}
      BY <3>5, <3>9
    <3> DEFINE w == Written(a)
    <3>12. StoreStep
      BY <1>5, <3>1, <3>8, <3>9, <3>10 DEF c
    <3>13. /\ stored' \in [Addrs -> Blocks \cup {Unsure}]
           /\ stored'[a] = w /\ \A b \in Addrs \ {a} : stored'[b] = stored[b]
      <4> HIDE DEF w
      <4>1. w \in Contents \cup {Unsure} /\ stored' = [stored EXCEPT ![a] = w]
        BY <3>3, <3>11 DEF w
      <4>2. QED
        BY <1>1, <4>1 DEF Blocks
    <3> HIDE DEF w
    <3>14. Settled(stored', changed', stored, changed, s, a, c)
      <4>1. stored'[a] = Unsure \/ c = BlockOf(stored'[a])
        BY <3>5, <3>9, <3>13 DEF BlockOf, w
      <4>2. QED
        BY <3>3, <3>8, <3>13, <4>1 DEF Settled, w
    <3>15. /\ NodesOK(lru', stored', changed') /\ HasBlock(lru', a)
           /\ \A b : HasBlock(s, b) => HasBlock(lru', b)
      BY <3>1, <3>2, <3>5, <3>14, NodesShare
    <3>16. DirtyOK(lru', dirty', stored')
      <4>1. stored'[a] # Nothing
        BY <3>11, <3>13 DEF w
      <4>2. QED
        BY <3>1, <3>2, <3>13, <3>15, <4>1 DEF DirtyOK, s
    <3>17. FileOK(file', dirty', stored', changed')
      BY <2>3, <3>1, <3>2, <3>3, <3>13 DEF FileOK
    <3>18. CacheTypes'
      BY <1>1, <1>2, <1>3, <2>3, <3>1, <3>3, <3>13 DEF CacheTypes
    <3>19. ModesInv'
      BY <1>1, <1>2, <1>3, <1>7, <3>1, <3>3 DEF ModesInv
    <3>20. QED
      BY <1>2, <3>12, <3>15, <3>16, <3>17, <3>18, <3>19, InvAfter
  <2>6. QED
    BY <2>4, <2>5
<1>8. QED
  BY <1>1, <1>6, <1>7

\* DiskBlock(addr).
LEMMA MakeStep ==
  ASSUME CacheInv, NEW a \in Addrs, MakeBlock(a)
  PROVE  CacheInv' /\ StoreStep
<1>1. /\ stored[a] \in {Nothing, Unsure} /\ Ready /\ held[a] = Nothing
      /\ held' = [held EXCEPT ![a] = Blank]
      /\ UNCHANGED <<max_size, lru, dirty, flushing, open, file, started, faults, stored, changed>>
  BY DEF MakeBlock, NewBlock, ioVars
<1>2. CacheTypes /\ ModesInv /\ open = TRUE /\ flushing = {}
  BY <1>1 DEF CacheInv, CacheTypes, Ready
<1>3. CacheTypes'
  BY <1>1, <1>2 DEF CacheTypes, Blocks
<1>4. ModesInv'
  BY <1>1, <1>2 DEF ModesInv, CacheTypes
<1>5. CacheInv'
  BY <1>1, <1>3, <1>4, InvAfter DEF CacheInv
<1>6. Store!StoreNewBlock(a)
  BY <1>1 DEF Store!StoreNewBlock
<1>7. StoreStep
  BY <1>2, <1>6 DEF StoreStep, Store!StoreNext
<1>8. QED
  BY <1>5, <1>7

\* The caller changes its buffer, and the block of the cache with it.
LEMMA ModifiedAre ==
  ASSUME lru \in Seq(Nodes), NEW a \in Addrs, NEW c \in Contents, Modify(a, c)
  PROVE  /\ lru' \in Seq(Nodes) /\ Len(lru') = Len(lru)
         /\ \A i \in 1..Len(lru) :
              /\ lru'[i].addr = lru[i].addr /\ lru'[i].entry = lru[i].entry
              /\ lru'[i].block = lru[i].block \/ lru[i].addr = a
              /\ lru[i].block # Nothing => lru'[i].block # Nothing
<1> DEFINE n == Len(lru)
           put(x) == [x EXCEPT !.block = c]
<1>1. lru' = [i \in DOMAIN lru |-> IF lru[i].addr = a /\ lru[i].shared THEN put(lru[i]) ELSE lru[i]]
  BY DEF Modify
<1>2. n \in Nat /\ DOMAIN lru = 1..n
  BY LenProperties
<1>3. \A i \in 1..n : lru[i] \in Nodes
  BY ElementOfSeq
<1>4. \A x \in Nodes : /\ put(x) \in Nodes /\ put(x).block = c
                       /\ put(x).addr = x.addr /\ put(x).entry = x.entry
  BY DEF Nodes, Blocks
<1> HIDE DEF put
<1>5. lru' \in [1..n -> Nodes]
  BY <1>1, <1>2, <1>3, <1>4
<1>6. lru' \in Seq(Nodes) /\ Len(lru') = n
  BY <1>2, <1>5
<1>7. ASSUME NEW i \in 1..n
      PROVE  /\ lru'[i].addr = lru[i].addr /\ lru'[i].entry = lru[i].entry
             /\ lru'[i].block = lru[i].block \/ lru[i].addr = a
             /\ lru[i].block # Nothing => lru'[i].block # Nothing
  <2>1. CASE lru[i].addr = a /\ lru[i].shared
    <3>1. lru'[i] = put(lru[i])
      BY <1>1, <1>2, <2>1
    <3>2. QED
      BY <1>3, <1>4, <2>1, <3>1
  <2>2. CASE ~(lru[i].addr = a /\ lru[i].shared)
    <3>1. lru'[i] = lru[i]
      BY <1>1, <1>2, <2>2
    <3>2. QED
      BY <3>1
  <2>3. QED
    BY <2>1, <2>2
<1>8. QED
  BY <1>6, <1>7

LEMMA ModifyStep ==
  ASSUME CacheInv, NEW a \in Addrs, NEW c \in Contents, ModifyHeld(a, c)
  PROVE  CacheInv' /\ StoreStep
<1> DEFINE n == Len(lru)
<1>1. /\ Ready /\ held[a] # Nothing
      /\ held' = [held EXCEPT ![a] = c] /\ changed' = changed \cup {a}
      /\ UNCHANGED <<max_size, dirty, flushing, open, file, started, faults, stored>>
  BY DEF ModifyHeld, Modify, ioVars
<1>2. /\ CacheTypes /\ ModesInv /\ open = TRUE /\ flushing = {}
      /\ NodesOK(lru, stored, changed) /\ DirtyOK(lru, dirty, stored)
      /\ FileOK(file, dirty, stored, changed)
  BY <1>1 DEF CacheInv, CacheTypes, Ready
<1>3. lru' \in Seq(Nodes) /\ Len(lru') = n
  BY <1>2, ModifiedAre DEF NodesOK, ModifyHeld
<1>4. \A i \in 1..n :
        /\ lru'[i].addr = lru[i].addr /\ lru'[i].entry = lru[i].entry
        /\ lru'[i].block = lru[i].block \/ lru[i].addr = a
        /\ lru[i].block # Nothing => lru'[i].block # Nothing
  BY <1>2, ModifiedAre DEF NodesOK, ModifyHeld
<1> HIDE DEF n
<1>5. NodesOK(lru', stored', changed')
  <2>1. ASSUME NEW i \in 1..n, NEW j \in 1..n,
               lru'[i].entry, lru'[j].entry, lru'[i].addr = lru'[j].addr
        PROVE  i = j
    BY <1>2, <1>4, <2>1 DEF NodesOK, n
  <2>2. ASSUME NEW i \in 1..n, ~lru'[i].entry PROVE stored'[lru'[i].addr] = Unsure
    BY <1>1, <1>2, <1>4, <2>2 DEF NodesOK, n
  <2>3. ASSUME NEW i \in 1..n, lru'[i].entry, lru'[i].block # Nothing
        PROVE  \/ stored'[lru'[i].addr] = Unsure \/ lru'[i].addr \in changed'
               \/ lru'[i].block = BlockOf(stored'[lru'[i].addr])
    <3>1. CASE lru[i].addr = a
      BY <1>1, <1>4, <3>1
    <3>2. CASE lru[i].addr # a
      <4>1. lru[i].entry /\ lru'[i].block = lru[i].block /\ lru'[i].addr = lru[i].addr
        BY <1>4, <2>3, <3>2
      <4>2. \/ stored[lru[i].addr] = Unsure \/ lru[i].addr \in changed
            \/ lru[i].block = BlockOf(stored[lru[i].addr])
        BY <1>2, <2>3, <4>1 DEF NodesOK, n
      <4>3. QED
        BY <1>1, <4>1, <4>2
    <3>3. QED
      BY <3>1, <3>2
  <2>4. QED
    BY <1>3, <2>1, <2>2, <2>3 DEF NodesOK
<1>6. \A b : HasBlock(lru, b) => HasBlock(lru', b)
  BY <1>3, <1>4 DEF HasBlock, n
<1>7. DirtyOK(lru', dirty', stored')
  BY <1>1, <1>2, <1>6 DEF DirtyOK
<1>8. FileOK(file', dirty', stored', changed')
  BY <1>1, <1>2 DEF FileOK
<1>9. CacheTypes'
  BY <1>1, <1>2 DEF CacheTypes, Blocks
<1>10. ModesInv'
  <2>1. lru = <<>> => lru' = <<>>
    BY <1>1, <1>3 DEF n
  <2>2. \A b \in changed' : held'[b] # Nothing
    BY <1>1, <1>2 DEF ModesInv, CacheTypes
  <2>3. QED
    BY <1>1, <1>2, <2>1, <2>2 DEF ModesInv
<1>11. CacheInv'
  BY <1>1, <1>5, <1>7, <1>8, <1>9, <1>10, InvAfter
<1>12. Store!StoreModify(a, c)
  BY <1>1 DEF Store!StoreModify
<1>13. StoreStep
  BY <1>2, <1>12 DEF StoreStep, Store!StoreNext
<1>14. QED
  BY <1>11, <1>13

\* A call of the tree is over.
LEMMA CallOverStep ==
  ASSUME CacheInv, CallOver
  PROVE  CacheInv' /\ StoreStep
<1> DEFINE sto == Store!Without(InCache)
<1>1. /\ Ready /\ held # NoBuffers /\ held' = NoBuffers /\ lru' = Unshared(lru)
      /\ changed' = {} /\ stored' = sto
      /\ UNCHANGED <<max_size, dirty, flushing, open, file, started, faults>>
  BY DEF CallOver, LetGo, ioVars
<1>2. /\ CacheTypes /\ ModesInv /\ open = TRUE /\ flushing = {}
      /\ NodesOK(lru, stored, changed) /\ DirtyOK(lru, dirty, stored)
      /\ FileOK(file, dirty, stored, changed)
  BY <1>1 DEF CacheInv, CacheTypes, Ready
<1>3. /\ sto \in [Addrs -> Blocks \cup {Unsure}]
      /\ \A b \in Addrs : sto[b] = IF b \in InCache THEN Unsure ELSE stored[b]
  BY <1>2 DEF CacheTypes, Store!Without
<1>4. NodesOK(lru, sto, {}) /\ DirtyOK(lru, dirty, sto) /\ FileOK(file, dirty, sto, {})
  <2>1. CASE max_size > 0
    <3>1. Weaker(sto, {}, stored, changed)
      BY <1>2, <2>1, WithoutWeaker DEF InCache
    <3> HIDE DEF sto
    <3>2. QED
      BY <1>2, <3>1, NodesWeaker, DirtyWeaker, FileWeaker
  <2>2. CASE max_size = 0
    <3>1. lru = <<>> /\ dirty = {} /\ InCache = {}
      BY <1>2, <2>2 DEF ModesInv, InCache
    <3> HIDE DEF sto
    <3>2. NodesOK(lru, sto, {}) /\ DirtyOK(lru, dirty, sto)
      BY <3>1, EmptySeq DEF NodesOK, DirtyOK
    <3>3. FileOK(file, dirty, sto, {})
      BY <1>2, <1>3, <2>2, <3>1 DEF FileOK
    <3>4. QED
      BY <3>2, <3>3
  <2>3. QED
    BY <1>2, <2>1, <2>2 DEF CacheTypes
<1>5. Store!StoreRaise
  <2>1. PICK a \in Addrs : TRUE
    BY <1>1, <1>2 DEF CacheTypes, NoBuffers
  <2>2. InCache \in SUBSET (changed \cup {a})
    BY DEF InCache
  <2>3. \E b \in Addrs : \E l \in SUBSET (changed \cup {b}) : stored' = Store!Without(l)
    BY <1>1, <2>2
  <2>4. QED
    BY <1>1, <2>3, NoBuffersHeld DEF Store!StoreRaise
<1> HIDE DEF sto
<1>6. /\ NodesOK(lru', stored', changed')
      /\ \A b : HasBlock(lru, b) => HasBlock(lru', b)
      /\ lru = <<>> => lru' = <<>>
  BY <1>1, <1>4, NodesUnshared
<1>7. DirtyOK(lru', dirty', stored')
  BY <1>1, <1>4, <1>6 DEF DirtyOK
<1>8. FileOK(file', dirty', stored', changed')
  BY <1>1, <1>4
<1>9. CacheTypes'
  BY <1>1, <1>2, <1>3, NoBuffersHeld DEF CacheTypes
<1>10. ModesInv'
  BY <1>1, <1>2, <1>6 DEF ModesInv
<1>11. CacheInv'
  BY <1>1, <1>6, <1>7, <1>8, <1>9, <1>10, InvAfter
<1>12. StoreStep
  BY <1>2, <1>5 DEF StoreStep, Store!StoreNext
<1>13. QED
  BY <1>11, <1>12

\* A cache without blocks, over a file that has all that is stored.
LEMMA NoCacheInv ==
  ASSUME CacheTypes, NoCache, held' = NoBuffers, changed' = {}, max_size' \in Nat,
         started' \in BOOLEAN, faults' \in Nat, file' \in [Addrs -> Blocks],
         stored' \in [Addrs -> Blocks \cup {Unsure}],
         \A b \in Addrs : stored'[b] = Unsure \/ file'[b] = stored'[b]
  PROVE  CacheInv'
<1>1. lru' = <<>> /\ dirty' = {} /\ flushing' = {} /\ open' = FALSE
  BY DEF NoCache
<1>2. NodesOK(lru, stored, changed)' /\ DirtyOK(lru, dirty, stored)'
  BY <1>1, EmptySeq DEF NodesOK, DirtyOK
<1>3. FileOK(file, dirty, stored, changed)'
  BY DEF FileOK
<1>4. CacheTypes'
  BY <1>1, NoBuffersHeld DEF CacheTypes
<1>5. ModesInv'
  BY <1>1 DEF ModesInv
<1>6. QED
  BY <1>2, <1>3, <1>4, <1>5 DEF CacheInv

\* flush() (disk.py:114-116), and close() with it: nothing is lost.
LEMMA CloseStep ==
  ASSUME CacheInv, Close
  PROVE  CacheInv' /\ StoreStep
<1>1. /\ CacheTypes /\ ModesInv /\ NodesOK(lru, stored, changed) /\ DirtyOK(lru, dirty, stored)
      /\ FileOK(file, dirty, stored, changed) /\ IoTypes
  BY DEF CacheInv, CacheTypes, FileOK, IoTypes
<1>2. UNCHANGED <<stored, changed>>
  BY DEF Close
<1>3. ASSUME held = NoBuffers PROVE changed = {}
  BY <1>1, <1>3 DEF CacheTypes, ModesInv, NoBuffers
<1>4. ASSUME held = NoBuffers, open, NoCache, UNCHANGED held PROVE StoreStep
  BY <1>2, <1>4, NoBuffersHeld
     DEF NoCache, StoreStep, Store!StoreNext, Store!StoreClose
<1>5. ASSUME UNCHANGED <<held, open>> PROVE StoreStep
  BY <1>2, <1>5 DEF StoreStep, Store!storeVars
<1>6. CASE Flush
  <2>1. /\ Ready /\ held = NoBuffers /\ open /\ changed = {}
        /\ UNCHANGED <<max_size, held, file, started, faults>>
    BY <1>3, <1>6 DEF Flush, Ready, ioVars
  <2>2. CASE dirty = {}
    <3>1. NoCache
      BY <1>6, <2>2 DEF Flush
    <3>2. \A b \in Addrs : stored'[b] = Unsure \/ file'[b] = stored'[b]
      BY <1>1, <1>2, <2>1, <2>2 DEF FileOK
    <3>3. CacheInv'
      BY <1>1, <1>2, <2>1, <3>1, <3>2, NoCacheInv DEF CacheTypes, IoTypes
    <3>4. QED
      BY <1>4, <2>1, <3>1, <3>3
  <2>3. CASE dirty # {}
    <3>1. flushing' = dirty /\ UNCHANGED <<lru, dirty, open>>
      BY <1>6, <2>3 DEF Flush
    <3>2. CacheTypes'
      BY <1>1, <1>2, <2>1, <3>1 DEF CacheTypes
    <3>3. ModesInv'
      BY <1>1, <1>2, <2>1, <3>1, NoBuffersHeld DEF ModesInv, FileOK
    <3>4. CacheInv'
      BY <1>1, <1>2, <2>1, <3>1, <3>2, <3>3, InvAfter
    <3>5. QED
      BY <1>5, <2>1, <3>1, <3>4
  <2>4. QED
    BY <2>2, <2>3
<1>7. ASSUME NEW a \in Addrs, FlushBlock(a) PROVE CacheInv' /\ StoreStep
  <2> DEFINE c == lru[index(a)].block
  <2>1. /\ open /\ a \in flushing /\ held = NoBuffers /\ changed = {} /\ a \in dirty
        /\ UNCHANGED <<max_size, held>>
        /\ \A b \in Addrs \ flushing : stored[b] = Unsure \/ file[b] = stored[b]
    BY <1>1, <1>3, <1>7 DEF FlushBlock, ModesInv, CacheTypes
  <2>2. PICK io \in _write_block(IoNow, a, c) :
          /\ PerformIo(io)
          /\ IF io.ok /\ flushing = {a} THEN NoCache
             ELSE /\ flushing' = IF io.ok THEN flushing \ {a} ELSE {}
                  /\ UNCHANGED <<lru, dirty, open>>
    BY <1>7 DEF FlushBlock
  <2>3. c \in Contents /\ (stored[a] = Unsure \/ c = stored[a])
    <3>1. a \in cached /\ c # Nothing /\ stored[a] # Nothing
      BY <1>1, <2>1, HasBlockIs DEF DirtyOK
    <3>2. index(a) \in 1..Len(lru) /\ lru[index(a)].entry /\ lru[index(a)].addr = a
      BY <1>1, <3>1, IndexIs
    <3>3. lru[index(a)] \in Nodes
      BY <1>1, <3>2, ElementOfSeq DEF NodesOK
    <3>4. c \in Contents
      BY <3>1, <3>3 DEF Nodes, Blocks
    <3>5. stored[a] = Unsure \/ c = BlockOf(stored[a])
      BY <1>1, <2>1, <3>1, <3>2 DEF NodesOK
    <3>6. QED
      BY <3>1, <3>4, <3>5 DEF BlockOf
  <2> HIDE DEF c
  <2>4. /\ io \in Ios /\ \A b \in Addrs \ {a} : io.file[b] = file[b]
        /\ io.ok => io.file[a] = c
    BY <1>1, <2>2, <2>3, WriteBlockIs
  <2>5. /\ file' = io.file /\ started' = io.started /\ faults' = io.faults
        /\ file' \in [Addrs -> Blocks] /\ started' \in BOOLEAN /\ faults' \in Nat
    BY <2>2, <2>4, IoParts DEF PerformIo
  <2>6. CASE io.ok /\ flushing = {a}
    <3>1. NoCache
      BY <2>2, <2>6
    <3>2. \A b \in Addrs : stored'[b] = Unsure \/ file'[b] = stored'[b]
      BY <1>2, <2>1, <2>3, <2>4, <2>5, <2>6
    <3>3. CacheInv'
      BY <1>1, <1>2, <2>1, <2>5, <3>1, <3>2, NoCacheInv DEF CacheTypes
    <3>4. QED
      BY <1>4, <2>1, <3>1, <3>3
  <2>7. CASE ~(io.ok /\ flushing = {a})
    <3>1. /\ flushing' = (IF io.ok THEN flushing \ {a} ELSE {})
          /\ UNCHANGED <<lru, dirty, open>>
      BY <2>2, <2>7
    <3>2. CacheTypes'
      BY <1>1, <1>2, <2>1, <2>5, <3>1 DEF CacheTypes
    <3>3. ModesInv'
      <4>1. ASSUME flushing' # {}, NEW b \in Addrs \ flushing'
            PROVE  stored'[b] = Unsure \/ file'[b] = stored'[b]
        <5>1. io.ok /\ (b = a \/ b \notin flushing)
          BY <3>1, <4>1
        <5>2. CASE b = a
          BY <1>2, <2>3, <2>4, <2>5, <5>1, <5>2
        <5>3. CASE b # a
          BY <1>2, <2>1, <2>4, <2>5, <5>1, <5>3
        <5>4. QED
          BY <5>2, <5>3
      <4>2. held' = NoBuffers /\ changed' = {} /\ open'
        BY <1>2, <2>1, <3>1
      <4>3. max_size' = 0 => lru' = <<>> /\ dirty' = {}
        BY <1>1, <2>1, <3>1 DEF ModesInv
      <4> QED
        BY <4>1, <4>2, <4>3, NoBuffersHeld DEF ModesInv
    <3>4. FileOK(file', dirty', stored', changed')
      BY <1>1, <1>2, <2>1, <2>4, <2>5, <3>1 DEF FileOK
    <3>5. CacheInv'
      BY <1>1, <1>2, <2>1, <3>1, <3>2, <3>3, <3>4, InvAfter
    <3>6. QED
      BY <1>5, <2>1, <3>1, <3>5
  <2>8. QED
    BY <2>6, <2>7
<1>8. QED
  BY <1>6, <1>7 DEF Close

\* A cache of another size is made for the file.
LEMMA ReopenStep ==
  ASSUME CacheInv, Reopen
  PROVE  CacheInv' /\ StoreStep
<1>1. /\ ~open /\ open' = TRUE /\ max_size' \in Nat
      /\ UNCHANGED <<lru, dirty, flushing, held, file, started, faults, stored, changed>>
  BY DEF Reopen, Open, ioVars
<1>2. /\ CacheTypes /\ ModesInv /\ lru = <<>> /\ dirty = {} /\ held = NoBuffers /\ flushing = {}
      /\ FileOK(file, dirty, stored, changed)
  BY <1>1 DEF CacheInv, ModesInv, CacheTypes
<1>3. changed = {}
  BY <1>2 DEF CacheTypes, ModesInv, NoBuffers
<1>4. CacheTypes'
  BY <1>1, <1>2 DEF CacheTypes
<1>5. ModesInv'
  BY <1>1, <1>2, <1>3, NoBuffersHeld DEF ModesInv
<1>6. NodesOK(lru, stored, changed)' /\ DirtyOK(lru, dirty, stored)'
  BY <1>1, <1>2, EmptySeq DEF NodesOK, DirtyOK
<1>7. FileOK(file, dirty, stored, changed)'
  BY <1>1, <1>2, <1>3 DEF FileOK
<1>8. CacheInv'
  BY <1>4, <1>5, <1>6, <1>7 DEF CacheInv
<1>9. StoreStep
  BY <1>1 DEF StoreStep, Store!StoreNext, Store!StoreOpen
<1>10. QED
  BY <1>8, <1>9

\* The process ends; what was dirty or changed is unsure.
LEMMA EndStep ==
  ASSUME CacheInv, ProcessEnds
  PROVE  CacheInv' /\ StoreStep
<1> DEFINE lost == InCache \cup IF flushing = {} THEN dirty ELSE flushing
           sto  == Store!Without(lost)
<1>1. /\ NoCache /\ held' = NoBuffers /\ started' = FALSE /\ changed' = {} /\ stored' = sto
      /\ UNCHANGED <<max_size, file, faults>> /\ open' = FALSE
  BY DEF ProcessEnds, Exit, NoCache
<1>2. /\ CacheTypes /\ ModesInv /\ DirtyOK(lru, dirty, stored)
      /\ FileOK(file, dirty, stored, changed)
  BY DEF CacheInv
<1>3. lost \in SUBSET Addrs
  BY <1>2 DEF CacheTypes, DirtyOK, InCache
<1>4. /\ sto \in [Addrs -> Blocks \cup {Unsure}]
      /\ \A b \in Addrs : sto[b] = IF b \in lost THEN Unsure ELSE stored[b]
  BY <1>2 DEF CacheTypes, Store!Without
<1>5. StoreStep
  <2>1. CASE open
    <3>1. \E l \in SUBSET Addrs : stored' = Store!Without(l)
      BY <1>1, <1>3
    <3>2. Store!StoreExit
      BY <1>1, <3>1, NoBuffersHeld DEF Store!StoreExit
    <3>3. QED
      BY <2>1, <3>2 DEF StoreStep, Store!StoreNext
  <2>2. CASE ~open
    <3>1. held = NoBuffers /\ dirty = {} /\ flushing = {} /\ open = FALSE
      BY <1>2, <2>2 DEF ModesInv, CacheTypes
    <3>2. changed = {}
      BY <1>2, <3>1 DEF CacheTypes, ModesInv, NoBuffers
    <3>3. lost = {}
      BY <3>1, <3>2 DEF InCache
    <3> HIDE DEF lost, sto
    <3>4. sto = stored
      BY <1>2, <1>4, <3>3 DEF CacheTypes
    <3>5. QED
      BY <1>1, <3>1, <3>2, <3>4 DEF StoreStep, Store!storeVars
  <2>3. QED
    BY <2>1, <2>2
<1>6. \A b \in Addrs : sto[b] = Unsure \/ file[b] = sto[b]
  <2>1. ASSUME NEW b \in Addrs, b \notin lost PROVE stored[b] = Unsure \/ file[b] = stored[b]
    <3>1. CASE flushing = {}
      BY <1>2, <2>1, <3>1 DEF FileOK, InCache
    <3>2. CASE flushing # {}
      BY <1>2, <2>1, <3>2 DEF ModesInv
    <3>3. QED
      BY <3>1, <3>2
  <2> HIDE DEF sto, lost
  <2>2. QED
    BY <1>4, <2>1
<1> HIDE DEF sto, lost
<1>7. CacheInv'
  BY <1>1, <1>2, <1>4, <1>6, NoCacheInv DEF CacheTypes, FileOK
<1>8. QED
  BY <1>5, <1>7

-----------------------------------------------------------------------------
(* The theorems *)

LEMMA CacheInitInv == CPInit => CacheInv /\ Store!StoreInit
<1> SUFFICES ASSUME CPInit PROVE CacheInv /\ Store!StoreInit
  OBVIOUS
<1>1. /\ max_size \in Nat /\ file = NoBuffers /\ started = FALSE /\ faults = 0
      /\ lru = <<>> /\ dirty = {} /\ flushing = {} /\ open = TRUE /\ held = NoBuffers
      /\ stored = NoBuffers /\ changed = {}
  BY NoBuffersHeld DEF CPInit, CacheInit
<1>2. NodesOK(lru, stored, changed) /\ DirtyOK(lru, dirty, stored)
  BY <1>1, EmptySeq DEF NodesOK, DirtyOK
<1>3. FileOK(file, dirty, stored, changed)
  BY <1>1, NoBuffersHeld DEF FileOK
<1>4. CacheTypes
  BY <1>1, NoBuffersHeld DEF CacheTypes
<1>5. ModesInv
  BY <1>1 DEF ModesInv
<1>6. QED
  BY <1>1, <1>2, <1>3, <1>4, <1>5, NoBuffersHeld DEF CacheInv, Store!StoreInit

LEMMA CacheStepInv == CacheInv /\ [CPNext]_cpvars => CacheInv' /\ StoreStep
<1> SUFFICES ASSUME CacheInv, [CPNext]_cpvars PROVE CacheInv' /\ StoreStep
  OBVIOUS
<1>1. ASSUME NEW a \in Addrs,
             \/ ReadBlock(a) \/ MakeBlock(a) \/ WriteHeld(a)
             \/ \E c \in Contents : ModifyHeld(a, c)
      PROVE  CacheInv' /\ StoreStep
  BY <1>1, ReadStep, MakeStep, WriteStep, ModifyStep
<1>2. CASE CallOver \/ Close \/ Reopen \/ ProcessEnds
  BY <1>2, CallOverStep, CloseStep, ReopenStep, EndStep
<1>3. CASE UNCHANGED cpvars
  <2>1. UNCHANGED <<max_size, lru, dirty, flushing, open, held, file, started, faults,
                    stored, changed>>
    BY <1>3 DEF cpvars, cacheVars, ioVars
  <2>2. CacheTypes' /\ ModesInv'
    BY <2>1 DEF CacheInv, CacheTypes, ModesInv, NoBuffers
  <2>3. CacheInv'
    BY <2>1, <2>2, InvAfter DEF CacheInv
  <2>4. StoreStep
    BY <2>1 DEF StoreStep, Store!storeVars
  <2>5. QED
    BY <2>3, <2>4
<1>4. QED
  BY <1>1, <1>2, <1>3 DEF CPNext

\* The inductive invariant, in every reachable state, whatever the addresses, the
\* sizes and the calls that fail.
THEOREM CacheInvariantHolds == CPSpec => []CacheInv
<1>1. CPInit => CacheInv
  BY CacheInitInv
<1>2. CacheInv /\ [CPNext]_cpvars => CacheInv'
  BY CacheStepInv
<1>3. QED
  BY <1>1, <1>2, PTL DEF CPSpec

\* disk.BlockCache of any size, with the file and with system calls that fail, is
\* a BlockStore: its callers cannot tell it from a file of blocks.
THEOREM CacheIsAStore == CPSpec => ImplementsStore
<1>1. CPInit => Store!StoreInit
  BY CacheInitInv
<1>2. CacheInv /\ [CPNext]_cpvars => [Store!StoreNext]_(Store!storeVars)
  BY CacheStepInv DEF StoreStep
<1>3. QED
  BY <1>1, <1>2, CacheInvariantHolds, PTL DEF CPSpec, ImplementsStore, Store!StoreSpec

\* Evictions, re-reads, flushes and failed I/O lose and resurrect no write: the
\* block in the cache, or else in the file, is the one last written.
THEOREM NoWriteIsLost == CPSpec => []NoWriteLost
<1>1. CacheInv => NoWriteLost
  <2> SUFFICES ASSUME CacheInv, NEW a \in Sure \ changed
               PROVE  IF a \in cached /\ lru[index(a)].block # Nothing
                      THEN lru[index(a)].block = Store!BlockRead(stored[a])
                      ELSE file[a] = stored[a]
    BY DEF NoWriteLost
  <2>1. /\ NodesOK(lru, stored, changed) /\ DirtyOK(lru, dirty, stored)
        /\ FileOK(file, dirty, stored, changed) /\ a \in Addrs /\ stored[a] # Unsure
    BY DEF CacheInv, Sure
  <2>2. CASE a \in cached /\ lru[index(a)].block # Nothing
    <3>1. index(a) \in 1..Len(lru) /\ lru[index(a)].entry /\ lru[index(a)].addr = a
      BY <2>1, <2>2, IndexIs
    <3>2. lru[index(a)].block = BlockOf(stored[a])
      BY <2>1, <2>2, <3>1 DEF NodesOK
    <3>3. QED
      BY <2>2, <3>2 DEF BlockOf, Store!BlockRead
  <2>3. CASE ~(a \in cached /\ lru[index(a)].block # Nothing)
    <3>1. a \notin dirty
      BY <2>1, <2>3, HasBlockIs DEF DirtyOK
    <3>2. file[a] = stored[a]
      BY <2>1, <3>1 DEF FileOK
    <3>3. QED
      BY <2>3, <3>2
  <2>4. QED
    BY <2>2, <2>3
<1>2. QED
  BY <1>1, CacheInvariantHolds, PTL

\* Once close() has returned the file holds all that was written.
THEOREM CloseWritesAll == CPSpec => []ClosedIsWritten
<1>1. CacheInv => ClosedIsWritten
  <2> SUFFICES ASSUME CacheInv, ~open, NEW a \in Sure PROVE file[a] = stored[a]
    BY DEF ClosedIsWritten
  <2>1. dirty = {} /\ held = NoBuffers
    BY DEF CacheInv, ModesInv
  <2>2. changed = {}
    BY <2>1 DEF CacheInv, CacheTypes, ModesInv, NoBuffers
  <2>3. QED
    BY <2>1, <2>2 DEF CacheInv, FileOK, Sure
<1>2. QED
  BY <1>1, CacheInvariantHolds, PTL

\* flush() finds each dirty block in the dictionary, and read.
THEOREM FlushFindsAll == CPSpec => []FlushFindsItsBlocks
<1>1. CacheInv => FlushFindsItsBlocks
  BY HasBlockIs DEF CacheInv, DirtyOK, FlushFindsItsBlocks
<1>2. QED
  BY <1>1, CacheInvariantHolds, PTL

\* While the start time an OSError left is there no step writes to the file.
LEMMA FailStopStep == CacheInv /\ CPNext => (started => file' = file)
<1> SUFFICES ASSUME CacheInv, CPNext, started PROVE file' = file
  OBVIOUS
<1>1. /\ IoTypes /\ max_size \in Nat /\ held \in [Addrs -> Blocks]
      /\ IoNow \in Ios /\ IoNow.ok /\ IoNow.file = file
  BY IoNowType DEF CacheInv, CacheTypes, FileOK, IoTypes
<1>2. ASSUME max_size > 0, NEW a \in Addrs, NEW acc \in _access(a)
      PROVE  acc.io \in Ios /\ acc.io.file = file
  BY <1>2, AccessIs
<1>3. ASSUME NEW a \in Addrs, ReadBlock(a) PROVE file' = file
  <2>1. PICK acc \in IF max_size = 0 THEN {[lru |-> lru, dirty |-> dirty, io |-> IoNow]} ELSE _access(a) :
          \E io \in IF acc.io.ok /\ InNode(acc.lru) = Nothing THEN _read_block(acc.io) ELSE {acc.io} :
            PerformIo(io)
    BY <1>3 DEF ReadBlock, Read
  <2>2. acc.io \in Ios /\ acc.io.file = file
    BY <1>1, <1>2, <2>1
  <2>3. PICK io \in IF acc.io.ok /\ InNode(acc.lru) = Nothing THEN _read_block(acc.io) ELSE {acc.io} :
          PerformIo(io)
    BY <2>1
  <2>4. io.file = file
    BY <2>2, <2>3, ReadBlockIs
  <2>5. QED
    BY <2>3, <2>4 DEF PerformIo
<1>4. ASSUME NEW a \in Addrs, WriteHeld(a) PROVE file' = file
  <2>1. CASE max_size = 0
    <3>1. PICK io \in _write_block(IoNow, a, held[a]) : PerformIo(io)
      BY <1>4, <2>1 DEF WriteHeld, Write
    <3>2. held[a] \in Contents
      BY <1>1, <1>4 DEF WriteHeld, Write, Blocks
    <3>3. started => io.file = file /\ io.started
      BY <1>1, <3>1, <3>2, WriteBlockIs
    <3>4. QED
      BY <3>1, <3>3 DEF PerformIo
  <2>2. CASE max_size > 0
    <3>1. max_size # 0
      BY <2>2
    <3>2. PICK acc \in _access(a) : PerformIo(acc.io)
      BY <1>4, <3>1 DEF WriteHeld, Write
    <3>3. QED
      BY <1>2, <2>2, <3>2 DEF PerformIo
  <2>3. QED
    BY <1>1, <2>1, <2>2
<1>5. ASSUME NEW a \in Addrs, FlushBlock(a) PROVE file' = file
  <2> DEFINE c == lru[index(a)].block
  <2>1. PICK io \in _write_block(IoNow, a, c) : PerformIo(io)
    BY <1>5 DEF FlushBlock
  <2>2. a \in cached /\ c # Nothing
    BY <1>5, HasBlockIs DEF CacheInv, CacheTypes, DirtyOK, FlushBlock
  <2>3. lru[index(a)] \in Nodes
    BY <2>2, IndexIs, ElementOfSeq DEF CacheInv, NodesOK
  <2>4. c \in Contents
    BY <2>2, <2>3 DEF Nodes, Blocks
  <2> HIDE DEF c
  <2>5. IoTypes /\ io \in _write_block(IoNow, a, c)
    BY <1>1, <2>1
  <2>6. started => io.file = file /\ io.started
    BY <2>4, <2>5, WriteBlockIs
  <2>7. QED
    BY <2>1, <2>6 DEF PerformIo
<1>6. ASSUME NEW a \in Addrs, MakeBlock(a) \/ \E c \in Contents : ModifyHeld(a, c)
      PROVE  file' = file
  BY <1>6 DEF MakeBlock, NewBlock, ModifyHeld, Modify, ioVars
<1>7. CASE CallOver \/ Flush \/ Reopen \/ ProcessEnds
  BY <1>7 DEF CallOver, LetGo, Flush, Reopen, Open, ProcessEnds, Exit, ioVars
<1>8. QED
  BY <1>3, <1>4, <1>5, <1>6, <1>7 DEF CPNext, Close

\* After an OSError nothing reaches the file any more, until the process ends.
THEOREM FailuresStop == CPSpec => FailStop
<1>1. CacheInv /\ [CPNext]_cpvars => [started /\ started' => file' = file]_cpvars
  BY FailStopStep
<1>2. QED
  BY <1>1, CacheInvariantHolds, PTL DEF CPSpec, FailStop

-----------------------------------------------------------------------------
(* Until a system call fails the list is that of the blocks used last *)

AllRead(nodes, n) == \A i \in 1..n : nodes[i].entry /\ nodes[i].block # Nothing

Listed(nodes, addrs) ==
  /\ addrs \in Seq(Addrs) /\ Len(addrs) = Len(nodes)
  /\ \A i \in 1..Len(nodes) : nodes[i].addr = addrs[i]

RecentInv ==
  faults = 0 =>
    /\ ~started
    /\ Len(lru) <= max_size /\ AllRead(lru, Len(lru))
    /\ open => Listed(lru, recent)

\* The dictionary has as many entries as the list has nodes.
LEMMA CardinalityIs ==
  ASSUME NodesOK(lru, stored, changed), AllRead(lru, Len(lru))
  PROVE  Cardinality(cached) = Len(lru)
<1> DEFINE n == Len(lru)
           f == [i \in 1..n |-> lru[i].addr]
<1>1. lru \in Seq(Nodes) /\ n \in Nat
  BY LenProperties DEF NodesOK
<1>2. \A b : b \in cached <=> \E i \in 1..n : lru[i].addr = b
  BY <1>1, CachedIs DEF AllRead
<1>3. f \in [1..n -> cached]
  BY <1>2
<1>4. \A i, j \in 1..n : f[i] = f[j] => i = j
  BY DEF NodesOK, AllRead
<1>5. \A b \in cached : \E i \in 1..n : f[i] = b
  BY <1>2
<1> HIDE DEF f
<1>6. f \in Bijection(1..n, cached)
  BY <1>3, <1>4, <1>5 DEF Bijection, Injection, Surjection, IsInjective
<1>7. ExistsBijection(1..n, cached)
  BY <1>6 DEF ExistsBijection
<1>8. IsFiniteSet(1..n) /\ Cardinality(1..n) = n
  BY <1>1, FS_Interval
<1>9. QED
  BY <1>7, <1>8, FS_Bijection

LEMMA RemoveFirstIs ==
  ASSUME NEW S, NEW s \in Seq(S), NEW k \in 1..Len(s), \A i \in 1..Len(s) : s[i] = s[k] => i = k
  PROVE  RemoveFirst(s, s[k]) = RemoveAt(s, k)
<1> DEFINE I == {i \in 1..Len(s) : s[i] = s[k]}
<1>1. I = {k} /\ I # {}
  OBVIOUS
<1>2. Min(I) = k
  BY <1>1 DEF Min
<1>3. SelectInSeq(s, LAMBDA v : v = s[k]) = k
  BY <1>1, <1>2 DEF SelectInSeq
<1>4. QED
  BY <1>3 DEF RemoveFirst

\* What _access leaves, for a list of blocks used last, is the list with a last.
ListsUsed(nodes, addrs) ==
  /\ nodes \in Seq(Nodes) /\ nodes # <<>> /\ Len(nodes) <= max_size
  /\ AllRead(nodes, Len(nodes) - 1) /\ nodes[Len(nodes)].entry
  /\ Listed(nodes, addrs)

LEMMA HitIsRecent ==
  ASSUME NodesOK(lru, stored, changed), max_size \in Nat, Len(lru) <= max_size,
         AllRead(lru, Len(lru)), Listed(lru, recent), NEW a \in cached, faults' = 0, Used(a)
  PROVE  ListsUsed(used(a), recent')
<1> DEFINE k == index(a)
           n == Len(lru)
           r == Append(RemoveAt(lru, k), lru[k])
           t == Append(RemoveAt(recent, k), recent[k])
<1>1. /\ lru \in Seq(Nodes) /\ n \in Nat /\ recent \in Seq(Addrs) /\ Len(recent) = n
      /\ \A i \in 1..n : lru[i].addr = recent[i]
  BY LenProperties DEF NodesOK, Listed
<1>2. k \in 1..n /\ lru[k].addr = a /\ recent[k] = a
  BY <1>1, IndexIs
<1>3. r = used(a)
  BY DEF used
<1> HIDE DEF k, n
<1>4. RemoveFirst(recent, recent[k]) = RemoveAt(recent, k)
  <2>1. \A i \in 1..n : recent[i] = recent[k] => i = k
    BY <1>1, <1>2 DEF NodesOK, AllRead, n
  <2>2. QED
    BY <1>1, <1>2, <2>1, RemoveFirstIs
<1>5. /\ r \in Seq(Nodes) /\ Len(r) = n
      /\ \A i \in 1..n : r[i] = IF i < k THEN lru[i] ELSE IF i < n THEN lru[i + 1] ELSE lru[k]
  BY <1>1, <1>2, MovedToEnd DEF n
<1>6. /\ t \in Seq(Addrs) /\ Len(t) = n
      /\ \A i \in 1..n : t[i] = IF i < k THEN recent[i] ELSE IF i < n THEN recent[i + 1] ELSE recent[k]
  BY <1>1, <1>2, MovedToEnd
<1>7. t = Append(RemoveFirst(recent, a), a)
  BY <1>2, <1>4
<1> HIDE DEF r, t
<1>8. recent' = t
  BY <1>1, <1>6, <1>7 DEF Used, n
<1>9. ASSUME NEW i \in 1..n PROVE r[i].addr = t[i] /\ r[i].entry /\ r[i].block # Nothing
  <2>1. PICK j \in 1..n : r[i] = lru[j] /\ t[i] = recent[j]
    <3>1. CASE i < k
      BY <1>5, <1>6, <3>1
    <3>2. CASE ~(i < k) /\ i < n
      <4>1. i + 1 \in 1..n
        BY <1>1, <3>2
      <4>2. QED
        BY <1>5, <1>6, <3>2, <4>1
    <3>3. CASE ~(i < k) /\ ~(i < n)
      BY <1>2, <1>5, <1>6, <3>3
    <3>4. QED
      BY <3>1, <3>2, <3>3
  <2>2. QED
    BY <1>1, <2>1 DEF AllRead, n
<1>10. r # <<>> /\ n \in 1..n
  BY <1>1, <1>2, <1>5, EmptySeq
<1>11. Listed(r, t)
  BY <1>5, <1>6, <1>9 DEF Listed
<1>12. AllRead(r, n - 1) /\ r[n].entry
  BY <1>1, <1>9, <1>10 DEF AllRead
<1>13. QED
  BY <1>3, <1>5, <1>8, <1>10, <1>11, <1>12 DEF ListsUsed, n

\* A list of nodes and one of addresses that agree, each with a at its end.
LEMMA AppendIsListed ==
  ASSUME NEW s \in Seq(Nodes), NEW t, Listed(s, t), AllRead(s, Len(s)), NEW a \in Addrs,
         Len(s) < max_size, max_size \in Nat
  PROVE  ListsUsed(Append(s, LRUNode(a)), Append(t, a))
<1> DEFINE n == Len(s)
           node == LRUNode(a)
           r == Append(s, node)
           u == Append(t, a)
<1>1. node \in Nodes /\ node.entry /\ node.addr = a
  BY DEF LRUNode, Nodes, Blocks
<1>2. n \in Nat /\ t \in Seq(Addrs) /\ Len(t) = n
  BY LenProperties DEF Listed
<1> HIDE DEF node
<1>3. /\ r \in Seq(Nodes) /\ Len(r) = n + 1 /\ r # <<>> /\ r[n + 1] = node
      /\ \A i \in 1..n : r[i] = s[i]
  BY <1>1, AppendProperties
<1>4. /\ u \in Seq(Addrs) /\ Len(u) = n + 1 /\ u[n + 1] = a
      /\ \A i \in 1..n : u[i] = t[i]
  BY <1>2, AppendProperties
<1> HIDE DEF r, u
<1>5. \A i \in 1..(n + 1) : i \in 1..n \/ i = n + 1
  BY <1>2
<1>6. Listed(r, u)
  BY <1>1, <1>3, <1>4, <1>5 DEF Listed
<1>7. (n + 1) - 1 = n /\ n + 1 <= max_size
  BY <1>2
<1>8. AllRead(r, Len(r) - 1) /\ r[Len(r)].entry
  BY <1>1, <1>3, <1>7 DEF AllRead
<1>9. QED
  BY <1>3, <1>6, <1>7, <1>8 DEF ListsUsed, r, u, node

LEMMA MissIsRecent ==
  ASSUME NodesOK(lru, stored, changed), max_size \in Nat, max_size > 0, Len(lru) <= max_size,
         AllRead(lru, Len(lru)), Listed(lru, recent), NEW a \in Addrs, a \notin cached,
         faults' = 0, Used(a)
  PROVE  ListsUsed(used(a), recent')
<1> DEFINE n == Len(lru)
           all == Append(recent, a)
<1>1. /\ lru \in Seq(Nodes) /\ n \in Nat /\ recent \in Seq(Addrs) /\ Len(recent) = n
      /\ \A i \in 1..n : lru[i].addr = recent[i] /\ lru[i].entry /\ lru[i].block # Nothing
  BY LenProperties DEF NodesOK, Listed, AllRead
<1>2. Cardinality(cached) = n
  BY CardinalityIs
<1>3. \A i \in 1..Len(recent) : recent[i] # a
  BY <1>1, CachedIs
<1>4. RemoveFirst(recent, a) = recent
  BY <1>3 DEF RemoveFirst
<1>5. /\ all \in Seq(Addrs) /\ Len(all) = n + 1 /\ all[n + 1] = a
      /\ \A i \in 1..n : all[i] = recent[i]
  BY <1>1, AppendProperties
<1>6. recent' = IF Len(all) > max_size THEN SubSeq(all, Len(all) - max_size + 1, Len(all)) ELSE all
  BY <1>4 DEF Used
<1>7. CASE ~Evicts(a)
  <2>1. n < max_size
    BY <1>1, <1>2, <1>7 DEF Evicts
  <2>2. used(a) = Append(lru, LRUNode(a)) /\ recent' = all
    BY <1>1, <1>5, <1>6, <1>7, <2>1 DEF used
  <2>3. QED
    BY <1>1, <2>1, <2>2, AppendIsListed
<1>8. CASE Evicts(a)
  <2> DEFINE s == Tail(unhooked)
             t == SubSeq(recent, 2, n)
  <2>1. n = max_size /\ n \in 1..n /\ lru # <<>>
    BY <1>1, <1>2, <1>8, EmptySeq DEF Evicts
  <2>2. used(a) = Append(s, LRUNode(a))
    BY <1>8 DEF used, reused, Evicts
  <2>3. recent' = SubSeq(all, 2, n + 1)
    <3> HIDE DEF all
    <3>1. (n + 1) - n + 1 = 2
      BY <1>1
    <3>2. QED
      BY <1>1, <1>5, <1>6, <2>1, <3>1
  <2>4. /\ s \in Seq(Nodes) /\ Len(s) = n - 1
        /\ \A i \in 1..(n - 1) :
             /\ s[i].addr = lru[i + 1].addr /\ s[i].block = lru[i + 1].block
             /\ s[i].entry = (lru[i + 1].entry /\ lru[i + 1].addr # victim.addr)
    BY <2>1, VictimGone DEF NodesOK
  <2>5. /\ t \in Seq(Addrs) /\ Len(t) = n - 1 /\ \A i \in 1..(n - 1) : t[i] = recent[i + 1]
    <3>1. \A i \in 2..n : recent[i] \in Addrs
      BY <1>1, ElementOfSeq
    <3>2. /\ t \in Seq(Addrs) /\ Len(t) = IF 2 <= n THEN n - 2 + 1 ELSE 0
          /\ \A i \in 1..(n - 2 + 1) : t[i] = recent[2 + i - 1]
      BY <1>1, <3>1, SubSeqProperties
    <3> HIDE DEF t, n
    <3>3. n - 2 + 1 = n - 1 /\ \A i \in 1..(n - 1) : 2 + i - 1 = i + 1
      BY <1>1
    <3>4. Len(t) = n - 1
      BY <1>1, <2>1, <3>2, <3>3
    <3>5. \A i \in 1..(n - 1) : t[i] = recent[i + 1]
      BY <3>2, <3>3
    <3>6. QED
      BY <3>2, <3>4, <3>5
  <2>6. recent' = Append(t, a)
    <3> DEFINE u == SubSeq(all, 2, n + 1)
               v == Append(t, a)
    <3> HIDE DEF all, t, n
    <3>1. \A i \in 2..(n + 1) : all[i] \in Addrs
      BY <1>1, <1>5, ElementOfSeq
    <3>2. /\ u \in Seq(Addrs) /\ Len(u) = IF 2 <= n + 1 THEN (n + 1) - 2 + 1 ELSE 0
          /\ \A i \in 1..((n + 1) - 2 + 1) : u[i] = all[2 + i - 1]
      BY <1>1, <3>1, SubSeqProperties
    <3>3. /\ v \in Seq(Addrs) /\ Len(v) = (n - 1) + 1 /\ v[(n - 1) + 1] = a
          /\ \A i \in 1..(n - 1) : v[i] = t[i]
      BY <2>5, AppendProperties
    <3> HIDE DEF u, v
    <3>4. (n + 1) - 2 + 1 = n /\ (n - 1) + 1 = n /\ \A i \in 1..n : 2 + i - 1 = i + 1
      BY <1>1
    <3>5. Len(u) = n /\ \A i \in 1..n : u[i] = all[i + 1]
      BY <1>1, <2>1, <3>2, <3>4
    <3>6. Len(v) = n
      BY <3>3, <3>4
    <3>7. ASSUME NEW i \in 1..n PROVE u[i] = v[i]
      <4>1. CASE i = n
        BY <1>5, <3>3, <3>4, <3>5, <4>1
      <4>2. CASE i # n
        <5>1. i \in 1..(n - 1) /\ i + 1 \in 1..n
          BY <1>1, <4>2
        <5>2. QED
          BY SMTT(30), <1>5, <2>5, <3>3, <3>5, <5>1
      <4>3. QED
        BY <4>1, <4>2
    <3>8. u = v
      BY <3>2, <3>3, <3>5, <3>6, <3>7, SeqEqual
    <3>9. QED
      BY <2>3, <3>8 DEF u, v
  <2> HIDE DEF s, t
  <2>7. ASSUME NEW i \in 1..(n - 1) PROVE s[i].addr = t[i] /\ s[i].entry /\ s[i].block # Nothing
    <3>1. i + 1 \in 1..n /\ i + 1 # 1 /\ 1 \in 1..n
      BY <1>1, <2>1
    <3>2. lru[i + 1].addr # lru[1].addr
      BY <1>1, <3>1 DEF NodesOK
    <3>3. /\ s[i].addr = lru[i + 1].addr /\ s[i].block = lru[i + 1].block
          /\ s[i].entry = (lru[i + 1].entry /\ lru[i + 1].addr # victim.addr)
          /\ t[i] = recent[i + 1]
      BY <2>4, <2>5
    <3>4. lru[i + 1].entry /\ lru[i + 1].block # Nothing /\ lru[i + 1].addr = recent[i + 1]
      BY <1>1, <3>1
    <3>5. lru[i + 1].addr # victim.addr
      BY <3>2 DEF victim
    <3>6. QED
      BY <3>3, <3>4, <3>5
  <2>8. Listed(s, t) /\ AllRead(s, Len(s))
    BY <2>4, <2>5, <2>7 DEF Listed, AllRead
  <2>9. Len(s) < max_size
    BY <1>1, <2>1, <2>4
  <2>10. QED
    BY <2>2, <2>4, <2>6, <2>8, <2>9, AppendIsListed
<1>9. QED
  BY <1>7, <1>8

LEMMA RecentAfter ==
  ASSUME faults' = 0 => /\ ~started'
                        /\ Len(lru') <= max_size' /\ AllRead(lru', Len(lru'))
                        /\ open' => Listed(lru', recent')
  PROVE  RecentInv'
BY DEF RecentInv, AllRead, Listed

\* _access fails only with a system call.
LEMMA AccessIsRecent ==
  ASSUME CacheInv, RecentInv, open, max_size > 0, NEW a \in Addrs, NEW acc \in _access(a),
         acc.io.faults = 0, faults' = 0, Used(a)
  PROVE  /\ acc.io \in Ios /\ acc.io.ok /\ ~acc.io.started /\ faults = 0
         /\ ListsUsed(acc.lru, recent')
<1>1. /\ NodesOK(lru, stored, changed) /\ max_size \in Nat /\ faults \in Nat
  BY DEF CacheInv, CacheTypes
<1>2. /\ acc.io \in Ios /\ acc.io.faults >= faults
      /\ acc.io.ok => acc.lru = used(a) /\ (acc.io.started => started)
      /\ ~acc.io.ok => started \/ acc.io.faults > 0 \/ (Evicts(a) /\ Stuck)
  BY AccessIs
<1>3. faults = 0
  BY <1>1, <1>2
<1>4. /\ ~started /\ Len(lru) <= max_size /\ AllRead(lru, Len(lru)) /\ Listed(lru, recent)
  BY <1>3 DEF RecentInv
<1>5. ~(Evicts(a) /\ Stuck)
  <2>1. SUFFICES ASSUME Evicts(a), Stuck PROVE FALSE
    OBVIOUS
  <2>2. lru \in Seq(Nodes) /\ 1 \in 1..Len(lru)
    BY <1>1, <2>1, EvictsFrom DEF NodesOK
  <2>3. lru[1].entry /\ lru[1].block # Nothing
    BY <1>4, <2>2 DEF AllRead
  <2>4. lru[1].addr \in cached
    BY <2>2, <2>3, CachedIs
  <2>5. QED
    BY <2>1, <2>3, <2>4 DEF Stuck, victim
<1>6. acc.io.ok
  BY <1>2, <1>4, <1>5
<1>7. ListsUsed(used(a), recent')
  BY <1>1, <1>4, HitIsRecent, MissIsRecent
<1>8. QED
  BY <1>2, <1>3, <1>4, <1>6, <1>7

LEMMA SharesListed ==
  ASSUME NEW s, NEW t, ListsUsed(s, t), NEW c \in Contents
  PROVE  /\ Len(Shares(s, c)) <= max_size
         /\ AllRead(Shares(s, c), Len(Shares(s, c))) /\ Listed(Shares(s, c), t)
<1> DEFINE r == Shares(s, c)
<1>1. s \in Seq(Nodes) /\ s # <<>> /\ Len(s) <= max_size
  BY DEF ListsUsed
<1>2. /\ Len(r) = Len(s)
      /\ \A i \in 1..Len(s) : /\ r[i].addr = s[i].addr /\ r[i].entry = s[i].entry
                              /\ i # Len(s) => r[i].block = s[i].block
      /\ r[Len(s)].block = c
  BY <1>1, SharesAre
<1> HIDE DEF r
<1>3. Listed(r, t)
  BY <1>2 DEF ListsUsed, Listed
<1>4. Len(s) \in Nat /\ c # Nothing
  BY <1>1, LenProperties
<1>5. AllRead(r, Len(r))
  <2>1. ASSUME NEW i \in 1..Len(s) PROVE r[i].entry /\ r[i].block # Nothing
    <3>1. CASE i = Len(s)
      BY <1>2, <1>4, <3>1 DEF ListsUsed
    <3>2. CASE i # Len(s)
      <4>1. i \in 1..(Len(s) - 1)
        BY <1>4, <3>2
      <4>2. s[i].entry /\ s[i].block # Nothing
        BY <4>1 DEF ListsUsed, AllRead
      <4>3. QED
        BY <1>2, <3>2, <4>2
    <3>3. QED
      BY <3>1, <3>2
  <2>2. QED
    BY <1>2, <2>1 DEF AllRead
<1>6. QED
  BY <1>1, <1>2, <1>3, <1>5 DEF r

\* Without a cache there is nothing in it.
LEMMA NoSizeIsRecent ==
  ASSUME CacheTypes, max_size = 0, lru = <<>>, Listed(lru, recent), NEW a \in Addrs, faults' = 0, Used(a)
  PROVE  Listed(lru, recent')
<1> DEFINE all == Append(recent, a)
<1>1. recent \in Seq(Addrs) /\ Len(recent) = 0 /\ Len(lru) = 0
  BY EmptySeq DEF Listed
<1>2. RemoveFirst(recent, a) = recent
  BY <1>1 DEF RemoveFirst
<1>3. all \in Seq(Addrs) /\ Len(all) = 1
  BY <1>1, AppendProperties
<1>4. recent' = IF Len(all) > 0 THEN SubSeq(all, Len(all) - 0 + 1, Len(all)) ELSE all
  BY <1>2 DEF Used
<1> HIDE DEF all
<1>5. recent' = SubSeq(all, 2, 1)
  BY <1>3, <1>4
<1>6. SubSeq(all, 2, 1) = <<>>
  BY SubSeqEmpty
<1>7. QED
  BY <1>1, <1>5, <1>6, EmptySeq DEF Listed

\* read() and write() move the block they are for to the front of the list.
LEMMA ReadIsRecent ==
  ASSUME CacheInv, RecentInv, NEW a \in Addrs, ReadBlock(a), faults' = 0
  PROVE  RecentInv'
<1>1. /\ CacheTypes /\ ModesInv /\ max_size \in Nat /\ IoTypes /\ faults \in Nat
      /\ IoNow \in Ios /\ IoNow.ok
      /\ IoNow.file = file /\ (IoNow.started => started) /\ IoNow.faults = faults
  BY IoNowType DEF CacheInv, CacheTypes, FileOK, IoTypes
<1>2. open /\ open' = open /\ max_size' = max_size /\ Used(a) /\ a \notin changed
  BY DEF ReadBlock, Read, Ready
<1>3. CASE max_size = 0
  <2>1. PICK io \in _read_block(IoNow) :
          PerformIo(io) /\ IF ~io.ok THEN Raise(lru) ELSE lru' = lru
    BY <1>1, <1>3 DEF ReadBlock, Read, InNode
  <2>2. /\ io.ok => io = IoNow
        /\ ~io.ok => IoNow.started \/ io.faults > 0
        /\ io.faults >= faults
    BY <1>1, <2>1, ReadBlockIs
  <2>3. faults' = io.faults /\ started' = io.started
    BY <2>1 DEF PerformIo
  <2>4. faults = 0
    BY <1>1, <2>2, <2>3
  <2>5. ~started /\ Listed(lru, recent) /\ lru = <<>>
    BY <1>1, <1>2, <1>3, <2>4 DEF RecentInv, ModesInv
  <2>6. io.ok /\ io = IoNow
    BY <1>1, <2>2, <2>3, <2>5
  <2>7. lru' = lru /\ ~started'
    BY <1>1, <2>1, <2>3, <2>5, <2>6
  <2>8. Len(lru') = 0 /\ AllRead(lru', Len(lru'))
    BY <2>5, <2>7, EmptySeq DEF AllRead
  <2>9. Listed(lru', recent')
    BY <1>1, <1>2, <1>3, <2>5, <2>7, NoSizeIsRecent
  <2>10. QED
    BY <1>2, <1>3, <2>7, <2>8, <2>9, RecentAfter
<1>4. CASE max_size > 0
  <2>1. PICK acc \in _access(a) :
          \E io \in IF acc.io.ok /\ InNode(acc.lru) = Nothing THEN _read_block(acc.io) ELSE {acc.io} :
            /\ PerformIo(io)
            /\ io.ok => \E c \in {IF InNode(acc.lru) = Nothing THEN BlockOf(io.file[a]) ELSE InNode(acc.lru)} :
                          Share(acc.lru, a, c)
    <3>1. max_size # 0
      BY <1>4
    <3>2. QED
      BY <3>1 DEF ReadBlock, Read
  <2>2. PICK io \in IF acc.io.ok /\ InNode(acc.lru) = Nothing THEN _read_block(acc.io) ELSE {acc.io} :
            /\ PerformIo(io)
            /\ io.ok => \E c \in {IF InNode(acc.lru) = Nothing THEN BlockOf(io.file[a]) ELSE InNode(acc.lru)} :
                          Share(acc.lru, a, c)
    BY <2>1
  <2>3. acc.io \in Ios /\ (acc.io.ok => AccessReturned(acc, a))
    BY <1>4, AccessIs
  <2>4. acc.io.faults \in Nat /\ io \in Ios /\ io.faults >= acc.io.faults
    BY <2>2, <2>3, ReadBlockIs, IoParts
  <2>5. faults' = io.faults /\ started' = io.started
    BY <2>2 DEF PerformIo
  <2>6. acc.io.faults = 0
    BY <2>4, <2>5
  <2>7. acc.io.ok /\ ~acc.io.started /\ ListsUsed(acc.lru, recent')
    BY <1>2, <1>4, <2>6, AccessIsRecent
  <2>8. io.ok /\ io = acc.io
    <3>1. /\ io.ok => io = acc.io
          /\ ~io.ok => acc.io.started \/ io.faults > 0
      BY <2>2, <2>3, <2>7, ReadBlockIs
    <3>2. QED
      BY <2>5, <2>7, <3>1
  <2> DEFINE c == IF InNode(acc.lru) = Nothing THEN BlockOf(acc.io.file[a]) ELSE InNode(acc.lru)
  <2>9. c \in Contents
    BY <1>2, <1>4, <2>3, <2>7, ReadIsStored
  <2>10. lru' = Shares(acc.lru, c)
    <3>1. PICK d \in {IF InNode(acc.lru) = Nothing THEN BlockOf(io.file[a]) ELSE InNode(acc.lru)} :
            Share(acc.lru, a, d)
      BY <2>2, <2>8
    <3>2. d = c
      BY <2>8, <3>1
    <3> HIDE DEF c
    <3>3. QED
      BY <3>1, <3>2 DEF Share, Shares
  <2> HIDE DEF c
  <2>11. Len(lru') <= max_size /\ AllRead(lru', Len(lru')) /\ Listed(lru', recent')
    BY <2>7, <2>9, <2>10, SharesListed
  <2>12. ~started'
    BY <2>5, <2>7, <2>8
  <2>13. QED
    BY <1>2, <2>11, <2>12, RecentAfter
<1>5. QED
  BY <1>1, <1>3, <1>4

LEMMA WriteIsRecent ==
  ASSUME CacheInv, RecentInv, NEW a \in Addrs, WriteHeld(a), faults' = 0
  PROVE  RecentInv'
<1>1. /\ CacheTypes /\ ModesInv /\ max_size \in Nat /\ IoTypes /\ faults \in Nat
  BY DEF CacheInv, CacheTypes, FileOK, IoTypes
<1>2. open /\ open' = open /\ max_size' = max_size /\ Used(a) /\ held[a] \in Contents
  BY <1>1 DEF WriteHeld, Write, Ready, CacheTypes, Blocks
<1>3. CASE max_size = 0
  <2>1. PICK io \in _write_block(IoNow, a, held[a]) :
          PerformIo(io) /\ IF io.ok THEN UNCHANGED <<held, lru>> ELSE Raise(lru)
    BY <1>3 DEF WriteHeld, Write
  <2>2. /\ io.ok => io.started = started /\ io.faults = faults
        /\ ~io.ok => started \/ io.faults > 0
        /\ io.faults >= faults
    BY <1>1, <1>2, <2>1, WriteBlockIs
  <2>3. faults' = io.faults /\ started' = io.started
    BY <2>1 DEF PerformIo
  <2>4. faults = 0
    BY <1>1, <2>2, <2>3
  <2>5. ~started /\ Listed(lru, recent) /\ lru = <<>>
    BY <1>1, <1>2, <1>3, <2>4 DEF RecentInv, ModesInv
  <2>6. io.ok
    BY <2>2, <2>3, <2>5
  <2>7. lru' = lru /\ ~started'
    BY <2>1, <2>2, <2>3, <2>5, <2>6
  <2>8. Len(lru') = 0 /\ AllRead(lru', Len(lru'))
    BY <2>5, <2>7, EmptySeq DEF AllRead
  <2>9. Listed(lru', recent')
    BY <1>1, <1>2, <1>3, <2>5, <2>7, NoSizeIsRecent
  <2>10. QED
    BY <1>2, <1>3, <2>7, <2>8, <2>9, RecentAfter
<1>4. CASE max_size > 0
  <2>1. PICK acc \in _access(a) :
          PerformIo(acc.io) /\ (acc.io.ok => Share(acc.lru, a, held[a]))
    <3>1. max_size # 0
      BY <1>4
    <3>2. QED
      BY <3>1 DEF WriteHeld, Write
  <2>2. faults' = acc.io.faults /\ started' = acc.io.started
    BY <2>1 DEF PerformIo
  <2>3. acc.io.ok /\ ~acc.io.started /\ ListsUsed(acc.lru, recent')
    BY <1>2, <1>4, <2>2, AccessIsRecent
  <2>4. lru' = Shares(acc.lru, held[a])
    BY <2>1, <2>3 DEF Share, Shares
  <2>5. Len(lru') <= max_size /\ AllRead(lru', Len(lru')) /\ Listed(lru', recent')
    BY <1>2, <2>3, <2>4, SharesListed
  <2>6. QED
    BY <1>2, <2>2, <2>3, <2>5, RecentAfter
<1>5. QED
  BY <1>1, <1>3, <1>4

\* No other step uses a block.
LEMMA OtherIsRecent ==
  ASSUME CacheInv, RecentInv, faults' = 0,
         \/ \E a \in Addrs : MakeBlock(a) \/ \E c \in Contents : ModifyHeld(a, c)
         \/ CallOver \/ Close \/ Reopen \/ ProcessEnds \/ UNCHANGED cpvars
  PROVE  RecentInv'
<1>1. /\ CacheTypes /\ ModesInv /\ max_size \in Nat /\ faults \in Nat /\ IoTypes
      /\ NodesOK(lru, stored, changed) /\ DirtyOK(lru, dirty, stored) /\ lru \in Seq(Nodes)
  BY DEF CacheInv, CacheTypes, NodesOK, FileOK, IoTypes
<1>2. ASSUME faults = 0
      PROVE  /\ ~started /\ Len(lru) <= max_size /\ AllRead(lru, Len(lru))
             /\ open => Listed(lru, recent)
  BY <1>2 DEF RecentInv
<1>3. ASSUME faults = 0, NoCache, ~started', max_size' \in Nat PROVE RecentInv'
  <2>1. lru' = <<>> /\ ~open' /\ Len(lru') = 0
    BY <1>3, EmptySeq DEF NoCache
  <2>2. AllRead(lru', Len(lru'))
    BY <2>1 DEF AllRead
  <2>3. QED
    BY <1>3, <2>1, <2>2, RecentAfter
<1>4. ASSUME faults = 0, UNCHANGED <<lru, max_size, open>>, started' => started, recent' = recent
      PROVE  RecentInv'
  <2>1. /\ ~started' /\ Len(lru') <= max_size' /\ AllRead(lru', Len(lru'))
        /\ open' => Listed(lru', recent')
    BY <1>2, <1>4
  <2>2. QED
    BY <2>1, RecentAfter
<1>5. ASSUME faults = 0, NEW r, r = lru', r \in Seq(Nodes), Len(r) = Len(lru),
             \A i \in 1..Len(lru) :
               /\ r[i].addr = lru[i].addr /\ r[i].entry = lru[i].entry
               /\ lru[i].block # Nothing => r[i].block # Nothing,
             UNCHANGED <<max_size, open, started, recent>>
      PROVE  RecentInv'
  <2>1. AllRead(r, Len(r))
    BY <1>2, <1>5 DEF AllRead
  <2>2. open => Listed(r, recent)
    BY <1>2, <1>5 DEF Listed
  <2>3. ~started' /\ Len(r) <= max_size'
    BY <1>2, <1>5
  <2>4. QED
    BY <1>5, <2>1, <2>2, <2>3, RecentAfter
<1>6. ASSUME NEW a \in Addrs, MakeBlock(a) PROVE RecentInv'
  BY <1>4, <1>6 DEF MakeBlock, NewBlock, ioVars
<1>7. ASSUME NEW a \in Addrs, NEW c \in Contents, ModifyHeld(a, c) PROVE RecentInv'
  <2>1. Modify(a, c) /\ faults = 0 /\ UNCHANGED <<max_size, open, started, recent>>
    BY <1>7 DEF ModifyHeld, Modify, ioVars
  <2>2. /\ lru' \in Seq(Nodes) /\ Len(lru') = Len(lru)
        /\ \A i \in 1..Len(lru) :
             /\ lru'[i].addr = lru[i].addr /\ lru'[i].entry = lru[i].entry
             /\ lru[i].block # Nothing => lru'[i].block # Nothing
    BY <1>1, <1>7, <2>1, ModifiedAre
  <2>3. QED
    BY <1>5, <2>1, <2>2
<1>8. CASE CallOver
  <2>1. /\ lru' = Unshared(lru) /\ faults = 0
        /\ UNCHANGED <<max_size, open, started, recent>>
    BY <1>8 DEF CallOver, LetGo, ioVars
  <2>2. /\ Unshared(lru) \in Seq(Nodes) /\ Len(Unshared(lru)) = Len(lru)
        /\ \A i \in 1..Len(lru) :
             /\ Unshared(lru)[i].addr = lru[i].addr /\ Unshared(lru)[i].entry = lru[i].entry
             /\ Unshared(lru)[i].block = lru[i].block
    BY <1>1, UnsharedAre
  <2>3. QED
    BY <1>5, <2>1, <2>2
<1>9. CASE Flush /\ Close
  <2>1. UNCHANGED <<max_size, started, faults>> /\ recent' = recent
    BY <1>9 DEF Flush, Close, ioVars
  <2>2. NoCache \/ UNCHANGED <<lru, open>>
    BY <1>9 DEF Flush
  <2>3. faults = 0
    BY <2>1
  <2>4. ~started'
    BY <1>2, <2>1, <2>3
  <2>5. QED
    BY <1>1, <1>3, <1>4, <2>1, <2>2, <2>3, <2>4
<1>10. ASSUME NEW a \in Addrs, FlushBlock(a), Close PROVE RecentInv'
  <2> DEFINE c == lru[index(a)].block
  <2>1. PICK io \in _write_block(IoNow, a, c) :
          PerformIo(io) /\ (NoCache \/ UNCHANGED <<lru, open>>)
    BY <1>10 DEF FlushBlock
  <2>2. a \in cached /\ c # Nothing
    BY <1>1, <1>10, HasBlockIs DEF CacheTypes, DirtyOK, FlushBlock
  <2>3. lru[index(a)] \in Nodes
    BY <1>1, <2>2, IndexIs, ElementOfSeq
  <2>4. c \in Contents
    BY <2>2, <2>3 DEF Nodes, Blocks
  <2> HIDE DEF c
  <2>5. /\ io.ok => io.started = started /\ io.faults = faults
        /\ ~io.ok => started \/ io.faults > 0
        /\ io.faults >= faults
    BY <1>1, <1>10, <2>1, <2>4, WriteBlockIs
  <2>6. faults' = io.faults /\ started' = io.started
    BY <2>1 DEF PerformIo
  <2>7. faults = 0
    BY <1>1, <2>5, <2>6
  <2>8. ~started'
    BY <1>2, <2>5, <2>6, <2>7
  <2>9. recent' = recent /\ max_size' = max_size
    BY <1>10 DEF Close, FlushBlock
  <2>10. QED
    BY <1>1, <1>3, <1>4, <2>1, <2>7, <2>8, <2>9
<1>11. CASE Reopen
  <2>1. /\ ~open /\ recent' = <<>> /\ max_size' \in Nat
        /\ UNCHANGED <<lru, started, faults>>
    BY <1>11 DEF Reopen, Open, ioVars
  <2>2. faults = 0 /\ lru' = <<>> /\ Len(lru') = 0
    BY <1>1, <2>1, EmptySeq DEF ModesInv
  <2>3. ~started'
    BY <1>2, <2>1, <2>2
  <2>4. AllRead(lru', Len(lru')) /\ Listed(lru', recent')
    BY <2>1, <2>2, EmptySeq DEF AllRead, Listed
  <2>5. QED
    BY <2>1, <2>2, <2>3, <2>4, RecentAfter
<1>12. CASE ProcessEnds
  BY <1>1, <1>3, <1>12 DEF ProcessEnds, Exit
<1>13. CASE UNCHANGED cpvars
  BY <1>4, <1>13 DEF cpvars, cacheVars, ioVars
<1>14. QED
  BY <1>6, <1>7, <1>8, <1>9, <1>10, <1>11, <1>12, <1>13 DEF Close

\* As long as no system call has failed the linked list and the dictionary have
\* the max_size blocks used last, in that order.
THEOREM MostRecentAreCached == CPSpec => []CacheHoldsMostRecent
<1>1. CPInit => RecentInv
  <2> SUFFICES ASSUME CPInit PROVE RecentInv
    OBVIOUS
  <2>1. lru = <<>> /\ recent = <<>> /\ started = FALSE /\ max_size \in Nat /\ Len(lru) = 0
    BY EmptySeq DEF CPInit, CacheInit
  <2>2. AllRead(lru, Len(lru)) /\ Listed(lru, recent)
    BY <2>1, EmptySeq DEF AllRead, Listed
  <2>3. QED
    BY <2>1, <2>2 DEF RecentInv
<1>2. CacheInv /\ RecentInv /\ [CPNext]_cpvars => RecentInv'
  <2> SUFFICES ASSUME CacheInv, RecentInv, [CPNext]_cpvars PROVE RecentInv'
    OBVIOUS
  <2>1. CASE faults' # 0
    BY <2>1, RecentAfter
  <2>2. CASE faults' = 0
    BY <2>2, ReadIsRecent, WriteIsRecent, OtherIsRecent DEF CPNext
  <2>3. QED
    BY <2>1, <2>2
<1>3. CacheInv /\ RecentInv => CacheHoldsMostRecent
  <2> SUFFICES ASSUME CacheInv, RecentInv, faults = 0, open
               PROVE  /\ [i \in DOMAIN lru |-> lru[i].addr] = recent
                      /\ cached = ToSet(recent)
    BY DEF CacheHoldsMostRecent
  <2>1. /\ lru \in Seq(Nodes) /\ recent \in Seq(Addrs) /\ Len(recent) = Len(lru)
        /\ \A i \in 1..Len(lru) : lru[i].addr = recent[i] /\ lru[i].entry
    BY DEF CacheInv, NodesOK, RecentInv, Listed, AllRead
  <2>2. DOMAIN lru = 1..Len(lru) /\ DOMAIN recent = 1..Len(lru)
    BY <2>1, LenProperties
  <2>3. [i \in DOMAIN lru |-> lru[i].addr] = recent
    <3>1. recent = [i \in 1..Len(lru) |-> recent[i]]
      BY <2>1, <2>2, LenProperties
    <3>2. QED
      BY <2>1, <2>2, <3>1
  <2>4. cached = ToSet(recent)
    <3>1. \A b : b \in cached <=> \E i \in 1..Len(lru) : recent[i] = b
      BY <2>1, CachedIs
    <3>2. \A b : b \in ToSet(recent) <=> \E i \in 1..Len(lru) : recent[i] = b
      BY <2>2 DEF ToSet
    <3> HIDE DEF cached
    <3>3. QED
      BY <3>1, <3>2
  <2>5. QED
    BY <2>3, <2>4
<1>4. QED
  BY <1>1, <1>2, <1>3, CacheInvariantHolds, PTL DEF CPSpec
=============================================================================
