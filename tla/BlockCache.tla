----------------------------- MODULE BlockCache -----------------------------
(***************************************************************************)
(* disk.BlockCache: a write-back cache of at most max_size blocks over a   *)
(* file, which evicts the least recently used one.  The linked list from   *)
(* end_dummy to head_dummy is the sequence lru.                            *)
(*                                                                         *)
(* A block is one Python object in the cache and in the caller's hands: a  *)
(* buffer the caller changes in memory changes in the cache as well, until *)
(* the block is evicted.  The caller is the one of BlockStore.             *)
(*                                                                         *)
(* An I/O may fail: the system call raises OSError (nothing is written),   *)
(* or a write is short, which the assertion behind it finds.  Either way   *)
(* the call of the tree that was under way is over, and its caller may go  *)
(* on with the tree.  start_io() notes the time an I/O starts and only a   *)
(* call that returns takes it back (disk.py:176-186).                      *)
(***************************************************************************)
EXTENDS Integers, FiniteSets, SequencesExt

CONSTANTS Addrs, Contents, Blank, Nothing,
          Sizes,     \* the sizes a cache may be made with; 0 turns it off
          MaxFaults  \* bound: system calls that fail

ASSUME SizesAssumption == Sizes \subseteq Nat

ASSUME ContentsAssumption == Blank \in Contents /\ Nothing \notin Contents

VARIABLES
  max_size,  \* blocks in the cache
  file,      \* the blocks of the file, Nothing where nothing was written
  lru,       \* the list nodes, the least recently used one first
  dirty,     \* the cached addresses not yet written back
  flushing,  \* while flush() runs, the addresses it has still to write
  open,      \* whether the cache exists
  held,      \* the buffer the caller holds for each address
  started,   \* iotrace has the start time of an I/O
  faults     \* the system calls that have failed

ioVars == <<file, started, faults>>
cacheVars == <<max_size, lru, dirty, flushing, open, held, ioVars>>

NoBuffers == [a \in Addrs |-> Nothing]

\* A list node: its block, Nothing before it is read; whether the dictionary has
\* it under addr; whether its block is the buffer the caller holds.
LRUNode(a) == [addr |-> a, block |-> Nothing, entry |-> TRUE, shared |-> FALSE]

Entries == {i \in DOMAIN lru : lru[i].entry}
cached  == {lru[i].addr : i \in Entries}
index(a) == CHOOSE i \in Entries : lru[i].addr = a

Ready == open /\ flushing = {}

-----------------------------------------------------------------------------
(* _write_block and _read_block: the ways they end *)

IoNow == [ok |-> TRUE, file |-> file, started |-> started, faults |-> faults]

\* Mutant of start_io: nothing is asserted.
start_io_any(now) == TRUE

\* The assertion that no I/O is under way.
start_io(now) == ~now.started

\* The assertion failed.
Refused(now) == [now EXCEPT !.ok = FALSE]

OSErrors(now) ==
  {f \in {[now EXCEPT !.ok = FALSE, !.started = TRUE, !.faults = @ + 1]} : f.faults <= MaxFaults}

\* What a short write leaves of the block may be anything.
ShortWrites(now, a) ==
  {f \in {[now EXCEPT !.ok = FALSE, !.file[a] = c, !.faults = @ + 1] : c \in Contents} :
     f.faults <= MaxFaults}

_write_block(now, a, c) ==
  IF start_io(now)
  THEN {[now EXCEPT !.file[a] = c]} \cup OSErrors(now) \cup ShortWrites(now, a)
  ELSE {Refused(now)}

_read_block(now) ==
  IF start_io(now) THEN {now} \cup OSErrors(now) ELSE {Refused(now)}

\* Where nothing was written readinto() leaves the buffer as DiskBlock made it.
BlockOf(c) == IF c = Nothing THEN Blank ELSE c

-----------------------------------------------------------------------------
(* _access: the ways it ends, with the node of address a last in the list *)

Evicts(a) == a \notin cached /\ Cardinality(cached) >= max_size

victim == lru[1]

\* The victim has no block (its read failed), or the dictionary does not know
\* its address (its write failed): AttributeError, KeyError.
Stuck == victim.block = Nothing \/ victim.addr \notin cached

\* del self.cache[node.block.addr], whichever node that entry is.
unhooked ==
  [i \in DOMAIN lru |-> IF lru[i].addr = victim.addr THEN [lru[i] EXCEPT !.entry = FALSE]
                        ELSE lru[i]]

\* Mutant of reused: the victim's node keeps its block.
reused_with_block(a) == [LRUNode(a) EXCEPT !.block = victim.block]

reused(a) == LRUNode(a)

\* Mutant of used: a hit does not move the block to the front.
used_fifo(a) ==
  IF a \in cached THEN lru
  ELSE IF Evicts(a) THEN Append(Tail(unhooked), reused(a)) ELSE Append(lru, LRUNode(a))

used(a) ==
  IF a \in cached THEN Append(RemoveAt(lru, index(a)), lru[index(a)])
  ELSE IF Evicts(a) THEN Append(Tail(unhooked), reused(a)) ELSE Append(lru, LRUNode(a))

\* Mutant of clean: the mark of an evicted block stays.
clean_none(a) == dirty

\* The dirty mark goes before the write.
clean(a) == IF Evicts(a) THEN dirty \ {victim.addr} ELSE dirty

\* Mutant of evicted: an evicted block is dropped.
evicted_unwritten(a) == {IoNow}

evicted(a) ==
  IF Evicts(a) /\ victim.addr \in dirty
  THEN _write_block(IoNow, victim.addr, victim.block) ELSE {IoNow}

_access(a) ==
  IF Evicts(a) /\ Stuck
  THEN {[lru |-> lru, dirty |-> dirty, io |-> [IoNow EXCEPT !.ok = FALSE]]}
  ELSE {[lru |-> IF io.ok THEN used(a) ELSE unhooked, dirty |-> clean(a), io |-> io] :
          io \in evicted(a)}

-----------------------------------------------------------------------------
(* Steps *)

PerformIo(io) == file' = io.file /\ started' = io.started /\ faults' = io.faults

Unshared(nodes) == [i \in DOMAIN nodes |-> [nodes[i] EXCEPT !.shared = FALSE]]

\* The call of the tree ends with an exception, and its buffers are gone.
Raise(nodes) == held' = NoBuffers /\ lru' = Unshared(nodes)

\* The last node gets the block c, which the caller holds from now on.
Share(nodes, a, c) ==
  lru' = [i \in DOMAIN nodes |->
            IF i = Len(nodes) THEN [nodes[i] EXCEPT !.block = c, !.shared = TRUE]
            ELSE nodes[i]]

-----------------------------------------------------------------------------
(* read and write *)

\* What read() is about to return; Nothing if it has to be read first.
InNode(nodes) == IF max_size = 0 THEN Nothing ELSE Last(nodes).block

\* Of a block in the cache the caller gets the block itself; a node whose block
\* could not be read is tried again.
Read(a) ==
  /\ Ready
  /\ \E acc \in IF max_size = 0 THEN {[lru |-> lru, dirty |-> dirty, io |-> IoNow]} ELSE _access(a) :
     \E io \in IF acc.io.ok /\ InNode(acc.lru) = Nothing THEN _read_block(acc.io) ELSE {acc.io} :
       /\ PerformIo(io)
       /\ dirty' = acc.dirty
       /\ IF ~io.ok THEN Raise(acc.lru)
          ELSE \E c \in {IF InNode(acc.lru) = Nothing THEN BlockOf(io.file[a]) ELSE InNode(acc.lru)} :
                 /\ held' = [held EXCEPT ![a] = c]
                 /\ IF max_size = 0 THEN lru' = lru ELSE Share(acc.lru, a, c)
  /\ UNCHANGED <<max_size, flushing, open>>

\* Mutant of Write: a written block is not marked dirty.
WriteUnmarked(a) ==
  /\ Ready
  /\ held[a] # Nothing
  /\ IF max_size = 0
     THEN \E io \in _write_block(IoNow, a, held[a]) :
            /\ PerformIo(io)
            /\ IF io.ok THEN UNCHANGED <<held, lru>> ELSE Raise(lru)
            /\ UNCHANGED dirty
     ELSE \E acc \in _access(a) :
            /\ PerformIo(acc.io)
            /\ IF acc.io.ok THEN Share(acc.lru, a, held[a]) /\ UNCHANGED held ELSE Raise(acc.lru)
            /\ dirty' = acc.dirty
  /\ UNCHANGED <<max_size, flushing, open>>

\* The caller's buffer takes the place of the cached block.
Write(a) ==
  /\ Ready
  /\ held[a] # Nothing
  /\ IF max_size = 0
     THEN \E io \in _write_block(IoNow, a, held[a]) :
            /\ PerformIo(io)
            /\ IF io.ok THEN UNCHANGED <<held, lru>> ELSE Raise(lru)
            /\ UNCHANGED dirty
     ELSE \E acc \in _access(a) :
            /\ PerformIo(acc.io)
            /\ IF acc.io.ok THEN Share(acc.lru, a, held[a]) /\ UNCHANGED held ELSE Raise(acc.lru)
            /\ dirty' = IF acc.io.ok THEN acc.dirty \cup {a} ELSE acc.dirty
  /\ UNCHANGED <<max_size, flushing, open>>

-----------------------------------------------------------------------------
(* What the caller does with its buffers *)

\* DiskBlock(addr)
NewBlock(a) ==
  /\ Ready
  /\ held[a] = Nothing
  /\ held' = [held EXCEPT ![a] = Blank]
  /\ UNCHANGED <<max_size, lru, dirty, flushing, open, ioVars>>

Modify(a, c) ==
  /\ Ready
  /\ held[a] # Nothing
  /\ held' = [held EXCEPT ![a] = c]
  /\ lru' = [i \in DOMAIN lru |-> IF lru[i].addr = a /\ lru[i].shared
                                  THEN [lru[i] EXCEPT !.block = c] ELSE lru[i]]
  /\ UNCHANGED <<max_size, dirty, flushing, open, ioVars>>

\* A call of the tree is over: it returns, or it raises for a reason of its own.
LetGo ==
  /\ Ready
  /\ held # NoBuffers
  /\ held' = NoBuffers /\ lru' = Unshared(lru)
  /\ UNCHANGED <<max_size, dirty, flushing, open, ioVars>>

-----------------------------------------------------------------------------
(* flush, by NodeFile.close; then the file is opened again *)

NoCache == lru' = <<>> /\ dirty' = {} /\ flushing' = {} /\ open' = FALSE

\* The set of dirty addresses is gone through in any order.
Flush ==
  /\ Ready
  /\ held = NoBuffers
  /\ IF dirty = {} THEN NoCache
     ELSE flushing' = dirty /\ UNCHANGED <<lru, dirty, open>>
  /\ UNCHANGED <<max_size, held, ioVars>>

\* When a write fails close() raises, and the cache is there as before.
FlushBlock(a) ==
  /\ open /\ a \in flushing
  /\ \E io \in _write_block(IoNow, a, lru[index(a)].block) :
       /\ PerformIo(io)
       /\ IF io.ok /\ flushing = {a} THEN NoCache
          ELSE /\ flushing' = IF io.ok THEN flushing \ {a} ELSE {}
               /\ UNCHANGED <<lru, dirty, open>>
  /\ UNCHANGED <<max_size, held>>

\* A cache of any size is made, for a file that is there.
Open ==
  /\ ~open
  /\ open' = TRUE /\ max_size' \in Sizes
  /\ UNCHANGED <<lru, dirty, flushing, held, ioVars>>

\* The process ends; the next one has an iotrace of its own.
Exit ==
  /\ open \/ started
  /\ NoCache
  /\ held' = NoBuffers /\ started' = FALSE
  /\ UNCHANGED <<max_size, file, faults>>

-----------------------------------------------------------------------------
(* The cache *)

CacheInit ==
  /\ max_size \in Sizes
  /\ file = NoBuffers /\ started = FALSE /\ faults = 0
  /\ lru = <<>> /\ dirty = {} /\ flushing = {} /\ open = TRUE
  /\ held = NoBuffers
=============================================================================
