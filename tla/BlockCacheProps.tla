--------------------------- MODULE BlockCacheProps ---------------------------
(***************************************************************************)
(* BlockCache used as btree.py uses it, and what must hold of it: with any *)
(* size it is a BlockStore.                                                *)
(*                                                                         *)
(* Three history variables: `stored`, what was last written to each        *)
(* address (Unsure where a call that raised or a process that ended has    *)
(* left who knows what), `changed`, the addresses whose buffer the caller  *)
(* has changed and not yet written, and `recent`, the max_size addresses   *)
(* used last, in order (until a system call fails).                        *)
(***************************************************************************)
EXTENDS BlockCache

CONSTANT Unsure

ASSUME UnsureAssumption == Unsure \notin Contents \cup {Nothing}

VARIABLES stored, changed, recent

Store == INSTANCE BlockStore

cpvars == <<cacheVars, stored, changed, recent>>

Used(a) ==
  LET all == Append(RemoveFirst(recent, a), a)
  IN  recent' = IF faults' > 0 THEN <<>>
                ELSE IF Len(all) > max_size THEN SubSeq(all, Len(all) - max_size + 1, Len(all))
                ELSE all

CPInit == CacheInit /\ stored = NoBuffers /\ changed = {} /\ recent = <<>>

\* Changed buffers that were not written may be in the cache, if there is one.
InCache == IF max_size > 0 THEN changed ELSE {}

\* read() or write() of address a raised: the victim whose write failed is in the
\* cache no longer, and without a cache the block itself may be half written.
Raised(a) ==
  /\ stored' = Store!Without(InCache \cup (dirty \ dirty')
                             \cup IF max_size = 0 /\ file' # file THEN {a} ELSE {})
  /\ changed' = {}

\* btree.py reads no block that it has changed and not written, and makes a new
\* DiskBlock only for a block that was never written.
ReadBlock(a) ==
  /\ a \notin changed
  /\ Read(a) /\ Used(a)
  /\ IF held' = NoBuffers THEN Raised(a) ELSE UNCHANGED <<stored, changed>>

MakeBlock(a) ==
  /\ \/ stored[a] = Nothing
     \/ stored[a] = Unsure /\ file[a] = Nothing /\ \A i \in DOMAIN lru : lru[i].addr # a
  /\ NewBlock(a) /\ UNCHANGED <<stored, changed, recent>>

\* The block is what was written, unless the list still has an evicted node of
\* that address whose write failed.
WriteHeld(a) ==
  /\ Write(a) /\ Used(a)
  /\ IF held' = NoBuffers THEN Raised(a)
     ELSE /\ stored' = [stored EXCEPT ![a] =
                           IF \E i \in DOMAIN lru' : lru'[i].addr = a /\ ~lru'[i].entry
                           THEN Unsure ELSE held[a]]
          /\ changed' = changed \ {a}

ModifyHeld(a, c) ==
  Modify(a, c) /\ changed' = changed \cup {a} /\ UNCHANGED <<stored, recent>>

\* A call that returns has written what it changed; one may raise before that.
CallOver ==
  /\ LetGo
  /\ changed' = {}
  /\ stored' = Store!Without(InCache)
  /\ UNCHANGED recent

Close ==
  /\ Flush \/ \E a \in Addrs : FlushBlock(a)
  /\ recent' = IF faults' > 0 THEN <<>> ELSE recent
  /\ UNCHANGED <<stored, changed>>

Reopen == Open /\ recent' = <<>> /\ UNCHANGED <<stored, changed>>

\* What was not yet written is lost, and what was changed may be on file.
ProcessEnds ==
  /\ Exit
  /\ changed' = {} /\ recent' = <<>>
  /\ stored' = Store!Without(InCache \cup IF flushing = {} THEN dirty ELSE flushing)

CPNext ==
  \/ \E a \in Addrs :
       \/ ReadBlock(a) \/ MakeBlock(a) \/ WriteHeld(a)
       \/ \E c \in Contents : ModifyHeld(a, c)
  \/ CallOver \/ Close \/ Reopen \/ ProcessEnds

CPSpec == CPInit /\ [][CPNext]_cpvars

-----------------------------------------------------------------------------
(* Properties *)

Sure == {a \in Addrs : stored[a] # Unsure}

\* Until a system call fails, the linked list and the dictionary name the same
\* blocks: the max_size most recently used ones, in that order, whatever the mix
\* of hits, misses, evictions and write-backs before (disk.py:46-68).
CacheHoldsMostRecent ==
  faults = 0 /\ open =>
    /\ [i \in DOMAIN lru |-> lru[i].addr] = recent
    /\ cached = ToSet(recent)

\* No eviction, re-read, flush or failed I/O loses or resurrects a write of
\* another block: the block in the cache, or else in the file, is what was last
\* written there, but for the blocks the caller is changing (which may be evicted,
\* and so be in the file, before the caller has written them) and those a call
\* that raised was about.
NoWriteLost ==
  \A a \in Sure \ changed :
    IF a \in cached /\ lru[index(a)].block # Nothing
    THEN lru[index(a)].block = Store!BlockRead(stored[a])
    ELSE file[a] = stored[a]

\* After close() the file holds all that was written (btree.py:54-55), also when
\* an earlier close() failed half way.
ClosedIsWritten == ~open => \A a \in Sure : file[a] = stored[a]

\* flush() looks every dirty block up in the dictionary: it is there, with its
\* block, whatever was evicted, unhooked by mistake or left behind by failures.
FlushFindsItsBlocks == \A a \in dirty : a \in cached /\ lru[index(a)].block # Nothing

\* After an OSError nothing reaches the file any more: the start time is never
\* taken back, and start_io's assertion stops the list nodes that the dictionary
\* no longer knows from writing what they hold over newer blocks.
FailStop == [][started /\ started' => file' = file]_cpvars

\* The cache cannot be told from a file without one, but for the blocks a call
\* that raised had changed or could not write.
ImplementsStore == Store!StoreSpec

-----------------------------------------------------------------------------
(* What disk.py asserts and does not have *)

\* start_io, disk.py:178: assert self._start is None.  There is one thread, and an
\* I/O is over when its call is: no read or write may find another under way.
NoIoUnderWay ==
  [][\A a \in Addrs : max_size = 0 /\ (ReadBlock(a) \/ WriteHeld(a)) => ~started]_cpvars
=============================================================================
