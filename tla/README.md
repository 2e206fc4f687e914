# A verification of bongodb

bongodb is a disk-based B+tree in three languages: `btree.py` with `disk.py`
(Python), `btree.c` (C) and `rust/` (Rust, incomplete), after a first in-memory
version `pybtree.py`. This directory models it in TLA+, checks the models with
TLC and proves theorems about them with TLAPS. It covers the Python tree with its
file, block cache and I/O statistics, the in-memory tree, and the C tree; the plan
below says what comes next.

## Inventory

| Component | State | Operations | Hard to get right |
|---|---|---|---|
| `btree.py`: search, insert, update, delete, range | none of its own: node buffers of the call in progress, on the recursion | descend, split leaf/node/root, borrow, merge, shrink the root, walk the list of leaves | midpoints, separators, child indices, the order of the writes |
| `btree.py`: `NodeFile` | header (root pointer, free list pointer), file size, free list through the freed blocks | open, close, `new_node`, `free`, `set_root`, `node_at`, `write_node`, `check_integrity` | allocation and reuse; a crash between two writes |
| `btree.py`: `BTree` | a `NodeFile` | `get`, `insert`, `update`, `delete`, `range` | that all of it together is a map |
| `disk.py`: `BlockCache` | dictionary, LRU list, dirty set, file | `read`, `write`, `flush` | eviction of a block the caller still holds and changes; a system call that fails between two changes of the three |
| `disk.py`: `_IOTrace` | a stack of scopes with times and their sums, the start time of the I/O under way | `start_io`, `end_read`, `end_write`, `scope`, `pop`, `get_*` | an I/O error leaves the start time set; a check that raises leaves its scope |
| `btree.c`: buffer pool and node file | ten buffers in a free list, the file | take and give back, `bt_read_node`, `bt_write_node`, `bt_new_node`, `bt_free_node`, `bt_open`, `bt_close` | giving back on every path; marking freed nodes; assertions that end the process |
| `btree.c`: tree | node buffers on the recursion, the static variable `read_left_first` | `bt_lookup`, `bt_range`, `bt_insert`, `bt_delete` | the same as in Python, with error codes, C integers, the alternation between siblings, and another order of writes |
| `rust/` | file, header | open, lookup, insert | open initialises the file |
| `pybtree.py` | nodes as objects with padded arrays, size and depth | `get`, `insert`, `delete`, `__iter__` | counters beside the structure; a generator over nodes that its caller changes |

Interaction: a `BTree` call runs a recursive function over the nodes; the
function reads and writes whole blocks through `NodeFile`, which goes through
`BlockCache` to the file. There is one thread and one call at a time. With
`CACHE_SIZE = 0`, as `btree.py:30` has it, every read and write goes to the
file, so that the order of the block writes is the order of the code; nothing is
synced or logged, and a crash leaves the file as of some write. Each of the
cache's I/Os reports to the one `iotrace` object of the process, in whose scopes an
application measures its calls. `pybtree.py` stands alone: what interleaves there is
a `for` loop over the tree and the calls in its body.

`PROJECT.json` lists the hazards line by line, with the properties against each.

## Modules

| Module | What it is |
|---|---|
| `MapCalls` | The calls of class `BTree`, their results, and their effect on a map. |
| `OrderedMap` | The abstract specification: a map, one call at a time, whose effect happens when it returns. |
| `NodeOps` | Blocks, and the operations on the arrays of one node (`array_insert`, `array_insert_split`, `leaf_pop`, the merges, ...). |
| `DiskBTree` | The tree and its file: one action per piece of work of a handler, one action (`WriteBlock`) per block that reaches the file. |
| `TreeShape` | What a file holds, as operators on a file, shared by both trees: the blocks reached from the root, the leaf list, the free list, the content, where a search ends. |
| `DiskBTreeProps` | The properties of `DiskBTree`, and the refinement mapping to `OrderedMap`. |
| `MCDiskBTree` | Instances for TLC. |
| `DiskBTree_proofs` | Lemmas about `NodeOps`; files with a tree and a free list in them: what each kind of write does to them, and what the operators of `TreeShape` compute of them; the inductive invariant of `DiskBTree` and the theorems about its types and arrays. |
| `DiskBTreeProps_proofs` | The invariant of the tree's shape in the middle of calls, and the theorems about balance and crashes. |
| `DiskBTreeOrder_proofs` | The invariant of the order of the keys and of the list of leaves in the middle of calls. |
| `DiskBTreeSearch_proofs` | What follows between calls: searches find every key, the file is sound, and `check_integrity` is right. |
| `CMap` | The abstract specification of `btree.c`: `OrderedMap` with the error code and with a call that ends the process without effect. |
| `CBTree` | `btree.c`: tree, file and buffer pool, in steps like those of `DiskBTree`; the two share `NodeOps` and `MapCalls`. |
| `CBTreeProps` | The properties of `CBTree`, and the refinement mapping to `CMap`. |
| `MCCBTree` | Instances for TLC. |
| `CBTree_proofs` | The balance of the buffers of `btree.c`. |
| `BlockStore` | The abstract specification of a store of blocks read into buffers, with calls that raise and processes that end. |
| `BlockCache` | The LRU write-back cache of `disk.py`, over a file whose I/Os may fail. |
| `BlockCacheProps` | The cache used as `btree.py` uses it, its properties and its refinement of `BlockStore`. |
| `MCBlockCache` | Instances for TLC. |
| `BlockCache_proofs` | The inductive invariants of the cache, its refinement of `BlockStore` and the theorems about its properties. |
| `IOTrace` | `_IOTrace`: scopes, start time, counts and sums. |
| `IOTraceProps` | `IOTrace` under calls, checks and I/Os that may raise, and its properties. |
| `Induction` | Induction over the naturals and definition by recursion, as lemmas about sets and functions. |
| `IOTrace_proofs` | The inductive invariant of the statistics and the theorems about their properties. |
| `MemBTree` | `pybtree.py`: tree, counters, assertions, generator. |
| `MemBTreeProps` | The properties of `MemBTree`. |
| `MCMemBTree` | An instance for TLC. |

### How DiskBTree corresponds to the code

* A block is a record with a tag. `keys` and `values` are the live prefixes of the
  arrays, so `get_nkeys()` is a length; addresses are block numbers, 0 is the
  header and null. A block of the free list is the tag `free` (`INVALID_NKEYS`). A
  block never written reads as zeroes: an inner node without keys and with a null child.
* `path` is the recursion of `insert_recurse` and `delete_recurse`: the node buffers
  in memory with the index of the child that was entered. Splitting and merging
  change these buffers and queue block writes in `writes`, in the order in which the
  code issues them. `rv` is what the recursion returns to the frame above:
  `(new_node, new_key)`, `(del_ind, True)` or `(None, True)`.
* No handler reads a block between two of its writes that the writes change, so
  computing a handler's writes in one step and performing them one by one is what
  the code does, seen at every write.
* Where the code would fail (an assertion, a missing sibling, a freed block in a
  search) no action is enabled, and TLC reports a deadlock. All runs check for
  deadlock.
* `search_node` and `search_leaf` are modelled by what the binary searches return,
  the number of keys up to, or below, k.
* A key or value may be any `int`; those outside `Word` do not fit 8 bytes and
  raise when they are stored.

### How CBTree corresponds to the code

Blocks, `path`, `writes` and the steps are as in `DiskBTree`. What differs:

* Buffers are counted (`buf_count`, `highest_buf_count`), not told apart: the code
  reaches a buffer only through the pointer it was given. `TakeBuffers(n, most)` says
  how many a step takes on balance and at its peak. Beyond `NUM_BUFS` the code exits;
  in the model no step is enabled, which TLC would report.
* `rv` is `insert_recurse_result` or `delete_recurse_result`. `modified_key` passes
  through `as_int`, the conversion to an `int` of `INT_BITS` and back to a key of
  `KEY_BITS`: low bits, sign carried up.
* `read_left_first` is one variable of the process: it survives `bt_close`, and `Exit`,
  the end of the process, resets it. A sibling that is not needed is read and given
  back in the same step (`is_left_sib`, `SiblingRead`).
* The binary searches are modelled as they are (`binary_search`), so that nothing is
  assumed of the order of the keys: run `c_wide` needs it.
* A failed assertion ends the process. `NewNodeAborts` is the one that can fail:
  `bt_new_node` takes a block that `bt_free_node` never marked. The first bytes of that
  block are what its buffer held: the pointer of the pool's list, a multiple of 8,
  never 9999. The node is being split in memory only, so the file is that of before the
  call. Other assertions that fail would leave no step enabled. A build with `NDEBUG`
  is not modelled: it would go on with an address that was never set.
* A buffer is not cleared when it is taken: the model keeps what the code sets in it
  (keys and values up to `nkeys`, the next leaf of a leaf, the next block of a free one).
  In a block that `bt_free_node` writes only `values[0]` is set (`Unset`): leaf
  flag, `nkeys` and keys are left from earlier use. The tag `free` is the model's and not
  the file's, no step looks at it, and whoever reads the block as a node may find anything
  there (`MayAnswer` in `CBTreeProps`).
* `bt_insert` returns 1 and `bt_delete` returns 1 where `btree.py` raises: both are
  `Raised`. An update is `bt_insert` with `allow_update`, which also inserts.

### How BlockCache corresponds to the code

* `lru` is the linked list, least recent first; the dictionary is the field `entry` of its
  nodes. After a failed write the list has a node the dictionary does not know: `entry`
  is false and the node stays where it is, as in `_access` (`disk.py:59-63`).
* A cached block and the caller's buffer are one object (`shared`) until the block is
  evicted or replaced or the call is over: `Modify` changes both.
* `_write_block` and `_read_block` are the sets of the ways they may end: done, `OSError`,
  a short write found by the assertion behind it, or `start_io`'s assertion, which fails
  once an `OSError` has left a start time (`started`). `_access` is the set of its own
  ways to end, with the list and the dirty set each leaves. An action is one call of
  `read` or `write`, with all of its I/Os; `flush` is one action per block.
* A call that raises lets go of the caller's buffers (`Raise`); the application may go on,
  close, close again, or end the process (`Exit`).

### How IOTrace corresponds to the code

`stats` is the stack `_stats`; `start` says that `_start` is a time. Times are small
integers; a quotient is a pair, and the deviation is told by the variance, so that
`_stdev_from_sums` is the polynomial it is, without the rounding of floats.
`IOTraceProps` adds who uses it: `Call` is any call of a tree, `Check` is
`check_integrity` or `print`, which open a scope at their start and close it at their
end, but not when they raise. Its history variables are `want`, the scopes the application
has, those that checks left it when they raised included, each with the I/Os counted in it,
and `checked`, the I/Os of the check under way.

### How MemBTree corresponds to the code

* `heap` holds the node objects, with arrays indexed from 0 and padded with `None`. A call
  is one step: nothing in it waits, and only assertions can fail. Each `Node.asserts` and
  `assert_min_capacity` of the code clears the node's field `ok` when it does not hold.
* `insert_recurse` and `delete_recurse` are the path down (`PathTo`) and a fold up it.
* The generator is its frames: the node object, the index and the end of each `range`,
  which is fixed when the frame is made. It runs only in `next()`, so that it sees the
  tree as its caller has changed it since. A merge leaves the left node object, with its
  pairs, to a frame that is still in it: `Keep` retains what the root or a frame leads to.
* Identities of objects are only compared within a call, so that they are numbered anew
  after each: states that differ in them alone are one.

### How check_integrity corresponds to the code

`check_integrity` in `DiskBTreeProps` looks at every block of the file, as the code does:
blocks marked free, leaves and nodes by what is in them, one parent per block,
the two lists from the block nobody points to, and no block left over. `Integrity`
is stronger, as it follows the header's pointer.

## What the runs show

| Run | Instance | Result |
|---|---|---|
| `tree` | capacity 2; five keys (all five at once only until the file has grown beyond `GrownSize` blocks): all other histories of insert, delete, update of one key to another value, close and open; nine keys: filled in ascending order, then deletes in every order | 364,175 states |
| `deep` | capacity 3, keys 1..10, filled in ascending order to 9 blocks, then deletes in every order | 430,335 states |
| `map` | capacity 2, four keys and one that does not fit, updates also to a value that does not fit, lookups, ranges with bounds and limits | 146,734 states, with liveness |
| `leak` | as `map` | violation of `NoOrphans` |
| `c_tree` | `btree.c`, capacity 2; four keys (all four at once likewise): histories of inserts, deletes, reopenings and aborts; nine keys: filled in either order, then deletes in every order | 329,437 states |
| `c_map` | capacity 2, four keys, updates, lookups, ranges with bounds {1, 3} and limits {0, 2} | 80,979 states, with liveness |
| `c_abort` | capacity 2, four keys | violation of `NewNodeAssertionHolds` |
| `c_wide` | keys of 4 bits, an `int` of 3 bits | violation of `DuplicateIsError` |
| `cache` | 3 addresses, 2 contents, caches of 0 (off), 1 and 2 blocks, another size at each opening, one failing system call | 582,356 states up to symmetry |
| `io_error` | cache off, one failing system call | violation of `NoIoUnderWay` |
| `iotrace` | four scopes, five I/Os in them, times 1 and 2, any number of failing calls | 210,105 states |
| `mem` | `pybtree.py`, capacity 2, keys 1..6, loops whose bodies insert and delete two of them | 14,987 states, with liveness |

* Between calls (`tree`, `deep`): `Integrity` says that every
  block is in the tree once or on the free list and that the leaves form one list,
  `SearchTree` that every key is found where the search looks and that the
  leaves ascend, `Balanced` that depth and fill are those of a B+tree.
* In the middle of calls (`tree`): the file at each write is the file a crash leaves.
  A search in it that finds a key finds a right value (`CrashFindsNoWrongValue`),
  inserts never leave a pointer to a block that is no live node
  (`InsertLeavesNoDanglingChild`), the list of leaves is complete at the end of each
  handler (`LeafListIsBeforeOrAfter`), and the blocks of the free list are marked free
  but in one window (`FreeListIsMarked`): `free()` writes the header before it marks the
  block (`btree.py:191-192`). A crash between the two leaves a leaf or node, whole and
  with its parent's pointer to it, at the head of the free list, where `new_node` takes
  it, and takes its first key for the next free block.
  What does *not* hold, and is not claimed: from then until the parent is written parent
  and free list both lead to the freed block, so that a crash in between leaves a file
  whose next split hands out a block the tree still points to; between the writes of a
  split or a borrow keys are missing from the file; and blocks may be lost.
* To the caller (`map`): `ImplementsMap` is the refinement of `OrderedMap`,
  so that each call's result and effect are those of a map, also for calls that
  raise and over closing and reopening; `CallsReturn` says that each call ends.
* `map` also says what `check_integrity` is worth (`IntegrityCheckIsRight`): it accepts
  every file no block is lost from, and a file it accepts has lost at most blocks that
  are still marked free. Those it does miss: `btree.py` with blocks of 48 bytes, after
  inserts of 2, 1, 3, deletes of 1 and 2, an insert of 1 and one of `2**64` that
  raises, has a header that leads to block 96 while block 144 is lost, and the check passes.
* `leak` is a disagreement of the code with `check_integrity`'s documentation
  (`btree.py:200`): an `int` that does not fit, inserted into a full leaf, raises
  after `new_node` and orphans a block. The code does the same: inserting `2**64`
  into a full leaf makes `check_integrity` fail with "1 orphan blocks".
* `c_tree`: between calls, and after an abort, the file of `btree.c` is whole
  (`FileIntact`), every key is found where the search looks (`KeysFound`), depth and
  fill are those of a B+tree (`Level`). Every path gives back its buffers
  (`NoBufferLeaked`), and a call needs at most three beyond the depth of the tree
  (`BuffersFollowDepth`), so that the ten are enough up to seven levels. A merge happens
  only if neither neighbour can lend a key, whichever was read first
  (`MergesOnlyWithoutLender`). In the middle of calls: unlike `btree.py`, a delete writes
  the node that gains a pair before the one that loses it, so that no other pair is ever
  missing from the file's leaves (`DeleteKeepsACopy`). In a file left behind
  at any write `bt_lookup` answers a value from before or after the call, or none, unless
  it comes upon a freed block. Such a block cannot be recognised and may pass for a leaf
  with the key in it, so that the free pointer or an old value is returned for
  its value. That happens only in the window of a delete between the write of the freed
  block and that of the parent, or the header, that still leads to it
  (`OnlyAnUnwrittenParentMisleads`), and no leaf leads to one. Inserts do lose keys for a
  moment, as in `btree.py`.
* `c_map`: for keys that fit an `int`, `btree.c` implements `CMap`: the results and effects
  are those of a map, and a call that ends the process has no effect.
* `c_abort`: after a delete has freed a node, the first insert that must split one fails
  the assertion of `bt_new_node` (`btree.c:205`), since `bt_free_node` does not mark what
  it frees, as `btree.c:25` says a free block is marked.
* `c_wide`: with keys that do not fit an `int` a borrow stores a wrong separator
  (`btree.c:871`), and `bt_insert` takes a key that is there, against `btree.c:689-690`.
  `btree.c`, compiled with two keys to a node, does this with 1, 2^31, 2^31+1, a delete
  of 2^31+1 and an insert of 2^31.
* `cache`: until a system call fails the cache holds the most recently used blocks
  (`CacheHoldsMostRecent`). No write is lost (`NoWriteLost`), everything is in the file
  after a `close` that returns, be it the second try (`ClosedIsWritten`), `flush` finds
  every block it has to write (`FlushFindsItsBlocks`), and the cache cannot be told from a
  plain store of blocks (`ImplementsStore`), but for what a call that raised was about:
  blocks it had changed and not written (which stay in the cache, half changed), the
  block whose eviction failed, and a block half written. With a cache, then, an insert of
  a duplicate key loses nothing, while one of a key that does not fit could leave a
  half-shifted node; with `CACHE_SIZE = 0`, as the tree has it, it cannot.
  After a failed write a list node that the dictionary does not know stays in the list;
  when it is evicted, its old block could be written over a newer one. After an
  `OSError` the assertion in `start_io` stops that (`FailStop`); after a short
  write it does not, and the model keeps that block's contents unsure for good.
* `io_error`: the same assertion (`disk.py:178`) stops all I/O of the process, for every
  tree and also in `close()`, after one `OSError`: nothing takes the start time back.
* `iotrace`: each I/O of a call is counted in the innermost scope and those of
  a check in a scope of its own, which is gone when the check returns; a check that raises leaves
  its scope with its I/Os to the application, whose next calls are counted there and whose
  next `pop` takes it (`ScopesAreTheCallers`, whatever has raised). Averages and
  deviations are those of the list of times, and 0 of none (`AnswersAreOfTheTimes`). With floats the variance of equal
  times can come out negative, and `disk.py:216` then gives a complex number: the
  code does, the model, without rounding, does not show it.
* `mem`: no assertion of `pybtree.py` fails (`AssertionsHold`), nodes are ordered and full
  (`SortedAndFull`), `size` and `depth` are what they say (`SizeAndDepthAgree`), and every
  call in every tree acts as on a map, a call that raises changing nothing
  (`CallsActOnAMap`). A loop over a tree nobody changes yields its pairs in order.
  If its body inserts and deletes, the loop ends (`IterationEnds`)
  and yields no pair that was not in the tree since it began, but possibly
  `(None, None)` (`IterationIsRight`); it may skip and repeat pairs, or end with an
  `AttributeError` on a child that has moved.

### Bounds

A capacity of 2 makes both minima 1 and every node either minimal or full, so that
five keys already reach three levels of splits and merges and every kind of borrow of
leaves. Inner nodes borrow only in larger trees: `tree` and `c_tree` also build trees of
nine keys in order (`c_tree` from either side), so that the left or the right inner node
has a child to spare, and drain them in every order.
Capacity 3 (odd, as the real 255: the midpoints of keys and values and the two
minima behave differently) with ten keys reaches merges of inner nodes and borrows
from the left. The constraints: `FewOrFilledThenDrained` (the tree has keys of `Few` only,
and all of them at once only until the file has grown beyond `GrownSize` blocks; or it is
filled with the others in one of `FillOrders` until it has `FillSize` blocks, and then
drained), `UnfitStaysSmall` (a call with a key or value that does not fit
is made only while the file has at most `MaxBlocks` blocks: the leak lets the file grow for
ever), and `LoopTouchesFew` (a loop's body changes only the keys of `Touched`, two in the
middle of the tree, so that they are borrowed, split off and merged under the loop).

In `cache`, three addresses and two cached blocks give evictions of clean, dirty and
held blocks; one failure (`MaxFaults`) reaches the nodes the dictionary does not know, nodes
without a block, `close` tried again, and the write of an old block over a newer one; two take
TLC too long. Addresses are alike (`Symmetry`; the run has no liveness). In `iotrace`,
`MaxScopes` and `MaxIOs` bound what is on the stack, not the length of a history.
As a check on the model itself, the set of files reachable between
calls was compared with the files `btree.py` produces for the same calls (capacity 2
with 4 and 5 keys: 321 and 16,342 files, capacity 3 with 6 keys: 672): they are equal.
The same was done for `btree.c`, compiled with blocks of 48 bytes: the pairs of file and `read_left_first` between calls
are equal for 4 keys (207) and for 5 keys (2032), and every abort left the file as it was.

In `c_tree` the file never reuses a freed block, because the assertion ends
the process first; keys and ints have the same width, so that what they show is about
keys that fit an `int`. `c_wide` gives the `int` one bit less.

### Fairness

`Spec` assumes weak fairness of `CodeStep` alone, the steps of the code within a
call: the code is one thread that does not block (`CBTree` likewise).
Nothing is assumed of the caller, which may stop calling. `MemBTree` assumes weak
fairness of `iter_next`: a `for` loop goes on calling `next()`, whatever its body does
in between. The cache and the statistics have no fairness, and no liveness is claimed
of them.

## What is proved

The assumptions are the named ASSUMEs of the modules that declare the constants; TLC
evaluates them in the runs.

### The tree

For every capacity from 2 on, every set of calls, every set of words and every
length of history (`DiskBTree_proofs`):

* `InvariantHolds`: `Spec => []IInv`;
* `TypeCorrect`: `Spec => []TypeOK`;
* `NodesAlwaysFit`: `Spec => []NodesFit`: no array of a node is overrun, and keys and
  values stay in step, in the file, in memory and in the queued writes.

`NodesFit` alone is not inductive. That a merge fits follows from the guards of
`delete_leaf` and `delete_node` alone, but that an index is inside its array needs the
frames' indices (`Frames`), that a returned index to delete is one of the parent's
(`CallInv`), and that a write of a node never goes to block 0, where the header is,
needs that a frame at address 0 could only be a header. `IInv` is the conjunction of
`DiskInv`, `PathInv` and `CallInv` that says this.

The proof: the first part of `DiskBTree_proofs` shows that each array operation and each
split and merge turns sound nodes into sound nodes; the last part has one lemma for each way in
which a handler ends (`FinishInv`, `ReturnSplitInv`, `ReturnBorrowInv`,
`ReturnMergeInv`), one for each action, and joins them in `StepInv`.

### The cache

For all sets of addresses and contents, all sizes of the cache (another one at each
opening) and any number of failing system calls (`BlockCache_proofs`), all that run
`cache` checks:

* `CacheInvariantHolds`: `CPSpec => []CacheInv`;
* `CacheIsAStore`: `CPSpec => ImplementsStore`, the refinement of `BlockStore`;
* `NoWriteIsLost`, `CloseWritesAll`, `FlushFindsAll`: the invariants `NoWriteLost`,
  `ClosedIsWritten`, `FlushFindsItsBlocks`;
* `FailuresStop`: the action property `FailStop`;
* `MostRecentAreCached`: `[]CacheHoldsMostRecent`.

`CacheInv` is needed for what the properties do not say. The dictionary has at most one
node for an address, while the list may have others, whose write-back failed: of such
an address nothing is sure (`NodesOK`), and without that an eviction of the old node
could overwrite a newer block. A dirty address has its block in the dictionary, and
was once written (`DirtyOK`). What is neither dirty nor being changed is on file (`FileOK`).
While `flush` runs, all but what it still has to write is on file, and no buffer is held;
without a cache nothing is listed or dirty (`ModesInv`). For `CacheHoldsMostRecent`,
`RecentInv` adds that until a system call fails every node of the list is known to the
dictionary and read, so that its length is that of the dictionary, which decides whether
to evict.

`_access`, `_read_block` and `_write_block` are sets of outcomes. One lemma for each says
which outcomes there are (`WriteBlockIs`, `ReadBlockIs`, `HitIs`, `MissIs`, `EvictionIs`,
joined in `AccessIs`); the lemmas of the actions (`ReadStep`, `WriteStep`, ...) prove
the invariant and the step of `BlockStore` together, since a read returns what the
store has because of the invariant.

### The statistics

For all sets of times and all bounds (`IOTrace_proofs`):

* `TraceInvariantHolds`: `TPSpec => []IInv`;
* `ScopesStayTheCallers`: `[]ScopesAreTheCallers`;
* `AnswersStayRight`: `[]AnswersAreOfTheTimes`: the deviation from running sums is
  the mean squared distance from the mean, for lists of any length.

The last one is an induction over the list of times. `Sum` is a recursive function
and not an operator, and `Induction` has the principle as a lemma about a set of naturals
(`SetInduction`), with the existence and uniqueness of a function defined by recursion
(`RecursionExists`, `RecursionUnique`), proved from the well-foundedness of `<`. The
invariant is that each scope counts and sums what its lists hold (`Tallied`), and that the
stack is the application's, scopes that raised checks left it included, with one more
during a check.

### The shape of the tree

For every capacity, every set of calls and every history, calls that raise included
(`DiskBTreeProps_proofs`):

* `ShapeHolds`: `PSpec => [](IInv /\ ShapeInv)`;
* `AlwaysBalanced`: `PSpec => []Balanced`;
* `FreeListStaysMarked`: `PSpec => []FreeListIsMarked`;
* `NoDanglingChild`: `PSpec => []InsertLeavesNoDanglingChild`;
* `NoBlockIsLost`: `AllFit => (PSpec => [](NoOrphans /\ (pc = "idle" => Lost = {})))`.
  `AllFit` says that the keys and values of inserts and updates fit their slots. Without
  it `NoOrphans` is false (run `leak`): `InsertLeafSplitRaises` allocates a leaf and then
  raises. Every other step is shown to lose nothing, and under `AllFit`, which the calls
  of runs `tree` and `deep` satisfy, that one is never taken.

That the leaves are equally deep is not inductive, since in the middle of a call the file
is not a tree. What is a tree is the file *once the writes issued have reached it*
(`After`): `Shape(f, lv, s)` says of that file `f` that every child pointer of a node leads
to a leaf or node one level further down that no other pointer leads to (`Forest`, with
the number `lv[a]` of levels below each block), that all but the top have their minimum of keys
(`Full`), that the free list is the blocks `s` (`Chain`), and how what the code holds in
memory relates to it: the frames are a path of children from the root (`OnPath`), the
new block of a split has no parent and the right level (`NewChild`), and a block that a merge has
freed is the one child pointer that leads nowhere (`Hole`), at the index that the
recursion returns. The top is what the header says or, before `set_root`, what it will
say (`Apex`). `Ordered` says that the header and free blocks are
written before leaves and nodes; the two crash theorems need it, and say of the file as it
is, between any two writes, what holds of it. `QueueInv` is what `FreeListStaysMarked` adds:
the header can only be first in the queue, and a free block is queued only in a delete,
right behind the header that leads to it. So once only leaves and nodes are queued the free list
on file is the `Chain` of `f`, and before that it is the old one or the window is open.
`LinkInv` is what `NoDanglingChild` adds: each write of
an insert has pointers only to blocks already on file.

`BookInv`, for `NoBlockIsLost`, keeps the books of the blocks: of the same file `f`, every
block below `file_size` is in the free list, the child of some node, the top, or
`Pending`: the new block of a split whose parent does not point to it yet (`Booked`). A
block a merge has just freed, still a child of its parent, is in the free list. To have a
parent is less than to be in the tree, but each step has to account only for
the blocks whose parent it changes; that the root leads to every such block follows between
calls by going up a level at a time (`LiveIsReached`).

The proof: the middle part of `DiskBTree_proofs` has what each kind of write does to any file with a forest in
it (`LeafSplit`, `NodeSplit`, `TopAdded`, `NodesShared`, `NodesMerged`, ...), from
what the operations of `NodeOps` do to the children of a node, seen as sets
(`SplitNodeKids`, `MergeNodesKids`, ...). `DiskBTreeProps_proofs` has one lemma for each
action, joined in `StepShape`. That what `Balanced` computes from the file (`Depths`, `Reached`) are
these levels, and that the walk of the free list (`FreeChain`) is `s`, are inductions
(`DepthsAreLevels`, `ReachedIsClosed`, `FreeChainMembers`) by way of `Induction`.

### The order of the keys and of the leaves

For every capacity, every set of calls and every history, calls that raise included
(`DiskBTreeOrder_proofs`, `DiskBTreeSearch_proofs`):

* `OrderHolds`: `PSpec => []OrderInv`;
* `KeysAreFound`: `PSpec => []SearchTree`;
* `FileIsSound`: `AllFit => (PSpec => []Integrity)`; like `NoOrphans` it is false without
  `AllFit`, which the calls of the run that checks it satisfy;
* `IntegrityCheckWorks`: `PSpec => []IntegrityCheckIsRight`.

`SearchTree` speaks of files between calls; what keeps it true is an invariant of the middle
of calls. `OrderInv` gives each block of the file (again the file once the writes issued have
reached it; of the file between two writes `OrderInv` says nothing, and a borrow has a key
out of its range there) a range of keys, from `lo[a]` up to but not including `hi[a]`, 0 and -1 standing for
no bound. In a sound file (`Good`) the keys of a leaf are in its range and ascend, those of
a node are inside its range and are the bounds between the ranges of its children
(`Fences`), the ranges of two leaves are apart, and a leaf points to the leaf whose range
begins where its own ends, from block 1 on (`Listed`).
While a call goes back up, the node it comes to does not fit its children yet: a split has
divided a child's range without the separator, a merge has joined two. So `Good`
is said of the file with that node as it will be (`InHand`: with the new key and child, with
the key and child between the merged ones gone, or with the key that a borrow has changed), which
may have one key too many or too few. While a new root is made two halves share all
keys (`Ends`); `Truth` says that the nodes in memory are those on file, and `Aim` that a
search is at a block whose range has its key.

The proof has three layers: what the array operations do to the keys of one node and the
ranges of its children (`NodeCut`, `LeafCut`, `KeyMoved`, `NodesJoined`, ...); what replacing
a block or two does to the whole file, where only the blocks named are affected
(`Cutting`, `Moving`, `Uniting`, `Topless`); and one lemma for each action, where a split,
borrow or merge above the leaves is at once the end of the work on one node and the
beginning of that on its parent. That the search ends at the right leaf, that the walk along
the list meets all leaves, and that the walk of `check_integrity` along each list meets the
blocks of the list and 0 behind them are inductions by way of `Induction`.

### btree.c

For every capacity, every pool of buffers, and whatever the blocks of the file hold
(`CBTree_proofs`): `BuffersAreGivenBack`, `CPSpec => []NoBufferLeaked`. Its invariant
`BuffersInv` says that in the middle of a call the buffers taken are the frames of the
recursion, all but the old root's while a new root is made.

### Only model-checked

What a search finds in the middle of a call and what the list of leaves holds then, what is
said of `btree.c` beyond the buffers, the in-memory tree, the refinements of `OrderedMap` and
`CMap`, and all liveness. Liveness under fairness is beyond TLAPS as used here.

## Not modelled

* `print`, `depth`, `__repr__`, `_IOTrace.get`, the dump functions and the demonstration in
  `main` of `btree.c` only read, call or format.
* `rust/` is an unfinished port of `btree.c`: lookup and insert, without the list of leaves,
  delete or reopening (`NodeFile::open` initialises whatever file it is given,
  `rust/file.rs:134`). Its algorithms are those `DiskBTree` and `CBTree` model, and it has
  no state of its own that a model could add.
* I/O errors inside a call of the tree: `BlockCache` has them for any caller, `DiskBTree`
  does not compose them; the file after each prefix of a call's writes is what run
  `tree` looks at. `btree.c` exits when a system call fails. A block write is atomic in
  `DiskBTree` and `CBTree`, as the code assumes; in `BlockCache` it may be short.
* In `bt_open` the header and the root are two writes; a process that ends between them
  leaves a file whose root cannot be read, and nothing is claimed of it.
* The rounding of floats in the statistics.

## Plan

1. *(done)* `NodeOps`, `MapCalls`, `OrderedMap`, `DiskBTree` with its properties,
   its inductive invariant and the theorems above; `check_integrity` as a predicate.
2. *(done)* `BlockStore`, `BlockCache` with failing I/O and the refinement; `IOTrace`.
3. *(done)* `CBTree` with its buffer pool, `CMap` and the refinement, checked.
4. *(done)* `MemBTree` with its counters, its assertions and its generator.
5. Theorems. *(done: all properties of the cache and of the statistics; of the tree its
   types, its balance, its free list, its dangling pointers and its lost blocks, the order of its keys
   and leaves, and `check_integrity`; the buffers of `btree.c`)* That the tree's content is
   the map's; the type
   invariant of `CBTree` and, by the lemmas about files of `DiskBTree_proofs`, its shape; that an abort
   changes nothing.
6. The binary searches as loops, and a proof that they return what `NodeOps` says.
7. Crash and reopening in the middle of a call: which calls a reopened file still serves.
