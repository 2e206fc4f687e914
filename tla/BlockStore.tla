----------------------------- MODULE BlockStore -----------------------------
(***************************************************************************)
(* What btree.py has of disk.BlockCache: blocks in a file.  read() gives a *)
(* buffer with the block's contents, the caller changes the buffer in      *)
(* memory, write() stores it.                                              *)
(*                                                                         *)
(* The caller is btree.py: within one call it never reads a block again    *)
(* that it has changed and not yet written, and a call that returns has    *)
(* written every block it changed.  A new DiskBlock is only made for a     *)
(* block that was never written; _init_file reads such a block, and gets   *)
(* zeros.                                                                  *)
(*                                                                         *)
(* A call that raises, of its own or because an I/O fails, stores nothing  *)
(* of what it had not written; but the blocks it had changed, and one that *)
(* an I/O was for, hold no one knows what until they are written again.    *)
(***************************************************************************)
CONSTANTS
  Addrs,     \* block addresses
  Contents,  \* contents of a block
  Blank,     \* the contents of a new DiskBlock: zeros
  Nothing,   \* no contents: no buffer, no cache entry, a block behind the end of the file
  Unsure     \* contents no one knows

VARIABLES
  stored,   \* what is stored at each address
  held,     \* the buffer the caller holds for each address
  changed,  \* the addresses whose buffer was changed and not yet written
  open      \* whether there is a tree on the file

storeVars == <<stored, held, changed, open>>

NoBuffers == [a \in Addrs |-> Nothing]

\* Where nothing was written readinto() leaves the buffer as DiskBlock made it.
BlockRead(c) == IF c = Nothing THEN Blank ELSE c

StoreInit == stored = NoBuffers /\ held = NoBuffers /\ changed = {} /\ open = TRUE

StoreRead(a) ==
  /\ a \notin changed
  /\ \E c \in IF stored[a] = Unsure THEN Contents ELSE {BlockRead(stored[a])} :
       held' = [held EXCEPT ![a] = c]
  /\ UNCHANGED <<stored, changed, open>>

\* DiskBlock(addr), for a block behind the end of the file.
StoreNewBlock(a) ==
  /\ held[a] = Nothing /\ stored[a] \in {Nothing, Unsure}
  /\ held' = [held EXCEPT ![a] = Blank]
  /\ UNCHANGED <<stored, changed, open>>

StoreModify(a, c) ==
  /\ held[a] # Nothing
  /\ held' = [held EXCEPT ![a] = c]
  /\ changed' = changed \cup {a}
  /\ UNCHANGED <<stored, open>>

\* The block of a failed write-back may be written over this one later.
StoreWrite(a) ==
  /\ held[a] # Nothing
  /\ \E c \in {held[a]} \cup ({stored[a]} \cap {Unsure}) : stored' = [stored EXCEPT ![a] = c]
  /\ changed' = changed \ {a}
  /\ UNCHANGED <<held, open>>

\* The call returns.
StoreLetGo ==
  /\ changed = {}
  /\ held' = NoBuffers
  /\ UNCHANGED <<stored, changed, open>>

Without(lost) == [a \in Addrs |-> IF a \in lost THEN Unsure ELSE stored[a]]

\* The call raises.
StoreRaise ==
  /\ held' = NoBuffers
  /\ changed' = {}
  /\ \E a \in Addrs : \E lost \in SUBSET (changed \cup {a}) : stored' = Without(lost)
  /\ UNCHANGED open

\* close(): nothing is lost.
StoreClose ==
  /\ held = NoBuffers
  /\ open' = FALSE
  /\ UNCHANGED <<stored, held, changed>>

\* The process ends, with more than one block in its cache.
StoreExit ==
  /\ held' = NoBuffers
  /\ changed' = {}
  /\ \E lost \in SUBSET Addrs : stored' = Without(lost)
  /\ open' = FALSE

StoreOpen == ~open /\ open' = TRUE /\ UNCHANGED <<stored, held, changed>>

StoreNext ==
  \/ open /\ \/ StoreLetGo \/ StoreRaise \/ StoreClose \/ StoreExit
             \/ \E a \in Addrs :
                  \/ StoreRead(a) \/ StoreNewBlock(a) \/ StoreWrite(a)
                  \/ \E c \in Contents : StoreModify(a, c)
  \/ StoreOpen

StoreSpec == StoreInit /\ [][StoreNext]_storeVars
=============================================================================
