-------------------------------- MODULE Bcache -------------------------------
(***************************************************************************)
(* kernel/bio.c: the buffer cache, with the sleep-lock of each buffer.     *)
(*                                                                         *)
(* Buffers are 1..NBUF: blockno (None until first used), valid, refcnt,    *)
(* data, and owner, the holder of b->lock.  lru is the list bcache.head,   *)
(* the most recently used first.  disk is what virtio_disk_rw() reads and  *)
(* writes.  held[p] is the set of buffers that p has from bread(); pc and  *)
(* cur are where it is in bread() or brelse(), and with which buffer.      *)
(* logged is the set of blocks pinned by the log.                          *)
(*                                                                         *)
(* Each section under bcache.lock is one step; the sleep-lock is taken and *)
(* given up in steps of their own, because bcache.lock is not held then.   *)
(* Callers keep to an order when they lock several buffers: a block of the *)
(* log before a home block (log.c:74-75, 184-185), an indirect block       *)
(* before a bitmap block (fs.c:395-398, 427-430).  Blocks are numbered in  *)
(* that order here, so that MayGet can state it.                           *)
(***************************************************************************)
EXTENDS Integers, FiniteSets

CONSTANTS Procs,    \* processes
          Blocks,   \* block numbers, positive integers
          Data,     \* contents of a block
          NBUF,     \* buffers
          MaxHeld,  \* buffers that a process locks at the same time
          MaxPins   \* blocks that the log pins at the same time

ASSUME ProcsAssumption == IsFiniteSet(Procs) /\ 0 \notin Procs
ASSUME BlocksAssumption == Blocks \subseteq Nat \ {0}
ASSUME DataAssumption == Data # {}
ASSUME SizeAssumption == NBUF \in Nat /\ MaxHeld \in Nat /\ MaxPins \in Nat

None == 0
Bufs == 1..NBUF

VARIABLES blockno, valid, refcnt, data, owner, lru, disk,
          pc, cur, held, logged, panicked

buf    == <<blockno, valid, refcnt, data, owner>>
thread == <<pc, cur, held>>
vars   == <<buf, lru, disk, thread, logged, panicked>>

\* binit(): each buffer is put in front of the list.
Init ==
  /\ blockno = [b \in Bufs |-> None]
  /\ valid = [b \in Bufs |-> FALSE]
  /\ refcnt = [b \in Bufs |-> 0]
  /\ data \in [Bufs -> {CHOOSE d \in Data : TRUE}]
  /\ owner = [b \in Bufs |-> None]
  /\ lru = [k \in Bufs |-> NBUF + 1 - k]
  /\ disk \in [Blocks -> Data]
  /\ pc = [p \in Procs |-> "idle"] /\ cur = [p \in Procs |-> None]
  /\ held = [p \in Procs |-> {}]
  /\ logged = {} /\ panicked = FALSE

------------------------------------------------------------------------------
Goto(p, l, b) ==
  /\ pc' = [pc EXCEPT ![p] = l]
  /\ cur' = [cur EXCEPT ![p] = b]

Holds(p, b) == b \in held[p]

Ready(p) == pc[p] = "idle" /\ ~panicked

\* Faulty MayGet: blocks are locked in any order.
MayGet_unordered(p, k) ==
  /\ Ready(p) /\ Cardinality(held[p]) < MaxHeld
  /\ \A b \in held[p] : blockno[b] # k

\* p wants block k, and is allowed to wait for it.
MayGet(p, k) ==
  /\ Ready(p) /\ Cardinality(held[p]) < MaxHeld
  /\ \A b \in held[p] : blockno[b] < k

Cached(k) == {b \in Bufs : blockno[b] = k}

\* bget(): the block is cached.
bget_hit(p, k) ==
  /\ MayGet(p, k)
  /\ \E b \in Cached(k) :
       /\ refcnt' = [refcnt EXCEPT ![b] = @ + 1]
       /\ Goto(p, "acquire", b)
  /\ UNCHANGED <<blockno, valid, data, owner, lru, disk, held, logged, panicked>>

\* Faulty bget_recycle: another process may have cached the block meanwhile.
bget_recycle_always(p, k) ==
  /\ MayGet(p, k)
  /\ \E j \in Bufs : LET b == lru[j] IN
       /\ refcnt[b] = 0 /\ \A m \in (j + 1)..NBUF : refcnt[lru[m]] # 0
       /\ blockno' = [blockno EXCEPT ![b] = k]
       /\ valid' = [valid EXCEPT ![b] = FALSE]
       /\ refcnt' = [refcnt EXCEPT ![b] = 1]
       /\ Goto(p, "acquire", b)
  /\ UNCHANGED <<data, owner, lru, disk, held, logged, panicked>>

\* bget(): it is not; recycle the least recently used unused buffer.
bget_recycle(p, k) ==
  /\ MayGet(p, k) /\ Cached(k) = {}
  /\ \E j \in Bufs : LET b == lru[j] IN
       /\ refcnt[b] = 0 /\ \A m \in (j + 1)..NBUF : refcnt[lru[m]] # 0
       /\ blockno' = [blockno EXCEPT ![b] = k]
       /\ valid' = [valid EXCEPT ![b] = FALSE]
       /\ refcnt' = [refcnt EXCEPT ![b] = 1]
       /\ Goto(p, "acquire", b)
  /\ UNCHANGED <<data, owner, lru, disk, held, logged, panicked>>

\* bget(): there is none.
bget_panic(p, k) ==
  /\ MayGet(p, k) /\ Cached(k) = {} /\ \A b \in Bufs : refcnt[b] # 0
  /\ panicked' = TRUE
  /\ UNCHANGED <<buf, lru, disk, thread, logged>>

\* acquiresleep(&b->lock).
acquiresleep(p) ==
  /\ pc[p] = "acquire" /\ owner[cur[p]] = None /\ ~panicked
  /\ owner' = [owner EXCEPT ![cur[p]] = p]
  /\ Goto(p, "read", cur[p])
  /\ UNCHANGED <<blockno, valid, refcnt, data, lru, disk, held, logged, panicked>>

\* The rest of bread(): read the block unless the buffer is valid.
bread(p) ==
  LET b == cur[p] IN
  /\ pc[p] = "read" /\ ~panicked
  /\ data' = [data EXCEPT ![b] = IF valid[b] THEN @ ELSE disk[blockno[b]]]
  /\ valid' = [valid EXCEPT ![b] = TRUE]
  /\ held' = [held EXCEPT ![p] = @ \cup {b}]
  /\ Goto(p, "idle", None)
  /\ UNCHANGED <<blockno, refcnt, owner, lru, disk, logged, panicked>>

\* A holder changes the block and writes it out (bwrite(), as for the log's
\* own blocks), unless the log has it pinned.
bwrite(p, b, v) ==
  /\ Ready(p) /\ Holds(p, b) /\ blockno[b] \notin logged
  /\ data' = [data EXCEPT ![b] = v]
  /\ disk' = [disk EXCEPT ![blockno[b]] = v]
  /\ UNCHANGED <<blockno, valid, refcnt, owner, lru, thread, logged, panicked>>

\* A holder changes the block and leaves it to the log: log_write() pins it
\* the first time.
bpin(p, b, v) ==
  /\ Ready(p) /\ Holds(p, b)
  /\ Cardinality(logged \cup {blockno[b]}) <= MaxPins
  /\ data' = [data EXCEPT ![b] = v]
  /\ logged' = logged \cup {blockno[b]}
  /\ refcnt' = [refcnt EXCEPT ![b] = IF blockno[b] \in logged THEN @ ELSE @ + 1]
  /\ UNCHANGED <<blockno, valid, owner, lru, disk, thread, panicked>>

\* Faulty bunpin: the block is not written home first.
bunpin_unwritten(p, b) ==
  /\ Ready(p) /\ Holds(p, b) /\ blockno[b] \in logged
  /\ refcnt' = [refcnt EXCEPT ![b] = @ - 1]
  /\ logged' = logged \ {blockno[b]}
  /\ UNCHANGED <<blockno, valid, data, owner, lru, disk, thread, panicked>>

\* install_trans(): write the block home and unpin it.
bunpin(p, b) ==
  /\ Ready(p) /\ Holds(p, b) /\ blockno[b] \in logged
  /\ disk' = [disk EXCEPT ![blockno[b]] = data[b]]
  /\ refcnt' = [refcnt EXCEPT ![b] = @ - 1]
  /\ logged' = logged \ {blockno[b]}
  /\ UNCHANGED <<blockno, valid, data, owner, lru, thread, panicked>>

\* brelse(): releasesleep() ...
brelse(p, b) ==
  /\ Ready(p) /\ Holds(p, b)
  /\ owner' = [owner EXCEPT ![b] = None]
  /\ held' = [held EXCEPT ![p] = @ \ {b}]
  /\ Goto(p, "unref", b)
  /\ UNCHANGED <<blockno, valid, refcnt, data, lru, disk, logged, panicked>>

\* Take b out of the list and put it in front.
MoveToFront(b) ==
  LET at == CHOOSE j \in Bufs : lru[j] = b
  IN  [j \in Bufs |-> IF j = 1 THEN b ELSE IF j <= at THEN lru[j - 1] ELSE lru[j]]

\* ... and then, under bcache.lock, drop the reference; a buffer that nobody
\* is waiting for goes to the front of the list.
brelse_unref(p) ==
  LET b == cur[p]
      left == refcnt[b] - 1
  IN
  /\ pc[p] = "unref" /\ ~panicked
  /\ refcnt' = [refcnt EXCEPT ![b] = left]
  /\ lru' = IF left = 0 THEN MoveToFront(b) ELSE lru
  /\ Goto(p, "idle", None)
  /\ UNCHANGED <<blockno, valid, data, owner, disk, held, logged, panicked>>

------------------------------------------------------------------------------
Step(p) == acquiresleep(p) \/ bread(p) \/ brelse_unref(p)

Next == \E p \in Procs :
  \/ Step(p)
  \/ \E k \in Blocks : bget_hit(p, k) \/ bget_recycle(p, k) \/ bget_panic(p, k)
  \/ \E b \in Bufs : bunpin(p, b) \/ brelse(p, b)
  \/ \E b \in Bufs, v \in Data : bwrite(p, b, v) \/ bpin(p, b, v)

Spec == Init /\ [][Next]_vars

\* A process is scheduled, gets a sleep-lock that is free again and again,
\* and releases what it holds.
Fairness == \A p \in Procs :
  SF_vars(Step(p)) /\ \A b \in Bufs : SF_vars(brelse(p, b))

FairSpec == Spec /\ Fairness

------------------------------------------------------------------------------
\* Properties.

\* A block has at most one buffer, so its sleep-lock protects the block
\* (bio.c:13: only one process at a time can use a buffer).
OneBuffer == \A b, c \in Bufs :
  blockno[b] = blockno[c] /\ blockno[b] # None => b = c

\* What a bread() of block k would find now.
Current(k) == IF \E b \in Cached(k) : valid[b]
              THEN data[CHOOSE b \in Cached(k) : valid[b]] ELSE disk[k]

\* A block's contents change only by the hand of a process that has locked its
\* buffer; recycling a buffer never brings old contents back (bio.c:78-82).
ChangedByHolder == [][\A k \in Blocks :
  Current(k)' # Current(k) =>
    \E p \in Procs, b \in Cached(k) : Holds(p, b)]_vars

\* Every bread() returns, and every brelse(), unless bget() ran out of buffers
\* (bio.c:70, 84, 88, 122).
CallsReturn == \A p \in Procs : pc[p] # "idle" ~> pc[p] = "idle" \/ panicked
==============================================================================
