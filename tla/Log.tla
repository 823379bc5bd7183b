--------------------------------- MODULE Log ---------------------------------
(***************************************************************************)
(* kernel/log.c: the redo log that makes groups of file system calls       *)
(* atomic across crashes, over the buffer cache of kernel/bio.c.           *)
(*                                                                         *)
(* Disk:    hdr (header block: the committed block numbers, <<>> when      *)
(*          n = 0), slot (log data blocks), home (home locations).         *)
(* Memory:  cache and pin (bcache: cached contents and pins of a home      *)
(*          block), lh, outstanding, committing (struct log).              *)
(* Process: pc (where it is in begin_op .. end_op .. commit), tail (the    *)
(*          loop variable of write_log and install_trans), wrote (blocks   *)
(*          the operation has logged; it bounds what a client may do).     *)
(*                                                                         *)
(* One action is one section of the code that holds log.lock, or one disk  *)
(* write with the buffer operations around it.  A crash may come between   *)
(* any two actions, and while a data block is being written it may leave   *)
(* that block torn.  The header's 4*(LOGSIZE+1) bytes lie in one disk      *)
(* sector, so a header write is atomic.                                    *)
(***************************************************************************)
EXTENDS Integers, Sequences, FiniteSets

CONSTANTS Procs,        \* processes that run file system calls
          InitProc,     \* the first process: its forkret() runs recovery
          Blocks,       \* home block numbers
          Data,         \* contents of a block
          Torn,         \* contents left by a write that a crash cut short
          NotCached,    \* cache entry of a block that has no buffer
          MAXOPBLOCKS,  \* log blocks begin_op() reserves for an operation
          LOGSIZE,      \* capacity of struct logheader
          nlog,         \* sb->nlog: header block plus log data blocks
          OpBlocks      \* blocks an operation really writes

ASSUME ProcsAssumption == IsFiniteSet(Procs) /\ InitProc \in Procs
ASSUME BlocksAssumption == IsFiniteSet(Blocks)
ASSUME DataAssumption ==
  Torn \notin Data /\ NotCached \notin Data \cup {Torn} /\ Data # {}
ASSUME SizeAssumption ==
  /\ MAXOPBLOCKS \in Nat \ {0} /\ LOGSIZE \in Nat
  /\ nlog \in Nat \ {0} /\ OpBlocks \in 0..MAXOPBLOCKS

VARIABLES hdr, slot, home, cache, pin, lh, outstanding, committing,
          pc, tail, wrote, panicked

disk == <<hdr, slot, home>>
bufs == <<cache, pin>>
log  == <<lh, outstanding, committing>>
thread == <<pc, tail, wrote>>
vars == <<disk, bufs, log, thread, panicked>>

Recovery  == {"read_head", "recover", "recover_clear"}
Commit    == {"write_log", "write_head", "install", "clear", "committed"}
Locations == {"idle", "sleeping", "woken", "op"} \cup Commit \cup Recovery

Logged == {lh[i] : i \in 1..Len(lh)}
OnDisk == Data \cup {Torn}

\* Recovery is over; before that no process but the first exists.
Up == pc[InitProc] \notin Recovery /\ panicked = "no"

\* What bread() returns for block b.
Contents(b) == IF cache[b] = NotCached THEN home[b] ELSE cache[b]

Init ==
  /\ hdr = <<>> /\ slot \in [1..(nlog - 1) -> {CHOOSE d \in Data : TRUE}]
  /\ home \in [Blocks -> Data]
  /\ cache = [b \in Blocks |-> NotCached]
  /\ pin = [b \in Blocks |-> 0]
  /\ lh = <<>> /\ outstanding = 0 /\ committing = FALSE
  /\ pc = [p \in Procs |-> IF p = InitProc THEN "read_head" ELSE "idle"]
  /\ tail = [p \in Procs |-> 1]
  /\ wrote = [p \in Procs |-> {}]
  /\ panicked = "no"

------------------------------------------------------------------------------
\* The buffer cache, as the log sees it.

\* bread() by any process of a block that has no buffer: read its home.
bread(b) ==
  /\ Up /\ cache[b] = NotCached
  /\ cache' = [cache EXCEPT ![b] = home[b]]
  /\ UNCHANGED <<disk, pin, log, thread, panicked>>

\* bget() for another block recycles the buffer of b, which nobody refers to.
recycle(b) ==
  /\ Up /\ cache[b] # NotCached /\ pin[b] = 0
  /\ cache' = [cache EXCEPT ![b] = NotCached]
  /\ UNCHANGED <<disk, pin, log, thread, panicked>>

------------------------------------------------------------------------------
\* File system calls.

\* wakeup(&log): every sleeper of begin_op() becomes runnable.
Woken(f) == [q \in Procs |-> IF f[q] = "sleeping" THEN "woken" ELSE f[q]]

\* Faulty MustWait: leaves out what the new operation itself may write.
MustWait_others == committing \/ Len(lh) + outstanding * MAXOPBLOCKS > LOGSIZE

MustWait == committing \/ Len(lh) + (outstanding + 1) * MAXOPBLOCKS > LOGSIZE

\* One turn of begin_op()'s loop: sleep, or reserve space and go on.
begin_op_sleep(p) ==
  /\ Up /\ pc[p] \in {"idle", "woken"} /\ MustWait
  /\ pc' = [pc EXCEPT ![p] = "sleeping"]
  /\ UNCHANGED <<disk, bufs, log, tail, wrote, panicked>>

begin_op(p) ==
  /\ Up /\ pc[p] \in {"idle", "woken"} /\ ~MustWait
  /\ outstanding' = outstanding + 1
  /\ pc' = [pc EXCEPT ![p] = "op"]
  /\ wrote' = [wrote EXCEPT ![p] = {}]
  /\ UNCHANGED <<disk, bufs, lh, committing, tail, panicked>>

\* An operation writes at most OpBlocks different blocks.
MayWrite(p, b) ==
  Up /\ pc[p] = "op" /\ Cardinality(wrote[p] \cup {b}) <= OpBlocks

LogFull == Len(lh) >= LOGSIZE \/ Len(lh) >= nlog - 1

\* Faulty log_write: no absorption, a block is logged again.
log_write_again(p, b, v) ==
  /\ MayWrite(p, b) /\ ~LogFull /\ outstanding >= 1
  /\ cache' = [cache EXCEPT ![b] = v]
  /\ wrote' = [wrote EXCEPT ![p] = @ \cup {b}]
  /\ lh' = Append(lh, b) /\ pin' = [pin EXCEPT ![b] = @ + 1]
  /\ UNCHANGED <<disk, outstanding, committing, pc, tail, panicked>>

\* bread(b); modify it to v; log_write(b); brelse(b).
log_write(p, b, v) ==
  /\ MayWrite(p, b) /\ ~LogFull /\ outstanding >= 1
  /\ cache' = [cache EXCEPT ![b] = v]
  /\ wrote' = [wrote EXCEPT ![p] = @ \cup {b}]
  /\ IF b \in Logged
     THEN UNCHANGED <<lh, pin>>
     ELSE lh' = Append(lh, b) /\ pin' = [pin EXCEPT ![b] = @ + 1]
  /\ UNCHANGED <<disk, outstanding, committing, pc, tail, panicked>>

log_write_panic(p, b) ==
  /\ MayWrite(p, b) /\ (LogFull \/ outstanding < 1)
  /\ panicked' = IF LogFull THEN "too_big_a_transaction"
                 ELSE "outside_of_trans"
  /\ UNCHANGED <<disk, bufs, log, thread>>

\* Both branches of end_op() panic first when a commit is in progress; a
\* panicked kernel takes no further step, whatever else this one changed.
EndOpPanic == IF committing THEN "log_committing" ELSE "no"

\* end_op() when other operations are in progress.
end_op(p) ==
  /\ Up /\ pc[p] = "op" /\ outstanding # 1
  /\ outstanding' = outstanding - 1
  /\ panicked' = EndOpPanic
  /\ pc' = Woken([pc EXCEPT ![p] = "idle"])
  /\ UNCHANGED <<disk, bufs, lh, committing, tail, wrote>>

\* end_op() of the last one, up to and including commit()'s test of lh.n.
end_op_last(p) ==
  /\ Up /\ pc[p] = "op" /\ outstanding = 1
  /\ outstanding' = 0 /\ committing' = TRUE
  /\ panicked' = EndOpPanic
  /\ pc' = [pc EXCEPT ![p] = IF lh = <<>> THEN "committed" ELSE "write_log"]
  /\ tail' = [tail EXCEPT ![p] = 1]
  /\ UNCHANGED <<disk, bufs, lh, wrote>>

------------------------------------------------------------------------------
\* commit(), by the process whose end_op() was the last.

\* The next turn of a loop over the log's blocks, or what comes after it.
Advance(p, here, after) ==
  /\ tail' = [tail EXCEPT ![p] = IF @ < Len(lh) THEN @ + 1 ELSE 1]
  /\ pc' = [pc EXCEPT ![p] = IF tail[p] < Len(lh) THEN here ELSE after]

\* Faulty write_log: blocks are installed without the header being written.
write_log_install(p) ==
  /\ Up /\ pc[p] = "write_log"
  /\ slot' = [slot EXCEPT ![tail[p]] = Contents(lh[tail[p]])]
  /\ Advance(p, "write_log", "install")
  /\ UNCHANGED <<hdr, home, bufs, log, wrote, panicked>>

write_log(p) ==
  /\ Up /\ pc[p] = "write_log"
  /\ slot' = [slot EXCEPT ![tail[p]] = Contents(lh[tail[p]])]
  /\ Advance(p, "write_log", "write_head")
  /\ UNCHANGED <<hdr, home, bufs, log, wrote, panicked>>

write_head(p) ==
  /\ Up /\ pc[p] = "write_head"
  /\ hdr' = lh
  /\ pc' = [pc EXCEPT ![p] = "install"]
  /\ UNCHANGED <<slot, home, bufs, log, tail, wrote, panicked>>

\* Copy a block from the log to its home, through its buffer.
InstallBlock(p) ==
  /\ home' = [home EXCEPT ![lh[tail[p]]] = slot[tail[p]]]
  /\ cache' = [cache EXCEPT ![lh[tail[p]]] = slot[tail[p]]]

\* Faulty install_trans: bunpin() is missing.
install_trans_pinned(p) ==
  /\ Up /\ pc[p] = "install"
  /\ InstallBlock(p)
  /\ Advance(p, "install", "clear")
  /\ UNCHANGED <<hdr, slot, pin, log, wrote, panicked>>

install_trans(p) ==
  /\ Up /\ pc[p] = "install"
  /\ InstallBlock(p)
  /\ pin' = [pin EXCEPT ![lh[tail[p]]] = @ - 1]
  /\ Advance(p, "install", "clear")
  /\ UNCHANGED <<hdr, slot, log, wrote, panicked>>

\* log.lh.n = 0; write_head().
clear(p) ==
  /\ Up /\ pc[p] = "clear"
  /\ lh' = <<>> /\ hdr' = <<>>
  /\ pc' = [pc EXCEPT ![p] = "committed"]
  /\ UNCHANGED <<slot, home, bufs, outstanding, committing, tail, wrote,
                 panicked>>

\* Faulty end_op_done: begin_op() is not told.
end_op_silent(p) ==
  /\ Up /\ pc[p] = "committed"
  /\ committing' = FALSE
  /\ pc' = [pc EXCEPT ![p] = "idle"]
  /\ UNCHANGED <<disk, bufs, lh, outstanding, tail, wrote, panicked>>

end_op_done(p) ==
  /\ Up /\ pc[p] = "committed"
  /\ committing' = FALSE
  /\ pc' = Woken([pc EXCEPT ![p] = "idle"])
  /\ UNCHANGED <<disk, bufs, lh, outstanding, tail, wrote, panicked>>

------------------------------------------------------------------------------
\* Crashes, and initlog() -> recover_from_log() in the first process.

\* Power loss or panic, then boot: memory starts afresh.
Reboot ==
  /\ cache' = [b \in Blocks |-> NotCached]
  /\ pin' = [b \in Blocks |-> 0]
  /\ lh' = <<>> /\ outstanding' = 0 /\ committing' = FALSE
  /\ pc' = [p \in Procs |-> IF p = InitProc THEN "read_head" ELSE "idle"]
  /\ tail' = [p \in Procs |-> 1]
  /\ wrote' = [p \in Procs |-> {}]
  /\ panicked' = "no"
  /\ UNCHANGED hdr

Crash == Reboot /\ UNCHANGED <<slot, home>>

\* The crash comes in the middle of write_log()'s or install_trans()'s bwrite.
CrashInWriteLog(p) ==
  /\ Reboot /\ panicked = "no" /\ pc[p] = "write_log"
  /\ slot' = [slot EXCEPT ![tail[p]] = Torn]
  /\ UNCHANGED home

CrashInInstall(p) ==
  /\ Reboot /\ panicked = "no" /\ pc[p] \in {"install", "recover"}
  /\ home' = [home EXCEPT ![lh[tail[p]]] = Torn]
  /\ UNCHANGED slot

\* Faulty read_head: the log is cleared without being installed.
read_head_only(p) ==
  /\ pc[p] = "read_head"
  /\ lh' = hdr
  /\ pc' = [pc EXCEPT ![p] = "recover_clear"]
  /\ UNCHANGED <<disk, bufs, outstanding, committing, tail, wrote, panicked>>

read_head(p) ==
  /\ pc[p] = "read_head"
  /\ lh' = hdr
  /\ pc' = [pc EXCEPT ![p] = IF hdr = <<>> THEN "recover_clear" ELSE "recover"]
  /\ UNCHANGED <<disk, bufs, outstanding, committing, tail, wrote, panicked>>

\* install_trans(1): nothing is pinned, so nothing is unpinned.
recover(p) ==
  /\ pc[p] = "recover"
  /\ InstallBlock(p)
  /\ Advance(p, "recover", "recover_clear")
  /\ UNCHANGED <<hdr, slot, pin, log, wrote, panicked>>

recover_clear(p) ==
  /\ pc[p] = "recover_clear"
  /\ lh' = <<>> /\ hdr' = <<>>
  /\ pc' = [pc EXCEPT ![p] = "idle"]
  /\ UNCHANGED <<slot, home, bufs, outstanding, committing, tail, wrote,
                 panicked>>

------------------------------------------------------------------------------
Call(p) ==
  \/ begin_op(p) \/ begin_op_sleep(p)
  \/ \E b \in Blocks, v \in Data : log_write(p, b, v)
  \/ \E b \in Blocks : log_write_panic(p, b)
  \/ end_op(p) \/ end_op_last(p)

CommitStep(p) ==
  write_log(p) \/ write_head(p) \/ install_trans(p) \/ clear(p) \/ end_op_done(p)

RecoveryStep(p) == read_head(p) \/ recover(p) \/ recover_clear(p)

CrashStep ==
  Crash \/ \E p \in Procs : CrashInWriteLog(p) \/ CrashInInstall(p)

Next ==
  \/ \E p \in Procs : Call(p) \/ CommitStep(p) \/ RecoveryStep(p)
  \/ \E b \in Blocks : bread(b) \/ recycle(b)
  \/ CrashStep

Spec == Init /\ [][Next]_vars

\* The scheduler runs every runnable process again and again, an operation
\* ends, and the disk answers.
Fairness == \A p \in Procs :
  /\ WF_vars(pc[p] = "woken" /\ (begin_op(p) \/ begin_op_sleep(p)))
  /\ WF_vars(end_op(p) \/ end_op_last(p))
  /\ WF_vars(CommitStep(p) \/ RecoveryStep(p))

FairSpec == Spec /\ Fairness

------------------------------------------------------------------------------
\* Properties.

\* The type of every variable.
TypeOK ==
  /\ hdr \in Seq(Blocks) /\ lh \in Seq(Blocks)
  /\ slot \in [1..(nlog - 1) -> OnDisk] /\ home \in [Blocks -> OnDisk]
  /\ cache \in [Blocks -> OnDisk \cup {NotCached}]
  /\ pin \in [Blocks -> Nat]
  /\ outstanding \in Nat /\ committing \in BOOLEAN
  /\ pc \in [Procs -> Locations]
  /\ tail \in [Procs -> Nat \ {0}]
  /\ wrote \in [Procs -> SUBSET Blocks]
  /\ panicked \in {"no", "too_big_a_transaction",
                    "outside_of_trans", "log_committing"}

\* What begin_op() reserves is enough.  The first operation of a group finds
\* an empty log; a later one begins with at least one other, and for each of
\* them LOGSIZE holds MAXOPBLOCKS where OpBlocks are used.  The log must not
\* be full even then: log_write() tests that before it looks for absorption.
OpsFitLog ==
  \A cap \in {LOGSIZE, nlog - 1} :
    OpBlocks < cap /\ LOGSIZE - 2 * (MAXOPBLOCKS - OpBlocks) < cap

\* When operations keep to OpsFitLog, none of the panics of log_write() and
\* end_op() (log.c:153, 220, 222) is ever reached.
NoPanic == OpsFitLog => panicked = "no"

\* A buffer whose contents are not yet in its home location is pinned, so
\* that bget() cannot recycle it and lose the write (log.c:231, bio.c:78).
UnwrittenIsPinned ==
  Up => \A b \in Blocks :
    cache[b] # NotCached /\ cache[b] # home[b] => pin[b] > 0

\* Block lh[k] has been installed by the commit in progress.
Installed(k) ==
  \E p \in Procs : pc[p] = "clear" \/ (pc[p] = "install" /\ k < tail[p])

\* Pins are neither leaked nor dropped twice: a block is pinned once while
\* the transaction that logged it is not installed, and not otherwise
\* (log.c:231 against log.c:79).
PinsBalanced ==
  \A b \in Blocks : pin[b] =
    IF /\ pc[InitProc] \notin Recovery
       /\ \E k \in 1..Len(lh) : lh[k] = b /\ ~Installed(k)
    THEN 1 ELSE 0

\* While a commit is in progress no operation is: what write_log() copies is
\* no longer being changed (log.c:131, 155).
CommitAlone == \A p, q \in Procs :
  pc[p] \in Commit => committing /\ pc[q] # "op" /\ (pc[q] \in Commit => p = q)

\* Write-ahead: a home location is overwritten only while the header on disk
\* names it, so that recovery can redo the write (log.c:197-199).
WriteAhead ==
  [][\A b \in Blocks : home'[b] # home[b] => \E i \in 1..Len(hdr) : hdr[i] = b]_vars

\* What a reboot at this point would leave in the home locations: the logged
\* copy of the blocks that the header on disk names, the home of the others.
Recovered == [b \in Blocks |->
  IF \E i \in 1..Len(hdr) : hdr[i] = b
  THEN slot[CHOOSE i \in 1..Len(hdr) : hdr[i] = b]
  ELSE home[b]]

\* What file system calls see, and the operations in progress.
View == IF pc[InitProc] \in Recovery THEN Recovered
        ELSE [b \in Blocks |-> Contents(b)]
Active == {p \in Procs : pc[p] = "op"}

\* The log as an implementation of TxnDisk.
Txn == INSTANCE TxnDisk WITH durable <- Recovered, view <- View, active <- Active

\* A crash is survived at any point: the log implements a disk whose contents
\* change by whole groups of operations (log.c:12-16).
CrashAtomic == Txn!Spec

------------------------------------------------------------------------------
\* The inductive invariant behind the theorems about the log.

InHdr == {hdr[i] : i \in 1..Len(hdr)}
Injective(s) == \A i, j \in 1..Len(s) : s[i] = s[j] => i = j

\* Who may be where: one committer, operations only outside of a commit, and
\* nobody but the first process during recovery.
Exclusive ==
  /\ CommitAlone
  /\ committing => \A p \in Procs : pc[p] # "op"
  /\ \A p \in Procs : pc[p] \in Recovery => p = InitProc
  /\ pc[InitProc] \in Recovery =>
       ~committing /\ \A p \in Procs : pc[p] \notin Commit \cup {"op"}

\* The log in memory, the loops over it, and the header on disk.
LogShape ==
  /\ Injective(lh) /\ Len(lh) < nlog
  /\ Injective(hdr) /\ Len(hdr) < nlog
  /\ \A p \in Procs :
       /\ pc[p] \in {"write_log", "install", "recover"} => tail[p] <= Len(lh)
       /\ pc[p] \in {"read_head", "write_head"} => tail[p] = 1
       /\ pc[p] = "write_head" => lh # <<>>
       /\ pc[p] = "committed" => lh = <<>>
       /\ pc[p] \in {"install", "clear", "recover", "recover_clear"} => hdr = lh
  /\ \/ pc[InitProc] \in Recovery \/ committing \/ lh = <<>>
     \/ \E p \in Procs : pc[p] = "op"
  /\ \/ pc[InitProc] \in Recovery \/ hdr = <<>>
     \/ \E p \in Procs : pc[p] \in {"install", "clear"}

\* Where the contents of a block are.
Copies ==
  /\ \A b \in Blocks :
       /\ cache[b] # Torn
       /\ home[b] = Torn => b \in InHdr /\ pc[InitProc] \in Recovery
       /\ cache[b] = home[b] \/ cache[b] = NotCached \/ pin[b] > 0
       /\ pin[b] > 0 => cache[b] # NotCached
  /\ \A k \in 1..Len(hdr) : slot[k] # Torn
  /\ \A p \in Procs :
       /\ pc[p] = "write_log" => \A k \in 1..(tail[p] - 1) : slot[k] = cache[lh[k]]
       /\ pc[p] = "write_head" => \A k \in 1..Len(lh) : slot[k] = cache[lh[k]]
       /\ pc[p] = "install" => \A k \in tail[p]..Len(lh) : slot[k] = cache[lh[k]]
       /\ pc[p] \in {"install", "recover"} =>
            \A k \in 1..(tail[p] - 1) : home[lh[k]] = slot[k]
       /\ pc[p] \in {"clear", "recover_clear"} =>
            \A k \in 1..Len(lh) : home[lh[k]] = slot[k]

\* The blocks that the operations in progress may still add to the log; none
\* of them would make the log full.
Tokens == {t \in Active \X (1..OpBlocks) : Cardinality(wrote[t[1]]) < t[2]}
Reserved ==
  /\ outstanding = Cardinality(Active)
  /\ \A p \in Active : wrote[p] \subseteq Logged
  /\ OpsFitLog /\ pc[InitProc] \notin Recovery =>
       \A cap \in {LOGSIZE, nlog - 1} : Len(lh) + Cardinality(Tokens) < cap

\* The log is consistent: who may be where, what the log in memory and the header on
\* disk hold, what is pinned, and which copies of a block agree (log.c:34-50, 131-232).
LogInv == TypeOK /\ Exclusive /\ LogShape /\ PinsBalanced /\ Copies

\* Everything above, and that no panic but that of a full log can happen.
IInv ==
  /\ TypeOK /\ Exclusive /\ LogShape /\ PinsBalanced /\ Copies /\ Reserved
  /\ panicked \in {"no", "too_big_a_transaction"}
  /\ NoPanic

------------------------------------------------------------------------------
\* Progress.

\* Nobody sleeps in begin_op() for ever: the end of an operation or of a
\* commit wakes it (log.c:162, 172).
SleeperWoken ==
  \A p \in Procs : pc[p] = "sleeping" ~> pc[p] # "sleeping"
==============================================================================
