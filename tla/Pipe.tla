-------------------------------- MODULE Pipe ---------------------------------
(***************************************************************************)
(* kernel/pipe.c, with the reference counts of kernel/file.c that decide   *)
(* when an end is closed.                                                  *)
(*                                                                         *)
(* struct pipe: lock, data, nread, nwrite (unsigned, modulo UINT),         *)
(* readopen, writeopen; "freed" is set by the kfree() of pipeclose().      *)
(* ends[p] is the set of the pipe's two struct files that process p has    *)
(* open: the file's ref count is the number of processes that have it.     *)
(* pc, i and n are the thread of p in pipewrite() or piperead(); killed is *)
(* p->killed; "out" is the last byte that piperead() took.                 *)
(*                                                                         *)
(* The loops hold pi->lock; a step is one of their turns, or the part of   *)
(* one up to where p->killed was read, since kill() needs no pi->lock.     *)
(* sleep() gives the lock up and sleeps in one step (module Proc has the   *)
(* two), and wakeup() makes all sleepers of its channel runnable.          *)
(***************************************************************************)
EXTENDS Integers, Sequences, FiniteSets

CONSTANTS Procs,     \* processes
          Maker,     \* the one that calls pipe()
          Bytes,     \* contents of a byte
          NoByte,    \* "out" before the first read
          PIPESIZE,  \* bytes in the buffer
          UINT,      \* nread and nwrite count modulo UINT
          MaxN       \* bound on the length of a read or write

ASSUME ProcsAssumption == Maker \in Procs
ASSUME BytesAssumption == NoByte \notin Bytes /\ Bytes # {}
ASSUME SizeAssumption ==
  /\ PIPESIZE \in Nat \ {0} /\ UINT \in Nat /\ MaxN \in Nat
  /\ \E k \in 2..UINT : UINT = k * PIPESIZE

None == "none"
ASSUME NoneAssumption == None \notin Procs

VARIABLES lock, data, nread, nwrite, readopen, writeopen, freed,
          ends, pc, i, n, killed, out

pipe   == <<data, nread, nwrite, readopen, writeopen, freed>>
thread == <<pc, i, n>>
vars   == <<lock, pipe, ends, thread, killed, out>>

Writing == {"w_loop", "w_put", "w_sleep", "w_woken"}
Reading == {"r_loop", "r_check", "r_sleep", "r_woken", "r_copy"}
Closing == {"close_r", "close_w"}

\* pipealloc() and sys_pipe(): the maker has both ends.
Init ==
  /\ lock = None
  /\ data \in [0..(PIPESIZE - 1) -> {CHOOSE b \in Bytes : TRUE}]
  /\ nread = 0 /\ nwrite = 0
  /\ readopen = TRUE /\ writeopen = TRUE /\ freed = FALSE
  /\ ends = [p \in Procs |-> IF p = Maker THEN {"r", "w"} ELSE {}]
  /\ pc = [p \in Procs |-> "idle"]
  /\ i = [p \in Procs |-> 0] /\ n = [p \in Procs |-> 0]
  /\ killed = [p \in Procs |-> FALSE]
  /\ out = NoByte

------------------------------------------------------------------------------
Full  == nwrite = (nread + PIPESIZE) % UINT
Empty == nread = nwrite

\* wakeup(&pi->nread) and wakeup(&pi->nwrite), on the locations f.
WakeReaders(f) == [q \in Procs |-> IF f[q] = "r_sleep" THEN "r_woken" ELSE f[q]]
WakeWriters(f) == [q \in Procs |-> IF f[q] = "w_sleep" THEN "w_woken" ELSE f[q]]

At(p, l) == pc[p] = l /\ lock = p
Goto(p, l) == [pc EXCEPT ![p] = l]

\* release(&pi->lock), and return from the call with the locations f.
Return(p, f) ==
  /\ lock' = None
  /\ pc' = [f EXCEPT ![p] = "idle"]
  /\ i' = [i EXCEPT ![p] = 0] /\ n' = [n EXCEPT ![p] = 0]

------------------------------------------------------------------------------
\* pipewrite().

pipewrite(p, m) ==
  /\ pc[p] = "idle" /\ "w" \in ends[p] /\ ~killed[p] /\ lock = None
  /\ lock' = p
  /\ pc' = Goto(p, "w_loop")
  /\ n' = [n EXCEPT ![p] = m]
  /\ UNCHANGED <<pipe, ends, i, killed, out>>

\* The while condition, and the test for a closed read end or a kill.
pipewrite_check(p) ==
  /\ At(p, "w_loop") /\ i[p] < n[p]
  /\ IF ~readopen \/ killed[p]
     THEN Return(p, pc)
     ELSE pc' = Goto(p, "w_put") /\ UNCHANGED <<lock, i, n>>
  /\ UNCHANGED <<pipe, ends, killed, out>>

pipewrite_sleep(p) ==
  /\ At(p, "w_put") /\ Full
  /\ pc' = [WakeReaders(pc) EXCEPT ![p] = "w_sleep"]
  /\ lock' = None
  /\ UNCHANGED <<pipe, ends, i, n, killed, out>>

pipewrite_put(p, b) ==
  /\ At(p, "w_put") /\ ~Full
  /\ data' = [data EXCEPT ![nwrite % PIPESIZE] = b]
  /\ nwrite' = (nwrite + 1) % UINT
  /\ i' = [i EXCEPT ![p] = @ + 1]
  /\ pc' = Goto(p, "w_loop")
  /\ UNCHANGED <<lock, nread, readopen, writeopen, freed, ends, n, killed, out>>

\* The loop is over, or copyin() fails.
pipewrite_return(p) ==
  /\ \/ At(p, "w_loop") /\ i[p] = n[p]
     \/ At(p, "w_put") /\ ~Full
  /\ Return(p, WakeReaders(pc))
  /\ UNCHANGED <<pipe, ends, killed, out>>

\* sleep() returns with the lock.
wake(p) ==
  /\ pc[p] \in {"w_woken", "r_woken"} /\ lock = None
  /\ lock' = p
  /\ pc' = Goto(p, IF pc[p] = "w_woken" THEN "w_loop" ELSE "r_loop")
  /\ UNCHANGED <<pipe, ends, i, n, killed, out>>

------------------------------------------------------------------------------
\* piperead().

piperead(p, m) ==
  /\ pc[p] = "idle" /\ "r" \in ends[p] /\ ~killed[p] /\ lock = None
  /\ lock' = p
  /\ pc' = Goto(p, "r_loop")
  /\ n' = [n EXCEPT ![p] = m]
  /\ UNCHANGED <<pipe, ends, i, killed, out>>

\* The condition of the waiting loop.
piperead_loop(p) ==
  /\ At(p, "r_loop")
  /\ pc' = Goto(p, IF Empty /\ writeopen THEN "r_check" ELSE "r_copy")
  /\ UNCHANGED <<lock, pipe, ends, i, n, killed, out>>

\* Its body: the test for a kill, and then sleep().
piperead_check(p) ==
  /\ At(p, "r_check")
  /\ \/ killed[p] /\ Return(p, pc)
     \/ ~killed[p] /\ pc' = Goto(p, "r_sleep") /\ lock' = None /\ UNCHANGED <<i, n>>
  /\ UNCHANGED <<pipe, ends, killed, out>>

\* Faulty TakeByte: nread is incremented before it is used.
TakeByte_next ==
  /\ out' = data[(nread + 1) % PIPESIZE]
  /\ nread' = (nread + 1) % UINT
  /\ UNCHANGED <<data, nwrite, readopen, writeopen, freed>>

TakeByte ==
  /\ out' = data[nread % PIPESIZE]
  /\ nread' = (nread + 1) % UINT
  /\ UNCHANGED <<data, nwrite, readopen, writeopen, freed>>

piperead_get(p) ==
  /\ At(p, "r_copy") /\ i[p] < n[p] /\ ~Empty
  /\ TakeByte
  /\ i' = [i EXCEPT ![p] = @ + 1]
  /\ UNCHANGED <<lock, ends, pc, n, killed>>

\* copyout() of the byte fails: the byte is gone and the call returns.
piperead_fault(p) ==
  /\ At(p, "r_copy") /\ i[p] < n[p] /\ ~Empty
  /\ TakeByte
  /\ Return(p, WakeWriters(pc))
  /\ UNCHANGED <<ends, killed>>

\* Faulty piperead_return: the writers are not woken.
piperead_return_silent(p) ==
  /\ At(p, "r_copy") /\ (i[p] = n[p] \/ Empty)
  /\ Return(p, pc)
  /\ UNCHANGED <<pipe, ends, killed, out>>

\* Faulty piperead_return: it waits until it has all it was asked for.
piperead_return_all(p) ==
  /\ At(p, "r_copy") /\ (i[p] = n[p] \/ Empty)
  /\ IF i[p] = n[p] THEN Return(p, WakeWriters(pc))
     ELSE pc' = [WakeWriters(pc) EXCEPT ![p] = "r_loop"] /\ UNCHANGED <<lock, i, n>>
  /\ UNCHANGED <<pipe, ends, killed, out>>

piperead_return(p) ==
  /\ At(p, "r_copy") /\ (i[p] = n[p] \/ Empty)
  /\ Return(p, WakeWriters(pc))
  /\ UNCHANGED <<pipe, ends, killed, out>>

------------------------------------------------------------------------------
\* Files and processes.

\* fork(): filedup() of everything that p has open, for a process q that had
\* nothing open.
fork(p, q) ==
  /\ pc[p] = "idle" /\ ~killed[p] /\ ends[p] # {}
  /\ pc[q] = "idle" /\ ends[q] = {} /\ ~killed[q]
  /\ ends' = [ends EXCEPT ![q] = ends[p]]
  /\ UNCHANGED <<lock, pipe, thread, killed, out>>

\* Faulty fileclose: other references to the file are forgotten.
fileclose_any(p, e) ==
  /\ pc[p] = "idle" /\ e \in ends[p]
  /\ ends' = [ends EXCEPT ![p] = @ \ {e}]
  /\ pc' = Goto(p, IF e = "w" THEN "close_w" ELSE "close_r")
  /\ UNCHANGED <<lock, pipe, i, n, killed, out>>

\* fileclose(): only the last reference goes on to pipeclose().
fileclose(p, e) ==
  /\ pc[p] = "idle" /\ e \in ends[p]
  /\ ends' = [ends EXCEPT ![p] = @ \ {e}]
  /\ IF \E q \in Procs \ {p} : e \in ends[q]
     THEN UNCHANGED pc
     ELSE pc' = Goto(p, IF e = "w" THEN "close_w" ELSE "close_r")
  /\ UNCHANGED <<lock, pipe, i, n, killed, out>>

pipeclose(p) ==
  /\ pc[p] \in Closing /\ lock = None
  /\ IF pc[p] = "close_w"
     THEN /\ writeopen' = FALSE /\ UNCHANGED readopen
          /\ pc' = [WakeReaders(pc) EXCEPT ![p] = "idle"]
     ELSE /\ readopen' = FALSE /\ UNCHANGED writeopen
          /\ pc' = [WakeWriters(pc) EXCEPT ![p] = "idle"]
  /\ freed' = (~readopen' /\ ~writeopen')
  /\ UNCHANGED <<lock, data, nread, nwrite, ends, i, n, killed, out>>

\* kill(): mark the process and wake it from sleep().
kill(p) ==
  /\ ~killed[p] /\ ends[p] # {}
  /\ killed' = [killed EXCEPT ![p] = TRUE]
  /\ pc' = [pc EXCEPT ![p] = CASE @ = "w_sleep" -> "w_woken"
                               [] @ = "r_sleep" -> "r_woken"
                               [] OTHER -> @]
  /\ UNCHANGED <<lock, pipe, ends, i, n, out>>

------------------------------------------------------------------------------
\* The steps of a call that was made.
CallStep(p) ==
  \/ pipewrite_check(p) \/ pipewrite_sleep(p) \/ pipewrite_return(p) \/ wake(p)
  \/ piperead_loop(p) \/ piperead_check(p) \/ piperead_get(p)
  \/ piperead_fault(p) \/ piperead_return(p) \/ pipeclose(p)
  \/ \E b \in Bytes : pipewrite_put(p, b)

Next == \E p \in Procs :
  \/ CallStep(p)
  \/ \E m \in 0..MaxN : pipewrite(p, m) \/ piperead(p, m)
  \/ \E q \in Procs : fork(p, q)
  \/ \E e \in {"r", "w"} : fileclose(p, e)
  \/ kill(p)

Spec == Init /\ [][Next]_vars

\* A process in a call is scheduled, and gets the lock it spins on.
Fairness == \A p \in Procs : SF_vars(CallStep(p))

FairSpec == Spec /\ Fairness

------------------------------------------------------------------------------
\* Properties.

\* Bytes in the buffer, whatever the counters have wrapped around to.
Count == (nwrite - nread) % UINT

\* The bytes between nread and nwrite are a bounded first-in first-out queue.
Queue == INSTANCE Fifo WITH
  Capacity <- PIPESIZE,
  q <- [k \in 1..Count |-> data[(nread + k - 1) % PIPESIZE]]

PipeIsFifo == Queue!Spec

\* No wakeup is lost: with the lock free, a writer sleeps only while the
\* buffer is full and somebody may still read it, and a reader only while it
\* is empty and somebody may still write (pipe.c:64, 67, 89, 99, 127).  The
\* exception is a writer that was killed after it put some bytes.
NoLostWakeup ==
  lock = None => \A p \in Procs :
    /\ pc[p] = "w_sleep" => Full /\ readopen
    /\ pc[p] = "r_sleep" => writeopen /\ (Empty \/ \E w \in Procs : killed[w])

\* The pipe's page is not used after kfree(): then no process is in a call on
\* it, or can make one (pipe.c:69-71, file.c:67).
NoUseAfterFree ==
  freed => lock = None /\ \A p \in Procs : pc[p] = "idle" /\ ends[p] = {}

\* Closing the last write end lets every reader return, and closing the last
\* read end every writer (pipe.c:64, 67).
CloseReleases == \A p \in Procs :
  /\ ~writeopen /\ pc[p] \in Reading ~> pc[p] \notin Reading
  /\ ~readopen /\ pc[p] \in Writing ~> pc[p] \notin Writing
==============================================================================
