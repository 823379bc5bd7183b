-------------------------------- MODULE Virtio -------------------------------
(***************************************************************************)
(* kernel/virtio_disk.c: the driver's side of a virtio queue, with the     *)
(* device as the other party.                                              *)
(*                                                                         *)
(* Driver:  free, desc (a descriptor's link to the next one, and the       *)
(*          buffer it points to), ops (command headers), info (buffer and  *)
(*          status of a request, by its first descriptor), used_idx.       *)
(* Shared:  avail and used, each a ring with an index that counts modulo   *)
(*          U16; intr, the device's interrupt line.                        *)
(* Device:  seen (how far it has read avail), taken (the requests it works *)
(*          on, by their first descriptor).                                *)
(* Buffers: bdisk (b->disk), and newer: which of the buffer and its block  *)
(*          on the disk has contents that the other lacks (block b is that *)
(*          of buffer b).                                                  *)
(*                                                                         *)
(* The process that called virtio_disk_rw() has the buffer's sleep-lock.   *)
(* vdisk_lock is held from its acquire to the next sleep(): that is one    *)
(* step.  The interrupt handler holds it in several steps, because the     *)
(* device goes on writing the used ring while the handler reads it.        *)
(*                                                                         *)
(* What nothing may look at again is reset: a ring entry that has been     *)
(* read is Stale (reading it again would show as a panic), and so are the  *)
(* header and the locals of a call that has returned.                      *)
(***************************************************************************)
EXTENDS Integers, FiniteSets

CONSTANTS Procs,    \* processes
          Bufs,     \* buffers, and the blocks they are for
          Requests, \* Requests[p]: what p may ask for, a buffer and whether to write
          NUM,      \* descriptors
          U16,      \* the rings' indices count modulo U16
          None,     \* no buffer
          Stale     \* a ring entry that has been read

ASSUME SizeAssumption == NUM \in Nat \ {0, 1, 2} /\ \E k \in 1..U16 : U16 = k * NUM
ASSUME ValueAssumption == None \notin Bufs /\ Stale \notin 0..(NUM - 1) /\ Requests \in [Procs -> SUBSET (Bufs \X BOOLEAN)]

VARIABLES free, desc, ops, info, used_idx,   \* struct disk
          avail, used, intr,                 \* shared with the device
          seen, taken,                       \* the device
          bdisk, newer,                      \* buffers and their blocks
          lock,                              \* vdisk_lock
          pc, buf, write, idx0,              \* processes
          panicked

driver == <<free, desc, ops, info>>
bufs   == <<bdisk, newer>>
thread == <<pc, buf, write, idx0>>
vars   == <<driver, used_idx, avail, used, intr, seen, taken, bufs,
            lock, thread, panicked>>

Descs == 0..(NUM - 1)
NoDesc == [more |-> FALSE, next |-> 0, addr |-> None]
NoOp == [out |-> FALSE, sector |-> None]

Init ==
  /\ free = [i \in Descs |-> TRUE]
  /\ desc = [i \in Descs |-> NoDesc]
  /\ ops = [i \in Descs |-> NoOp]
  /\ info = [i \in Descs |-> [b |-> None, ok |-> TRUE]]
  /\ used_idx = 0
  /\ avail = [idx |-> 0, ring |-> [i \in Descs |-> Stale]]
  /\ used = [idx |-> 0, ring |-> [i \in Descs |-> Stale]]
  /\ intr = FALSE /\ seen = 0 /\ taken = {}
  /\ bdisk = [b \in Bufs |-> FALSE]
  /\ newer = [b \in Bufs |-> "none"]
  /\ lock = "free"
  /\ pc = [p \in Procs |-> "idle"]
  /\ buf = [p \in Procs |-> None]
  /\ write = [p \in Procs |-> FALSE] /\ idx0 = [p \in Procs |-> 0]
  /\ panicked = FALSE

------------------------------------------------------------------------------
\* The indices are 16 bits wide.
Inc16(x) == (x + 1) % U16

\* wakeup(&disk.free[0]) and wakeup(b), on the locations f.
WakeFree(f) == [q \in Procs |-> IF f[q] = "sleep_free" THEN "try" ELSE f[q]]
WakeBuf(f, b) ==
  [q \in Procs |-> IF f[q] = "sleep_buf" /\ buf[q] = b THEN "check" ELSE f[q]]

\* The first three free descriptors, as alloc3_desc() finds them.
IsLeastFree(i, S) == i \in S /\ \A j \in S : i <= j
Free == {i \in Descs : free[i]}
alloc3_desc(i, j, k) ==
  /\ IsLeastFree(i, Free)
  /\ IsLeastFree(j, Free \ {i})
  /\ IsLeastFree(k, Free \ {i, j})

\* A process that has locked buffer b calls virtio_disk_rw(b, w), to write its
\* new contents or to replace them by the disk's.
virtio_disk_rw(p, b, w) ==
  /\ pc[p] = "idle" /\ ~panicked /\ <<b, w>> \in Requests[p] /\ \A q \in Procs : buf[q] # b
  /\ pc' = [pc EXCEPT ![p] = "try"]
  /\ buf' = [buf EXCEPT ![p] = b]
  /\ write' = [write EXCEPT ![p] = w]
  /\ newer' = [newer EXCEPT ![b] = IF w THEN "buffer" ELSE "disk"]
  /\ UNCHANGED <<driver, used_idx, avail, used, intr, seen, taken, bdisk, lock,
                 idx0, panicked>>

\* alloc3_desc() fails; it gives back, with a wakeup(), what it had allocated.
rw_sleep(p) ==
  /\ pc[p] = "try" /\ lock = "free" /\ ~panicked
  /\ Cardinality(Free) < 3
  /\ pc' = [(IF Free = {} THEN pc ELSE WakeFree(pc)) EXCEPT ![p] = "sleep_free"]
  /\ UNCHANGED <<driver, used_idx, avail, used, intr, seen, taken, bufs,
                 lock, buf, write, idx0, panicked>>

\* It succeeds: format the descriptors, queue the request, and sleep.
rw_submit(p) ==
  LET b == buf[p] IN
  /\ pc[p] = "try" /\ lock = "free" /\ ~panicked
  /\ \E i, j, k \in Descs :
       /\ alloc3_desc(i, j, k)
       /\ free' = [free EXCEPT ![i] = FALSE, ![j] = FALSE, ![k] = FALSE]
       /\ ops' = [ops EXCEPT ![i] = [out |-> write[p], sector |-> b]]
       /\ desc' = [desc EXCEPT ![i] = [more |-> TRUE, next |-> j, addr |-> None],
                               ![j] = [more |-> TRUE, next |-> k, addr |-> b],
                               ![k] = NoDesc]
       /\ info' = [info EXCEPT ![i] = [b |-> b, ok |-> FALSE]]
       /\ avail' = [idx |-> Inc16(avail.idx),
                    ring |-> [avail.ring EXCEPT ![avail.idx % NUM] = i]]
       /\ idx0' = [idx0 EXCEPT ![p] = i]
  /\ bdisk' = [bdisk EXCEPT ![b] = TRUE]
  /\ pc' = [pc EXCEPT ![p] = "sleep_buf"]
  /\ UNCHANGED <<used_idx, used, intr, seen, taken, newer, lock, buf, write,
                 panicked>>

\* Woken: b->disk is still set.
rw_again(p) ==
  /\ pc[p] = "check" /\ lock = "free" /\ ~panicked
  /\ bdisk[buf[p]]
  /\ pc' = [pc EXCEPT ![p] = "sleep_buf"]
  /\ UNCHANGED <<driver, used_idx, avail, used, intr, seen, taken, bufs,
                 lock, buf, write, idx0, panicked>>

\* The descriptors that free_chain(i) visits.
Chain(i) ==
  {i} \cup (IF desc[i].more
            THEN {desc[i].next} \cup (IF desc[desc[i].next].more
                                      THEN {desc[desc[i].next].next} ELSE {})
            ELSE {})

\* Faulty free_chain: the last descriptor of the chain is not freed.
free_chain_short(i) ==
  LET c == {d \in Chain(i) : desc[d].more} IN
  /\ free' = [d \in Descs |-> free[d] \/ d \in c]
  /\ desc' = [d \in Descs |-> IF d \in c THEN NoDesc ELSE desc[d]]

\* free_chain(i); free_desc() panics for a descriptor that is free already.
free_chain(i) ==
  /\ free' = [d \in Descs |-> free[d] \/ d \in Chain(i)]
  /\ desc' = [d \in Descs |-> IF d \in Chain(i) THEN NoDesc ELSE desc[d]]

\* The call of p is over.
Return(p) ==
  /\ buf' = [buf EXCEPT ![p] = None]
  /\ write' = [write EXCEPT ![p] = FALSE] /\ idx0' = [idx0 EXCEPT ![p] = 0]
  /\ ops' = [ops EXCEPT ![idx0[p]] = NoOp]

\* Faulty rw_done: b->disk is not looked at again.
rw_done_once(p) ==
  /\ pc[p] = "check" /\ lock = "free" /\ ~panicked
  /\ panicked' = \E d \in Chain(idx0[p]) : free[d]
  /\ info' = [info EXCEPT ![idx0[p]].b = None]
  /\ free_chain(idx0[p])
  /\ pc' = [WakeFree(pc) EXCEPT ![p] = "idle"]
  /\ Return(p)
  /\ UNCHANGED <<used_idx, avail, used, intr, seen, taken, bufs, lock>>

\* It is clear: free the chain and return.
rw_done(p) ==
  /\ pc[p] = "check" /\ lock = "free" /\ ~panicked
  /\ ~bdisk[buf[p]]
  /\ panicked' = \E d \in Chain(idx0[p]) : free[d]
  /\ info' = [info EXCEPT ![idx0[p]].b = None]
  /\ free_chain(idx0[p])
  /\ pc' = [WakeFree(pc) EXCEPT ![p] = "idle"]
  /\ Return(p)
  /\ UNCHANGED <<used_idx, avail, used, intr, seen, taken, bufs, lock>>

\* kill() makes a sleeping process runnable, whatever it sleeps on.
kill(p) ==
  /\ pc[p] \in {"sleep_free", "sleep_buf"} /\ ~panicked
  /\ pc' = [pc EXCEPT ![p] = IF @ = "sleep_free" THEN "try" ELSE "check"]
  /\ UNCHANGED <<driver, used_idx, avail, used, intr, seen, taken, bufs,
                 lock, buf, write, idx0, panicked>>

------------------------------------------------------------------------------
\* virtio_disk_intr().

\* Take the lock and acknowledge the interrupt.
intr_ack ==
  /\ intr /\ lock = "free" /\ ~panicked
  /\ lock' = "intr" /\ intr' = FALSE
  /\ UNCHANGED <<driver, used_idx, avail, used, seen, taken, bufs, thread,
                 panicked>>

\* Faulty intr_next: no wakeup().
intr_next_silent ==
  LET id == used.ring[used_idx % NUM]
      b == info[id].b
  IN
  /\ lock = "intr" /\ used_idx # used.idx /\ ~panicked
  /\ IF id # Stale /\ info[id].ok /\ b # None
     THEN /\ bdisk' = [bdisk EXCEPT ![b] = FALSE]
          /\ UNCHANGED <<pc, panicked>>
     ELSE panicked' = TRUE /\ UNCHANGED <<bdisk, pc>>
  /\ used_idx' = Inc16(used_idx)
  /\ used' = [used EXCEPT !.ring[used_idx % NUM] = Stale]
  /\ UNCHANGED <<driver, avail, intr, seen, taken, newer, lock, buf, write,
                 idx0>>

\* One completed request; info[id].b is null when nobody waits for it.
intr_next ==
  LET id == used.ring[used_idx % NUM]
      b == info[id].b
  IN
  /\ lock = "intr" /\ used_idx # used.idx /\ ~panicked
  /\ IF id # Stale /\ info[id].ok /\ b # None
     THEN /\ bdisk' = [bdisk EXCEPT ![b] = FALSE]
          /\ pc' = WakeBuf(pc, b)
          /\ UNCHANGED panicked
     ELSE panicked' = TRUE /\ UNCHANGED <<bdisk, pc>>
  /\ used_idx' = Inc16(used_idx)
  /\ used' = [used EXCEPT !.ring[used_idx % NUM] = Stale]
  /\ UNCHANGED <<driver, avail, intr, seen, taken, newer, lock, buf, write,
                 idx0>>

intr_done ==
  /\ lock = "intr" /\ used_idx = used.idx /\ ~panicked
  /\ lock' = "free"
  /\ UNCHANGED <<driver, used_idx, avail, used, intr, seen, taken, bufs,
                 thread, panicked>>

------------------------------------------------------------------------------
\* The device (external).  It may work on several requests, and complete them
\* in any order.

dev_take ==
  /\ seen # avail.idx
  /\ taken' = (taken \cup {avail.ring[seen % NUM]}) \ {Stale}
  /\ panicked' = (panicked \/ avail.ring[seen % NUM] = Stale)
  /\ seen' = Inc16(seen)
  /\ avail' = [avail EXCEPT !.ring[seen % NUM] = Stale]
  /\ UNCHANGED <<driver, used_idx, used, intr, bufs, lock, thread>>

\* Follow the chain: header, data buffer, status.
dev_complete(i) ==
  LET b == desc[desc[i].next].addr
      source == IF ops[i].out THEN "buffer" ELSE "disk"
  IN
  /\ i \in taken
  /\ taken' = taken \ {i}
  /\ newer' = [newer EXCEPT ![b] =
                 IF ops[i].sector = b /\ @ \in {source, "none"} THEN "none" ELSE "lost"]
  /\ info' = [info EXCEPT ![i].ok = TRUE]
  /\ used' = [idx |-> Inc16(used.idx),
              ring |-> [used.ring EXCEPT ![used.idx % NUM] = i]]
  /\ intr' = TRUE
  /\ UNCHANGED <<free, desc, ops, used_idx, avail, seen, bdisk, lock, thread,
                 panicked>>

------------------------------------------------------------------------------
Call(p) == rw_sleep(p) \/ rw_submit(p) \/ rw_again(p) \/ rw_done(p)
Intr    == intr_ack \/ intr_next \/ intr_done
Device  == dev_take \/ \E i \in Descs : dev_complete(i)

Next ==
  \/ \E p \in Procs : Call(p) \/ kill(p)
  \/ \E p \in Procs, b \in Bufs, w \in BOOLEAN : virtio_disk_rw(p, b, w)
  \/ Intr \/ Device

Spec == Init /\ [][Next]_vars

\* Processes are scheduled, interrupts are taken, and the device works on
\* what it is given.
Fairness ==
  /\ \A p \in Procs : SF_vars(Call(p))
  /\ SF_vars(intr_ack) /\ WF_vars(intr_next) /\ WF_vars(intr_done)
  /\ WF_vars(dev_take) /\ \A i \in Descs : WF_vars(dev_complete(i))

FairSpec == Spec /\ Fairness

------------------------------------------------------------------------------
\* Properties.

\* The requests that processes wait for.
Waiting == {p \in Procs : pc[p] \in {"sleep_buf", "check"}}

\* Descriptors are neither shared nor lost: each request has three, no two
\* requests have one in common, and all the others are free; so no panic of
\* free_desc() or virtio_disk_intr() is reached (virtio_disk.c:163, 165, 305).
ChainsDisjoint ==
  /\ ~panicked
  /\ \A p \in Waiting : Cardinality(Chain(idx0[p])) = 3
  /\ \A p, q \in Waiting : p # q => Chain(idx0[p]) \cap Chain(idx0[q]) = {}
  /\ Descs \ Free = UNION {Chain(idx0[p]) : p \in Waiting}

\* When virtio_disk_rw() returns, the transfer is over: buffer and disk have
\* the same, the newer contents, whoever woke the process up (virtio_disk.c:272).
DoneAgrees == [][\A p \in Procs :
  pc[p] # "idle" /\ pc'[p] = "idle" => newer[buf[p]] = "none"]_vars

\* A process whose request is queued returns from its call: the device completes it,
\* the interrupt is taken and the process woken (virtio_disk.c:309).  One that sleeps
\* for descriptors is woken to try again, though others may be faster (virtio_disk.c:169).
CallsReturn == \A p \in Procs :
  /\ p \in Waiting ~> pc[p] = "idle"
  /\ pc[p] = "sleep_free" ~> pc[p] = "try"
==============================================================================
