--------------------------------- MODULE Proc --------------------------------
(***************************************************************************)
(* kernel/proc.c: the process table, the per-CPU schedulers, sleep() and   *)
(* wakeup(), and fork(), exit(), wait() and kill() on top of them.         *)
(*                                                                         *)
(* proc[] is the slots 1..NPROC: state, parent, pid, killed, chan and the  *)
(* spinlock p->lock of each (plock, with the CPU that holds it, as in      *)
(* struct spinlock); wait_lock is the other lock.  cproc is cpu->proc.     *)
(* pc, np, i and havekids are the kernel thread of each process: where it  *)
(* is, and its local variables.                                            *)
(*                                                                         *)
(* One action is a section of code between two points at which another CPU *)
(* can be seen: it takes at most one lock and keeps it, or takes one and   *)
(* gives it back.  A process runs while it is on a CPU; it can be          *)
(* preempted wherever that CPU holds no lock (interrupts are off while it  *)
(* does).  What the calls do to memory and files is not in this module.    *)
(***************************************************************************)
EXTENDS Integers, FiniteSets

CONSTANTS NPROC,     \* slots of proc[]
          CPUs,      \* harts
          MaxPid,    \* bound on nextpid
          KillPids   \* pids that kill() is called with

ASSUME NPROCAssumption == NPROC \in Nat \ {0}
ASSUME CPUsAssumption == IsFiniteSet(CPUs) /\ 0 \notin CPUs
\* Nobody kills init: it would exit, which is a panic (proc.c:345).
ASSUME PidAssumption == MaxPid \in Nat \ {0} /\ KillPids \subseteq Nat \ {1}

Slots == 1..NPROC
initproc == 1
None == 0          \* a null pointer, or the holder of a free lock

VARIABLES state, parent, pid, killed, chan, nextpid,  \* proc[], nextpid
          plock, wait_lock,                           \* spinlocks
          cproc,                                      \* struct cpu
          pc, np, i, havekids                         \* kernel threads

table  == <<state, parent, pid, killed, chan, nextpid>>
locks  == <<plock, wait_lock>>
locals == <<np, i, havekids>>
vars   == <<table, locks, cproc, pc, locals>>

States == {"UNUSED", "USED", "SLEEPING", "RUNNABLE", "RUNNING", "ZOMBIE"}
\* Locations in acquire(&wait_lock), which spins with interrupts off.
Spinning == {"fork_acquire", "exit_acquire", "wait_acquire"}

\* userinit(): one process, about to run forkret().
Init ==
  /\ state = [s \in Slots |-> IF s = initproc THEN "RUNNABLE" ELSE "UNUSED"]
  /\ parent = [s \in Slots |-> None]
  /\ pid = [s \in Slots |-> IF s = initproc THEN 1 ELSE 0]
  /\ killed = [s \in Slots |-> FALSE]
  /\ chan = [s \in Slots |-> None]
  /\ nextpid = 2
  /\ plock = [s \in Slots |-> None] /\ wait_lock = None
  /\ cproc = [c \in CPUs |-> None]
  /\ pc = [s \in Slots |-> IF s = initproc THEN "user" ELSE "none"]
  /\ np = [s \in Slots |-> None]
  /\ i = [s \in Slots |-> 1]
  /\ havekids = [s \in Slots |-> FALSE]

------------------------------------------------------------------------------
\* The locks that CPU c holds, p->lock as p and wait_lock as 0; interrupts are
\* off unless there are none.
Held(c) == {s \in Slots : plock[s] = c} \cup {w \in {0} : wait_lock = c}

\* Process p executes on CPU c.
On(c, p) == cproc[c] = p /\ state[p] = "RUNNING"

\* ... and is at location l.  A process that has just been switched to holds
\* its own lock and has to return from sched() first.
At(c, p, l) == On(c, p) /\ pc[p] = l /\ plock[p] # c

Goto(p, l) == pc' = [pc EXCEPT ![p] = l]

------------------------------------------------------------------------------
\* scheduler(), sched(), yield().

\* scheduler() takes the lock of a RUNNABLE process and switches to it.
schedule(c, p) ==
  /\ cproc[c] = None /\ Held(c) = {}
  /\ state[p] = "RUNNABLE" /\ plock[p] = None
  /\ state' = [state EXCEPT ![p] = "RUNNING"]
  /\ plock' = [plock EXCEPT ![p] = c]
  /\ cproc' = [cproc EXCEPT ![c] = p]
  /\ UNCHANGED <<parent, pid, killed, chan, nextpid, wait_lock, pc, locals>>

\* The end of sched(): the process releases the lock that scheduler() took,
\* in forkret(), yield(), or sleep() (which first clears p->chan).
resume(c, p) ==
  /\ On(c, p) /\ plock[p] = c /\ pc[p] # "sleep_locked"
  /\ plock' = [plock EXCEPT ![p] = None]
  /\ IF pc[p] = "slept"
     THEN chan' = [chan EXCEPT ![p] = None] /\ Goto(p, "wait_acquire")
     ELSE UNCHANGED <<chan, pc>>
  /\ UNCHANGED <<state, parent, pid, killed, nextpid, wait_lock, cproc, locals>>

\* scheduler() again, after the process changed its state and called sched().
scheduler_release(c) ==
  LET p == cproc[c] IN
  /\ p # None /\ state[p] # "RUNNING"
  /\ cproc' = [cproc EXCEPT ![c] = None]
  /\ plock' = [plock EXCEPT ![p] = None]
  /\ UNCHANGED <<table, wait_lock, pc, locals>>

\* Faulty yield: p->lock is not held into the scheduler.
yield_unlocked(c, p) ==
  /\ On(c, p) /\ Held(c) = {} /\ pc[p] \notin Spinning /\ plock[p] = None
  /\ state' = [state EXCEPT ![p] = "RUNNABLE"]
  /\ UNCHANGED <<parent, pid, killed, chan, nextpid, locks, cproc, pc, locals>>

\* A timer interrupt.
yield(c, p) ==
  /\ On(c, p) /\ Held(c) = {} /\ pc[p] \notin Spinning /\ plock[p] = None
  /\ plock' = [plock EXCEPT ![p] = c]
  /\ state' = [state EXCEPT ![p] = "RUNNABLE"]
  /\ UNCHANGED <<parent, pid, killed, chan, nextpid, wait_lock, cproc, pc, locals>>

------------------------------------------------------------------------------
\* sleep(p, &wait_lock) and wakeup().

sleep_lock(c, p) ==
  /\ At(c, p, "sleep") /\ plock[p] = None
  /\ plock' = [plock EXCEPT ![p] = c]
  /\ Goto(p, "sleep_locked")
  /\ UNCHANGED <<table, wait_lock, cproc, locals>>

sleep_switch(c, p) ==
  /\ On(c, p) /\ pc[p] = "sleep_locked"
  /\ wait_lock' = None
  /\ chan' = [chan EXCEPT ![p] = p]
  /\ state' = [state EXCEPT ![p] = "SLEEPING"]
  /\ Goto(p, "slept")
  /\ UNCHANGED <<parent, pid, killed, nextpid, plock, cproc, locals>>

\* One turn of wakeup(ch)'s loop, at slot i[p]; "after" is where the caller
\* goes on when the loop is over.
wakeup(c, p, ch, after) ==
  LET q == i[p] IN
  /\ q = p \/ plock[q] = None
  /\ state' = IF q # p /\ state[q] = "SLEEPING" /\ chan[q] = ch
              THEN [state EXCEPT ![q] = "RUNNABLE"] ELSE state
  /\ i' = [i EXCEPT ![p] = IF q < NPROC THEN q + 1 ELSE 1]
  /\ IF q < NPROC THEN UNCHANGED pc ELSE Goto(p, after)
  /\ UNCHANGED <<parent, pid, killed, chan, nextpid, locks, cproc, np, havekids>>

------------------------------------------------------------------------------
\* fork().

\* allocproc() and the copying, all under np->lock.  The scan for a free slot
\* is not atomic: a slot freed behind it is not seen, so any may be taken.
fork(c, p, n) ==
  /\ At(c, p, "user") /\ ~killed[p] /\ nextpid < MaxPid
  /\ state[n] = "UNUSED" /\ plock[n] = None
  /\ pid' = [pid EXCEPT ![n] = nextpid]
  /\ nextpid' = nextpid + 1
  /\ state' = [state EXCEPT ![n] = "USED"]
  /\ np' = [np EXCEPT ![p] = n]
  /\ pc' = [pc EXCEPT ![p] = "fork_copied", ![n] = "user"]
  /\ UNCHANGED <<parent, killed, chan, locks, cproc, i, havekids>>

\* What freeproc() leaves in slot s.
Freed(s) ==
  /\ state' = [state EXCEPT ![s] = "UNUSED"]
  /\ parent' = [parent EXCEPT ![s] = None]
  /\ killed' = [killed EXCEPT ![s] = FALSE]
  /\ chan' = [chan EXCEPT ![s] = None]

\* kalloc() or uvmcopy() fails: freeproc() before np->lock is released.
fork_nomem(c, p, n) ==
  /\ At(c, p, "user") /\ ~killed[p] /\ nextpid < MaxPid
  /\ state[n] = "UNUSED" /\ plock[n] = None
  /\ Freed(n)
  /\ pid' = [pid EXCEPT ![n] = 0]
  /\ nextpid' = nextpid + 1
  /\ UNCHANGED <<locks, cproc, pc, locals>>

fork_acquire(c, p) ==
  /\ At(c, p, "fork_copied")
  /\ Goto(p, "fork_acquire")
  /\ UNCHANGED <<table, locks, cproc, locals>>

fork_parent(c, p) ==
  /\ At(c, p, "fork_acquire") /\ wait_lock = None
  /\ parent' = [parent EXCEPT ![np[p]] = p]
  /\ Goto(p, "fork_run")
  /\ UNCHANGED <<state, pid, killed, chan, nextpid, locks, cproc, locals>>

fork_run(c, p) ==
  /\ At(c, p, "fork_run") /\ plock[np[p]] = None
  /\ state' = [state EXCEPT ![np[p]] = "RUNNABLE"]
  /\ np' = [np EXCEPT ![p] = None]
  /\ Goto(p, "user")
  /\ UNCHANGED <<parent, pid, killed, chan, nextpid, locks, cproc, i, havekids>>

------------------------------------------------------------------------------
\* exit(): a system call, or usertrap() finding that the process was killed.
\* init does neither.

exit(c, p) ==
  /\ At(c, p, "user") /\ p # initproc
  /\ Goto(p, "exit_acquire")
  /\ UNCHANGED <<table, locks, cproc, locals>>

exit_acquire(c, p) ==
  /\ At(c, p, "exit_acquire") /\ wait_lock = None
  /\ wait_lock' = c
  /\ Goto(p, "reparent")
  /\ UNCHANGED <<table, plock, cproc, locals>>

\* Faulty reparent: it does nothing.
reparent_none(c, p) ==
  /\ At(c, p, "reparent")
  /\ Goto(p, "wakeup_parent")
  /\ UNCHANGED <<table, locks, cproc, locals>>

\* reparent(): the next child goes to init, which is then woken; after the
\* last one, wakeup(p->parent).  wait_lock keeps the set of children fixed.
reparent(c, p) ==
  /\ At(c, p, "reparent")
  /\ LET kids == {s \in Slots : parent[s] = p} IN
     \/ \E s \in kids :
          /\ \A r \in kids : s <= r
          /\ parent' = [parent EXCEPT ![s] = initproc]
          /\ Goto(p, "wakeup_init")
     \/ kids = {} /\ Goto(p, "wakeup_parent") /\ UNCHANGED parent
  /\ UNCHANGED <<state, pid, killed, chan, nextpid, locks, cproc, locals>>

wakeup_init(c, p) ==
  At(c, p, "wakeup_init") /\ wakeup(c, p, initproc, "reparent")

\* Faulty wakeup_parent: the wrong channel.
wakeup_self(c, p) ==
  At(c, p, "wakeup_parent") /\ wakeup(c, p, p, "zombie")

wakeup_parent(c, p) ==
  At(c, p, "wakeup_parent") /\ wakeup(c, p, parent[p], "zombie")

zombie(c, p) ==
  /\ At(c, p, "zombie") /\ plock[p] = None
  /\ plock' = [plock EXCEPT ![p] = c]
  /\ state' = [state EXCEPT ![p] = "ZOMBIE"]
  /\ wait_lock' = None
  /\ Goto(p, "dead")
  /\ UNCHANGED <<parent, pid, killed, chan, nextpid, cproc, locals>>

------------------------------------------------------------------------------
\* wait().

wait(c, p) ==
  /\ At(c, p, "user") /\ ~killed[p]
  /\ Goto(p, "wait_acquire")
  /\ UNCHANGED <<table, locks, cproc, locals>>

\* The lock is taken at the start, and again at the end of sleep(); a scan of
\* the whole table follows.
wait_acquire(c, p) ==
  /\ At(c, p, "wait_acquire") /\ wait_lock = None
  /\ wait_lock' = c
  /\ Goto(p, "scan")
  /\ UNCHANGED <<table, plock, cproc, locals>>

\* Slot i[p] of the scan is not a child, or a child that has not exited.
scan(c, p) ==
  LET s == i[p] IN
  /\ At(c, p, "scan")
  /\ parent[s] = p => plock[s] = None /\ state[s] # "ZOMBIE"
  /\ havekids' = [havekids EXCEPT ![p] = @ \/ parent[s] = p]
  /\ i' = [i EXCEPT ![p] = IF s < NPROC THEN s + 1 ELSE 1]
  /\ Goto(p, IF s < NPROC THEN "scan" ELSE "check")
  /\ UNCHANGED <<table, locks, cproc, np>>

\* Faulty reap: the child's lock is not taken.
reap_unlocked(c, p) ==
  LET s == i[p] IN
  /\ At(c, p, "scan") /\ parent[s] = p /\ state[s] = "ZOMBIE"
  /\ Freed(s)
  /\ pid' = [pid EXCEPT ![s] = 0]
  /\ pc' = [pc EXCEPT ![p] = "user", ![s] = "none"]
  /\ wait_lock' = None
  /\ i' = [i EXCEPT ![p] = 1]
  /\ havekids' = [havekids EXCEPT ![p] = FALSE]
  /\ UNCHANGED <<nextpid, plock, cproc, np>>

\* Faulty reap: freeproc() is missing.
reap_kept(c, p) ==
  LET s == i[p] IN
  /\ At(c, p, "scan") /\ parent[s] = p /\ plock[s] = None /\ state[s] = "ZOMBIE"
  /\ Goto(p, "user")
  /\ wait_lock' = None
  /\ i' = [i EXCEPT ![p] = 1]
  /\ havekids' = [havekids EXCEPT ![p] = FALSE]
  /\ UNCHANGED <<table, plock, cproc, np>>

\* It has: free its slot, release both locks and return.
reap(c, p) ==
  LET s == i[p] IN
  /\ At(c, p, "scan") /\ parent[s] = p /\ plock[s] = None /\ state[s] = "ZOMBIE"
  /\ Freed(s)
  /\ pid' = [pid EXCEPT ![s] = 0]
  /\ pc' = [pc EXCEPT ![p] = "user", ![s] = "none"]
  /\ wait_lock' = None
  /\ i' = [i EXCEPT ![p] = 1]
  /\ havekids' = [havekids EXCEPT ![p] = FALSE]
  /\ UNCHANGED <<nextpid, plock, cproc, np>>

\* It has, but copyout() of its status fails: it stays, and wait() fails.
\* init passes no address to copy it to (user/init.c:42).
reap_fails(c, p) ==
  LET s == i[p] IN
  /\ p # initproc
  /\ At(c, p, "scan") /\ parent[s] = p /\ plock[s] = None /\ state[s] = "ZOMBIE"
  /\ Goto(p, "user")
  /\ wait_lock' = None
  /\ i' = [i EXCEPT ![p] = 1]
  /\ havekids' = [havekids EXCEPT ![p] = FALSE]
  /\ UNCHANGED <<table, plock, cproc, np>>

\* Faulty check: looks again instead of going to sleep, and keeps wait_lock.
check_spin(c, p) ==
  /\ At(c, p, "check")
  /\ IF ~havekids[p] \/ killed[p]
     THEN Goto(p, "user") /\ wait_lock' = None
     ELSE Goto(p, "scan") /\ UNCHANGED wait_lock
  /\ havekids' = [havekids EXCEPT ![p] = FALSE]
  /\ UNCHANGED <<table, plock, cproc, np, i>>

\* No child has exited: give up, or go to sleep.  killed is read without
\* p->lock here, and sleep() takes that lock only later.
check(c, p) ==
  /\ At(c, p, "check")
  /\ IF ~havekids[p] \/ killed[p]
     THEN Goto(p, "user") /\ wait_lock' = None
     ELSE Goto(p, "sleep") /\ UNCHANGED wait_lock
  /\ havekids' = [havekids EXCEPT ![p] = FALSE]
  /\ UNCHANGED <<table, plock, cproc, np, i>>

------------------------------------------------------------------------------
\* kill(k): a slot whose pid is k, under its lock.  The scan is not atomic, as
\* in allocproc(): when several free slots have the pid 0 it may be any.
kill(c, p, k) ==
  /\ At(c, p, "user") /\ ~killed[p]
  /\ \E s \in Slots :
       /\ pid[s] = k /\ plock[s] = None
       /\ killed' = [killed EXCEPT ![s] = TRUE]
       /\ state' = IF state[s] = "SLEEPING"
                   THEN [state EXCEPT ![s] = "RUNNABLE"] ELSE state
  /\ UNCHANGED <<parent, pid, chan, nextpid, locks, cproc, pc, locals>>

------------------------------------------------------------------------------
\* The steps that a system call takes by itself, once it was made.
KernelStep(c, p) ==
  \/ sleep_lock(c, p) \/ sleep_switch(c, p)
  \/ fork_acquire(c, p) \/ fork_parent(c, p) \/ fork_run(c, p)
  \/ exit_acquire(c, p) \/ reparent(c, p) \/ wakeup_init(c, p) \/ wakeup_parent(c, p)
  \/ zombie(c, p) \/ wait_acquire(c, p) \/ scan(c, p) \/ check(c, p)

Next == \E c \in CPUs :
  \/ scheduler_release(c)
  \/ \E p \in Slots :
       \/ schedule(c, p) \/ resume(c, p) \/ yield(c, p)
       \/ KernelStep(c, p) \/ reap(c, p) \/ reap_fails(c, p)
       \/ exit(c, p) \/ wait(c, p)
       \/ \E n \in Slots : fork(c, p, n) \/ fork_nomem(c, p, n)
       \/ \E k \in KillPids : kill(c, p, k)

Spec == Init /\ [][Next]_vars

\* scheduler() visits every slot in each round, a spinning CPU gets the lock
\* at some time, a killed process traps into the kernel (a timer interrupt at
\* the latest) and exits, and init waits in a loop (user/init.c:39-52).
Fairness ==
  /\ \A c \in CPUs : WF_vars(scheduler_release(c))
  /\ \A p \in Slots :
       /\ SF_vars(\E c \in CPUs : schedule(c, p))
       /\ WF_vars(\E c \in CPUs : resume(c, p))
       /\ SF_vars(\E c \in CPUs : KernelStep(c, p) \/ reap(c, p) \/ reap_fails(c, p))
       /\ SF_vars(\E c \in CPUs : killed[p] /\ exit(c, p))
  /\ SF_vars(\E c \in CPUs : wait(c, initproc))

FairSpec == Spec /\ Fairness

------------------------------------------------------------------------------
\* Properties.

\* A process runs on one CPU at a time, and while scheduler() is not in the
\* middle of a switch exactly the RUNNING processes are on one.
OneCPU == \A p \in Slots :
  /\ Cardinality({c \in CPUs : cproc[c] = p}) <= 1
  /\ state[p] = "RUNNING" => \E c \in CPUs : cproc[c] = p
  /\ plock[p] = None /\ (\E c \in CPUs : cproc[c] = p) => state[p] = "RUNNING"

\* A slot is freed only after its process left the CPU for good: wait() never
\* frees a kernel stack that is still in use (proc.c:397).
FreedIsOffCPU == \A p \in Slots :
  state[p] = "UNUSED" => pc[p] = "none" /\ \A c \in CPUs : cproc[c] # p

\* sleep() and wakeup() lose no exit (proc.c:23-27): with wait_lock free, a
\* parent asleep in wait() has no child that already exited.
NoLostExit ==
  wait_lock = None => \A p, s \in Slots :
    state[p] = "SLEEPING" /\ parent[s] = p => state[s] # "ZOMBIE"

\* Nobody is orphaned: when wait_lock is free, the parent of every process
\* that has run is a process that can still call wait() (proc.c:321-334).
NoOrphan ==
  wait_lock = None => \A s \in Slots \ {initproc} :
    state[s] \in {"RUNNABLE", "RUNNING", "SLEEPING", "ZOMBIE"}
      => /\ parent[s] # None
         /\ state[parent[s]] \notin {"UNUSED", "USED", "ZOMBIE"}

\* init reaps what is left to it: a zombie whose parent is init, by birth or by
\* reparent(), goes away in the end (proc.c:330-331).
InitReaps == \A s \in Slots :
  state[s] = "ZOMBIE" /\ parent[s] = initproc ~> state[s] = "UNUSED"

\* exit() comes to its end: the CPU it spins on gets wait_lock, which wait() lets go
\* of while its caller sleeps, and then the lock of each process that wakeup() looks
\* at; nobody keeps one of them for ever (proc.c:361-374, 426).
ExitEnds == \A p \in Slots : pc[p] = "exit_acquire" ~> pc[p] \in {"dead", "none"}
==============================================================================
