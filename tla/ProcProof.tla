------------------------------ MODULE ProcProof ------------------------------
(***************************************************************************)
(* Proofs about kernel/proc.c, for any number of slots, CPUs and pids: a   *)
(* process is on one CPU, its slot is freed after it left it, no exit is   *)
(* missed by a sleeping parent, and no process is orphaned.                *)
(***************************************************************************)
EXTENDS Proc, FiniteSetTheorems, TLAPS

\* Where a thread may be: with wait_lock, in exit(), in fork() with a child.
Exiting == {"reparent", "wakeup_init", "wakeup_parent", "zombie"}
Waiting == {"scan", "check", "sleep", "sleep_locked"}
Forking == {"fork_copied", "fork_acquire", "fork_run"}
Locations == {"none", "user", "exit_acquire", "dead", "wait_acquire", "slept"}
             \cup Exiting \cup Waiting \cup Forking
\* A process with a past and a future.
Alive == {"RUNNABLE", "RUNNING", "SLEEPING"}

\* The type of every variable.
TypeOK ==
  /\ state \in [Slots -> States]
  /\ parent \in [Slots -> Slots \cup {None}]
  /\ pid \in [Slots -> Nat] /\ nextpid \in Nat
  /\ killed \in [Slots -> BOOLEAN]
  /\ chan \in [Slots -> Slots \cup {None}]
  /\ plock \in [Slots -> CPUs \cup {None}]
  /\ wait_lock \in CPUs \cup {None}
  /\ cproc \in [CPUs -> Slots \cup {None}]
  /\ pc \in [Slots -> Locations]
  /\ np \in [Slots -> Slots \cup {None}]
  /\ i \in [Slots -> Slots]
  /\ havekids \in [Slots -> BOOLEAN]

\* A CPU runs the process of its cpu->proc, or is switching to or from it and
\* has its lock.
Switching ==
  /\ \A c, d \in CPUs : cproc[c] = cproc[d] /\ cproc[c] # None => c = d
  /\ \A c \in CPUs, p \in Slots :
       /\ plock[p] = c => cproc[c] = p
       /\ cproc[c] = p => \/ state[p] = "RUNNING"
                          \/ plock[p] = c /\ state[p] \in Alive \cup {"ZOMBIE"}
       /\ cproc[c] = p /\ pc[p] = "sleep_locked" => plock[p] = c
  /\ \A p \in Slots : state[p] = "RUNNING" => \E c \in CPUs : cproc[c] = p

\* What the location of a thread says of its process.
Located ==
  /\ \A p \in Slots :
       /\ state[p] = "UNUSED" <=> pc[p] = "none"
       /\ state[p] = "ZOMBIE" <=> pc[p] = "dead"
       /\ state[p] = "USED" => pc[p] = "user"
       /\ state[p] = "SLEEPING" => pc[p] = "slept" /\ chan[p] = p
       /\ pc[p] \notin {"scan", "wakeup_init", "wakeup_parent"} => i[p] = 1
       /\ pc[p] \in Exiting \cup Waiting =>
            state[p] = "RUNNING" /\ wait_lock # None /\ cproc[wait_lock] = p
  /\ pc[initproc] \notin Exiting \cup {"none", "exit_acquire", "dead"}
  /\ state[initproc] # "USED"

\* The child that a thread is making.
Children ==
  /\ \A p \in Slots :
       /\ pc[p] \in Forking <=> np[p] # None
       /\ np[p] # None => np[p] # p /\ state[np[p]] = "USED"
       /\ pc[p] = "fork_run" => parent[np[p]] = p
  /\ \A p, q \in Slots : np[p] = np[q] /\ np[p] # None => p = q

\* Every process that has run has a parent, and one that exits gives up its
\* children first.
Parents ==
  /\ \A s \in Slots \ {initproc} : state[s] \in Alive \cup {"ZOMBIE"} =>
       parent[s] # None /\ state[parent[s]] \in Alive
  /\ \A p \in Slots : pc[p] \in {"wakeup_parent", "zombie"} =>
       \A s \in Slots : parent[s] # p

\* A parent that sleeps has no zombie, but init while it is about to be woken;
\* one that is going to sleep has seen none; one that was woken stays awake.
Exits ==
  /\ \A q, s \in Slots : state[q] = "SLEEPING" /\ parent[s] = q /\ state[s] = "ZOMBIE" =>
       q = initproc /\ \E p \in Slots : pc[p] = "wakeup_init" /\ i[p] = 1
  /\ \A p, s \in Slots : parent[s] = p /\ state[s] = "ZOMBIE" =>
       /\ pc[p] = "scan" => i[p] <= s
       /\ pc[p] \notin {"check", "sleep", "sleep_locked"}
  /\ \A p, q \in Slots : parent[p] = q /\ state[q] = "SLEEPING" =>
       /\ pc[p] = "wakeup_parent" => i[p] <= q
       /\ pc[p] # "zombie"

\* The inductive invariant.
IInv == TypeOK /\ Switching /\ Located /\ Children /\ Parents /\ Exits

------------------------------------------------------------------------------
\* Slots are not null, and init is one.
LEMMA SlotsFacts == None \notin Slots /\ None \notin CPUs /\ initproc \in Slots
BY NPROCAssumption, CPUsAssumption DEF Slots, None, initproc

\* The loops over proc[] stay in it.
LEMMA NextSlot ==
  ASSUME NEW q \in Slots
  PROVE  (IF q < NPROC THEN q + 1 ELSE 1) \in Slots /\ 1 \in Slots
BY NPROCAssumption DEF Slots

\* A process that executes and is not being switched has a free lock.
LEMMA Unlocked ==
  ASSUME IInv, NEW c \in CPUs, NEW p \in Slots, On(c, p), plock[p] # c
  PROVE  plock[p] = None
BY SlotsFacts DEF IInv, TypeOK, Switching, On

\* A slot with a free lock that is not RUNNING is on no CPU.
LEMMA OffCPU ==
  ASSUME IInv, NEW p \in Slots, plock[p] = None, state[p] # "RUNNING", NEW c \in CPUs
  PROVE  cproc[c] # p
BY SlotsFacts DEF IInv, TypeOK, Switching

------------------------------------------------------------------------------
\* Every conjunct of the invariant is kept by every step.

\* The types.
LEMMA TypeStep == IInv /\ [Next]_vars => TypeOK'
<1> SUFFICES ASSUME IInv, [Next]_vars PROVE TypeOK'
  BY Zenon
<1>1. ASSUME NEW c \in CPUs, scheduler_release(c)
      PROVE  TypeOK'
  BY <1>1, Zenon DEF scheduler_release, IInv, TypeOK, table, locals
<1>2. ASSUME NEW c \in CPUs, NEW p \in Slots, schedule(c, p)
      PROVE  TypeOK'
  BY <1>2, Zenon DEF schedule, IInv, TypeOK, locals, States
<1>3. ASSUME NEW c \in CPUs, NEW p \in Slots, resume(c, p)
      PROVE  TypeOK'
  BY <1>3, SlotsFacts, Zenon DEF resume, IInv, TypeOK, On, Goto, locals, Locations,
       Exiting, Waiting
<1>4. ASSUME NEW c \in CPUs, NEW p \in Slots, yield(c, p)
      PROVE  TypeOK'
  BY <1>4, Zenon DEF yield, IInv, TypeOK, locals, States
<1>5. ASSUME NEW c \in CPUs, NEW p \in Slots, sleep_lock(c, p)
      PROVE  TypeOK'
  BY <1>5, Zenon DEF sleep_lock, IInv, TypeOK, Goto, table, locals, Locations, Waiting
<1>6. ASSUME NEW c \in CPUs, NEW p \in Slots, sleep_switch(c, p)
      PROVE  TypeOK'
  BY <1>6, Zenon DEF sleep_switch, IInv, TypeOK, Goto, locals, States, Locations
<1>7. ASSUME NEW c \in CPUs, NEW p \in Slots, fork_acquire(c, p)
      PROVE  TypeOK'
  BY <1>7, Zenon DEF fork_acquire, IInv, TypeOK, Goto, table, locks, locals, Locations,
       Forking
<1>8. ASSUME NEW c \in CPUs, NEW p \in Slots, fork_parent(c, p)
      PROVE  TypeOK'
  BY <1>8, Zenon DEF fork_parent, IInv, TypeOK, Goto, locks, locals, States, Locations,
       Exiting, Forking
<1>9. ASSUME NEW c \in CPUs, NEW p \in Slots, fork_run(c, p)
      PROVE  TypeOK'
  BY <1>9, Zenon DEF fork_run, IInv, TypeOK, Goto, locks, States, Locations, Forking
<1>10. ASSUME NEW c \in CPUs, NEW p \in Slots, exit_acquire(c, p)
      PROVE  TypeOK'
  BY <1>10, Zenon DEF exit_acquire, IInv, TypeOK, Goto, table, locals, Locations,
       Exiting
<1>11. ASSUME NEW c \in CPUs, NEW p \in Slots, reparent(c, p)
      PROVE  TypeOK'
  BY <1>11, SlotsFacts DEF reparent, IInv, TypeOK, At, Goto, locks, locals, Locations,
       Exiting, Forking
<1>12. ASSUME NEW c \in CPUs, NEW p \in Slots, wakeup_init(c, p)
      PROVE  TypeOK'
  <2>1. PICK j \in Slots : i' = [i EXCEPT ![p] = j]
    <3>1. i[p] \in Slots
      BY Zenon DEF IInv, TypeOK
    <3> QED BY <1>12, <3>1, NextSlot, Zenon DEF wakeup_init, wakeup, IInv, At, On,
                 Goto, locks, locals
  <2> QED BY <1>12, <2>1 DEF wakeup_init, wakeup, IInv, TypeOK, At, Goto, locks,
               States, Locations, Exiting
<1>13. ASSUME NEW c \in CPUs, NEW p \in Slots, wakeup_parent(c, p)
      PROVE  TypeOK'
  <2>1. PICK j \in Slots : i' = [i EXCEPT ![p] = j]
    <3>1. i[p] \in Slots
      BY Zenon DEF IInv, TypeOK
    <3> QED BY <1>13, <3>1, NextSlot, Zenon DEF wakeup_parent, wakeup
  <2> QED BY <1>13, <2>1 DEF wakeup_parent, wakeup, IInv, TypeOK, At, Goto, locks,
               States, Locations, Exiting
<1>14. ASSUME NEW c \in CPUs, NEW p \in Slots, zombie(c, p)
      PROVE  TypeOK'
  BY <1>14, Zenon DEF zombie, IInv, TypeOK, Goto, locals, States, Locations
<1>15. ASSUME NEW c \in CPUs, NEW p \in Slots, wait_acquire(c, p)
      PROVE  TypeOK'
  BY <1>15, Zenon DEF wait_acquire, IInv, TypeOK, Goto, table, locals, Locations,
       Waiting
<1>16. ASSUME NEW c \in CPUs, NEW p \in Slots, scan(c, p)
      PROVE  TypeOK'
  <2>1. PICK j \in Slots : i' = [i EXCEPT ![p] = j]
    <3>1. i[p] \in Slots
      BY Zenon DEF IInv, TypeOK
    <3> QED BY <1>16, <3>1, NextSlot, Zenon DEF scan, IInv, locks, locals, Locations,
                 Waiting
  <2> QED BY <1>16, <2>1 DEF scan, IInv, TypeOK, Goto, table, locks, Locations, Waiting
<1>17. ASSUME NEW c \in CPUs, NEW p \in Slots, check(c, p)
      PROVE  TypeOK'
  BY <1>17, Zenon DEF check, IInv, TypeOK, Goto, table, Locations, Waiting
<1>18. ASSUME NEW c \in CPUs, NEW p \in Slots, reap(c, p)
      PROVE  TypeOK'
  <2>1. PICK j \in Slots : i' = [i EXCEPT ![p] = j]
    <3>1. i[p] \in Slots
      BY Zenon DEF IInv, TypeOK
    <3> QED BY <1>18, <3>1, NextSlot, Zenon DEF reap, Freed, On
  <2> QED BY <1>18, <2>1 DEF reap, Freed, IInv, TypeOK, States, Locations, Forking
<1>19. ASSUME NEW c \in CPUs, NEW p \in Slots, reap_fails(c, p)
      PROVE  TypeOK'
  <2>1. PICK j \in Slots : i' = [i EXCEPT ![p] = j]
    <3>1. i[p] \in Slots
      BY Zenon DEF IInv, TypeOK
    <3> QED BY <1>19, <3>1, NextSlot, Zenon DEF reap_fails, table, locks, locals,
                 Waiting
  <2> QED BY <1>19, <2>1 DEF reap_fails, IInv, TypeOK, Goto, table, Locations
<1>20. ASSUME NEW c \in CPUs, NEW p \in Slots, exit(c, p)
      PROVE  TypeOK'
  BY <1>20, Zenon DEF exit, IInv, TypeOK, Goto, table, locks, locals, Locations
<1>21. ASSUME NEW c \in CPUs, NEW p \in Slots, wait(c, p)
      PROVE  TypeOK'
  BY <1>21, Zenon DEF wait, IInv, TypeOK, Goto, table, locks, locals, Locations
<1>22. ASSUME NEW c \in CPUs, NEW p \in Slots, NEW n \in Slots, fork(c, p, n)
      PROVE  TypeOK'
  BY <1>22 DEF fork, IInv, TypeOK, At, locks, States, Locations, Forking
<1>23. ASSUME NEW c \in CPUs, NEW p \in Slots, NEW n \in Slots, fork_nomem(c, p, n)
      PROVE  TypeOK'
  BY <1>23 DEF fork_nomem, Freed, IInv, TypeOK, locks, locals
<1>24. ASSUME NEW c \in CPUs, NEW p \in Slots, NEW k \in KillPids, kill(c, p, k)
      PROVE  TypeOK'
  BY <1>24 DEF kill, IInv, TypeOK, locks, locals, States
<1>25. CASE UNCHANGED vars
  BY <1>25, Zenon DEF vars, table, locks, locals, IInv, TypeOK
<1> QED BY <1>1, <1>2, <1>3, <1>4, <1>5, <1>6, <1>7, <1>8, <1>9, <1>10, <1>11, <1>12,
             <1>13,
           <1>14, <1>15, <1>16, <1>17, <1>18, <1>19, <1>20, <1>21, <1>22, <1>23, <1>24, <1>25, Zenon DEF Next, KernelStep

\* Switching.
LEMMA SwitchingStep == IInv /\ [Next]_vars => Switching'
<1> SUFFICES ASSUME IInv, [Next]_vars PROVE Switching'
  BY Zenon
<1>1. ASSUME NEW c \in CPUs, scheduler_release(c)
      PROVE  Switching'
  BY <1>1, SlotsFacts DEF scheduler_release, IInv, TypeOK, Switching, table
<1>2. ASSUME NEW c \in CPUs, NEW p \in Slots, schedule(c, p)
      PROVE  Switching'
  BY <1>2, SlotsFacts DEF schedule, IInv, TypeOK, Switching, On, Goto, Forking
<1>3. ASSUME NEW c \in CPUs, NEW p \in Slots, resume(c, p)
      PROVE  Switching'
  BY <1>3, SlotsFacts DEF resume, IInv, TypeOK, Switching, On, Goto
<1>4. ASSUME NEW c \in CPUs, NEW p \in Slots, yield(c, p)
      PROVE  Switching'
  BY <1>4, SlotsFacts DEF yield, IInv, TypeOK, Switching, On, Alive
<1>5. ASSUME NEW c \in CPUs, NEW p \in Slots, sleep_lock(c, p)
      PROVE  Switching'
  BY <1>5, SlotsFacts DEF sleep_lock, IInv, TypeOK, Switching, At, On, Goto, table
<1>6. ASSUME NEW c \in CPUs, NEW p \in Slots, sleep_switch(c, p)
      PROVE  Switching'
  BY <1>6 DEF sleep_switch, IInv, TypeOK, Switching, Goto, Alive
<1>7. ASSUME NEW c \in CPUs, NEW p \in Slots, fork_acquire(c, p)
      PROVE  Switching'
  BY <1>7 DEF fork_acquire, IInv, TypeOK, Switching, Goto, table, locks
<1>8. ASSUME NEW c \in CPUs, NEW p \in Slots, fork_parent(c, p)
      PROVE  Switching'
  BY <1>8 DEF fork_parent, IInv, TypeOK, Switching, Goto, locks
<1>9. ASSUME NEW c \in CPUs, NEW p \in Slots, fork_run(c, p)
      PROVE  Switching'
  BY <1>9 DEF fork_run, IInv, TypeOK, Switching, At, Goto, locks, Alive, Children,
       Forking
<1>10. ASSUME NEW c \in CPUs, NEW p \in Slots, exit_acquire(c, p)
      PROVE  Switching'
  BY <1>10 DEF exit_acquire, IInv, TypeOK, Switching, Goto, table
<1>11. ASSUME NEW c \in CPUs, NEW p \in Slots, reparent(c, p)
      PROVE  Switching'
  BY <1>11 DEF reparent, IInv, TypeOK, Switching, Goto, locks
<1>12. ASSUME NEW c \in CPUs, NEW p \in Slots, wakeup_init(c, p)
      PROVE  Switching'
  BY <1>12 DEF wakeup_init, wakeup, IInv, TypeOK, Switching, Goto, locks, Alive
<1>13. ASSUME NEW c \in CPUs, NEW p \in Slots, wakeup_parent(c, p)
      PROVE  Switching'
  BY <1>13 DEF wakeup_parent, wakeup, IInv, TypeOK, Switching, Goto, locks, Alive
<1>14. ASSUME NEW c \in CPUs, NEW p \in Slots, zombie(c, p)
      PROVE  Switching'
  BY <1>14, SlotsFacts DEF zombie, IInv, TypeOK, Switching, At, On, Goto
<1>15. ASSUME NEW c \in CPUs, NEW p \in Slots, wait_acquire(c, p)
      PROVE  Switching'
  BY <1>15 DEF wait_acquire, IInv, TypeOK, Switching, Goto, table
<1>16. ASSUME NEW c \in CPUs, NEW p \in Slots, scan(c, p)
      PROVE  Switching'
  BY <1>16 DEF scan, IInv, TypeOK, Switching, Goto, table, locks
<1>17. ASSUME NEW c \in CPUs, NEW p \in Slots, check(c, p)
      PROVE  Switching'
  BY <1>17 DEF check, IInv, TypeOK, Switching, Goto, table
<1>18. ASSUME NEW c \in CPUs, NEW p \in Slots, reap(c, p)
      PROVE  Switching'
  BY <1>18, SlotsFacts DEF reap, Freed, IInv, TypeOK, Switching
<1>19. ASSUME NEW c \in CPUs, NEW p \in Slots, reap_fails(c, p)
      PROVE  Switching'
  BY <1>19 DEF reap_fails, IInv, TypeOK, Switching, Goto, table
<1>20. ASSUME NEW c \in CPUs, NEW p \in Slots, exit(c, p)
      PROVE  Switching'
  BY <1>20 DEF exit, IInv, TypeOK, Switching, Goto, table, locks
<1>21. ASSUME NEW c \in CPUs, NEW p \in Slots, wait(c, p)
      PROVE  Switching'
  BY <1>21 DEF wait, IInv, TypeOK, Switching, Goto, table, locks
<1>22. ASSUME NEW c \in CPUs, NEW p \in Slots, NEW n \in Slots, fork(c, p, n)
      PROVE  Switching'
  BY <1>22 DEF fork, IInv, TypeOK, Switching, locks, Alive
<1>23. ASSUME NEW c \in CPUs, NEW p \in Slots, NEW n \in Slots, fork_nomem(c, p, n)
      PROVE  Switching'
  BY <1>23 DEF fork_nomem, Freed, IInv, TypeOK, Switching, locks
<1>24. ASSUME NEW c \in CPUs, NEW p \in Slots, NEW k \in KillPids, kill(c, p, k)
      PROVE  Switching'
  BY <1>24 DEF kill, IInv, TypeOK, Switching, locks, Alive
<1>25. CASE UNCHANGED vars
  BY <1>25 DEF vars, table, locks, locals, IInv, TypeOK, Switching
<1> QED BY <1>1, <1>2, <1>3, <1>4, <1>5, <1>6, <1>7, <1>8, <1>9, <1>10, <1>11, <1>12,
             <1>13,
           <1>14, <1>15, <1>16, <1>17, <1>18, <1>19, <1>20, <1>21, <1>22, <1>23, <1>24, <1>25, Zenon DEF Next, KernelStep

\* Locations, states and wait_lock.
LEMMA LocatedStep == IInv /\ [Next]_vars => Located'
<1> SUFFICES ASSUME IInv, [Next]_vars PROVE Located'
  BY Zenon
<1>1. ASSUME NEW c \in CPUs, scheduler_release(c)
      PROVE  Located'
  BY <1>1, Unlocked DEF scheduler_release, IInv, TypeOK, Located, table, locals
<1>2. ASSUME NEW c \in CPUs, NEW p \in Slots, schedule(c, p)
      PROVE  Located'
  BY <1>2, Unlocked DEF schedule, IInv, TypeOK, Located, locals, Held
<1>3. ASSUME NEW c \in CPUs, NEW p \in Slots, resume(c, p)
      PROVE  Located'
  BY <1>3, Unlocked, SlotsFacts DEF resume, IInv, TypeOK, Located, On, Goto, locals,
       Exiting, Waiting
<1>4. ASSUME NEW c \in CPUs, NEW p \in Slots, yield(c, p)
      PROVE  Located'
  BY <1>4, Unlocked, SlotsFacts DEF yield, IInv, TypeOK, Located, Switching, On,
       locals, Held
<1>5. ASSUME NEW c \in CPUs, NEW p \in Slots, sleep_lock(c, p)
      PROVE  Located'
  BY <1>5, Unlocked DEF sleep_lock, IInv, TypeOK, Located, At, Goto, table, locals,
       Exiting,
       Waiting
<1>6. ASSUME NEW c \in CPUs, NEW p \in Slots, sleep_switch(c, p)
      PROVE  Located'
  BY <1>6, Unlocked DEF sleep_switch, IInv, TypeOK, Located, Goto, locals, Exiting,
       Waiting
<1>7. ASSUME NEW c \in CPUs, NEW p \in Slots, fork_acquire(c, p)
      PROVE  Located'
  BY <1>7, Unlocked DEF fork_acquire, IInv, TypeOK, Located, At, Goto, table, locks,
       locals,
       Exiting, Waiting
<1>8. ASSUME NEW c \in CPUs, NEW p \in Slots, fork_parent(c, p)
      PROVE  Located'
  BY <1>8, Unlocked DEF fork_parent, IInv, TypeOK, Located, At, Goto, locals, Exiting,
       Waiting
<1>9. ASSUME NEW c \in CPUs, NEW p \in Slots, fork_run(c, p)
      PROVE  Located'
  BY <1>9, Unlocked DEF fork_run, IInv, TypeOK, Located, At, Goto, locks, Exiting,
       Waiting,
       Children, Forking
<1>10. ASSUME NEW c \in CPUs, NEW p \in Slots, exit_acquire(c, p)
      PROVE  Located'
  BY <1>10, Unlocked DEF exit_acquire, IInv, TypeOK, Located, At, On, Goto, table,
       locals
<1>11. ASSUME NEW c \in CPUs, NEW p \in Slots, reparent(c, p)
      PROVE  Located'
  BY <1>11, Unlocked, SlotsFacts DEF reparent, IInv, TypeOK, Located, At, Goto, locks,
       locals, Exiting
<1>12. ASSUME NEW c \in CPUs, NEW p \in Slots, wakeup_init(c, p)
      PROVE  Located'
  BY <1>12, Unlocked, SlotsFacts DEF wakeup_init, wakeup, IInv, TypeOK, Located, At,
       Goto, locks, Exiting
<1>13. ASSUME NEW c \in CPUs, NEW p \in Slots, wakeup_parent(c, p)
      PROVE  Located'
  BY <1>13, Unlocked, SlotsFacts DEF wakeup_parent, wakeup, IInv, TypeOK, Located, At,
       Goto, locks, Exiting
<1>14. ASSUME NEW c \in CPUs, NEW p \in Slots, zombie(c, p)
      PROVE  Located'
  BY <1>14, Unlocked DEF zombie, IInv, TypeOK, Located, At, Goto, locals, Exiting,
       Waiting
<1>15. ASSUME NEW c \in CPUs, NEW p \in Slots, wait_acquire(c, p)
      PROVE  Located'
  BY <1>15, Unlocked DEF wait_acquire, IInv, TypeOK, Located, At, On, Goto, table,
       locals,
       Exiting
<1>16. ASSUME NEW c \in CPUs, NEW p \in Slots, scan(c, p)
      PROVE  Located'
  BY <1>16, Unlocked DEF scan, IInv, TypeOK, Located, At, Goto, table, locks, Exiting,
       Waiting
<1>17. ASSUME NEW c \in CPUs, NEW p \in Slots, check(c, p)
      PROVE  Located'
  BY <1>17, Unlocked, SlotsFacts DEF check, IInv, TypeOK, Located, At, Goto, table,
       Exiting, Waiting, Children
<1>18. ASSUME NEW c \in CPUs, NEW p \in Slots, reap(c, p)
      PROVE  Located'
  BY <1>18, Unlocked, SlotsFacts DEF reap, Freed, IInv, TypeOK, Located, At, On, table,
       Exiting, Waiting
<1>19. ASSUME NEW c \in CPUs, NEW p \in Slots, reap_fails(c, p)
      PROVE  Located'
  BY <1>19, Unlocked DEF reap_fails, IInv, TypeOK, Located, At, Goto, table, Exiting,
       Waiting
<1>20. ASSUME NEW c \in CPUs, NEW p \in Slots, exit(c, p)
      PROVE  Located'
  BY <1>20, Unlocked DEF exit, IInv, TypeOK, Located, At, On, Goto, table, locks,
       locals,
       Exiting, Waiting
<1>21. ASSUME NEW c \in CPUs, NEW p \in Slots, wait(c, p)
      PROVE  Located'
  BY <1>21, Unlocked DEF wait, IInv, TypeOK, Located, At, On, Goto, table, locks,
       locals,
       Exiting, Waiting
<1>22. ASSUME NEW c \in CPUs, NEW p \in Slots, NEW n \in Slots, fork(c, p, n)
      PROVE  Located'
  BY <1>22, Unlocked, SlotsFacts DEF fork, IInv, TypeOK, Located, At, On, locks,
       Exiting, Waiting
<1>23. ASSUME NEW c \in CPUs, NEW p \in Slots, NEW n \in Slots, fork_nomem(c, p, n)
      PROVE  Located'
  BY <1>23, Unlocked DEF fork_nomem, Freed, IInv, TypeOK, Located, locks, locals
<1>24. ASSUME NEW c \in CPUs, NEW p \in Slots, NEW k \in KillPids, kill(c, p, k)
      PROVE  Located'
  BY <1>24, Unlocked DEF kill, IInv, TypeOK, Located, locks, locals
<1>25. CASE UNCHANGED vars
  BY <1>25, Zenon DEF vars, table, locks, locals, IInv, Located
<1> QED BY <1>1, <1>2, <1>3, <1>4, <1>5, <1>6, <1>7, <1>8, <1>9, <1>10, <1>11, <1>12,
             <1>13,
           <1>14, <1>15, <1>16, <1>17, <1>18, <1>19, <1>20, <1>21, <1>22, <1>23, <1>24, <1>25, Zenon DEF Next, KernelStep

\* The child of fork().
LEMMA ChildrenStep == IInv /\ [Next]_vars => Children'
<1> SUFFICES ASSUME IInv, [Next]_vars PROVE Children'
  BY Zenon
<1>1. ASSUME NEW c \in CPUs, scheduler_release(c)
      PROVE  Children'
  BY <1>1, Zenon DEF scheduler_release, IInv, Children, table, locals
<1>2. ASSUME NEW c \in CPUs, NEW p \in Slots, schedule(c, p)
      PROVE  Children'
  BY <1>2 DEF schedule, IInv, TypeOK, Children, locals
<1>3. ASSUME NEW c \in CPUs, NEW p \in Slots, resume(c, p)
      PROVE  Children'
  BY <1>3, SlotsFacts DEF resume, IInv, TypeOK, Children, Goto, locals, Exiting, Forking
<1>4. ASSUME NEW c \in CPUs, NEW p \in Slots, yield(c, p)
      PROVE  Children'
  BY <1>4 DEF yield, IInv, TypeOK, Children, On, locals
<1>5. ASSUME NEW c \in CPUs, NEW p \in Slots, sleep_lock(c, p)
      PROVE  Children'
  BY <1>5 DEF sleep_lock, IInv, TypeOK, Children, At, Goto, table, locals, Forking
<1>6. ASSUME NEW c \in CPUs, NEW p \in Slots, sleep_switch(c, p)
      PROVE  Children'
  BY <1>6 DEF sleep_switch, IInv, TypeOK, Children, On, Goto, locals, Forking
<1>7. ASSUME NEW c \in CPUs, NEW p \in Slots, fork_acquire(c, p)
      PROVE  Children'
  BY <1>7 DEF fork_acquire, IInv, TypeOK, Children, At, Goto, table, locals, Forking
<1>8. ASSUME NEW c \in CPUs, NEW p \in Slots, fork_parent(c, p)
      PROVE  Children'
  BY <1>8 DEF fork_parent, IInv, TypeOK, Children, At, Goto, locals, Forking
<1>9. ASSUME NEW c \in CPUs, NEW p \in Slots, fork_run(c, p)
      PROVE  Children'
  BY <1>9 DEF fork_run, IInv, TypeOK, Children, Goto, Forking
<1>10. ASSUME NEW c \in CPUs, NEW p \in Slots, exit_acquire(c, p)
      PROVE  Children'
  BY <1>10 DEF exit_acquire, IInv, TypeOK, Children, Located, At, Goto, table, locals,
       Forking
<1>11. ASSUME NEW c \in CPUs, NEW p \in Slots, reparent(c, p)
      PROVE  Children'
  BY <1>11 DEF reparent, IInv, TypeOK, Children, At, Goto, locals, States, Forking
<1>12. ASSUME NEW c \in CPUs, NEW p \in Slots, wakeup_init(c, p)
      PROVE  Children'
  BY <1>12, SlotsFacts DEF wakeup_init, wakeup, IInv, TypeOK, Children, At, On, Goto,
       locks, States, Exiting, Waiting, Alive, Forking
<1>13. ASSUME NEW c \in CPUs, NEW p \in Slots, wakeup_parent(c, p)
      PROVE  Children'
  BY <1>13 DEF wakeup_parent, wakeup, IInv, TypeOK, Children, Located, At, Goto,
       Locations, Exiting, Waiting, Alive, Forking
<1>14. ASSUME NEW c \in CPUs, NEW p \in Slots, zombie(c, p)
      PROVE  Children'
  BY <1>14 DEF zombie, IInv, TypeOK, Children, At, On, Goto, locals, Forking
<1>15. ASSUME NEW c \in CPUs, NEW p \in Slots, wait_acquire(c, p)
      PROVE  Children'
  BY <1>15 DEF wait_acquire, IInv, TypeOK, Children, Located, At, Goto, table, locals,
       Forking
<1>16. ASSUME NEW c \in CPUs, NEW p \in Slots, scan(c, p)
      PROVE  Children'
  BY <1>16 DEF scan, IInv, TypeOK, Children, Located, At, Goto, table, Forking
<1>17. ASSUME NEW c \in CPUs, NEW p \in Slots, check(c, p)
      PROVE  Children'
  BY <1>17 DEF check, IInv, TypeOK, Children, At, Goto, table, Forking
<1>18. ASSUME NEW c \in CPUs, NEW p \in Slots, reap(c, p)
      PROVE  Children'
  BY <1>18 DEF reap, Freed, IInv, TypeOK, Children, Located, At, Forking
<1>19. ASSUME NEW c \in CPUs, NEW p \in Slots, reap_fails(c, p)
      PROVE  Children'
  BY <1>19 DEF reap_fails, IInv, TypeOK, Children, At, Goto, table, Forking
<1>20. ASSUME NEW c \in CPUs, NEW p \in Slots, exit(c, p)
      PROVE  Children'
  BY <1>20 DEF exit, IInv, TypeOK, Children, Located, At, Goto, table, locals, Forking
<1>21. ASSUME NEW c \in CPUs, NEW p \in Slots, wait(c, p)
      PROVE  Children'
  BY <1>21 DEF wait, IInv, TypeOK, Children, Located, At, Goto, table, locals, Forking
<1>22. ASSUME NEW c \in CPUs, NEW p \in Slots, NEW n \in Slots, fork(c, p, n)
      PROVE  Children'
  BY <1>22, SlotsFacts DEF fork, IInv, TypeOK, Children, Located, Forking
<1>23. ASSUME NEW c \in CPUs, NEW p \in Slots, NEW n \in Slots, fork_nomem(c, p, n)
      PROVE  Children'
  BY <1>23 DEF fork_nomem, Freed, IInv, TypeOK, Children, locals, Forking
<1>24. ASSUME NEW c \in CPUs, NEW p \in Slots, NEW k \in KillPids, kill(c, p, k)
      PROVE  Children'
  BY <1>24 DEF kill, IInv, TypeOK, Children, locals
<1>25. CASE UNCHANGED vars
  BY <1>25, Zenon DEF vars, table, locks, locals, IInv, Children
<1> QED BY <1>1, <1>2, <1>3, <1>4, <1>5, <1>6, <1>7, <1>8, <1>9, <1>10, <1>11, <1>12,
             <1>13,
           <1>14, <1>15, <1>16, <1>17, <1>18, <1>19, <1>20, <1>21, <1>22, <1>23, <1>24, <1>25, Zenon DEF Next, KernelStep

\* Parents.
LEMMA ParentsStep == IInv /\ [Next]_vars => Parents'
<1> SUFFICES ASSUME IInv, [Next]_vars PROVE Parents'
  BY Zenon
<1>1. ASSUME NEW c \in CPUs, scheduler_release(c)
      PROVE  Parents'
  BY <1>1, Zenon DEF scheduler_release, IInv, Parents, table
<1>2. ASSUME NEW c \in CPUs, NEW p \in Slots, schedule(c, p)
      PROVE  Parents'
  BY <1>2 DEF schedule, IInv, TypeOK, Parents, Alive
<1>3. ASSUME NEW c \in CPUs, NEW p \in Slots, resume(c, p)
      PROVE  Parents'
  BY <1>3, SlotsFacts DEF resume, IInv, TypeOK, Parents, On, Goto, Waiting
<1>4. ASSUME NEW c \in CPUs, NEW p \in Slots, yield(c, p)
      PROVE  Parents'
  BY <1>4 DEF yield, IInv, TypeOK, Parents, On, Alive
<1>5. ASSUME NEW c \in CPUs, NEW p \in Slots, sleep_lock(c, p)
      PROVE  Parents'
  BY <1>5 DEF sleep_lock, IInv, TypeOK, Parents, Goto, table
<1>6. ASSUME NEW c \in CPUs, NEW p \in Slots, sleep_switch(c, p)
      PROVE  Parents'
  BY <1>6 DEF sleep_switch, IInv, TypeOK, Parents, On, Goto, Alive
<1>7. ASSUME NEW c \in CPUs, NEW p \in Slots, fork_acquire(c, p)
      PROVE  Parents'
  BY <1>7 DEF fork_acquire, IInv, TypeOK, Parents, Goto, table
<1>8. ASSUME NEW c \in CPUs, NEW p \in Slots, fork_parent(c, p)
      PROVE  Parents'
  BY <1>8 DEF fork_parent, IInv, TypeOK, Parents, Children, At, Goto, Alive, Forking
<1>9. ASSUME NEW c \in CPUs, NEW p \in Slots, fork_run(c, p)
      PROVE  Parents'
  BY <1>9, SlotsFacts DEF fork_run, IInv, TypeOK, Parents, Children, At, On, Goto, Alive
<1>10. ASSUME NEW c \in CPUs, NEW p \in Slots, exit_acquire(c, p)
      PROVE  Parents'
  BY <1>10 DEF exit_acquire, IInv, TypeOK, Parents, Goto, table
<1>11. ASSUME NEW c \in CPUs, NEW p \in Slots, reparent(c, p)
      PROVE  Parents'
  <2>1. state' = state /\ pc[p] = "reparent" /\ initproc \in Slots
    BY <1>11, SlotsFacts, Zenon DEF reparent, At
  <2>2. state[initproc] \in Alive
    BY <2>1, Zenon DEF IInv, TypeOK, Located, States, Alive
  <2>3. \A q \in Slots \ {p} : pc[q] \notin {"wakeup_parent", "zombie"}
    BY <2>1, Zenon DEF IInv, Located, Exiting
  <2>4. CASE \E s \in Slots : parent' = [parent EXCEPT ![s] = initproc] /\ Goto(p, "wakeup_init")
    <3>1. PICK s \in Slots : parent' = [parent EXCEPT ![s] = initproc] /\ Goto(p, "wakeup_init")
      BY <2>4, Zenon
    <3>2. \A q \in Slots : parent'[q] \in {parent[q], initproc}
      BY <3>1, Zenon DEF IInv, TypeOK
    <3>3. \A q \in Slots : pc'[q] \notin {"wakeup_parent", "zombie"}
      BY <2>3, <3>1, Zenon DEF Goto, IInv, TypeOK
    <3>4. initproc # None
      BY <2>1, SlotsFacts, Zenon
    <3> QED BY <2>1, <2>2, <3>2, <3>3, <3>4, Zenon DEF IInv, Parents
  <2>5. CASE {s \in Slots : parent[s] = p} = {} /\ Goto(p, "wakeup_parent") /\ parent' = parent
    <3>1. \A q \in Slots : pc'[q] \in {"wakeup_parent", "zombie"} => q = p
      BY <2>3, <2>5, Zenon DEF Goto, IInv, TypeOK
    <3> QED BY <2>1, <2>5, <3>1, Zenon DEF IInv, Parents
  <2> QED BY <1>11, <2>4, <2>5, Zenon DEF reparent
<1>12. ASSUME NEW c \in CPUs, NEW p \in Slots, wakeup_init(c, p)
      PROVE  Parents'
  BY <1>12, SlotsFacts DEF wakeup_init, wakeup, IInv, TypeOK, Parents, Goto, Alive
<1>13. ASSUME NEW c \in CPUs, NEW p \in Slots, wakeup_parent(c, p)
      PROVE  Parents'
  BY <1>13 DEF wakeup_parent, wakeup, IInv, TypeOK, Parents, At, Goto, Alive
<1>14. ASSUME NEW c \in CPUs, NEW p \in Slots, zombie(c, p)
      PROVE  Parents'
  BY <1>14 DEF zombie, IInv, TypeOK, Parents, At, On, Goto, Alive
<1>15. ASSUME NEW c \in CPUs, NEW p \in Slots, wait_acquire(c, p)
      PROVE  Parents'
  BY <1>15 DEF wait_acquire, IInv, TypeOK, Parents, Goto, table
<1>16. ASSUME NEW c \in CPUs, NEW p \in Slots, scan(c, p)
      PROVE  Parents'
  BY <1>16 DEF scan, IInv, TypeOK, Parents, Goto, table
<1>17. ASSUME NEW c \in CPUs, NEW p \in Slots, check(c, p)
      PROVE  Parents'
  BY <1>17, SlotsFacts DEF check, IInv, TypeOK, Parents, Goto, table
<1>18. ASSUME NEW c \in CPUs, NEW p \in Slots, reap(c, p)
      PROVE  Parents'
  BY <1>18 DEF reap, Freed, IInv, TypeOK, Parents, Located, At, Exiting, Waiting, Alive
<1>19. ASSUME NEW c \in CPUs, NEW p \in Slots, reap_fails(c, p)
      PROVE  Parents'
  BY <1>19 DEF reap_fails, IInv, TypeOK, Parents, Goto, table
<1>20. ASSUME NEW c \in CPUs, NEW p \in Slots, exit(c, p)
      PROVE  Parents'
  BY <1>20 DEF exit, IInv, TypeOK, Parents, Goto, table
<1>21. ASSUME NEW c \in CPUs, NEW p \in Slots, wait(c, p)
      PROVE  Parents'
  BY <1>21 DEF wait, IInv, TypeOK, Parents, Goto, table
<1>22. ASSUME NEW c \in CPUs, NEW p \in Slots, NEW n \in Slots, fork(c, p, n)
      PROVE  Parents'
  BY <1>22 DEF fork, IInv, TypeOK, Parents, Children, At, locks, Locations, Exiting,
       Alive
<1>23. ASSUME NEW c \in CPUs, NEW p \in Slots, NEW n \in Slots, fork_nomem(c, p, n)
      PROVE  Parents'
  BY <1>23, SlotsFacts DEF fork_nomem, Freed, IInv, TypeOK, Parents, Alive
<1>24. ASSUME NEW c \in CPUs, NEW p \in Slots, NEW k \in KillPids, kill(c, p, k)
      PROVE  Parents'
  BY <1>24 DEF kill, IInv, TypeOK, Parents, Alive
<1>25. CASE UNCHANGED vars
  BY <1>25, Zenon DEF vars, table, locks, locals, IInv, Parents
<1> QED BY <1>1, <1>2, <1>3, <1>4, <1>5, <1>6, <1>7, <1>8, <1>9, <1>10, <1>11, <1>12,
             <1>13,
           <1>14, <1>15, <1>16, <1>17, <1>18, <1>19, <1>20, <1>21, <1>22, <1>23, <1>24, <1>25, Zenon DEF Next, KernelStep

\* One process at a time has wait_lock.
LEMMA Alone ==
  ASSUME IInv, NEW p \in Slots, pc[p] \in Exiting \cup Waiting
  PROVE  \A q \in Slots : pc[q] \in Exiting \cup Waiting => q = p
BY Zenon DEF IInv, Located

\* Slots are numbers.
LEMMA SlotsNumbers == NPROC \in Nat /\ \A s \in Slots : s \in Nat /\ 1 <= s /\ s <= NPROC
BY NPROCAssumption DEF Slots

\* What is to be shown of the next state.
LEMMA ExitsNext ==
  ASSUME \A q, s \in Slots : state'[q] = "SLEEPING" /\ parent'[s] = q /\ state'[s] = "ZOMBIE" =>
           q = initproc /\ \E p \in Slots : pc'[p] = "wakeup_init" /\ i'[p] = 1,
         \A p, s \in Slots : parent'[s] = p /\ state'[s] = "ZOMBIE" =>
           (pc'[p] = "scan" => i'[p] <= s) /\ pc'[p] \notin {"check", "sleep", "sleep_locked"},
         \A p, q \in Slots : parent'[p] = q /\ state'[q] = "SLEEPING" =>
           (pc'[p] = "wakeup_parent" => i'[p] <= q) /\ pc'[p] # "zombie"
  PROVE  Exits'
BY Zenon DEF Exits

\* Exits are not missed.
LEMMA ExitsStep == IInv /\ [Next]_vars => Exits'
<1> SUFFICES ASSUME IInv, [Next]_vars PROVE Exits'
  BY Zenon
<1>1. ASSUME NEW c \in CPUs, scheduler_release(c)
      PROVE  Exits'
  BY <1>1, Zenon DEF scheduler_release, IInv, Exits, table, locals
<1>2. ASSUME NEW c \in CPUs, NEW p \in Slots, schedule(c, p)
      PROVE  Exits'
  BY <1>2 DEF schedule, IInv, TypeOK, Exits, locals
<1>3. ASSUME NEW c \in CPUs, NEW p \in Slots, resume(c, p)
      PROVE  Exits'
  BY <1>3 DEF resume, IInv, TypeOK, Exits, Goto, locals
<1>4. ASSUME NEW c \in CPUs, NEW p \in Slots, yield(c, p)
      PROVE  Exits'
  BY <1>4 DEF yield, IInv, TypeOK, Exits, locals
<1>5. ASSUME NEW c \in CPUs, NEW p \in Slots, sleep_lock(c, p)
      PROVE  Exits'
  BY <1>5 DEF sleep_lock, IInv, TypeOK, Exits, At, Goto, table, locals
<1>6. ASSUME NEW c \in CPUs, NEW p \in Slots, sleep_switch(c, p)
      PROVE  Exits'
  BY <1>6 DEF sleep_switch, IInv, TypeOK, Exits, Located, Goto, Exiting, Waiting
<1>7. ASSUME NEW c \in CPUs, NEW p \in Slots, fork_acquire(c, p)
      PROVE  Exits'
  BY <1>7 DEF fork_acquire, IInv, TypeOK, Exits, At, Goto, table, locals
<1>8. ASSUME NEW c \in CPUs, NEW p \in Slots, fork_parent(c, p)
      PROVE  Exits'
  BY <1>8 DEF fork_parent, IInv, TypeOK, Exits, At, On, Goto, locals
<1>9. ASSUME NEW c \in CPUs, NEW p \in Slots, fork_run(c, p)
      PROVE  Exits'
  BY <1>9 DEF fork_run, IInv, TypeOK, Exits, At, Goto
<1>10. ASSUME NEW c \in CPUs, NEW p \in Slots, exit_acquire(c, p)
      PROVE  Exits'
  BY <1>10 DEF exit_acquire, IInv, TypeOK, Exits, At, Goto, table, locals
<1>11. ASSUME NEW c \in CPUs, NEW p \in Slots, reparent(c, p)
      PROVE  Exits'
  <2>1. UNCHANGED <<state, i>> /\ pc[p] = "reparent" /\ i[p] = 1 /\ p # initproc
    BY <1>11, SlotsFacts, Zenon DEF reparent, IInv, Parents, Located, At, locals,
         Exiting
  <2>2. \A q \in Slots : q # p => pc[q] \notin Exiting \cup Waiting
    BY <2>1, Alone, Zenon DEF Exiting
  <2>3. \A q \in Slots : q # p => pc'[q] = pc[q]
    BY <1>11, Zenon DEF reparent, IInv, TypeOK, Goto
  <2>4. Exits
    BY Zenon DEF IInv
  <2>5. CASE \E s \in Slots : parent' = [parent EXCEPT ![s] = initproc] /\ Goto(p, "wakeup_init")
    <3>1. PICK s \in Slots : parent' = [parent EXCEPT ![s] = initproc] /\ Goto(p, "wakeup_init")
      BY <2>5, Zenon DEF Exits, Goto, table, Locations
    <3>2. pc'[p] = "wakeup_init" /\ \A r \in Slots : parent'[r] = IF r = s THEN initproc ELSE parent[r]
      BY <3>1, Zenon DEF IInv, TypeOK, Goto
    <3>3. \A q, r \in Slots : state'[q] = "SLEEPING" /\ parent'[r] = q /\ state'[r] = "ZOMBIE" => q = initproc
      BY <2>1, <2>2, <2>4, <3>2 DEF Exits
    <3>4. \A q \in Slots : pc'[q] \notin {"scan", "check", "sleep", "sleep_locked", "wakeup_parent", "zombie"}
      BY <2>2, <2>3, <3>2, Zenon DEF Exiting, Waiting
    <3> QED BY <2>1, <3>2, <3>3, <3>4, ExitsNext, Zenon
  <2>6. CASE parent' = parent /\ Goto(p, "wakeup_parent")
    <3>1. pc'[p] = "wakeup_parent"
      BY <2>6, Zenon DEF IInv, TypeOK, Goto
    <3>2. \A q, r \in Slots : state'[q] = "SLEEPING" /\ parent'[r] = q => state'[r] # "ZOMBIE"
      BY <2>1, <2>2, <2>4, <2>6, Zenon DEF Exits, Exiting
    <3>3. \A q \in Slots : pc'[q] \notin {"scan", "check", "sleep", "sleep_locked", "zombie"}
      BY <2>2, <2>3, <3>1, Zenon DEF Exiting, Waiting
    <3>4. \A x, q \in Slots : pc'[x] = "wakeup_parent" => i'[x] <= q
      BY <2>1, <2>2, <2>3, SlotsNumbers, Zenon DEF Exiting
    <3> QED BY <3>2, <3>3, <3>4, ExitsNext, Zenon
  <2> QED BY <1>11, <2>5, <2>6, SlotsFacts, Zenon DEF reparent, Parents, Children,
               Located
<1>12. ASSUME NEW c \in CPUs, NEW p \in Slots, wakeup_init(c, p)
      PROVE  Exits'
  <2>1. UNCHANGED parent /\ pc[p] = "wakeup_init" /\ i[p] \in Slots /\ p # initproc
    BY <1>12, Zenon DEF wakeup_init, wakeup, IInv, TypeOK, Located, At, Exiting
  <2>2. \A q \in Slots : q # p => pc[q] \notin Exiting \cup Waiting
    BY <2>1, Alone, Zenon DEF Exiting
  <2>3. \A q \in Slots : /\ state'[q] = "SLEEPING" => state[q] = "SLEEPING" /\ ~(q = i[p] /\ q = initproc)
                         /\ state'[q] = "ZOMBIE" <=> state[q] = "ZOMBIE"
    BY <1>12, <2>1 DEF wakeup_init, wakeup, IInv, TypeOK, Located
  <2>4. \A q \in Slots : /\ q # p => pc'[q] = pc[q]
                         /\ pc'[p] \in {"wakeup_init", "reparent"}
    BY <1>12, Zenon DEF wakeup_init, wakeup, IInv, TypeOK, At, Goto
  <2>5. Exits
    BY Zenon DEF IInv
  <2>6. \A q, s \in Slots : state'[q] = "SLEEPING" /\ parent'[s] = q => state'[s] # "ZOMBIE"
    <3>1. \A q, s \in Slots : state[q] = "SLEEPING" /\ parent[s] = q /\ state[s] = "ZOMBIE" =>
            q = initproc /\ i[p] = 1
      BY <2>2, <2>5, Zenon DEF Exits, Exiting
    <3> QED BY <2>1, <2>3, <3>1, Zenon DEF initproc
  <2>7. \A q \in Slots : pc'[q] \notin {"scan", "check", "sleep", "sleep_locked", "wakeup_parent", "zombie"}
    BY <2>1, <2>2, <2>4, Zenon DEF Exiting, Waiting
  <2> QED BY <2>6, <2>7, ExitsNext, Zenon
<1>13. ASSUME NEW c \in CPUs, NEW p \in Slots, wakeup_parent(c, p)
      PROVE  Exits'
  <2>1. UNCHANGED parent /\ pc[p] = "wakeup_parent" /\ i[p] \in Slots /\ state[p] = "RUNNING"
    BY <1>13, Zenon DEF wakeup_parent, wakeup, IInv, TypeOK, At, On
  <2>2. \A q \in Slots : q # p => pc[q] \notin Exiting \cup Waiting
    BY <2>1, Alone, Zenon DEF Exiting
  <2>3. \A q \in Slots : /\ state'[q] = "SLEEPING" => state[q] = "SLEEPING" /\ ~(q = i[p] /\ q = parent[p])
                         /\ state'[q] = "ZOMBIE" <=> state[q] = "ZOMBIE"
    BY <1>13, <2>1 DEF wakeup_parent, wakeup, IInv, TypeOK, Located
  <2>4. \A q \in Slots : /\ q # p => pc'[q] = pc[q] /\ i'[q] = i[q]
                         /\ i[p] < NPROC => pc'[p] = "wakeup_parent" /\ i'[p] = i[p] + 1
                         /\ ~(i[p] < NPROC) => pc'[p] = "zombie"
    BY <1>13, Zenon DEF wakeup_parent, wakeup, IInv, TypeOK, At, Goto
  <2>5. \A q \in Slots : parent[p] = q /\ state'[q] = "SLEEPING" => i[p] + 1 <= q /\ i[p] < NPROC
    <3>1. \A q \in Slots : parent[p] = q /\ state'[q] = "SLEEPING" => i[p] <= q /\ i[p] # q
      BY <2>1, <2>3, Zenon DEF IInv, Exits
    <3> QED BY <2>1, <3>1, SlotsNumbers
  <2>6. Exits
    BY Zenon DEF IInv
  <2>7. \A q, s \in Slots : state'[q] = "SLEEPING" /\ parent'[s] = q => state'[s] # "ZOMBIE"
    BY <2>1, <2>2, <2>3, <2>6, Zenon DEF Exits, Exiting
  <2>8. \A q \in Slots : pc'[q] \notin {"scan", "check", "sleep", "sleep_locked"}
    BY <2>1, <2>2, <2>4, Zenon DEF Waiting
  <2>9. \A x, q \in Slots : parent'[x] = q /\ state'[q] = "SLEEPING" =>
          (pc'[x] = "wakeup_parent" => i'[x] <= q) /\ pc'[x] # "zombie"
    BY <2>1, <2>2, <2>4, <2>5 DEF Exiting
  <2> QED BY <2>7, <2>8, <2>9, ExitsNext, Zenon
<1>14. ASSUME NEW c \in CPUs, NEW p \in Slots, zombie(c, p)
      PROVE  Exits'
  BY <1>14 DEF zombie, IInv, TypeOK, Exits, Located, At, Goto, Exiting, Waiting
<1>15. ASSUME NEW c \in CPUs, NEW p \in Slots, wait_acquire(c, p)
      PROVE  Exits'
  <2>1. UNCHANGED <<state, parent, i>> /\ \A q \in Slots : pc[q] \notin Exiting \cup Waiting
    BY <1>15, Zenon DEF wait_acquire, IInv, Located, table, locals
  <2>2. \A q \in Slots : pc'[q] = IF q = p THEN "scan" ELSE pc[q]
    BY <1>15, Zenon DEF wait_acquire, IInv, TypeOK, Goto
  <2>3. i[p] = 1
    BY <1>15, Zenon DEF wait_acquire, IInv, Located, At
  <2>4. Exits
    BY Zenon DEF IInv
  <2> QED BY <2>1, <2>2, <2>3, <2>4, SlotsNumbers, Zenon DEF Exits, Exiting
<1>16. ASSUME NEW c \in CPUs, NEW p \in Slots, scan(c, p)
      PROVE  Exits'
  <2>1. UNCHANGED <<state, parent>> /\ pc[p] = "scan" /\ i[p] \in Slots
    BY <1>16, Zenon DEF scan, IInv, TypeOK, At, table
  <2>2. \A q \in Slots : q # p => pc[q] \notin Exiting \cup Waiting
    BY <2>1, Alone, Zenon DEF Waiting
  <2>3. parent[i[p]] = p => state[i[p]] # "ZOMBIE"
    BY <1>16, Zenon DEF scan
  <2>4. \A q \in Slots : /\ q # p => pc'[q] = pc[q] /\ i'[q] = i[q]
                         /\ i[p] < NPROC => pc'[p] = "scan" /\ i'[p] = i[p] + 1
                         /\ ~(i[p] < NPROC) => pc'[p] = "check"
    BY <1>16, Zenon DEF scan, IInv, TypeOK, Goto
  <2>5. \A s \in Slots : parent[s] = p /\ state[s] = "ZOMBIE" => i[p] + 1 <= s /\ i[p] < NPROC
    <3>1. \A s \in Slots : parent[s] = p /\ state[s] = "ZOMBIE" => i[p] <= s /\ i[p] # s
      BY <2>1, <2>3, Zenon DEF IInv, Exits
    <3> QED BY <2>1, <3>1, SlotsNumbers
  <2>6. Exits
    BY Zenon DEF IInv
  <2>7. \A q, s \in Slots : state'[q] = "SLEEPING" /\ parent'[s] = q => state'[s] # "ZOMBIE"
    BY <2>1, <2>2, <2>6, Zenon DEF Exits, Exiting
  <2>8. \A q, s \in Slots : parent'[s] = q /\ state'[s] = "ZOMBIE" =>
          (pc'[q] = "scan" => i'[q] <= s) /\ pc'[q] \notin {"check", "sleep", "sleep_locked"}
    BY <2>1, <2>2, <2>4, <2>5, SlotsNumbers DEF Waiting
  <2>9. \A q \in Slots : pc'[q] \notin {"wakeup_parent", "zombie"}
    BY <2>1, <2>2, <2>4, Zenon DEF Exiting
  <2> QED BY <2>7, <2>8, <2>9, ExitsNext, Zenon
<1>17. ASSUME NEW c \in CPUs, NEW p \in Slots, check(c, p)
      PROVE  Exits'
  BY <1>17 DEF check, IInv, TypeOK, Exits, At, Goto, table
<1>18. ASSUME NEW c \in CPUs, NEW p \in Slots, reap(c, p)
      PROVE  Exits'
  <2> DEFINE s == i[p]
  <2>1. s \in Slots /\ pc[p] = "scan" /\ state[s] = "ZOMBIE" /\ p # s
    BY <1>18 DEF reap, At, IInv, TypeOK, Located
  <2>2. \A q \in Slots : pc[q] \notin Exiting /\ (q # p => pc[q] \notin Waiting)
    BY <2>1, Alone, Zenon DEF Exiting, Waiting
  <2> HIDE DEF s
  <2>3. \A q \in Slots : /\ state'[q] = IF q = s THEN "UNUSED" ELSE state[q]
                         /\ parent'[q] = IF q = s THEN None ELSE parent[q]
                         /\ pc'[q] = IF q = s THEN "none" ELSE IF q = p THEN "user" ELSE pc[q]
    BY <1>18, <2>1 DEF reap, Freed, IInv, TypeOK, s
  <2>4. \A q, r \in Slots : state'[q] = "SLEEPING" /\ parent'[r] = q /\ state'[r] = "ZOMBIE" => FALSE
    BY <2>2, <2>3, SlotsFacts DEF IInv, Exits, Exiting
  <2>5. \A q \in Slots : pc'[q] \notin Exiting \cup Waiting
    BY <2>2, <2>3 DEF Exiting, Waiting
  <2> QED BY <2>4, <2>5 DEF Exits, Exiting, Waiting
<1>19. ASSUME NEW c \in CPUs, NEW p \in Slots, reap_fails(c, p)
      PROVE  Exits'
  BY <1>19 DEF reap_fails, IInv, TypeOK, Exits, At, Goto, table
<1>20. ASSUME NEW c \in CPUs, NEW p \in Slots, exit(c, p)
      PROVE  Exits'
  BY <1>20 DEF exit, IInv, TypeOK, Exits, At, Goto, table, locals
<1>21. ASSUME NEW c \in CPUs, NEW p \in Slots, wait(c, p)
      PROVE  Exits'
  BY <1>21 DEF wait, IInv, TypeOK, Exits, At, Goto, table, locals
<1>22. ASSUME NEW c \in CPUs, NEW p \in Slots, NEW n \in Slots, fork(c, p, n)
      PROVE  Exits'
  <2>1. parent' = parent /\ i' = i /\ pc[p] = "user" /\ state[n] = "UNUSED"
    BY <1>22, Zenon DEF fork, At
  <2>2. \A q \in Slots : q # n => state'[q] = state[q]
    BY <1>22, Zenon DEF fork, IInv, TypeOK
  <2>3. state'[n] = "USED"
    BY <1>22, Zenon DEF fork, IInv, TypeOK
  <2>4. pc[n] = "none"
    BY <2>1, Zenon DEF IInv, Located
  <2>5. \A q \in Slots : pc'[q] = pc[q] \/ (pc'[q] \in {"user", "fork_copied"}
                                             /\ pc[q] \in {"user", "none"})
    BY <1>22, <2>1, <2>4, Zenon DEF fork, IInv, TypeOK
  <2> QED BY <2>1, <2>2, <2>3, <2>5 DEF IInv, Exits
<1>23. ASSUME NEW c \in CPUs, NEW p \in Slots, NEW n \in Slots, fork_nomem(c, p, n)
      PROVE  Exits'
  <2>1. pc' = pc /\ i' = i /\ state[n] = "UNUSED"
    BY <1>23, Zenon DEF fork_nomem, locals
  <2>2. \A q \in Slots : /\ state'[q] = state[q]
                         /\ parent'[q] = IF q = n THEN None ELSE parent[q]
    BY <1>23, <2>1 DEF fork_nomem, Freed, IInv, TypeOK
  <2> QED BY <2>1, <2>2, SlotsFacts DEF IInv, Exits
<1>24. ASSUME NEW c \in CPUs, NEW p \in Slots, NEW k \in KillPids, kill(c, p, k)
      PROVE  Exits'
  BY <1>24 DEF kill, IInv, TypeOK, Exits, locals
<1>25. CASE UNCHANGED vars
  BY <1>25, Zenon DEF vars, table, locks, locals, IInv, Exits
<1> QED BY <1>1, <1>2, <1>3, <1>4, <1>5, <1>6, <1>7, <1>8, <1>9, <1>10, <1>11, <1>12,
             <1>13,
           <1>14, <1>15, <1>16, <1>17, <1>18, <1>19, <1>20, <1>21, <1>22, <1>23, <1>24, <1>25, Zenon DEF Next, KernelStep

------------------------------------------------------------------------------
\* The theorems.

\* The invariant holds in every state of kernel/proc.c, for any number of
\* slots, CPUs and pids.
THEOREM Invariance == Spec => []IInv
<1>1. Init => IInv
  <2> SUFFICES ASSUME Init PROVE IInv
    BY Zenon
  <2> USE SlotsFacts DEF Init
  <2>1. TypeOK
    BY NextSlot, Zenon DEF TypeOK, States, Locations
  <2>2. Switching /\ Located
    BY Zenon DEF Switching, Located, Exiting, Waiting, Alive, initproc
  <2>3. Children /\ Parents /\ Exits
    BY Zenon DEF Children, Parents, Exits, Forking, Alive
  <2> QED BY <2>1, <2>2, <2>3, Zenon DEF IInv
<1>2. IInv /\ [Next]_vars => IInv'
  BY TypeStep, SwitchingStep, LocatedStep, ChildrenStep, ParentsStep, ExitsStep,
       Zenon DEF IInv
<1> QED BY <1>1, <1>2, PTL DEF Spec

\* A process is on one CPU at a time: p->lock is held across every switch.
THEOREM CPUSafety == Spec => []OneCPU
<1>1. IInv => OneCPU
  <2> SUFFICES ASSUME IInv, NEW p \in Slots
               PROVE  /\ Cardinality({c \in CPUs : cproc[c] = p}) <= 1
                      /\ state[p] = "RUNNING" => \E c \in CPUs : cproc[c] = p
                      /\ plock[p] = None /\ (\E c \in CPUs : cproc[c] = p) => state[p] = "RUNNING"
    BY Zenon DEF OneCPU
  <2>1. Cardinality({c \in CPUs : cproc[c] = p}) <= 1
    <3> DEFINE On1 == {c \in CPUs : cproc[c] = p}
    <3>1. CASE On1 = {}
      BY <3>1, FS_EmptySet
    <3>2. CASE On1 # {}
      <4>1. PICK c \in CPUs : On1 = {c}
        BY <3>2, SlotsFacts DEF IInv, TypeOK, Switching
      <4> QED BY <4>1, FS_Singleton
    <3> QED BY <3>1, <3>2, Zenon
  <2> QED BY <2>1, SlotsFacts DEF IInv, TypeOK, Switching
<1> QED BY <1>1, Invariance, PTL

\* wait() frees no slot whose process is still on its kernel stack.
THEOREM FreeSafety == Spec => []FreedIsOffCPU
<1>1. IInv => FreedIsOffCPU
  BY SlotsFacts, Zenon DEF IInv, TypeOK, Switching, Located, FreedIsOffCPU, Alive
<1> QED BY <1>1, Invariance, PTL

\* No exit is missed by a parent that goes to sleep in wait().
THEOREM ExitSafety == Spec => []NoLostExit
<1>1. IInv => NoLostExit
  BY SlotsFacts, Zenon DEF IInv, TypeOK, Located, Exits, NoLostExit, Exiting
<1> QED BY <1>1, Invariance, PTL

\* No process is orphaned by the exit of its parent.
THEOREM ParentSafety == Spec => []NoOrphan
<1>1. IInv => NoOrphan
  BY SlotsFacts, Zenon DEF IInv, TypeOK, Parents, NoOrphan, Alive
<1> QED BY <1>1, Invariance, PTL
==============================================================================
