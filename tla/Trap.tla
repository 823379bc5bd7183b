--------------------------------- MODULE Trap --------------------------------
(***************************************************************************)
(* Interrupts, spinlocks and the clock: kernel/trap.c, spinlock.c, plic.c, *)
(* the nesting of push_off() and pop_off() across context switches, and    *)
(* sleep() on ticks.                                                       *)
(*                                                                         *)
(* A thread is a process, or the scheduler() of a CPU, which is named like *)
(* the CPU.  An interrupt runs on the stack of the thread it hits.         *)
(*                                                                         *)
(* cpu[c]   sie (interrupts enabled), vec (where traps go), ssip (a timer  *)
(*          interrupt is pending), noff, intena and proc; spin: in the     *)
(*          loop of acquire()                                              *)
(* lock     the CPU that holds tickslock, and the lock of each process     *)
(* th[t]    a thread: where it is (pc), where in an interrupt handler on   *)
(*          top of that (trap), intena as saved by sched(), the argument   *)
(*          of its system call, ticks0, and the processes that the loops   *)
(*          of scheduler() (i) and wakeup() (w) look at                    *)
(* irq      of a device: "idle", "pending" or "claimed" by a CPU           *)
(*                                                                         *)
(* Processes call sleep() and kill(), or fault; fork(), wait() and the     *)
(* rest of exit() are in module Proc, the device handlers in Tty and       *)
(* Virtio.                                                                 *)
(***************************************************************************)
EXTENDS Integers, FiniteSets

CONSTANTS NCPU, NPROC,
          UINT,           \* ticks counts modulo UINT
          Calls           \* Calls[p]: the system calls of p, <<"sys_sleep", n>> with n
                          \* as a uint, or <<"kill", p>>

ASSUME SizeAssumption ==
  /\ {NCPU, NPROC, UINT} \subseteq Nat \ {0}
  /\ DOMAIN Calls = 1..NPROC

VARIABLES cpu, lock, th, state, killed, ticks, irq, panicked

vars == <<cpu, lock, th, state, killed, ticks, irq, panicked>>

Procs == 1..NPROC
Cpu(k) == NPROC + 1 + k
CPUs == {Cpu(k) : k \in 0..(NCPU - 1)}
tickslock == 0
Locks == Procs \cup {tickslock}
None == -1

Init ==
  /\ cpu = [c \in CPUs |-> [sie |-> TRUE, vec |-> "kernel", ssip |-> FALSE,
                            noff |-> 0, intena |-> FALSE, proc |-> 0, spin |-> FALSE]]
  /\ lock = [l \in Locks |-> None]
  /\ th = [t \in Procs \cup CPUs |-> [pc |-> IF t \in CPUs THEN "scan" ELSE "forkret",
                                      trap |-> "no", intena |-> FALSE,
                                      arg |-> 0, ticks0 |-> 0, i |-> 1, w |-> 1]]
  /\ state = [p \in Procs |-> "RUNNABLE"]
  /\ killed = [p \in Procs |-> FALSE]
  /\ ticks = 0 /\ irq = "idle" /\ panicked = FALSE

\* The thread that runs on c, and where it is.
Run(c) == IF cpu[c].proc = 0 THEN c ELSE cpu[c].proc
Loc(t) == IF th[t].trap = "no" THEN th[t].pc ELSE th[t].trap
At(c, l) == ~panicked /\ Loc(Run(c)) = l
Moved(t, l) == IF t.trap = "no" THEN [t EXCEPT !.pc = l] ELSE [t EXCEPT !.trap = l]
Goto(c, l) == th' = [th EXCEPT ![Run(c)] = Moved(@, l)]
Set(c, k) == cpu' = [cpu EXCEPT ![c] = k]

------------------------------------------------------------------------------
\* spinlock.c, on the record k of a CPU.

push_off(k) ==
  [k EXCEPT !.sie = FALSE, !.intena = IF k.noff = 0 THEN k.sie ELSE @, !.noff = @ + 1]

pop_off(k) ==
  [k EXCEPT !.noff = @ - 1, !.sie = k.noff = 1 /\ k.intena]

PopPanics(k) == k.sie \/ k.noff < 1

\* The lock that the thread on c is about to acquire.
Wants(c) ==
  LET t == Run(c) IN
  CASE Loc(t) \in {"sys_sleep", "sleep_again", "clockintr"} -> tickslock
    [] Loc(t) \in {"yield", "exit"} -> t
    [] Loc(t) = "scan" -> th[t].i
    [] Loc(t) = "kill" -> th[t].arg
    [] OTHER -> None

\* acquire(): interrupts go off ...
acquire(c) ==
  /\ ~panicked /\ Wants(c) # None /\ ~cpu[c].spin
  /\ Set(c, [push_off(cpu[c]) EXCEPT !.spin = TRUE])
  /\ panicked' = (lock[Wants(c)] = c)
  /\ UNCHANGED <<lock, th, state, killed, ticks, irq>>

\* ... and the loop ends when the lock is free.
Acquired(c, l) == At(c, l) /\ cpu[c].spin /\ lock[Wants(c)] = None
Spun(c) == [cpu[c] EXCEPT !.spin = FALSE]
Taken(c) == [lock EXCEPT ![Wants(c)] = c]

\* release() of lock l on c, whose record is k otherwise.
release(c, l, k) ==
  /\ Set(c, pop_off(k))
  /\ lock' = [lock EXCEPT ![l] = None]
  /\ panicked' = (lock[l] # c \/ PopPanics(k))

------------------------------------------------------------------------------
\* Interrupts.

\* Fewer than UINT ticks pass while a process that was woken waits for a CPU.
Elapsed(p) == (ticks - th[p].ticks0) % UINT
Asleep(p) == th[p].pc \in {"sleep_test", "sleep_woken", "sleep_again"}
SlowClock == \A p \in Procs : Asleep(p) => Elapsed(p) < UINT - 1

\* The CLINT and timervec raise a software interrupt.
timer(c) ==
  /\ ~panicked /\ ~cpu[c].ssip /\ (c = Cpu(0) => SlowClock)
  /\ Set(c, [cpu[c] EXCEPT !.ssip = TRUE])
  /\ UNCHANGED <<lock, th, state, killed, ticks, irq, panicked>>

device ==
  /\ ~panicked /\ irq = "idle"
  /\ irq' = "pending"
  /\ UNCHANGED <<cpu, lock, th, state, killed, ticks, panicked>>

Mode(t) == IF th[t].pc = "user" THEN "user" ELSE "kernel"

\* usertrap() and kerneltrap() panic when they are not entered from the mode they
\* are for.
WrongMode(c) == Mode(Run(c)) # cpu[c].vec

\* A trap turns interrupts off; usertrap() sends further ones to kernelvec.
usertrap(c) == [cpu[c] EXCEPT !.sie = FALSE, !.vec = "kernel"]

\* An interrupt hits a thread that is not in a handler already: k and t are the CPU
\* and the thread in the handler.
kerneltrap(c, k, t) ==
  /\ ~panicked /\ cpu[c].sie /\ th[Run(c)].trap = "no"
  /\ Set(c, k) /\ th' = [th EXCEPT ![Run(c)] = t]
  /\ panicked' = WrongMode(c)
  /\ UNCHANGED <<lock, state, killed, ticks, irq>>

\* After the handler: a killed process exits if it was in user space.
Exit(t) == [t EXCEPT !.pc = "exit", !.trap = "no"]
Handled(t, l) == IF t \in Procs /\ Mode(t) = "user" /\ killed[t] THEN Exit(th[t])
                 ELSE [th[t] EXCEPT !.trap = l]

\* Clear SSIP; a process yields, scheduler() goes on.
Acked(k) == [k EXCEPT !.ssip = FALSE]
Preempted(t) == Handled(t, IF t \in Procs THEN "yield" ELSE "ret")

devintr_timer(c) ==
  /\ cpu[c].ssip
  /\ IF c = Cpu(0) THEN kerneltrap(c, usertrap(c), [th[Run(c)] EXCEPT !.trap = "clockintr"])
     ELSE kerneltrap(c, Acked(usertrap(c)), Preempted(Run(c)))

devintr_external(c) ==
  irq = "pending" /\ kerneltrap(c, usertrap(c), [th[Run(c)] EXCEPT !.trap = "claim"])

\* Another CPU may have claimed the interrupt first.
plic_claim(c) ==
  /\ At(c, "claim")
  /\ IF irq = "pending" THEN irq' = "claimed" /\ Goto(c, "serve")
     ELSE th' = [th EXCEPT ![Run(c)] = Handled(Run(c), "ret")] /\ UNCHANGED irq
  /\ UNCHANGED <<cpu, lock, state, killed, ticks, panicked>>

plic_complete(c) ==
  /\ At(c, "serve")
  /\ irq' = "idle"
  /\ th' = [th EXCEPT ![Run(c)] = Handled(Run(c), "ret")]
  /\ UNCHANGED <<cpu, lock, state, killed, ticks, panicked>>

\* clockintr(), with tickslock.
tick(c) ==
  /\ Acquired(c, "clockintr")
  /\ Set(c, Spun(c)) /\ lock' = Taken(c)
  /\ ticks' = (ticks + 1) % UINT
  /\ th' = [th EXCEPT ![Run(c)] = [Moved(@, "wakeup") EXCEPT !.w = 1]]
  /\ UNCHANGED <<state, killed, irq, panicked>>

Awake(p) == [state EXCEPT ![p] = IF @ = "SLEEPING" THEN "RUNNABLE" ELSE @]

\* wakeup() of the next process, but not of the one that was interrupted.
wakeup(c) ==
  LET t == Run(c)
      p == th[t].w
  IN
  /\ At(c, "wakeup") /\ p \in Procs /\ (p = cpu[c].proc \/ lock[p] \in {None, c})
  /\ state' = IF p = cpu[c].proc THEN state ELSE Awake(p)
  /\ panicked' = (p # cpu[c].proc /\ lock[p] = c)
  /\ th' = [th EXCEPT ![t].w = @ + 1]
  /\ UNCHANGED <<cpu, lock, killed, ticks, irq>>

clockintr_release(c) ==
  /\ At(c, "wakeup") /\ th[Run(c)].w > NPROC
  /\ release(c, tickslock, Acked(cpu[c]))
  /\ th' = [th EXCEPT ![Run(c)] = [Preempted(Run(c)) EXCEPT !.w = 1]]
  /\ UNCHANGED <<state, killed, ticks, irq>>

\* Back to the kernel with sret, after sstatus has been restored.
kerneltrap_ret(c) ==
  /\ At(c, "ret") /\ Mode(Run(c)) = "kernel"
  /\ Set(c, [cpu[c] EXCEPT !.sie = TRUE])
  /\ th' = [th EXCEPT ![Run(c)].trap = "no"]
  /\ UNCHANGED <<lock, state, killed, ticks, irq, panicked>>

Returned(t) == [t EXCEPT !.pc = "stvec", !.trap = "no", !.arg = 0, !.ticks0 = 0]
Returning(c) == At(c, "done") \/ (At(c, "ret") /\ Mode(Run(c)) = "user")

\* The two steps of usertrapret(), with what they make of the CPU.
ReturnSteps(c, first, second) ==
  /\ \/ /\ Returning(c)
        /\ Set(c, first)
        /\ th' = [th EXCEPT ![Run(c)] = Returned(@)]
     \/ /\ At(c, "stvec")
        /\ Set(c, second)
        /\ Goto(c, "userret")
  /\ UNCHANGED <<lock, state, killed, ticks, irq, panicked>>

intr_off(k) == [k EXCEPT !.sie = FALSE]
w_stvec(k) == [k EXCEPT !.vec = "user"]

\* Faulty usertrapret: traps go to uservec first.
usertrapret_early(c) == ReturnSteps(c, w_stvec(cpu[c]), intr_off(cpu[c]))

\* usertrapret(): interrupts go off, then traps go to uservec ...
usertrapret(c) == ReturnSteps(c, intr_off(cpu[c]), w_stvec(cpu[c]))

\* ... and interrupts are on again after the sret of userret.
userret(c) ==
  /\ At(c, "userret")
  /\ Set(c, [cpu[c] EXCEPT !.sie = TRUE])
  /\ Goto(c, "user")
  /\ UNCHANGED <<lock, state, killed, ticks, irq, panicked>>

------------------------------------------------------------------------------
\* scheduler() and sched().

intr_on(k) == [k EXCEPT !.sie = TRUE]

\* The loop goes on with the next process, or from the start, with interrupts on.
Looped(c) == [th[c] EXCEPT !.pc = "scan", !.i = IF @ = NPROC THEN 1 ELSE @ + 1]
Continued(c, k) == IF th[c].i = NPROC THEN intr_on(k) ELSE k

\* Faulty resumed: sched() does not restore intena.
resumed_kept(c, p) == [Spun(c) EXCEPT !.proc = p]

\* The process continues in sched(), or for the first time in forkret().
resumed(c, p) ==
  [Spun(c) EXCEPT !.proc = p, !.intena = IF Loc(p) = "forkret" THEN @ ELSE th[p].intena]

scheduler(c) ==
  LET p == th[c].i IN
  /\ Acquired(c, "scan") /\ state[p] = "RUNNABLE"
  /\ state' = [state EXCEPT ![p] = "RUNNING"]
  /\ Set(c, resumed(c, p)) /\ lock' = Taken(c)
  /\ Goto(c, "back")
  /\ UNCHANGED <<killed, ticks, irq, panicked>>

\* Nothing to run there.
scheduler_skip(c) ==
  /\ Acquired(c, "scan") /\ state[th[c].i] # "RUNNABLE"
  /\ Set(c, Continued(c, pop_off(Spun(c))))
  /\ th' = [th EXCEPT ![c] = Looped(c)]
  /\ UNCHANGED <<lock, state, killed, ticks, irq, panicked>>

\* The process is done running for now.
scheduler_release(c) ==
  /\ At(c, "back")
  /\ Set(c, Continued(c, pop_off(cpu[c]))) /\ lock' = [lock EXCEPT ![th[c].i] = None]
  /\ panicked' = (lock[th[c].i] # c \/ PopPanics(cpu[c]))
  /\ th' = [th EXCEPT ![c] = Looped(c)]
  /\ UNCHANGED <<state, killed, ticks, irq>>

\* sched() of the process on c, whose record is k otherwise: it must hold its own
\* lock and no other, with interrupts off.
sched(c, k, held, s, l) ==
  LET p == Run(c) IN
  /\ state' = [state EXCEPT ![p] = s]
  /\ th' = [th EXCEPT ![p] = [Moved(@, l) EXCEPT !.intena = k.intena]]
  /\ Set(c, [k EXCEPT !.proc = 0])
  /\ lock' = held
  /\ panicked' = (held[p] # c \/ k.noff # 1 \/ k.sie)
  /\ UNCHANGED <<killed, ticks, irq>>

yield(c) == Acquired(c, "yield") /\ sched(c, Spun(c), Taken(c), "RUNNABLE", "yield_release")

yield_release(c) ==
  /\ At(c, "yield_release")
  /\ release(c, Run(c), cpu[c])
  /\ Goto(c, "ret")
  /\ UNCHANGED <<state, killed, ticks, irq>>

\* The slot of a process that has exited is used for a new one.
fork(p) ==
  /\ ~panicked /\ state[p] = "ZOMBIE" /\ lock[p] = None
  /\ state' = [state EXCEPT ![p] = "RUNNABLE"]
  /\ killed' = [killed EXCEPT ![p] = FALSE]
  /\ th' = [th EXCEPT ![p].pc = "forkret"]
  /\ UNCHANGED <<cpu, lock, ticks, irq, panicked>>

forkret(c) ==
  /\ At(c, "forkret")
  /\ release(c, Run(c), cpu[c])
  /\ Goto(c, "done")
  /\ UNCHANGED <<state, killed, ticks, irq>>

------------------------------------------------------------------------------
\* System calls.

\* The program makes a system call, which is a trap.
ecall(c) ==
  /\ At(c, "user")
  /\ Set(c, usertrap(c)) /\ Goto(c, "ecall")
  /\ panicked' = WrongMode(c)
  /\ UNCHANGED <<lock, state, killed, ticks, irq>>

\* usertrap() goes on: interrupts on, and the call whose first location is l.
syscall(c, l, arg) ==
  LET p == Run(c) IN
  /\ At(c, "ecall")
  /\ Set(c, IF killed[p] THEN cpu[c] ELSE intr_on(cpu[c]))
  /\ th' = [th EXCEPT ![p] = IF killed[p] THEN Exit(@) ELSE [@ EXCEPT !.pc = l, !.arg = arg]]
  /\ UNCHANGED <<lock, state, killed, ticks, irq, panicked>>

\* An exception in the program: it is killed.
exception(c) ==
  LET p == Run(c) IN
  /\ At(c, "user")
  /\ Set(c, usertrap(c))
  /\ killed' = [killed EXCEPT ![p] = TRUE]
  /\ th' = [th EXCEPT ![p] = Exit(@)]
  /\ panicked' = WrongMode(c)
  /\ UNCHANGED <<lock, state, ticks, irq>>

\* Back in usertrap().
Back(p) == IF killed'[p] THEN Exit(th[p]) ELSE [th[p] EXCEPT !.pc = "done"]

\* sys_sleep() with tickslock, at first and when sleep() returns.
sys_sleep(c) ==
  LET l == Loc(Run(c)) IN
  /\ l \in {"sys_sleep", "sleep_again"} /\ Acquired(c, l)
  /\ Set(c, Spun(c)) /\ lock' = Taken(c)
  /\ th' = [th EXCEPT ![Run(c)] =
       [@ EXCEPT !.pc = "sleep_test", !.ticks0 = IF l = "sys_sleep" THEN ticks ELSE @]]
  /\ UNCHANGED <<state, killed, ticks, irq, panicked>>

Waits(p) == Elapsed(p) < th[p].arg

sys_sleep_return(c) ==
  LET p == Run(c) IN
  /\ At(c, "sleep_test") /\ (~Waits(p) \/ killed[p])
  /\ UNCHANGED <<state, killed, ticks, irq>>
  /\ release(c, tickslock, cpu[c])
  /\ th' = [th EXCEPT ![Run(c)] = Back(Run(c))]

\* sleep(): p->lock is acquired before tickslock is released.
sleep(c) ==
  LET p == Run(c) IN
  /\ At(c, "sleep_test") /\ Waits(p) /\ ~killed[p] /\ lock[p] = None
  /\ sched(c, pop_off(push_off(cpu[c])), [lock EXCEPT ![p] = c, ![tickslock] = None],
           "SLEEPING", "sleep_woken")

sleep_woken(c) ==
  /\ At(c, "sleep_woken")
  /\ release(c, Run(c), cpu[c])
  /\ Goto(c, "sleep_again")
  /\ UNCHANGED <<state, killed, ticks, irq>>

kill(c) ==
  LET p == th[Run(c)].arg IN
  /\ Acquired(c, "kill")
  /\ killed' = [killed EXCEPT ![p] = TRUE]
  /\ state' = Awake(p)
  /\ Set(c, pop_off(Spun(c)))
  /\ th' = [th EXCEPT ![Run(c)] = Back(Run(c))]
  /\ UNCHANGED <<lock, ticks, irq, panicked>>

exit(c) == Acquired(c, "exit") /\ sched(c, Spun(c), Taken(c), "ZOMBIE", "dead")

------------------------------------------------------------------------------
Step(c) ==
  \/ acquire(c) \/ plic_claim(c) \/ plic_complete(c) \/ wakeup(c) \/ clockintr_release(c)
  \/ kerneltrap_ret(c) \/ usertrapret(c) \/ userret(c) \/ scheduler_release(c)
  \/ ecall(c) \/ exception(c) \/ yield_release(c) \/ forkret(c) \/ sys_sleep_return(c) \/ sleep(c)
  \/ sleep_woken(c)
Locking(c) ==
  \/ tick(c) \/ scheduler(c) \/ scheduler_skip(c) \/ yield(c) \/ sys_sleep(c) \/ kill(c) \/ exit(c)

Next ==
  \/ \E c \in CPUs : Step(c) \/ Locking(c) \/ devintr_timer(c) \/ devintr_external(c) \/ timer(c)
  \/ \E c \in CPUs : \E p \in {cpu[c].proc} \ {0} : \E x \in Calls[p] : syscall(c, x[1], x[2])
  \/ \E p \in Procs : fork(p)
  \/ device

Spec == Init /\ [][Next]_vars
------------------------------------------------------------------------------
\* Properties.

\* No panic of acquire(), release(), pop_off() or sched() is reached: a CPU never
\* waits for a lock it holds, and locks and push_off() are matched across context
\* switches.  Nor is one that usertrap() and kerneltrap() have for a trap from the other
\* mode: stvec and the mode agree whenever a trap can come (trap.c:42, 98-101, 141).
NoPanic == ~panicked

\* Interrupts are off in handlers and while a lock is held, and on in system calls
\* otherwise: intena belongs to the thread, and follows it to another CPU through
\* sched() (proc.c:468-473, spinlock.c:83-86).
InterruptsExact == \A c \in CPUs :
  LET t == Run(c)
      holds == \E l \in Locks : lock[l] = c
      off == cpu[c].noff > 0 \/ th[t].trap # "no" \/ th[t].pc \in {"ecall", "userret"}
  IN
  /\ holds \/ cpu[c].spin <=> cpu[c].noff > 0
  /\ off => ~cpu[c].sie
  /\ ~off /\ th[t].pc \in {"user", "sys_sleep", "sleep_again", "kill"} => cpu[c].sie
==============================================================================
