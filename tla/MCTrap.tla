-------------------------------- MODULE MCTrap -------------------------------
(* Instances of Trap for TLC. *)
EXTENDS Trap

\* The first process sleeps, for one tick or for almost UINT; the second may kill it.
MCCalls == <<{<<"sys_sleep", 1>>, <<"sys_sleep", UINT - 1>>}, {<<"kill", 1>>, <<"sys_sleep", 1>>}>>

\* What a process does depends on the ticks since it went to sleep, not on their
\* number; intena matters between push_off() and pop_off(), its copy until sched()
\* returns.
View == <<
  [c \in CPUs |-> [cpu[c] EXCEPT !.intena = @ /\ cpu[c].noff > 0]],
  [t \in CPUs |-> th[t]],
  [p \in Procs |-> [th[p] EXCEPT !.ticks0 = IF Asleep(p) THEN Elapsed(p) ELSE 0,
                                 !.intena = @ /\ state[p] # "RUNNING"]],
  lock, state, killed, irq, panicked>>
==============================================================================
