------------------------------- MODULE TxnDisk -------------------------------
(***************************************************************************)
(* What kernel/log.c promises to the file system, with no log in it: a     *)
(* disk whose contents change only by whole groups of operations.          *)
(*                                                                         *)
(* "view" is what the operations read and write, "durable" what a reboot   *)
(* would find, "active" the operations between begin_op() and end_op().    *)
(* The view becomes durable in one step, and only while no operation is    *)
(* in progress, so that a crash never leaves half of one on the disk.      *)
(***************************************************************************)
CONSTANTS Blocks,   \* home block numbers
          Data,     \* contents of a block
          Procs     \* processes that run file system calls

VARIABLES durable, view, active

vars == <<durable, view, active>>

TypeOK ==
  /\ durable \in [Blocks -> Data]
  /\ view \in [Blocks -> Data]
  /\ active \subseteq Procs

Init ==
  /\ durable \in [Blocks -> Data]
  /\ view = durable
  /\ active = {}

Begin(p) ==
  /\ p \notin active
  /\ active' = active \cup {p}
  /\ UNCHANGED <<durable, view>>

Write(p, b, v) ==
  /\ p \in active
  /\ view' = [view EXCEPT ![b] = v]
  /\ UNCHANGED <<durable, active>>

End(p) ==
  /\ p \in active
  /\ active' = active \ {p}
  /\ UNCHANGED <<durable, view>>

Commit ==
  /\ active = {}
  /\ durable' = view
  /\ UNCHANGED <<view, active>>

Crash ==
  /\ view' = durable
  /\ active' = {}
  /\ UNCHANGED durable

Next ==
  \/ \E p \in Procs : Begin(p) \/ End(p)
  \/ \E p \in Procs, b \in Blocks, v \in Data : Write(p, b, v)
  \/ Commit
  \/ Crash

Spec == Init /\ [][Next]_vars
==============================================================================
