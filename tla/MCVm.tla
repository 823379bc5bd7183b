-------------------------------- MODULE MCVm --------------------------------
(* Instances of Vm for TLC. *)
EXTENDS Vm

\* Less than a page and more than a page, each way.
MCSbrks == {1, 3, -1, -3}

\* Programs of one page and of two.
MCEnds == {1, 3}

\* Pages are interchangeable: a state in which every page has exactly one owner is
\* determined, up to the names of pages, by which owners have one.  The view keeps
\* that, and whether there is exactly one owner.
Mapped(t) == IF t = 0 THEN {} ELSE
  {<<"node", n>> : n \in {x \in Nodes : mem.pt[t].node[x] # 0}}
  \cup {<<"leaf", v>> : v \in {x \in VPages : mem.pt[t].leaf[x] # 0}}
TrapframeOf(t, p) == t # 0 /\ proc[p].trapframe # 0 /\ mem.pt[t].leaf[TRAPFRAME] = proc[p].trapframe

View == <<
  Cardinality(mem.free), PagesExact, mem.twice, panicked,
  [p \in Procs |-> <<proc[p].state, proc[p].sz, proc[p].trapframe # 0, proc[p].pagetable # 0,
                     Mapped(proc[p].pagetable), TrapframeOf(proc[p].pagetable, p)>>],
  [p \in Procs |-> <<[th[p] EXCEPT !.t = (@ # 0), !.argv = Cardinality(@)],
                     Mapped(th[p].t), {q \in Procs : TrapframeOf(th[p].t, q)}>>] >>
==============================================================================
