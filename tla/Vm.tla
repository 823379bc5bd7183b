--------------------------------- MODULE Vm ---------------------------------
(***************************************************************************)
(* Physical pages and the memory of processes: kernel/kalloc.c, the page   *)
(* tables of kernel/vm.c, and what fork(), exec(), sbrk(), exit() and      *)
(* wait() do with them, with kalloc() running out anywhere.                *)
(*                                                                         *)
(* mem     free: the free list; twice: a page was freed that was free;     *)
(*         pt[r]: the page table whose root is page r, with the lower page *)
(*         tables (node) and the page that each user page maps to (leaf)   *)
(* proc[p] what struct proc says of p's memory                             *)
(* th[p]   the call that p executes                                        *)
(*                                                                         *)
(* Page tables have two levels instead of three: walk() treats them alike. *)
(* Pages are interchangeable, so the order of the free list makes no       *)
(* difference: kalloc() returns some free page.                            *)
(* Sizes are in units of 1/PGSIZE of a page.                               *)
(***************************************************************************)
EXTENDS Integers, FiniteSets

CONSTANTS Procs,     \* slots of the process table, numbers from 1
          NPages,    \* physical pages are 1..NPages
          PGSIZE,    \* units of a page
          UPAGES,    \* bound: user memory has at most so many pages
          NODE,      \* pages that a lower page table maps
          UINT,      \* the unsigned sizes of growproc() count modulo UINT
          Sbrks,     \* arguments of sbrk()
          Ends,      \* where the segments of programs end
          MAXARG     \* arguments of exec()

ASSUME SizeAssumption ==
  /\ {NPages, PGSIZE, UPAGES, NODE, MAXARG} \subseteq Nat \ {0}
  /\ Procs \subseteq Nat \ {0} /\ 1 \in Procs
  /\ NPages >= 5 /\ UPAGES >= 2
  /\ UINT \in Nat /\ UINT > 2 * UPAGES * PGSIZE
  /\ Sbrks \subseteq Int /\ Ends \subseteq 1..((UPAGES - 2) * PGSIZE)

VARIABLES mem, proc, th, panicked

vars == <<mem, proc, th, panicked>>

Pages == 1..NPages
\* The trapframe and the trampoline are above user memory, in a table of their own.
TRAPFRAME  == ((UPAGES + NODE - 1) \div NODE) * NODE
TRAMPOLINE == TRAPFRAME + 1
VPages == 0..TRAMPOLINE
PX(va) == va \div NODE
Nodes  == 0..PX(TRAMPOLINE)
\* The page of the trampoline code belongs to the kernel.
TrampolinePage == NPages + 1

PGROUNDUP(sz) == ((sz + PGSIZE - 1) \div PGSIZE) * PGSIZE
\* The user pages from size a to size b.
PageRange(a, b) == {v \in VPages : v >= PGROUNDUP(a) \div PGSIZE /\ v < PGROUNDUP(b) \div PGSIZE}

Empty  == [node |-> [n \in Nodes |-> 0], leaf |-> [v \in VPages |-> 0]]
NoProc == [state |-> "UNUSED", pagetable |-> 0, trapframe |-> 0, sz |-> 0]
Idle   == [pc |-> "idle", call |-> "none", np |-> 0, t |-> 0, sz |-> 0, old |-> 0, new |-> 0,
           a |-> 0, argv |-> {}]

\* After userinit(): process 1 has one page of user memory.
Init ==
  /\ mem = [free |-> Pages \ 1..5, twice |-> FALSE,
            pt |-> [r \in Pages |-> IF r # 2 THEN Empty
                    ELSE [node |-> [n \in Nodes |-> IF n = 0 THEN 4
                                                    ELSE IF n = PX(TRAMPOLINE) THEN 3 ELSE 0],
                          leaf |-> [v \in VPages |-> IF v = 0 THEN 5
                                    ELSE IF v = TRAPFRAME THEN 1
                                    ELSE IF v = TRAMPOLINE THEN TrampolinePage ELSE 0]]]]
  /\ proc = [p \in Procs |-> IF p # 1 THEN NoProc ELSE
       [state |-> "RUNNING", pagetable |-> 2, trapframe |-> 1, sz |-> PGSIZE]]
  /\ th = [p \in Procs |-> Idle]
  /\ panicked = "no"

------------------------------------------------------------------------------
\* Memory.  These operators take a value m of mem to a later one.

kalloc(m) == CHOOSE g \in m.free : TRUE
Taken(m) == [m EXCEPT !.free = @ \ {kalloc(m)}]
kfree(m, gs) ==
  [m EXCEPT !.free = @ \cup gs, !.twice = @ \/ gs \cap m.free # {}]

\* walk() can reach, or allocate, the lower table for va.
CanWalk(m, t, va) == m.pt[t].node[PX(va)] # 0 \/ m.free # {}
walk(m, t, va) ==
  IF m.pt[t].node[PX(va)] # 0 THEN m
  ELSE [Taken(m) EXCEPT !.pt[t].node[PX(va)] = kalloc(m)]

\* mappages() of one page, when walk() can be done and nothing is mapped there.
mappages(m, t, va, g) == [walk(m, t, va) EXCEPT !.pt[t].leaf[va] = g]

\* uvmunmap(), with and without do_free; it panics for a page that is not mapped.
NotMapped(m, t, vs) == \E v \in vs : m.pt[t].leaf[v] = 0
unmapped(m, t, vs) == [m EXCEPT !.pt[t].leaf = [v \in VPages |-> IF v \in vs THEN 0 ELSE @[v]]]
uvmunmap(m, t, vs) == kfree(unmapped(m, t, vs), {m.pt[t].leaf[v] : v \in vs})

\* Faulty freewalk: the root is not freed.
freewalk_root(m, t) ==
  [kfree(m, {m.pt[t].node[n] : n \in Nodes} \ {0}) EXCEPT !.pt[t] = Empty]

freewalk(m, t) ==
  [kfree(m, {t} \cup ({m.pt[t].node[n] : n \in Nodes} \ {0})) EXCEPT !.pt[t] = Empty]

\* uvmfree(): user memory, then the tables; freewalk() panics for a leaf.
UvmfreePanics(m, t, sz) ==
  NotMapped(m, t, PageRange(0, sz)) \/ \E v \in VPages \ PageRange(0, sz) : m.pt[t].leaf[v] # 0
uvmfree(m, t, sz) == freewalk(uvmunmap(m, t, PageRange(0, sz)), t)

FreePanics(m, t, sz) ==
  \/ NotMapped(m, t, {TRAMPOLINE, TRAPFRAME})
  \/ UvmfreePanics(unmapped(m, t, {TRAMPOLINE, TRAPFRAME}), t, sz)
proc_freepagetable(m, t, sz) == uvmfree(unmapped(m, t, {TRAMPOLINE, TRAPFRAME}), t, sz)

\* freeproc() of slot q.
FreeprocPanics(m, q) == proc[q].pagetable # 0 /\ FreePanics(m, proc[q].pagetable, proc[q].sz)

freeproc(m, q) ==
  LET m1 == IF proc[q].trapframe = 0 THEN m ELSE kfree(m, {proc[q].trapframe})
  IN IF proc[q].pagetable = 0 THEN m1 ELSE proc_freepagetable(m1, proc[q].pagetable, proc[q].sz)

At(p, l) == th[p].pc = l /\ panicked = "no"
PanicIf(bad, why) == panicked' = IF bad THEN why ELSE panicked
Return(p) == th' = [th EXCEPT ![p] = Idle]

------------------------------------------------------------------------------
\* sbrk(): growproc().

growproc(p, n) ==
  /\ At(p, "idle") /\ proc[p].state = "RUNNING"
  /\ n > 0 /\ proc[p].sz + n <= UPAGES * PGSIZE
  /\ th' = [th EXCEPT ![p] = [Idle EXCEPT !.pc = "uvmalloc", !.call = "sbrk", !.t = proc[p].pagetable,
                 !.old = PGROUNDUP(proc[p].sz), !.a = PGROUNDUP(proc[p].sz), !.new = proc[p].sz + n]]
  /\ UNCHANGED <<mem, proc, panicked>>

\* growproc() with a negative argument: uvmdealloc().  A size below 0 wraps around
\* to a large number, and nothing is done.
growproc_shrink(p, n) ==
  LET old == proc[p].sz
      new == (old + n) % UINT
  IN
  /\ At(p, "idle") /\ proc[p].state = "RUNNING" /\ n < 0
  /\ IF new >= old THEN UNCHANGED <<mem, proc, panicked>>
     ELSE /\ PanicIf(NotMapped(mem, proc[p].pagetable, PageRange(new, old)), "uvmunmap")
          /\ mem' = uvmunmap(mem, proc[p].pagetable, PageRange(new, old))
          /\ proc' = [proc EXCEPT ![p].sz = new]
  /\ UNCHANGED th

\* One page of uvmalloc().
uvmalloc(p) ==
  LET t == th[p].t
      va == th[p].a \div PGSIZE
  IN
  /\ At(p, "uvmalloc") /\ th[p].a < th[p].new
  /\ mem.free # {} /\ CanWalk(Taken(mem), t, va)
  /\ PanicIf(mem.pt[t].leaf[va] # 0, "remap")
  /\ mem' = mappages(Taken(mem), t, va, kalloc(mem))
  /\ th' = [th EXCEPT ![p].a = @ + PGSIZE]
  /\ UNCHANGED proc

\* Faulty uvmalloc_fail: the pages are left to the caller.
uvmalloc_fail_left(p) ==
  /\ At(p, "uvmalloc") /\ th[p].a < th[p].new
  /\ (mem.free # {} => ~CanWalk(Taken(mem), th[p].t, th[p].a \div PGSIZE))
  /\ th' = [th EXCEPT ![p] = IF th[p].call = "sbrk" THEN Idle ELSE [@ EXCEPT !.pc = "bad"]]
  /\ UNCHANGED <<mem, proc, panicked>>

\* No page for the memory, or none for the table: kfree(mem), uvmdealloc(a, oldsz).
uvmalloc_fail(p) ==
  LET gone == PageRange(th[p].old, th[p].a) IN
  /\ At(p, "uvmalloc") /\ th[p].a < th[p].new
  /\ (mem.free # {} => ~CanWalk(Taken(mem), th[p].t, th[p].a \div PGSIZE))
  /\ PanicIf(NotMapped(mem, th[p].t, gone), "uvmunmap")
  /\ mem' = uvmunmap(mem, th[p].t, gone)
  /\ th' = [th EXCEPT ![p] = IF th[p].call = "sbrk" THEN Idle ELSE [@ EXCEPT !.pc = "bad"]]
  /\ UNCHANGED proc

growproc_done(p) ==
  /\ At(p, "uvmalloc") /\ th[p].a >= th[p].new /\ th[p].call = "sbrk"
  /\ proc' = [proc EXCEPT ![p].sz = th[p].new]
  /\ Return(p)
  /\ UNCHANGED <<mem, panicked>>

------------------------------------------------------------------------------
\* proc_pagetable(), for fork() and for exec().  Target is the process it is for.

Target(p) == IF th[p].call = "fork" THEN th[p].np ELSE p

\* What follows when it fails, with memory m: freeproc(np), or the exit "bad".
PagetableFails(p, m) ==
  IF th[p].call = "fork"
  THEN /\ mem' = freeproc(m, th[p].np)
       /\ proc' = [proc EXCEPT ![th[p].np] = NoProc]
       /\ Return(p)
  ELSE /\ mem' = m
       /\ th' = [th EXCEPT ![p].pc = "bad", ![p].t = 0]
       /\ UNCHANGED proc

uvmcreate(p) ==
  /\ At(p, "uvmcreate")
  /\ IF mem.free = {} THEN PagetableFails(p, mem)
     ELSE /\ mem' = Taken(mem)
          /\ th' = [th EXCEPT ![p].pc = "trampoline", ![p].t = kalloc(mem)]
          /\ UNCHANGED proc
  /\ UNCHANGED panicked

map_trampoline(p) ==
  LET t == th[p].t IN
  /\ At(p, "trampoline")
  /\ IF CanWalk(mem, t, TRAMPOLINE)
     THEN /\ mem' = mappages(mem, t, TRAMPOLINE, TrampolinePage)
          /\ th' = [th EXCEPT ![p].pc = "trapframe"]
          /\ UNCHANGED <<proc, panicked>>
     ELSE /\ PanicIf(UvmfreePanics(mem, t, 0), "freewalk")
          /\ PagetableFails(p, uvmfree(mem, t, 0))

\* The trapframe shares its table with the trampoline, so this walk() finds it.
map_trapframe(p) ==
  LET t == th[p].t IN
  /\ At(p, "trapframe")
  /\ IF CanWalk(mem, t, TRAPFRAME)
     THEN /\ mem' = mappages(mem, t, TRAPFRAME, proc[Target(p)].trapframe)
          /\ th' = [th EXCEPT ![p].pc = IF th[p].call = "fork" THEN "uvmcopy" ELSE "segments"]
          /\ proc' = IF th[p].call = "fork" THEN [proc EXCEPT ![th[p].np].pagetable = t] ELSE proc
          /\ UNCHANGED panicked
     ELSE LET m == unmapped(mem, t, {TRAMPOLINE}) IN
          /\ PanicIf(UvmfreePanics(m, t, 0), "freewalk")
          /\ PagetableFails(p, uvmfree(m, t, 0))

------------------------------------------------------------------------------
\* fork(), exit(), wait().

\* allocproc() up to the trapframe; without a page for it nothing remains.
fork(p, np) ==
  /\ At(p, "idle") /\ proc[p].state = "RUNNING"
  /\ proc[np].state = "UNUSED" /\ mem.free # {}
  /\ mem' = Taken(mem)
  /\ proc' = [proc EXCEPT ![np] = [NoProc EXCEPT !.state = "USED", !.trapframe = kalloc(mem)]]
  /\ th' = [th EXCEPT ![p] = [Idle EXCEPT !.pc = "uvmcreate", !.call = "fork", !.np = np]]
  /\ UNCHANGED panicked

\* One page of uvmcopy().
uvmcopy(p) ==
  LET t == th[p].t
      va == th[p].a \div PGSIZE
  IN
  /\ At(p, "uvmcopy") /\ th[p].a < proc[p].sz
  /\ mem.free # {} /\ CanWalk(Taken(mem), t, va)
  /\ PanicIf(mem.pt[proc[p].pagetable].leaf[va] = 0 \/ mem.pt[t].leaf[va] # 0, "uvmcopy")
  /\ mem' = mappages(Taken(mem), t, va, kalloc(mem))
  /\ th' = [th EXCEPT ![p].a = @ + PGSIZE]
  /\ UNCHANGED proc

\* Its error exit, and the freeproc() of fork(); np's size is still 0.
uvmcopy_fail(p) ==
  LET t == th[p].t
      gone == PageRange(0, th[p].a)
      m == uvmunmap(mem, t, gone)
  IN
  /\ At(p, "uvmcopy") /\ th[p].a < proc[p].sz
  /\ (mem.free # {} => ~CanWalk(Taken(mem), t, th[p].a \div PGSIZE))
  /\ PanicIf(NotMapped(mem, t, gone) \/ FreeprocPanics(m, th[p].np), "uvmunmap")
  /\ mem' = freeproc(m, th[p].np)
  /\ proc' = [proc EXCEPT ![th[p].np] = NoProc]
  /\ Return(p)

fork_done(p) ==
  /\ At(p, "uvmcopy") /\ th[p].a >= proc[p].sz
  /\ proc' = [proc EXCEPT ![th[p].np].sz = proc[p].sz, ![th[p].np].state = "RUNNING"]
  /\ Return(p)
  /\ UNCHANGED <<mem, panicked>>

\* init does not exit.
exit(p) ==
  /\ At(p, "idle") /\ p # 1 /\ proc[p].state = "RUNNING"
  /\ proc' = [proc EXCEPT ![p].state = "ZOMBIE"]
  /\ UNCHANGED <<mem, th, panicked>>

wait(p, q) ==
  /\ At(p, "idle") /\ proc[p].state = "RUNNING" /\ proc[q].state = "ZOMBIE"
  /\ PanicIf(FreeprocPanics(mem, q), "uvmunmap")
  /\ mem' = freeproc(mem, q)
  /\ proc' = [proc EXCEPT ![q] = NoProc]
  /\ UNCHANGED th

------------------------------------------------------------------------------
\* exec().

sys_exec(p) ==
  /\ At(p, "idle") /\ proc[p].state = "RUNNING"
  /\ th' = [th EXCEPT ![p] = [Idle EXCEPT !.pc = "argv", !.call = "exec"]]
  /\ UNCHANGED <<mem, proc, panicked>>

\* A page for one argument string.
fetch_arg(p) ==
  /\ At(p, "argv") /\ Cardinality(th[p].argv) < MAXARG /\ mem.free # {}
  /\ mem' = Taken(mem)
  /\ th' = [th EXCEPT ![p].argv = @ \cup {kalloc(mem)}]
  /\ UNCHANGED <<proc, panicked>>

\* Too many arguments, a bad pointer, or no page: the exit "bad" of sys_exec().
argv_bad(p) ==
  /\ At(p, "argv")
  /\ mem' = kfree(mem, th[p].argv)
  /\ Return(p)
  /\ UNCHANGED <<proc, panicked>>

\* exec() with a good ELF header: proc_pagetable().
exec(p) ==
  /\ At(p, "argv") /\ Cardinality(th[p].argv) < MAXARG
  /\ th' = [th EXCEPT ![p].pc = "uvmcreate"]
  /\ UNCHANGED <<mem, proc, panicked>>

\* The next program header: uvmalloc(sz, end) does nothing when end < sz.
segment(p, end) ==
  /\ At(p, "segments")
  /\ th' = [th EXCEPT ![p] = IF end < th[p].sz THEN @
       ELSE [@ EXCEPT !.pc = "uvmalloc", !.call = "segment", !.old = PGROUNDUP(th[p].sz),
                      !.a = PGROUNDUP(th[p].sz), !.new = end]]
  /\ UNCHANGED <<mem, proc, panicked>>

\* sz = sz1; loadseg() panics when a page of the segment is not mapped.
segment_done(p) ==
  /\ At(p, "uvmalloc") /\ th[p].a >= th[p].new /\ th[p].call = "segment"
  /\ PanicIf(NotMapped(mem, th[p].t, PageRange(0, th[p].new)), "loadseg")
  /\ th' = [th EXCEPT ![p].pc = "segments", ![p].call = "exec", ![p].sz = th[p].new]
  /\ UNCHANGED <<mem, proc>>

\* Two more pages for the stack, from a page boundary.
stack(p) ==
  /\ At(p, "segments")
  /\ LET sz == PGROUNDUP(th[p].sz) IN
     th' = [th EXCEPT ![p] = [@ EXCEPT !.pc = "uvmalloc", !.call = "stack", !.sz = sz, !.old = sz,
                                      !.a = sz, !.new = sz + 2 * PGSIZE]]
  /\ UNCHANGED <<mem, proc, panicked>>

stack_done(p) ==
  /\ At(p, "uvmalloc") /\ th[p].a >= th[p].new /\ th[p].call = "stack"
  /\ th' = [th EXCEPT ![p].pc = "commit", ![p].sz = th[p].new]
  /\ UNCHANGED <<mem, proc, panicked>>

\* The arguments fit the stack: switch to the new memory, free the old one, and
\* the argument pages in sys_exec().
commit(p) ==
  /\ At(p, "commit")
  /\ PanicIf(FreePanics(mem, proc[p].pagetable, proc[p].sz), "exec")
  /\ proc' = [proc EXCEPT ![p].pagetable = th[p].t, ![p].sz = th[p].sz]
  /\ mem' = kfree(proc_freepagetable(mem, proc[p].pagetable, proc[p].sz), th[p].argv)
  /\ Return(p)

\* A bad program header, a segment that cannot be read, or arguments that do not
\* fit: goto bad.
exec_goto_bad(p) ==
  /\ At(p, "segments") \/ At(p, "commit")
  /\ th' = [th EXCEPT ![p].pc = "bad"]
  /\ UNCHANGED <<mem, proc, panicked>>

exec_bad(p) ==
  LET t == th[p].t IN
  /\ At(p, "bad")
  /\ PanicIf(t # 0 /\ FreePanics(mem, t, th[p].sz), "exec")
  /\ mem' = kfree(IF t = 0 THEN mem ELSE proc_freepagetable(mem, t, th[p].sz), th[p].argv)
  /\ Return(p)
  /\ UNCHANGED proc

------------------------------------------------------------------------------
Step(p) ==
  \/ uvmalloc(p) \/ uvmalloc_fail(p) \/ growproc_done(p)
  \/ uvmcreate(p) \/ map_trampoline(p) \/ map_trapframe(p)
  \/ uvmcopy(p) \/ uvmcopy_fail(p) \/ fork_done(p)
  \/ fetch_arg(p) \/ argv_bad(p) \/ exec(p) \/ stack(p) \/ segment_done(p) \/ stack_done(p)
  \/ (\E end \in Ends : segment(p, end))
  \/ commit(p) \/ exec_goto_bad(p) \/ exec_bad(p)

Next ==
  \/ \E p \in Procs : Step(p) \/ exit(p) \/ sys_exec(p)
  \/ \E p \in Procs, n \in Sbrks : growproc(p, n) \/ growproc_shrink(p, n)
  \/ \E p, q \in Procs : fork(p, q) \/ wait(p, q)

Spec == Init /\ [][Next]_vars

------------------------------------------------------------------------------
\* Properties.

\* The page tables somebody can still reach.
Roots == ({proc[p].pagetable : p \in Procs} \cup {th[p].t : p \in Procs}) \ {0}

\* Who owns which page, as <<kind, of whom, where, page>>.
Owners == {o \in
  {<<"trapframe", p, 0, proc[p].trapframe>> : p \in Procs}
  \cup {<<"root", t, 0, t>> : t \in Roots}
  \cup {<<"node", t, n, mem.pt[t].node[n]>> : t \in Roots, n \in Nodes}
  \cup {<<"leaf", t, v, mem.pt[t].leaf[v]>> : t \in Roots, v \in VPages \ {TRAPFRAME, TRAMPOLINE}}
  \cup UNION {{<<"argv", p, 0, g>> : g \in th[p].argv} : p \in Procs} : o[4] # 0}

\* Every page is free or has one owner, after every error exit too: it is memory
\* of one process, one table, one trapframe or one argument, none is lost, and
\* none is put on the free list twice (kalloc.c:46-63).
PagesExact ==
  /\ Pages = mem.free \cup {o[4] : o \in Owners} /\ ~mem.twice
  /\ \A x, y \in Owners : x[4] = y[4] => x = y /\ x[4] \notin mem.free

\* The pages below a process's size are mapped, and no others: outside a call
\* always, also after a call that failed.  That is what uvmcopy(), uvmfree(),
\* freewalk() and copyin() rely on, so that none of their panics is reached.
SizeIsMapped == panicked = "no" /\ \A p \in Procs :
  (proc[p].state \in {"RUNNING", "ZOMBIE"} /\ th[p].call # "sbrk") =>
    /\ proc[p].pagetable # 0
    /\ {v \in VPages : mem.pt[proc[p].pagetable].leaf[v] # 0}
         = PageRange(0, proc[p].sz) \cup {TRAPFRAME, TRAMPOLINE}
==============================================================================
