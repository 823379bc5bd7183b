------------------------------- MODULE VmProof -------------------------------
(***************************************************************************)
(* Proofs about kernel/kalloc.c and kernel/vm.c, for any number of pages   *)
(* and processes and any sizes: a page is free or has one owner, and what  *)
(* a process's size says is what its page table maps, whatever call fails  *)
(* for want of memory.                                                     *)
(***************************************************************************)
EXTENDS Vm, TLAPS

\* The pages that a size takes; the page at a size; a size of whole pages.
PageCount(sz) == PGROUNDUP(sz) \div PGSIZE
PageAt(a) == a \div PGSIZE
Aligned(a) == a = PageAt(a) * PGSIZE
UMAX == UPAGES * PGSIZE
\* The most that segments take: the stack needs two more pages.
SEGMAX == (UPAGES - 2) * PGSIZE

Locations == {"idle", "uvmalloc", "uvmcreate", "trampoline", "trapframe", "uvmcopy",
              "argv", "segments", "commit", "bad"}
SystemCalls == {"none", "sbrk", "fork", "exec", "segment", "stack"}
TableType == [node : [Nodes -> Pages \cup {0}], leaf : [VPages -> Nat]]
MemType == [free : SUBSET Pages, twice : BOOLEAN, pt : [Pages -> TableType]]

ProcType == [state : {"UNUSED", "USED", "RUNNING", "ZOMBIE"},
             pagetable : Pages \cup {0}, trapframe : Pages \cup {0}, sz : Nat]
CallType == [pc : Locations, call : SystemCalls, np : Procs \cup {0}, t : Pages \cup {0},
             sz : Nat, old : Nat, new : Nat, a : Nat, argv : SUBSET Pages]

\* The type of every variable.
TypeOK == mem \in MemType /\ proc \in [Procs -> ProcType] /\ th \in [Procs -> CallType]

\* Where the call of process p is, and whether it has a page table yet.
CallOK(p) ==
  /\ th[p].pc = "idle" => th[p] = Idle
  /\ th[p].pc # "idle" => proc[p].state = "RUNNING" /\ th[p].call # "none"
  /\ th[p].call \in {"sbrk", "fork"} => th[p].argv = {}
  /\ th[p].call = "fork" <=> th[p].np # 0
  /\ th[p].call = "fork" => th[p].pc \in {"uvmcreate", "trampoline", "trapframe", "uvmcopy"}
  /\ th[p].call = "sbrk" => th[p].pc = "uvmalloc" /\ th[p].t = proc[p].pagetable
  /\ th[p].call = "exec" =>
       th[p].pc \in {"argv", "uvmcreate", "trampoline", "trapframe", "segments", "bad"}
  /\ th[p].call = "segment" => th[p].pc \in {"uvmalloc", "bad"}
  /\ th[p].call = "stack" => th[p].pc \in {"uvmalloc", "commit", "bad"}
  /\ th[p].pc \in {"argv", "uvmcreate"} => th[p].t = 0
  /\ th[p].pc \in {"trampoline", "trapframe", "uvmcopy", "segments", "uvmalloc", "commit"} =>
       th[p].t # 0

\* The process that p makes with fork().
ForkOK(p) == th[p].call = "fork" =>
  /\ proc[th[p].np].state = "USED"
  /\ proc[th[p].np].pagetable = IF th[p].pc = "uvmcopy" THEN th[p].t ELSE 0

\* What is in the slots of the process table.
SlotOK(p) ==
  /\ proc[p].state = "UNUSED" => proc[p] = NoProc
  /\ proc[p].state # "UNUSED" => proc[p].trapframe # 0
  /\ proc[p].state = "USED" => proc[p].sz = 0
  /\ proc[p].state \in {"RUNNING", "ZOMBIE"} => proc[p].pagetable # 0
Control ==
  /\ \A p \in Procs : CallOK(p) /\ ForkOK(p) /\ SlotOK(p)
  /\ \A p, q \in Procs : th[p].np = th[q].np /\ th[p].np # 0 => p = q

\* How far the loops of uvmalloc() and uvmcopy() are, and what exec() has so far.
SizeOf(p) == IF th[p].call = "sbrk" THEN proc[p].sz ELSE th[p].sz
SizeOK(p) ==
  /\ proc[p].sz <= UMAX /\ th[p].sz <= UMAX
  /\ th[p].call \in {"exec", "segment"} => th[p].sz <= SEGMAX
  /\ th[p].pc \in {"argv", "uvmcreate", "trampoline", "trapframe"} => th[p].sz = 0 /\ th[p].a = 0
  /\ th[p].pc = "uvmcopy" => Aligned(th[p].a) /\ PageAt(th[p].a) <= PageCount(proc[p].sz)
  /\ th[p].pc = "uvmalloc" =>
       /\ Aligned(th[p].a) /\ th[p].old = PGROUNDUP(SizeOf(p)) /\ SizeOf(p) <= th[p].new
       /\ th[p].new <= IF th[p].call = "segment" THEN SEGMAX ELSE UMAX
       /\ PageCount(SizeOf(p)) <= PageAt(th[p].a) /\ PageAt(th[p].a) <= PageCount(th[p].new)
Sizes == \A p \in Procs : SizeOK(p)

\* Nobody shares a page table, but the call that makes it for a process.
Unshared ==
  /\ \A p, q \in Procs : proc[p].pagetable = proc[q].pagetable /\ proc[p].pagetable # 0 => p = q
  /\ \A p, q \in Procs : th[p].t = th[q].t /\ th[p].t # 0 => p = q
  /\ \A p, q \in Procs : th[p].t = proc[q].pagetable /\ th[p].t # 0 =>
       (th[p].call = "sbrk" /\ q = p) \/ (th[p].pc = "uvmcopy" /\ q = th[p].np)

\* Table t of memory m maps the first k user pages and what the kernel needs.
Maps(m, t, k) == \A v \in VPages :
  m.pt[t].leaf[v] # 0 <=> (v < k \/ v \in {TRAPFRAME, TRAMPOLINE})

\* Table t maps the pages S of those two, and nothing else.
MapsOnly(m, t, S) == \A v \in VPages : m.pt[t].leaf[v] # 0 <=> v \in S

\* What every page table maps.
ProcTable(p) == proc[p].state \in {"RUNNING", "ZOMBIE"} =>
  Maps(mem, proc[p].pagetable, IF th[p].call = "sbrk" THEN PageAt(th[p].a) ELSE PageCount(proc[p].sz))
CallTable(p) ==
  /\ th[p].pc = "trampoline" => MapsOnly(mem, th[p].t, {})
  /\ th[p].pc = "trapframe" => MapsOnly(mem, th[p].t, {TRAMPOLINE})
  /\ th[p].pc \in {"uvmcopy", "uvmalloc"} => Maps(mem, th[p].t, PageAt(th[p].a))
  /\ th[p].pc \in {"segments", "commit", "bad"} /\ th[p].t # 0 =>
       Maps(mem, th[p].t, PageCount(th[p].sz))
Tables ==
  /\ \A p \in Procs : ProcTable(p) /\ CallTable(p)
  /\ \A r \in Pages \ Roots : mem.pt[r] = Empty

\* The inductive invariant.
IInv == TypeOK /\ Control /\ Sizes /\ Unshared /\ Tables /\ PagesExact /\ panicked = "no"
------------------------------------------------------------------------------
\* Sizes and pages.

\* The constants.
LEMMA Constants ==
  /\ NPages \in Nat /\ PGSIZE \in Nat \ {0} /\ UPAGES \in Nat /\ UPAGES >= 2
  /\ NODE \in Nat \ {0} /\ UINT \in Nat \ {0}
  /\ 0 \notin Pages /\ 0 \notin Procs /\ Pages \subseteq Nat /\ NPages >= 5
  /\ UMAX \in Nat /\ SEGMAX \in Nat /\ SEGMAX + 2 * PGSIZE = UMAX
BY SizeAssumption DEF Pages, UMAX, SEGMAX

\* A call without numbers is within every bound.
LEMMA ZeroFits == 0 <= UMAX /\ 0 <= SEGMAX
BY Constants

\* The fields of a process without a call, and of a slot without a process.
LEMMA StartFields ==
  /\ Idle.pc = "idle" /\ Idle.call = "none" /\ Idle.np = 0 /\ Idle.t = 0 /\ Idle.sz = 0
  /\ Idle.old = 0 /\ Idle.new = 0 /\ Idle.a = 0 /\ Idle.argv = {}
  /\ NoProc.state = "UNUSED" /\ NoProc.pagetable = 0 /\ NoProc.trapframe = 0 /\ NoProc.sz = 0
BY DEF Idle, NoProc

\* A page table that is not written maps what it mapped.
LEMMA MapsKept ==
  ASSUME NEW m, NEW n, NEW t, NEW k, Maps(m, t, k), n.pt[t] = m.pt[t]
  PROVE  Maps(n, t, k)
BY Zenon DEF Maps

\* Quotients.
LEMMA DivFacts ==
  ASSUME NEW m \in Nat \ {0}, NEW x \in Nat
  PROVE  /\ x \div m \in Nat /\ (x \div m) * m <= x /\ x < (x \div m) * m + m
         /\ (x * m) \div m = x
OBVIOUS

\* Products with a positive number keep the order.
LEMMA MulOrder ==
  ASSUME NEW m \in Nat \ {0}, NEW x \in Nat, NEW y \in Nat
  PROVE  /\ x <= y <=> x * m <= y * m
         /\ x < y <=> x * m < y * m
         /\ x < y + 1 <=> x * m < y * m + m
<1>1. ASSUME NEW a \in Nat, NEW b \in Nat, a < b
      PROVE  a * m + m <= b * m
  <2>1. PICK d \in Nat : b = (a + 1) + d
    <3>1. b - (a + 1) \in Nat /\ b = (a + 1) + (b - (a + 1))
      BY <1>1
    <3> QED BY <3>1, Zenon
  <2>2. b * m = (a * m + m) + d * m /\ d * m \in Nat /\ a * m \in Nat
    BY <2>1
  <2> QED BY <2>2
<1>2. x * m \in Nat /\ y * m \in Nat
  OBVIOUS
<1> QED BY <1>1, <1>2

\* PGROUNDUP() goes up to whole pages, and no further.
LEMMA RoundUp ==
  ASSUME NEW s \in Nat
  PROVE  /\ PageCount(s) \in Nat /\ PGROUNDUP(s) \in Nat
         /\ PGROUNDUP(s) = PageCount(s) * PGSIZE
         /\ s <= PGROUNDUP(s) /\ PGROUNDUP(s) < s + PGSIZE
<1> DEFINE q == (s + PGSIZE - 1) \div PGSIZE
<1>1. s + PGSIZE - 1 \in Nat /\ PGSIZE \in Nat \ {0}
  BY Constants
<1>2. q \in Nat /\ q * PGSIZE <= s + PGSIZE - 1 /\ s + PGSIZE - 1 < q * PGSIZE + PGSIZE
  BY <1>1, DivFacts, Zenon
<1>3. (q * PGSIZE) \div PGSIZE = q
  BY <1>1, <1>2, DivFacts, Zenon
<1>4. PGROUNDUP(s) = q * PGSIZE /\ PageCount(s) = q
  BY <1>3, Zenon DEF PGROUNDUP, PageCount
<1> HIDE DEF q
<1> QED BY <1>1, <1>2, <1>4

\* The pages of a size are the fewest that hold it.
LEMMA FewestPages ==
  ASSUME NEW s \in Nat, NEW k \in Nat
  PROVE  s <= k * PGSIZE <=> PageCount(s) <= k
<1> DEFINE c == PageCount(s)
<1>1. c \in Nat /\ s <= c * PGSIZE /\ c * PGSIZE < s + PGSIZE /\ PGSIZE \in Nat \ {0}
  BY RoundUp, Constants, Zenon
<1>2. /\ c <= k <=> c * PGSIZE <= k * PGSIZE
      /\ c < k + 1 <=> c * PGSIZE < k * PGSIZE + PGSIZE
  BY <1>1, MulOrder, Zenon
<1> HIDE DEF c
<1>3. c * PGSIZE \in Nat /\ k * PGSIZE \in Nat
  BY <1>1
<1>4. s <= k * PGSIZE <=> c <= k
  BY <1>1, <1>2, <1>3
<1> QED BY <1>4, Zenon DEF c

\* A larger size takes at least as many pages.
LEMMA PagesMonotone ==
  ASSUME NEW s \in Nat, NEW z \in Nat, s <= z
  PROVE  PageCount(s) <= PageCount(z)
<1>1. PageCount(z) \in Nat /\ z <= PageCount(z) * PGSIZE /\ PageCount(z) * PGSIZE \in Nat
  BY RoundUp, Zenon
<1>2. s <= PageCount(z) * PGSIZE
  BY <1>1
<1> QED BY <1>1, <1>2, FewestPages, Zenon

\* Sizes of whole pages.
LEMMA WholePages ==
  ASSUME NEW k \in Nat
  PROVE  /\ k * PGSIZE \in Nat /\ PageCount(k * PGSIZE) = k /\ PageAt(k * PGSIZE) = k
         /\ Aligned(k * PGSIZE) /\ PGROUNDUP(k * PGSIZE) = k * PGSIZE
<1> DEFINE z == k * PGSIZE
<1>1. z \in Nat /\ PGSIZE \in Nat \ {0}
  BY Constants
<1>2. PageAt(z) = k
  BY <1>1, DivFacts, Zenon DEF PageAt
<1>3. PageCount(z) \in Nat /\ z <= PageCount(z) * PGSIZE /\ PGROUNDUP(z) = PageCount(z) * PGSIZE
  BY <1>1, RoundUp, Zenon
<1>4. PageCount(z) <= k
  <2>1. z <= k * PGSIZE
    BY <1>1
  <2> QED BY <1>1, <2>1, FewestPages, Zenon
<1>5. k <= PageCount(z)
  BY <1>1, <1>3, MulOrder, Zenon
<1>6. PageCount(z) = k
  BY <1>3, <1>4, <1>5
<1> QED BY <1>1, <1>2, <1>3, <1>6, Zenon DEF Aligned

\* Where a loop over pages is.
LEMMA PageLoop ==
  ASSUME NEW a \in Nat, Aligned(a), NEW s \in Nat
  PROVE  /\ PageAt(a) \in Nat /\ PageCount(a) = PageAt(a)
         /\ a < s <=> PageAt(a) < PageCount(s)
         /\ a + PGSIZE \in Nat /\ Aligned(a + PGSIZE) /\ PageAt(a + PGSIZE) = PageAt(a) + 1
<1> DEFINE k == PageAt(a)
<1>1. k \in Nat /\ PGSIZE \in Nat \ {0}
  BY Constants, DivFacts, Zenon DEF PageAt
<1>2. a = k * PGSIZE
  BY Zenon DEF Aligned
<1>3. PageCount(k * PGSIZE) = k
  BY <1>1, WholePages, Zenon
<1>4. PageAt((k + 1) * PGSIZE) = k + 1 /\ Aligned((k + 1) * PGSIZE) /\ k + 1 \in Nat
  <2>1. k + 1 \in Nat
    BY <1>1
  <2> QED BY <2>1, WholePages, Zenon
<1>5. s <= k * PGSIZE <=> PageCount(s) <= k
  BY <1>1, FewestPages, Zenon
<1>6. PageCount(s) \in Nat
  BY RoundUp, Zenon
<1> HIDE DEF k
<1>7. (k + 1) * PGSIZE = a + PGSIZE /\ a + PGSIZE \in Nat
  BY <1>1, <1>2
<1>8. a < s <=> k < PageCount(s)
  BY <1>1, <1>2, <1>5, <1>6
<1>9. k = PageAt(a)
  BY Zenon DEF k
<1> QED BY <1>1, <1>2, <1>3, <1>4, <1>7, <1>8, <1>9, Zenon

\* User memory ends below the trapframe.
LEMMA Layout ==
  /\ TRAPFRAME \in Nat /\ TRAMPOLINE \in Nat /\ UPAGES <= TRAPFRAME
  /\ TRAMPOLINE = TRAPFRAME + 1
  /\ TRAPFRAME \in VPages /\ TRAMPOLINE \in VPages /\ VPages \subseteq Nat
  /\ \A v \in Nat : v < UPAGES => v \in VPages
  /\ \A v \in VPages : PX(v) \in Nodes
<1> DEFINE q == (UPAGES + NODE - 1) \div NODE
<1>1. UPAGES + NODE - 1 \in Nat /\ NODE \in Nat \ {0} /\ UPAGES \in Nat
  BY Constants
<1>2. q \in Nat /\ q * NODE <= UPAGES + NODE - 1 /\ UPAGES + NODE - 1 < q * NODE + NODE
  BY <1>1, DivFacts, Zenon
<1>3. TRAPFRAME = q * NODE
  BY Zenon DEF TRAPFRAME
<1> HIDE DEF q
<1>4. TRAPFRAME \in Nat /\ UPAGES <= TRAPFRAME
  BY <1>1, <1>2, <1>3
<1>5. TRAMPOLINE = TRAPFRAME + 1 /\ TRAMPOLINE \in Nat
  BY <1>4 DEF TRAMPOLINE
<1>6. ASSUME NEW v \in VPages
      PROVE  PX(v) \in Nodes
  <2>1. v \in Nat /\ v <= TRAMPOLINE
    BY <1>5 DEF VPages
  <2> DEFINE x == PX(v)
             y == PX(TRAMPOLINE)
  <2>2. x \in Nat /\ x * NODE <= v
    BY <1>1, <2>1, DivFacts, Zenon DEF PX
  <2>3. y \in Nat /\ TRAMPOLINE < y * NODE + NODE
    BY <1>1, <1>5, DivFacts, Zenon DEF PX
  <2>4. x < y + 1 <=> x * NODE < y * NODE + NODE
    BY <1>1, <2>2, <2>3, MulOrder, Zenon
  <2>5. Nodes = 0..y
    BY Zenon DEF Nodes
  <2> HIDE DEF x, y
  <2>6. x \in 0..y
    <3>1. x * NODE \in Nat /\ y * NODE \in Nat
      BY <1>1, <2>2, <2>3
    <3> QED BY <1>1, <1>5, <2>1, <2>2, <2>3, <2>4, <3>1
  <2>7. x = PX(v)
    BY Zenon DEF x
  <2> QED BY <2>5, <2>6, <2>7, Zenon
<1>7. /\ TRAPFRAME \in VPages /\ TRAMPOLINE \in VPages /\ VPages \subseteq Nat
      /\ \A v \in Nat : v < UPAGES => v \in VPages
  BY <1>1, <1>4, <1>5 DEF VPages
<1> QED BY <1>4, <1>5, <1>6, <1>7, Zenon
------------------------------------------------------------------------------
\* Ownership of pages.

\* F are the free pages, and O the owners, of the others one each.
Balanced(F, O) ==
  /\ Pages = F \cup {o[4] : o \in O}
  /\ \A x, y \in O : x[4] = y[4] => x = y /\ x[4] \notin F

\* A page is taken from the free list for a new owner ...
LEMMA Acquire ==
  ASSUME NEW F, NEW O, Balanced(F, O), NEW w, w[4] \in F
  PROVE  Balanced(F \ {w[4]}, O \cup {w})
BY DEF Balanced

\* ... it changes hands ...
LEMMA HandOver ==
  ASSUME NEW F, NEW O, Balanced(F, O), NEW w \in O, NEW x, x[4] = w[4]
  PROVE  Balanced(F, (O \ {w}) \cup {x})
BY DEF Balanced

\* ... and pages are freed with all that their owners have.
LEMMA Release ==
  ASSUME NEW F, NEW O, Balanced(F, O), NEW D \in SUBSET O
  PROVE  /\ Balanced(F \cup {d[4] : d \in D}, O \ D)
         /\ {d[4] : d \in D} \cap F = {}
BY DEF Balanced

\* The owners that a page table t consists of.
UserPages == VPages \ {TRAPFRAME, TRAMPOLINE}
RootOwner(t) == <<"root", t, 0, t>>
NodeOwner(m, t, n) == <<"node", t, n, m.pt[t].node[n]>>
LeafOwner(m, t, v) == <<"leaf", t, v, m.pt[t].leaf[v]>>
NodeOwners(m, t) == {NodeOwner(m, t, n) : n \in {x \in Nodes : m.pt[t].node[x] # 0}}
LeafOwners(m, t) == {LeafOwner(m, t, v) : v \in {x \in UserPages : m.pt[t].leaf[x] # 0}}
TableOwners(m, t) == {RootOwner(t)} \cup NodeOwners(m, t) \cup LeafOwners(m, t)
AllTables(m, R) == UNION {TableOwners(m, t) : t \in R}

\* The other owners, of processes pr and calls h.
TrapframeOwners(pr) == {<<"trapframe", p, 0, pr[p].trapframe>> : p \in {x \in Procs : pr[x].trapframe # 0}}
ArgvOwners(h) == UNION {{<<"argv", p, 0, g>> : g \in h[p].argv} : p \in Procs}
Others == TrapframeOwners(proc) \cup ArgvOwners(th)

IsOther(w) == w[1] \in {"trapframe", "argv"}

\* Memory m is exact when R are the page tables and X the other owners.
Exact(m, R, X) ==
  /\ m.twice = FALSE
  /\ Balanced(m.free, X \cup AllTables(m, R))
  /\ \A x \in X : IsOther(x)

\* The second component of an owner in a page table is the table, and the first
\* is not one of the others.
LEMMA OwnerOf ==
  ASSUME NEW m, NEW t, NEW o \in TableOwners(m, t)
  PROVE  o[2] = t /\ o[1] \in {"root", "node", "leaf"}
BY DEF TableOwners, NodeOwners, LeafOwners, RootOwner, NodeOwner, LeafOwner

\* A table that did not change has the same owners.
LEMMA SameTable ==
  ASSUME NEW m, NEW n, NEW t, n.pt[t] = m.pt[t]
  PROVE  TableOwners(n, t) = TableOwners(m, t)
BY Zenon DEF TableOwners, NodeOwners, LeafOwners, NodeOwner, LeafOwner

\* Tables R of memory n have the owners they have in m; tables S of n have one
\* owner more than tables R of m, or some less.
TablesKeep(n, m, R) == AllTables(n, R) = AllTables(m, R)
TablesPlus(n, S, m, R, w) == AllTables(n, S) = AllTables(m, R) \cup {w}
TablesMinus(n, S, m, R, D) == AllTables(n, S) = AllTables(m, R) \ D

\* One table changes: nothing, an owner more, or some less.
LEMMA TablesSame ==
  ASSUME NEW m, NEW n, NEW R, NEW t \in R,
         \A r \in R \ {t} : n.pt[r] = m.pt[r], TableOwners(n, t) = TableOwners(m, t)
  PROVE  TablesKeep(n, m, R)
<1>1. \A r \in R : TableOwners(n, r) = TableOwners(m, r)
  BY SameTable, Zenon
<1> QED BY <1>1, Zenon DEF AllTables, TablesKeep

\* One table gets an owner more.
LEMMA TablesAdd ==
  ASSUME NEW m, NEW n, NEW R, NEW t \in R, NEW w, \A r \in R \ {t} : n.pt[r] = m.pt[r],
         TableOwners(n, t) = TableOwners(m, t) \cup {w}
  PROVE  TablesPlus(n, R, m, R, w)
<1>1. \A r \in R \ {t} : TableOwners(n, r) = TableOwners(m, r)
  BY SameTable, Zenon
<1> QED BY <1>1, Zenon DEF AllTables, TablesPlus, TablesMinus

\* One table loses some owners.
LEMMA TablesDrop ==
  ASSUME NEW m, NEW n, NEW R, NEW t \in R, NEW D \in SUBSET TableOwners(m, t),
         \A r \in R \ {t} : n.pt[r] = m.pt[r],
         TableOwners(n, t) = TableOwners(m, t) \ D
  PROVE  TablesMinus(n, R, m, R, D)
<1>1. \A r \in R \ {t} : TableOwners(n, r) = TableOwners(m, r)
  BY SameTable, Zenon
<1>2. \A r \in R : \A o \in TableOwners(m, r) : o[2] = r
  BY OwnerOf, Zenon
<1>3. \A r \in R \ {t} : \A o \in TableOwners(m, r) : o \notin D
  BY <1>2, Zenon
<1> QED BY <1>1, <1>3, Zenon DEF AllTables, TablesPlus, TablesMinus

\* A table comes or goes.
LEMMA TablesNew ==
  ASSUME NEW m, NEW n, NEW R, NEW t, n.pt = m.pt, t \notin R,
         TableOwners(n, t) = {RootOwner(t)}
  PROVE  TablesPlus(n, R \cup {t}, m, R, RootOwner(t))
<1>1. \A r \in R : TableOwners(n, r) = TableOwners(m, r)
  BY SameTable, Zenon
<1> QED BY <1>1, Zenon DEF AllTables, TablesPlus, TablesMinus

\* One table goes, with all its owners.
LEMMA TablesGone ==
  ASSUME NEW m, NEW n, NEW R, NEW t \in R, \A r \in R \ {t} : n.pt[r] = m.pt[r]
  PROVE  TablesMinus(n, R \ {t}, m, R, TableOwners(m, t))
<1>1. \A r \in R \ {t} : TableOwners(n, r) = TableOwners(m, r)
  BY SameTable, Zenon
<1>2. \A r \in R : \A o \in TableOwners(m, r) : o[2] = r
  BY OwnerOf, Zenon
<1>3. \A r \in R \ {t} : \A o \in TableOwners(m, r) : o \notin TableOwners(m, t)
  BY <1>2, Zenon
<1> QED BY <1>1, <1>3, Zenon DEF AllTables, TablesPlus, TablesMinus

\* No table changes.
LEMMA TablesStay ==
  ASSUME NEW m, NEW n, NEW R, n.pt = m.pt
  PROVE  TablesKeep(n, m, R)
<1>1. \A r \in R : TableOwners(n, r) = TableOwners(m, r)
  BY SameTable, Zenon
<1> QED BY <1>1, Zenon DEF AllTables, TablesKeep

\* The tables and the others have no owner in common.
LEMMA OthersApart ==
  ASSUME NEW m, NEW R, NEW X, Exact(m, R, X), NEW o \in X
  PROVE  o \notin AllTables(m, R)
<1> SUFFICES ASSUME o \in AllTables(m, R) PROVE FALSE
  BY Zenon
<1>1. PICK t \in R : o \in TableOwners(m, t)
  BY Zenon DEF AllTables
<1>2. o[1] \in {"root", "node", "leaf"}
  BY <1>1, OwnerOf, Zenon
<1>3. o[1] \in {"trapframe", "argv"}
  BY Zenon DEF Exact, IsOther
<1> QED BY <1>2, <1>3, Zenon

\* What PagesExact says of the whole system is Exact().
LEMMA OwnersSplit == TypeOK => Owners = Others \cup AllTables(mem, Roots)
<1> SUFFICES ASSUME TypeOK PROVE Owners = Others \cup AllTables(mem, Roots)
  BY Zenon
<1> DEFINE A == {<<"trapframe", p, 0, proc[p].trapframe>> : p \in Procs}
           B == {<<"root", t, 0, t>> : t \in Roots}
           C == {<<"node", t, n, mem.pt[t].node[n]>> : t \in Roots, n \in Nodes}
           D == {<<"leaf", t, v, mem.pt[t].leaf[v]>> :
                   t \in Roots, v \in VPages \ {TRAPFRAME, TRAMPOLINE}}
           E == UNION {{<<"argv", p, 0, g>> : g \in th[p].argv} : p \in Procs}
           S(T) == {o \in T : o[4] # 0}
<1>1. Owners = S(A) \cup S(B) \cup S(C) \cup S(D) \cup S(E)
  <2>1. Owners = S(A \cup B \cup C \cup D \cup E)
    BY DEF Owners
  <2> HIDE DEF A, B, C, D, E
  <2> QED BY <2>1, Zenon
<1>2. S(A) = TrapframeOwners(proc)
  BY DEF TrapframeOwners
<1>3. S(E) = ArgvOwners(th)
  <2>1. ASSUME NEW o \in E PROVE o[4] # 0
    <3>1. PICK p \in Procs : o \in {<<"argv", p, 0, g>> : g \in th[p].argv}
      BY Zenon
    <3>2. PICK g \in th[p].argv : o = <<"argv", p, 0, g>>
      BY <3>1, Zenon
    <3>3. g \in Pages
      BY Zenon DEF TypeOK, CallType
    <3> QED BY <3>2, <3>3, Constants, Zenon
  <2> QED BY <2>1, Zenon DEF ArgvOwners
<1>4. 0 \notin Roots
  BY Zenon DEF Roots
<1>5. S(B) = {RootOwner(t) : t \in Roots}
  BY <1>4 DEF RootOwner
<1>6. S(C) = UNION {NodeOwners(mem, t) : t \in Roots}
  <2>1. S(C) \subseteq UNION {NodeOwners(mem, t) : t \in Roots}
    BY DEF NodeOwners, NodeOwner
  <2>2. UNION {NodeOwners(mem, t) : t \in Roots} \subseteq S(C)
    BY DEF NodeOwners, NodeOwner
  <2> HIDE DEF C, S
  <2> QED BY <2>1, <2>2, Zenon
<1>7. S(D) = UNION {LeafOwners(mem, t) : t \in Roots}
  <2>1. S(D) \subseteq UNION {LeafOwners(mem, t) : t \in Roots}
    BY DEF LeafOwners, LeafOwner, UserPages
  <2>2. UNION {LeafOwners(mem, t) : t \in Roots} \subseteq S(D)
    BY DEF LeafOwners, LeafOwner, UserPages
  <2> HIDE DEF D, S
  <2> QED BY <2>1, <2>2, Zenon
<1> DEFINE Rs == {RootOwner(t) : t \in Roots}
           Ns == UNION {NodeOwners(mem, t) : t \in Roots}
           Ls == UNION {LeafOwners(mem, t) : t \in Roots}
<1>8. ASSUME NEW o PROVE o \in AllTables(mem, Roots) <=> o \in Rs \cup Ns \cup Ls
  <2>1. o \in AllTables(mem, Roots) <=> \E t \in Roots : o \in TableOwners(mem, t)
    BY Zenon DEF AllTables
  <2>2. /\ o \in Rs <=> \E t \in Roots : o = RootOwner(t)
        /\ o \in Ns <=> \E t \in Roots : o \in NodeOwners(mem, t)
        /\ o \in Ls <=> \E t \in Roots : o \in LeafOwners(mem, t)
    BY Zenon
  <2>3. \A t : o \in TableOwners(mem, t) <=>
          o = RootOwner(t) \/ o \in NodeOwners(mem, t) \/ o \in LeafOwners(mem, t)
    BY Zenon DEF TableOwners
  <2> HIDE DEF Rs, Ns, Ls
  <2> QED BY <2>1, <2>2, <2>3, Zenon
<1> HIDE DEF A, B, C, D, E, S, Rs, Ns, Ls
<1>9. Owners = TrapframeOwners(proc) \cup Rs \cup Ns \cup Ls \cup ArgvOwners(th)
  BY <1>1, <1>2, <1>3, <1>5, <1>6, <1>7, Zenon DEF Rs, Ns, Ls
<1> QED BY <1>8, <1>9, Zenon DEF Others

\* PagesExact is Exact() of the page tables and the other owners there are.
LEMMA ExactIs == TypeOK => (PagesExact <=> Exact(mem, Roots, Others))
<1> SUFFICES ASSUME TypeOK PROVE PagesExact <=> Exact(mem, Roots, Others)
  BY Zenon
<1>1. Owners = Others \cup AllTables(mem, Roots)
  BY OwnersSplit, Zenon
<1>2. \A x \in Others : IsOther(x)
  <2>1. \A x \in TrapframeOwners(proc) : x[1] = "trapframe"
    BY DEF TrapframeOwners
  <2>2. \A x \in ArgvOwners(th) : x[1] = "argv"
    BY DEF ArgvOwners
  <2> QED BY <2>1, <2>2, Zenon DEF Others, IsOther
<1>3. mem.twice \in BOOLEAN
  BY Zenon DEF TypeOK, MemType
<1> QED BY <1>1, <1>2, <1>3, Zenon DEF PagesExact, Exact, Balanced

------------------------------------------------------------------------------
\* What the operations on memory do.

\* kalloc() returns a free page.
LEMMA Kalloc ==
  ASSUME NEW m \in MemType, m.free # {}
  PROVE  /\ kalloc(m) \in m.free /\ kalloc(m) \in Pages /\ kalloc(m) # 0
         /\ Taken(m) \in MemType /\ Taken(m).free = m.free \ {kalloc(m)}
         /\ Taken(m).twice = m.twice /\ Taken(m).pt = m.pt
<1>1. kalloc(m) \in m.free
  BY Zenon DEF kalloc
<1>2. m.free \subseteq Pages /\ 0 \notin Pages
  BY Constants, Zenon DEF MemType
<1> QED BY <1>1, <1>2, Zenon DEF Taken, MemType

\* It goes to a trapframe or an argument ...
LEMMA KallocOther ==
  ASSUME NEW m \in MemType, NEW R \in SUBSET Pages, NEW X, Exact(m, R, X), m.free # {},
         NEW w, IsOther(w), w[4] = kalloc(m)
  PROVE  Exact(Taken(m), R, X \cup {w})
<1>1. /\ kalloc(m) \in m.free /\ Taken(m).free = m.free \ {kalloc(m)}
      /\ Taken(m).twice = m.twice /\ Taken(m).pt = m.pt
  BY Kalloc, Zenon
<1>2. TablesKeep(Taken(m), m, R)
  BY <1>1, TablesStay, Zenon
<1>3. Balanced(m.free \ {w[4]}, (X \cup AllTables(m, R)) \cup {w})
  BY <1>1, Acquire, Zenon DEF Exact
<1>4. (X \cup AllTables(m, R)) \cup {w} = (X \cup {w}) \cup AllTables(m, R)
  BY Zenon
<1>5. Balanced(Taken(m).free, (X \cup {w}) \cup AllTables(Taken(m), R))
  BY <1>1, <1>2, <1>3, <1>4, Zenon DEF TablesKeep
<1> QED BY <1>1, <1>5, Zenon DEF Exact

\* ... or becomes a page table.
LEMMA KallocTable ==
  ASSUME NEW m \in MemType, NEW R \in SUBSET Pages, NEW X, Exact(m, R, X), m.free # {},
         m.pt[kalloc(m)] = Empty
  PROVE  kalloc(m) \notin R /\ Exact(Taken(m), R \cup {kalloc(m)}, X)
<1> DEFINE g == kalloc(m)
           n == Taken(m)
<1>1. /\ g \in m.free /\ n.free = m.free \ {g} /\ n.twice = m.twice /\ n.pt = m.pt
  BY Kalloc, Zenon
<1>2. RootOwner(g)[4] = g
  BY Zenon DEF RootOwner
<1>3. g \notin R
  <2>1. SUFFICES ASSUME g \in R PROVE FALSE
    BY Zenon
  <2> HIDE DEF g, n
  <2>2. RootOwner(g) \in TableOwners(m, g)
    BY Zenon DEF TableOwners
  <2>3. RootOwner(g) \in X \cup AllTables(m, R)
    BY <2>1, <2>2, Zenon DEF AllTables
  <2>4. Balanced(m.free, X \cup AllTables(m, R))
    BY Zenon DEF Exact
  <2> QED BY <1>1, <1>2, <2>3, <2>4 DEF Balanced
<1>4. TableOwners(n, g) = {RootOwner(g)}
  <2>1. \A x \in Nodes : n.pt[g].node[x] = 0
    BY <1>1 DEF Empty
  <2>2. \A v \in UserPages : n.pt[g].leaf[v] = 0
    BY <1>1 DEF Empty, UserPages
  <2> HIDE DEF n, g
  <2> QED BY <2>1, <2>2, Zenon DEF TableOwners, NodeOwners, LeafOwners
<1> HIDE DEF n, g
<1>5. TablesPlus(n, R \cup {g}, m, R, RootOwner(g))
  BY <1>1, <1>3, <1>4, TablesNew, Zenon
<1>6. Balanced(m.free \ {g}, (X \cup AllTables(m, R)) \cup {RootOwner(g)})
  <2>1. Balanced(m.free \ {RootOwner(g)[4]}, (X \cup AllTables(m, R)) \cup {RootOwner(g)})
    BY <1>1, <1>2, Acquire, Zenon DEF Exact
  <2> QED BY <1>2, <2>1, Zenon
<1>7. (X \cup AllTables(m, R)) \cup {RootOwner(g)} = X \cup AllTables(n, R \cup {g})
  BY <1>5, Zenon DEF TablesPlus
<1>8. Exact(n, R \cup {g}, X)
  BY <1>1, <1>6, <1>7, Zenon DEF Exact
<1> QED BY <1>3, <1>8, Zenon DEF n, g

\* walk() adds a lower table if it has to.
LEMMA WalkFacts ==
  ASSUME NEW m \in MemType, NEW t \in Pages, NEW va \in VPages, CanWalk(m, t, va)
  PROVE  /\ walk(m, t, va) \in MemType
         /\ walk(m, t, va).pt[t].leaf = m.pt[t].leaf
         /\ \A r \in Pages \ {t} : walk(m, t, va).pt[r] = m.pt[r]
<1>1. PX(va) \in Nodes
  BY Layout, Zenon
<1>2. CASE m.pt[t].node[PX(va)] # 0
  BY <1>2, Zenon DEF walk
<1>3. CASE m.pt[t].node[PX(va)] = 0
  <2> DEFINE g == kalloc(m)
             k == Taken(m)
             n == [k EXCEPT !.pt[t].node[PX(va)] = g]
  <2>1. g \in Pages /\ k \in MemType /\ k.pt = m.pt
    BY <1>3, Kalloc, Zenon DEF CanWalk
  <2>2. walk(m, t, va) = n
    BY <1>3, Zenon DEF walk
  <2> HIDE DEF g, k
  <2>3. n \in MemType /\ n.pt[t].leaf = m.pt[t].leaf /\ \A r \in Pages \ {t} : n.pt[r] = m.pt[r]
    BY <1>1, <2>1, Zenon DEF MemType, TableType
  <2> QED BY <2>2, <2>3, Zenon
<1> QED BY <1>2, <1>3, Zenon

\* walk() with alloc takes a page for the lower table it adds, and loses none.
LEMMA WalkExact ==
  ASSUME NEW m \in MemType, NEW R \in SUBSET Pages, NEW t \in R, NEW X, Exact(m, R, X),
         NEW va \in VPages, CanWalk(m, t, va)
  PROVE  Exact(walk(m, t, va), R, X)
<1>1. PX(va) \in Nodes /\ t \in Pages
  BY Layout, Zenon
<1>2. CASE m.pt[t].node[PX(va)] # 0
  BY <1>2, Zenon DEF walk
<1>3. CASE m.pt[t].node[PX(va)] = 0
  <2> DEFINE g == kalloc(m)
             k == Taken(m)
             n == [k EXCEPT !.pt[t].node[PX(va)] = g]
             w == NodeOwner(n, t, PX(va))
  <2>1. /\ g \in Pages /\ g \in m.free /\ g # 0 /\ k \in MemType /\ k.pt = m.pt
        /\ k.free = m.free \ {g} /\ k.twice = m.twice
    BY <1>3, Kalloc, Zenon DEF CanWalk
  <2>2. walk(m, t, va) = n
    BY <1>3, Zenon DEF walk
  <2> HIDE DEF g, k
  <2>3. /\ n.free = k.free /\ n.twice = k.twice /\ \A r \in Pages \ {t} : n.pt[r] = m.pt[r]
        /\ n.pt[t].leaf = m.pt[t].leaf
        /\ \A x \in Nodes : n.pt[t].node[x] = IF x = PX(va) THEN g ELSE m.pt[t].node[x]
    BY <1>1, <2>1 DEF MemType, TableType
  <2> HIDE DEF n
  <2>4. w[4] = g
    BY <1>1, <2>3, Zenon DEF NodeOwner
  <2>5. TableOwners(n, t) = TableOwners(m, t) \cup {w}
    <3>1. LeafOwners(n, t) = LeafOwners(m, t)
      BY <2>3, Zenon DEF LeafOwners, LeafOwner
    <3>2. NodeOwners(n, t) = NodeOwners(m, t) \cup {w}
      BY <1>1, <1>3, <2>1, <2>3 DEF NodeOwners, NodeOwner
    <3> HIDE DEF w
    <3> QED BY <3>1, <3>2, Zenon DEF TableOwners
  <2> HIDE DEF w
  <2>6. TablesPlus(n, R, m, R, w)
    <3>1. \A r \in R \ {t} : n.pt[r] = m.pt[r]
      BY <2>3, Zenon
    <3> QED BY <2>5, <3>1, TablesAdd, Zenon
  <2>7. Balanced(m.free \ {w[4]}, (X \cup AllTables(m, R)) \cup {w})
    BY <2>1, <2>4, Acquire, Zenon DEF Exact
  <2>8. (X \cup AllTables(m, R)) \cup {w} = X \cup AllTables(n, R)
    BY <2>6, Zenon DEF TablesPlus
  <2>9. Exact(n, R, X)
    BY <2>1, <2>3, <2>4, <2>7, <2>8, Zenon DEF Exact
  <2> QED BY <2>2, <2>9, Zenon
<1> QED BY <1>2, <1>3, Zenon

\* One entry of a page table is set.
SetLeaf(m, t, va, g) == [m EXCEPT !.pt[t].leaf[va] = g]
LeafIs(n, m, t, va, g) ==
  /\ n.free = m.free /\ n.twice = m.twice
  /\ \A r \in Pages \ {t} : n.pt[r] = m.pt[r]
  /\ n.pt[t].node = m.pt[t].node
  /\ \A v \in VPages : n.pt[t].leaf[v] = IF v = va THEN g ELSE m.pt[t].leaf[v]

\* SetLeaf() changes the one entry, and keeps the type.
LEMMA SetLeafFacts ==
  ASSUME NEW m \in MemType, NEW t \in Pages, NEW va \in VPages, NEW g \in Nat
  PROVE  /\ SetLeaf(m, t, va, g) \in MemType
         /\ LeafIs(SetLeaf(m, t, va, g), m, t, va, g)
BY Zenon DEF SetLeaf, LeafIs, MemType, TableType

\* The trampoline and the trapframe are not owned by the table ...
LEMMA SetLeafKernel ==
  ASSUME NEW m \in MemType, NEW R \in SUBSET Pages, NEW t \in R, NEW X, Exact(m, R, X),
         NEW va \in {TRAPFRAME, TRAMPOLINE}, NEW g \in Nat
  PROVE  Exact(SetLeaf(m, t, va, g), R, X)
<1> DEFINE n == SetLeaf(m, t, va, g)
<1>1. va \in VPages /\ t \in Pages
  BY Layout, Zenon
<1>2. /\ n.free = m.free /\ n.twice = m.twice /\ \A r \in Pages \ {t} : n.pt[r] = m.pt[r]
      /\ n.pt[t].node = m.pt[t].node
      /\ \A v \in VPages : n.pt[t].leaf[v] = IF v = va THEN g ELSE m.pt[t].leaf[v]
  <2>1. LeafIs(n, m, t, va, g)
    BY <1>1, SetLeafFacts, Zenon
  <2> HIDE DEF n
  <2> QED BY <2>1, Zenon DEF LeafIs
<1> HIDE DEF n
<1>3. \A v \in UserPages : n.pt[t].leaf[v] = m.pt[t].leaf[v]
  BY <1>2, Zenon DEF UserPages
<1>4. LeafOwners(n, t) = LeafOwners(m, t)
  BY <1>3, Zenon DEF LeafOwners, LeafOwner
<1>5. NodeOwners(n, t) = NodeOwners(m, t)
  BY <1>2, Zenon DEF NodeOwners, NodeOwner
<1>6. TablesKeep(n, m, R)
  <2>1. TableOwners(n, t) = TableOwners(m, t)
    BY <1>4, <1>5, Zenon DEF TableOwners
  <2>2. \A r \in R \ {t} : n.pt[r] = m.pt[r]
    BY <1>2, Zenon
  <2> QED BY <2>1, <2>2, TablesSame, Zenon
<1>7. Exact(n, R, X)
  BY <1>2, <1>6, Zenon DEF Exact, TablesKeep
<1> QED BY <1>7, Zenon DEF n

\* ... but a page of user memory is, that was in hand before.
LEMMA SetLeafUser ==
  ASSUME NEW m \in MemType, NEW R \in SUBSET Pages, NEW t \in R, NEW X, NEW w, w \notin X,
         Exact(m, R, X \cup {w}), NEW va \in UserPages, w[4] \in Pages, m.pt[t].leaf[va] = 0
  PROVE  Exact(SetLeaf(m, t, va, w[4]), R, X)
<1> DEFINE n == SetLeaf(m, t, va, w[4])
           x == LeafOwner(n, t, va)
<1>1. va \in VPages /\ t \in Pages /\ w[4] \in Nat /\ w[4] # 0
  BY Constants, Zenon DEF UserPages
<1>2. /\ n.free = m.free /\ n.twice = m.twice /\ \A r \in Pages \ {t} : n.pt[r] = m.pt[r]
      /\ n.pt[t].node = m.pt[t].node
      /\ \A v \in VPages : n.pt[t].leaf[v] = IF v = va THEN w[4] ELSE m.pt[t].leaf[v]
  <2>1. LeafIs(n, m, t, va, w[4])
    BY <1>1, SetLeafFacts, Zenon
  <2> HIDE DEF n
  <2> QED BY <2>1, Zenon DEF LeafIs
<1> HIDE DEF n
<1>3. x[4] = w[4]
  BY <1>1, <1>2, Zenon DEF LeafOwner
<1>4. LeafOwners(n, t) = LeafOwners(m, t) \cup {x}
  BY <1>1, <1>2 DEF LeafOwners, LeafOwner, UserPages
<1>5. NodeOwners(n, t) = NodeOwners(m, t)
  <2>1. n.pt[t].node = m.pt[t].node
    BY <1>2, Zenon
  <2> QED BY <2>1, Zenon DEF NodeOwners, NodeOwner
<1> HIDE DEF x
<1>6. TablesPlus(n, R, m, R, x)
  <2>1. TableOwners(n, t) = TableOwners(m, t) \cup {x}
    BY <1>4, <1>5, Zenon DEF TableOwners
  <2>2. \A r \in R \ {t} : n.pt[r] = m.pt[r]
    BY <1>2, Zenon
  <2> QED BY <2>1, <2>2, TablesAdd, Zenon
<1> DEFINE O == (X \cup {w}) \cup AllTables(m, R)
<1>7. w \notin AllTables(m, R)
  <2>1. w \in X \cup {w}
    BY Zenon
  <2> QED BY <2>1, OthersApart, Zenon
<1>8. (O \ {w}) \cup {x} = X \cup AllTables(n, R)
  BY <1>6, <1>7, Zenon DEF TablesPlus
<1>9. Balanced(m.free, (O \ {w}) \cup {x})
  <2>1. Balanced(m.free, O) /\ w \in O
    BY Zenon DEF Exact
  <2> HIDE DEF O
  <2> QED BY <1>3, <2>1, HandOver, Zenon
<1>10. m.twice = FALSE /\ \A y \in X : IsOther(y)
  BY Zenon DEF Exact
<1>11. Exact(n, R, X)
  BY <1>2, <1>8, <1>9, <1>10, Zenon DEF Exact
<1> QED BY <1>11, Zenon DEF n

\* mappages().
LEMMA MapFacts ==
  ASSUME NEW m \in MemType, NEW t \in Pages, NEW va \in VPages, CanWalk(m, t, va), NEW g \in Nat
  PROVE  /\ mappages(m, t, va, g) \in MemType
         /\ \A r \in Pages \ {t} : mappages(m, t, va, g).pt[r] = m.pt[r]
         /\ \A v \in VPages : mappages(m, t, va, g).pt[t].leaf[v] =
              IF v = va THEN g ELSE m.pt[t].leaf[v]
<1> DEFINE k == walk(m, t, va)
<1>1. k \in MemType /\ k.pt[t].leaf = m.pt[t].leaf /\ \A r \in Pages \ {t} : k.pt[r] = m.pt[r]
  BY WalkFacts, Zenon
<1>2. mappages(m, t, va, g) = SetLeaf(k, t, va, g)
  BY Zenon DEF mappages, SetLeaf
<1> HIDE DEF k
<1>3. SetLeaf(k, t, va, g) \in MemType /\ LeafIs(SetLeaf(k, t, va, g), k, t, va, g)
  BY <1>1, SetLeafFacts, Zenon
<1> QED BY <1>1, <1>2, <1>3, Zenon DEF LeafIs

\* mappages() of a page that is not the table's to free.
LEMMA MapKernel ==
  ASSUME NEW m \in MemType, NEW R \in SUBSET Pages, NEW t \in R, NEW X, Exact(m, R, X),
         NEW va \in {TRAPFRAME, TRAMPOLINE}, CanWalk(m, t, va), NEW g \in Nat
  PROVE  Exact(mappages(m, t, va, g), R, X)
<1> DEFINE k == walk(m, t, va)
<1>1. va \in VPages /\ t \in Pages
  BY Layout, Zenon
<1>2. k \in MemType /\ Exact(k, R, X)
  BY <1>1, WalkFacts, WalkExact, Zenon
<1>3. mappages(m, t, va, g) = SetLeaf(k, t, va, g)
  BY Zenon DEF mappages, SetLeaf
<1> HIDE DEF k
<1> QED BY <1>2, <1>3, SetLeafKernel, Zenon

\* mappages() of a page that kalloc() has just returned.
LEMMA MapUser ==
  ASSUME NEW m \in MemType, NEW R \in SUBSET Pages, NEW t \in R, NEW X, Exact(m, R, X),
         NEW va \in UserPages, m.free # {}, CanWalk(Taken(m), t, va), m.pt[t].leaf[va] = 0
  PROVE  Exact(mappages(Taken(m), t, va, kalloc(m)), R, X)
<1> DEFINE w == <<"trapframe", 0, 0, kalloc(m)>>
           n == Taken(m)
           k == walk(n, t, va)
<1>1. va \in VPages /\ t \in Pages
  BY Zenon DEF UserPages
<1>2. /\ n \in MemType /\ n.pt = m.pt /\ kalloc(m) \in m.free /\ kalloc(m) \in Pages
  BY Kalloc, Zenon
<1>3. IsOther(w) /\ w[4] = kalloc(m)
  BY Zenon DEF IsOther
<1> HIDE DEF w
<1>4. Exact(n, R, X \cup {w})
  BY <1>3, KallocOther, Zenon
<1> HIDE DEF n
<1>5. CanWalk(n, t, va)
  BY Zenon DEF n
<1>6. k \in MemType /\ k.pt[t].leaf = n.pt[t].leaf
  BY <1>1, <1>2, <1>5, WalkFacts, Zenon
<1>7. Exact(k, R, X \cup {w})
  BY <1>1, <1>2, <1>4, <1>5, WalkExact, Zenon
<1>8. w \notin X
  <2>1. Balanced(m.free, X \cup AllTables(m, R))
    BY Zenon DEF Exact
  <2> QED BY <1>2, <1>3, <2>1 DEF Balanced
<1>9. mappages(n, t, va, kalloc(m)) = SetLeaf(k, t, va, w[4])
  BY <1>3, Zenon DEF mappages, SetLeaf
<1> HIDE DEF k
<1>10. Exact(SetLeaf(k, t, va, w[4]), R, X)
  BY <1>2, <1>3, <1>6, <1>7, <1>8, SetLeafUser, Zenon
<1> QED BY <1>9, <1>10, Zenon DEF n

\* kfree() of pages that somebody has.
LEMMA KfreeFacts ==
  ASSUME NEW m \in MemType, NEW G \in SUBSET Pages
  PROVE  /\ kfree(m, G) \in MemType /\ kfree(m, G).pt = m.pt /\ kfree(m, G).free = m.free \cup G
         /\ m.twice = FALSE /\ G \cap m.free = {} => kfree(m, G).twice = FALSE
<1> DEFINE b == m.twice \/ G \cap m.free # {}
<1>1. b \in BOOLEAN /\ (m.twice = FALSE /\ G \cap m.free = {} => b = FALSE)
  BY Zenon
<1>2. kfree(m, G) = [m EXCEPT !.free = m.free \cup G, !.twice = b]
  BY Zenon DEF kfree, MemType
<1> HIDE DEF b
<1>3. /\ kfree(m, G) \in MemType /\ kfree(m, G).pt = m.pt /\ kfree(m, G).free = m.free \cup G
      /\ kfree(m, G).twice = b
  BY <1>1, <1>2, Zenon DEF MemType
<1> QED BY <1>1, <1>3, Zenon

\* The pages of owners that have pages.
PagesOf(D) == {d[4] : d \in D}

\* Owners have pages of memory only.
LEMMA OwnedPages ==
  ASSUME NEW m, NEW R, NEW X, Exact(m, R, X), NEW D \in SUBSET (X \cup AllTables(m, R))
  PROVE  PagesOf(D) \in SUBSET Pages
BY Zenon DEF Exact, Balanced, PagesOf

\* kfree() of trapframes and arguments leaves the rest as it was.
LEMMA KfreeOther ==
  ASSUME NEW m \in MemType, NEW R \in SUBSET Pages, NEW X, Exact(m, R, X), NEW W \in SUBSET X
  PROVE  Exact(kfree(m, PagesOf(W)), R, X \ W)
<1> DEFINE G == PagesOf(W)
           n == kfree(m, G)
           O == X \cup AllTables(m, R)
<1>1. Balanced(m.free, O) /\ m.twice = FALSE /\ \A x \in X : IsOther(x)
  BY Zenon DEF Exact
<1>2. W \in SUBSET O
  BY Zenon
<1>3. G \in SUBSET Pages
  BY <1>2, OwnedPages, Zenon
<1>4. Balanced(m.free \cup G, O \ W) /\ G \cap m.free = {}
  <2> HIDE DEF O
  <2> QED BY <1>1, <1>2, Release, Zenon DEF PagesOf
<1> HIDE DEF G
<1>5. n.pt = m.pt /\ n.free = m.free \cup G /\ n.twice = FALSE
  BY <1>1, <1>3, <1>4, KfreeFacts, Zenon
<1> HIDE DEF n
<1>6. TablesKeep(n, m, R)
  BY <1>5, TablesStay, Zenon
<1>7. \A o \in W : o \notin AllTables(m, R)
  BY OthersApart, Zenon
<1>8. O \ W = (X \ W) \cup AllTables(n, R)
  BY <1>6, <1>7, Zenon DEF TablesKeep
<1>9. Exact(n, R, X \ W)
  BY <1>1, <1>4, <1>5, <1>8, Zenon DEF Exact
<1> QED BY <1>9, Zenon DEF n, G

\* uvmunmap() without do_free.
LeavesCut(n, m, t, vs) ==
  /\ n.free = m.free /\ n.twice = m.twice
  /\ \A r \in Pages \ {t} : n.pt[r] = m.pt[r]
  /\ n.pt[t].node = m.pt[t].node
  /\ \A v \in VPages : n.pt[t].leaf[v] = IF v \in vs THEN 0 ELSE m.pt[t].leaf[v]

\* It clears the entries, and keeps the type.
LEMMA UnmapFacts ==
  ASSUME NEW m \in MemType, NEW t \in Pages, NEW vs \in SUBSET VPages
  PROVE  unmapped(m, t, vs) \in MemType /\ LeavesCut(unmapped(m, t, vs), m, t, vs)
<1> DEFINE f == [v \in VPages |-> IF v \in vs THEN 0 ELSE m.pt[t].leaf[v]]
           n == [m EXCEPT !.pt[t].leaf = f]
<1>1. f \in [VPages -> Nat] /\ \A v \in VPages : f[v] = IF v \in vs THEN 0 ELSE m.pt[t].leaf[v]
  BY DEF MemType, TableType
<1>2. unmapped(m, t, vs) = n
  BY Zenon DEF unmapped
<1> HIDE DEF f
<1>3. /\ n \in MemType /\ n.free = m.free /\ n.twice = m.twice
      /\ \A r \in Pages \ {t} : n.pt[r] = m.pt[r]
      /\ n.pt[t].node = m.pt[t].node /\ n.pt[t].leaf = f
  BY <1>1, Zenon DEF MemType, TableType
<1> HIDE DEF n
<1> QED BY <1>1, <1>2, <1>3, Zenon DEF LeavesCut

\* The trampoline and the trapframe stay with who has them.
LEMMA UnmapKernel ==
  ASSUME NEW m \in MemType, NEW R \in SUBSET Pages, NEW t \in R, NEW X, Exact(m, R, X),
         NEW vs \in SUBSET {TRAPFRAME, TRAMPOLINE}
  PROVE  Exact(unmapped(m, t, vs), R, X)
<1> DEFINE n == unmapped(m, t, vs)
<1>1. vs \in SUBSET VPages /\ t \in Pages
  BY Layout, Zenon
<1>2. LeavesCut(n, m, t, vs)
  BY <1>1, UnmapFacts, Zenon
<1> HIDE DEF n
<1>3. \A v \in UserPages : n.pt[t].leaf[v] = m.pt[t].leaf[v]
  BY <1>2, Zenon DEF UserPages, LeavesCut
<1>4. LeafOwners(n, t) = LeafOwners(m, t)
  BY <1>3, Zenon DEF LeafOwners, LeafOwner
<1>5. n.pt[t].node = m.pt[t].node /\ \A r \in R \ {t} : n.pt[r] = m.pt[r]
  BY <1>2, Zenon DEF LeavesCut
<1>6. NodeOwners(n, t) = NodeOwners(m, t)
  BY <1>5, Zenon DEF NodeOwners, NodeOwner
<1>7. TableOwners(n, t) = TableOwners(m, t)
  BY <1>4, <1>6, Zenon DEF TableOwners
<1>8. TablesKeep(n, m, R)
  BY <1>5, <1>7, TablesSame, Zenon
<1>9. Exact(n, R, X)
  BY <1>2, <1>8, Zenon DEF Exact, TablesKeep, LeavesCut
<1> QED BY <1>9, Zenon DEF n

\* uvmunmap() of user pages that are mapped.
UserCut(n, m, t, vs) ==
  /\ \A r \in Pages \ {t} : n.pt[r] = m.pt[r]
  /\ \A v \in VPages : n.pt[t].leaf[v] = IF v \in vs THEN 0 ELSE m.pt[t].leaf[v]

\* With do_free the pages go to the free list, each once.
LEMMA UvmunmapExact ==
  ASSUME NEW m \in MemType, NEW R \in SUBSET Pages, NEW t \in R, NEW X, Exact(m, R, X),
         NEW vs \in SUBSET UserPages, ~NotMapped(m, t, vs)
  PROVE  /\ uvmunmap(m, t, vs) \in MemType
         /\ Exact(uvmunmap(m, t, vs), R, X)
         /\ UserCut(uvmunmap(m, t, vs), m, t, vs)
<1> DEFINE k == unmapped(m, t, vs)
           D == {LeafOwner(m, t, v) : v \in vs}
           G == PagesOf(D)
           n == kfree(k, G)
           O == X \cup AllTables(m, R)
<1>1. vs \in SUBSET VPages /\ t \in Pages
  BY Zenon DEF UserPages
<1>2. k \in MemType /\ LeavesCut(k, m, t, vs)
  BY <1>1, UnmapFacts, Zenon
<1>3. G = {m.pt[t].leaf[v] : v \in vs}
  <2>1. \A v \in vs : LeafOwner(m, t, v)[4] = m.pt[t].leaf[v]
    BY Zenon DEF LeafOwner
  <2>2. ASSUME NEW g \in G PROVE g \in {m.pt[t].leaf[v] : v \in vs}
    <3>1. PICK d \in D : g = d[4]
      <4> HIDE DEF D
      <4> QED BY Zenon DEF PagesOf
    <3>2. PICK v \in vs : d = LeafOwner(m, t, v)
      BY <3>1, Zenon
    <3> QED BY <2>1, <3>1, <3>2, Zenon
  <2>3. ASSUME NEW v \in vs PROVE m.pt[t].leaf[v] \in G
    <3>1. LeafOwner(m, t, v) \in D
      BY Zenon
    <3> HIDE DEF D
    <3> QED BY <2>1, <3>1, Zenon DEF PagesOf
  <2> HIDE DEF G
  <2> QED BY <2>2, <2>3, Zenon
<1>4. uvmunmap(m, t, vs) = n
  BY <1>3, Zenon DEF uvmunmap
<1> HIDE DEF k
<1>5. D \in SUBSET LeafOwners(m, t)
  BY Zenon DEF LeafOwners, NotMapped
<1>6. D \in SUBSET AllTables(m, R)
  <2>1. LeafOwners(m, t) \subseteq TableOwners(m, t)
    BY Zenon DEF TableOwners
  <2>2. TableOwners(m, t) \subseteq AllTables(m, R)
    BY Zenon DEF AllTables
  <2> HIDE DEF D
  <2> QED BY <1>5, <2>1, <2>2, Zenon
<1>7. G \in SUBSET Pages
  <2> HIDE DEF D
  <2>1. D \in SUBSET O
    BY <1>6, Zenon
  <2> QED BY <2>1, OwnedPages, Zenon
<1>8. Balanced(m.free \cup G, O \ D) /\ G \cap m.free = {}
  <2> HIDE DEF D
  <2>1. Balanced(m.free, O) /\ D \in SUBSET O
    BY <1>6, Zenon DEF Exact
  <2> HIDE DEF O
  <2> QED BY <2>1, Release, Zenon DEF PagesOf
<1>9. LeafOwners(k, t) = LeafOwners(m, t) \ D
  <2>1. \A v \in UserPages : k.pt[t].leaf[v] = IF v \in vs THEN 0 ELSE m.pt[t].leaf[v]
    BY <1>2, Zenon DEF LeavesCut, UserPages
  <2> QED BY <2>1 DEF LeafOwners, LeafOwner
<1>10. NodeOwners(k, t) = NodeOwners(m, t)
  <2>1. k.pt[t].node = m.pt[t].node
    BY <1>2, Zenon DEF LeavesCut
  <2> QED BY <2>1, Zenon DEF NodeOwners, NodeOwner
<1>11. \A o \in D : o \notin NodeOwners(m, t) /\ o # RootOwner(t)
  BY DEF NodeOwners, NodeOwner, RootOwner, LeafOwner
<1> HIDE DEF D, G
<1>12. TableOwners(k, t) = TableOwners(m, t) \ D
  BY <1>5, <1>9, <1>10, <1>11, Zenon DEF TableOwners
<1>13. TablesMinus(k, R, m, R, D)
  <2>1. \A r \in R \ {t} : k.pt[r] = m.pt[r]
    BY <1>2, Zenon DEF LeavesCut
  <2>2. D \in SUBSET TableOwners(m, t)
    BY <1>5, Zenon DEF TableOwners
  <2> QED BY <1>12, <2>1, <2>2, TablesDrop, Zenon
<1>14. n \in MemType /\ n.pt = k.pt /\ n.free = m.free \cup G /\ n.twice = FALSE
  <2>1. k.free = m.free /\ k.twice = FALSE
    BY <1>2, Zenon DEF LeavesCut, Exact
  <2>2. G \cap k.free = {}
    BY <1>8, <2>1, Zenon
  <2> QED BY <1>2, <1>7, <2>1, <2>2, KfreeFacts, Zenon
<1> HIDE DEF n
<1>15. TablesKeep(n, k, R)
  BY <1>14, TablesStay, Zenon
<1>16. O \ D = X \cup AllTables(n, R)
  <2>1. AllTables(n, R) = AllTables(m, R) \ D
    BY <1>13, <1>15, Zenon DEF TablesKeep, TablesMinus
  <2>2. X \cap D = {}
    BY <1>6, OthersApart, Zenon
  <2> QED BY <2>1, <2>2, Zenon
<1>17. Exact(n, R, X)
  BY <1>8, <1>14, <1>16, Zenon DEF Exact
<1>18. n.pt[t] = k.pt[t] /\ \A r \in Pages \ {t} : n.pt[r] = m.pt[r]
  BY <1>2, <1>14, Zenon DEF LeavesCut
<1> QED BY <1>2, <1>4, <1>14, <1>17, <1>18, Zenon DEF LeavesCut, UserCut

\* freewalk() of a table without leaves.
Freed(n, m, t) == n.pt[t] = Empty /\ \A r \in Pages \ {t} : n.pt[r] = m.pt[r]

\* The table and its lower tables go to the free list, each once.
LEMMA FreewalkExact ==
  ASSUME NEW m \in MemType, NEW R \in SUBSET Pages, NEW t \in R, NEW X, Exact(m, R, X),
         MapsOnly(m, t, {})
  PROVE  /\ freewalk(m, t) \in MemType
         /\ Exact(freewalk(m, t), R \ {t}, X)
         /\ Freed(freewalk(m, t), m, t)
<1> DEFINE D == TableOwners(m, t)
           G == PagesOf(D)
           k == kfree(m, G)
           n == [k EXCEPT !.pt[t] = Empty]
           O == X \cup AllTables(m, R)
<1>1. D = {RootOwner(t)} \cup NodeOwners(m, t)
  <2>1. LeafOwners(m, t) = {}
    BY Zenon DEF LeafOwners, MapsOnly, UserPages
  <2> QED BY <2>1, Zenon DEF TableOwners
<1>2. G = {t} \cup ({m.pt[t].node[x] : x \in Nodes} \ {0})
  <2>1. RootOwner(t)[4] = t /\ \A x \in Nodes : NodeOwner(m, t, x)[4] = m.pt[t].node[x]
    BY Zenon DEF RootOwner, NodeOwner
  <2>2. ASSUME NEW g \in G PROVE g \in {t} \cup ({m.pt[t].node[x] : x \in Nodes} \ {0})
    <3>1. PICK d \in D : g = d[4]
      <4> HIDE DEF D
      <4> QED BY Zenon DEF PagesOf
    <3>2. CASE d = RootOwner(t)
      BY <2>1, <3>1, <3>2, Zenon
    <3>3. CASE d \in NodeOwners(m, t)
      <4>1. PICK x \in Nodes : d = NodeOwner(m, t, x) /\ m.pt[t].node[x] # 0
        BY <3>3, Zenon DEF NodeOwners
      <4> QED BY <2>1, <3>1, <4>1, Zenon
    <3> QED BY <1>1, <3>1, <3>2, <3>3, Zenon
  <2>3. t \in G
    <3>1. RootOwner(t) \in D
      BY <1>1, Zenon
    <3> HIDE DEF D
    <3> QED BY <2>1, <3>1, Zenon DEF PagesOf
  <2>4. ASSUME NEW x \in Nodes, m.pt[t].node[x] # 0 PROVE m.pt[t].node[x] \in G
    <3>1. NodeOwner(m, t, x) \in D
      BY <1>1, <2>4, Zenon DEF NodeOwners
    <3> HIDE DEF D
    <3> QED BY <2>1, <3>1, Zenon DEF PagesOf
  <2> HIDE DEF G
  <2> QED BY <2>2, <2>3, <2>4, Zenon
<1>3. freewalk(m, t) = n
  BY <1>2, Zenon DEF freewalk
<1>4. t \in Pages /\ Empty \in TableType
  BY Constants, Zenon DEF Empty, TableType
<1>5. D \in SUBSET AllTables(m, R)
  BY Zenon DEF AllTables
<1> HIDE DEF D
<1>6. Balanced(m.free, O) /\ D \in SUBSET O
  BY <1>5, Zenon DEF Exact
<1>7. G \in SUBSET Pages
  BY <1>6, OwnedPages, Zenon
<1>8. Balanced(m.free \cup G, O \ D) /\ G \cap m.free = {}
  <2> HIDE DEF O
  <2> QED BY <1>6, Release, Zenon DEF PagesOf
<1> HIDE DEF G
<1>9. k \in MemType /\ k.pt = m.pt /\ k.free = m.free \cup G /\ k.twice = FALSE
  BY <1>7, <1>8, KfreeFacts, Zenon DEF Exact
<1> HIDE DEF k
<1>10. /\ n \in MemType /\ n.free = k.free /\ n.twice = k.twice /\ n.pt[t] = Empty
       /\ \A r \in Pages \ {t} : n.pt[r] = m.pt[r]
  BY <1>4, <1>9, Zenon DEF MemType
<1> HIDE DEF n
<1>11. TablesMinus(n, R \ {t}, m, R, D)
  <2>1. \A r \in R \ {t} : n.pt[r] = m.pt[r]
    BY <1>10, Zenon
  <2> QED BY <2>1, TablesGone, Zenon DEF D
<1>12. O \ D = X \cup AllTables(n, R \ {t})
  <2>1. X \cap D = {}
    BY <1>5, OthersApart, Zenon
  <2> QED BY <1>11, <2>1, Zenon DEF TablesMinus
<1>13. Exact(n, R \ {t}, X)
  BY <1>8, <1>9, <1>10, <1>12, Zenon DEF Exact
<1> QED BY <1>3, <1>10, <1>13, Zenon DEF Freed

\* The pages of a size.
LEMMA RangeFacts ==
  ASSUME NEW s \in Nat, NEW z \in Nat, PageCount(z) <= UPAGES
  PROVE  /\ PageRange(s, z) = {v \in VPages : PageCount(s) <= v /\ v < PageCount(z)}
         /\ PageRange(s, z) \in SUBSET UserPages
         /\ PageCount(0) = 0
<1>1. PageRange(s, z) = {v \in VPages : PageCount(s) <= v /\ v < PageCount(z)}
  <2>1. PageCount(s) \in Nat /\ PageCount(z) \in Nat /\ VPages \subseteq Nat
    BY RoundUp, Layout, Zenon
  <2>2. \A v \in VPages : v >= PageCount(s) <=> PageCount(s) <= v
    BY <2>1, Zenon
  <2> QED BY <2>2, Zenon DEF PageRange, PageCount
<1>2. ASSUME NEW v \in VPages, v < PageCount(z) PROVE v \in UserPages
  <2>1. /\ PageCount(z) \in Nat /\ VPages \subseteq Nat /\ UPAGES \in Nat
        /\ TRAPFRAME \in Nat /\ TRAMPOLINE \in Nat /\ UPAGES <= TRAPFRAME
        /\ TRAMPOLINE = TRAPFRAME + 1
    BY RoundUp, Layout, Constants, Zenon
  <2>2. v # TRAPFRAME /\ v # TRAMPOLINE
    BY <1>2, <2>1
  <2> QED BY <2>2, Zenon DEF UserPages
<1>3. PageCount(0) = 0
  <2>1. 0 * PGSIZE = 0 /\ 0 \in Nat
    BY Constants
  <2> QED BY <2>1, WholePages, Zenon
<1> QED BY <1>1, <1>2, <1>3, Zenon

\* uvmfree() frees a table that maps what the size says, and does not panic.
LEMMA UvmfreeExact ==
  ASSUME NEW m \in MemType, NEW R \in SUBSET Pages, NEW t \in R, NEW X, Exact(m, R, X),
         NEW sz \in Nat, PageCount(sz) <= UPAGES,
         \A v \in VPages : m.pt[t].leaf[v] # 0 <=> v < PageCount(sz)
  PROVE  /\ ~UvmfreePanics(m, t, sz)
         /\ uvmfree(m, t, sz) \in MemType
         /\ Exact(uvmfree(m, t, sz), R \ {t}, X)
         /\ Freed(uvmfree(m, t, sz), m, t)
<1> DEFINE vs == PageRange(0, sz)
           k == uvmunmap(m, t, vs)
<1>1. vs = {v \in VPages : v < PageCount(sz)} /\ vs \in SUBSET UserPages
  <2>1. /\ vs = {v \in VPages : PageCount(0) <= v /\ v < PageCount(sz)}
        /\ vs \in SUBSET UserPages /\ PageCount(0) = 0
    BY RangeFacts, Zenon
  <2>2. \A v \in VPages : 0 <= v
    BY Layout
  <2> QED BY <2>1, <2>2, Zenon
<1>2. ~NotMapped(m, t, vs) /\ ~UvmfreePanics(m, t, sz)
  <2>1. ~NotMapped(m, t, vs)
    BY <1>1, Zenon DEF NotMapped
  <2>2. \A v \in VPages \ vs : m.pt[t].leaf[v] = 0
    BY <1>1, Zenon
  <2> QED BY <2>1, <2>2, Zenon DEF UvmfreePanics
<1>3. /\ k \in MemType /\ Exact(k, R, X)
      /\ \A r \in Pages \ {t} : k.pt[r] = m.pt[r]
      /\ \A v \in VPages : k.pt[t].leaf[v] = IF v \in vs THEN 0 ELSE m.pt[t].leaf[v]
  <2> HIDE DEF vs
  <2>1. k \in MemType /\ Exact(k, R, X) /\ UserCut(k, m, t, vs)
    BY <1>1, <1>2, UvmunmapExact, Zenon
  <2> HIDE DEF k
  <2> QED BY <2>1, Zenon DEF UserCut
<1>4. uvmfree(m, t, sz) = freewalk(k, t)
  BY Zenon DEF uvmfree
<1> HIDE DEF k, vs
<1>5. MapsOnly(k, t, {})
  BY <1>1, <1>3, Zenon DEF MapsOnly
<1>6. freewalk(k, t) \in MemType /\ Exact(freewalk(k, t), R \ {t}, X) /\ Freed(freewalk(k, t), k, t)
  BY <1>3, <1>5, FreewalkExact, Zenon
<1> QED BY <1>2, <1>3, <1>4, <1>6, Zenon DEF Freed

\* proc_freepagetable() too.
LEMMA FreeTable ==
  ASSUME NEW m \in MemType, NEW R \in SUBSET Pages, NEW t \in R, NEW X, Exact(m, R, X),
         NEW sz \in Nat, PageCount(sz) <= UPAGES, Maps(m, t, PageCount(sz))
  PROVE  /\ ~FreePanics(m, t, sz)
         /\ proc_freepagetable(m, t, sz) \in MemType
         /\ Exact(proc_freepagetable(m, t, sz), R \ {t}, X)
         /\ Freed(proc_freepagetable(m, t, sz), m, t)
<1> DEFINE vs == {TRAMPOLINE, TRAPFRAME}
           k == unmapped(m, t, vs)
<1>1. vs \in SUBSET VPages /\ vs \in SUBSET {TRAPFRAME, TRAMPOLINE} /\ t \in Pages
  BY Layout, Zenon
<1>2. k \in MemType /\ LeavesCut(k, m, t, vs)
  BY <1>1, UnmapFacts, Zenon
<1>3. Exact(k, R, X)
  BY <1>1, UnmapKernel, Zenon
<1>4. \A v \in VPages : k.pt[t].leaf[v] # 0 <=> v < PageCount(sz)
  <2>1. \A v \in VPages : v < PageCount(sz) => v \notin vs
    <3>1. /\ PageCount(sz) \in Nat /\ VPages \subseteq Nat /\ UPAGES \in Nat
          /\ TRAPFRAME \in Nat /\ TRAMPOLINE \in Nat /\ UPAGES <= TRAPFRAME
          /\ TRAMPOLINE = TRAPFRAME + 1
      BY RoundUp, Layout, Constants, Zenon
    <3> QED BY <3>1
  <2> HIDE DEF k
  <2> QED BY <1>2, <2>1, Zenon DEF LeavesCut, Maps
<1>5. ~NotMapped(m, t, vs)
  BY <1>1, Zenon DEF NotMapped, Maps
<1>6. /\ ~UvmfreePanics(k, t, sz) /\ uvmfree(k, t, sz) \in MemType
      /\ Exact(uvmfree(k, t, sz), R \ {t}, X) /\ Freed(uvmfree(k, t, sz), k, t)
  <2> HIDE DEF k
  <2> QED BY <1>2, <1>3, <1>4, UvmfreeExact, Zenon
<1>7. ~FreePanics(m, t, sz) /\ proc_freepagetable(m, t, sz) = uvmfree(k, t, sz)
  BY <1>5, <1>6, Zenon DEF FreePanics, proc_freepagetable
<1> HIDE DEF k, vs
<1> QED BY <1>2, <1>6, <1>7, Zenon DEF Freed, LeavesCut
------------------------------------------------------------------------------
\* The steps that the calls take: types.

\* One process's entry changes.
LEMMA OneEntry ==
  ASSUME NEW T, NEW f \in [Procs -> T], NEW p \in Procs, NEW r
  PROVE  /\ [f EXCEPT ![p] = r][p] = r
         /\ \A q \in Procs \ {p} : [f EXCEPT ![p] = r][q] = f[q]
         /\ r \in T => [f EXCEPT ![p] = r] \in [Procs -> T]
BY Zenon

\* The values of the constants that records start from.
LEMMA StartTypes == Idle \in CallType /\ NoProc \in ProcType
BY Constants, Zenon DEF Idle, NoProc, CallType, ProcType, Locations, SystemCalls

\* The names of the locations and the calls.
LEMMA LocationsAre ==
  /\ "uvmalloc" \in Locations /\ "uvmcreate" \in Locations /\ "trampoline" \in Locations
  /\ "trapframe" \in Locations /\ "uvmcopy" \in Locations /\ "argv" \in Locations
  /\ "segments" \in Locations /\ "commit" \in Locations /\ "bad" \in Locations
  /\ "sbrk" \in SystemCalls /\ "fork" \in SystemCalls /\ "exec" \in SystemCalls
  /\ "segment" \in SystemCalls /\ "stack" \in SystemCalls
BY Zenon DEF Locations, SystemCalls

\* The records of processes and calls have their types.
LEMMA RecordsTyped ==
  ASSUME IInv
  PROVE  /\ proc \in [Procs -> ProcType] /\ th \in [Procs -> CallType]
         /\ \A p \in Procs : th[p].t \in Pages \cup {0} /\ th[p].sz \in Nat
                             /\ th[p].new \in Nat /\ proc[p].sz \in Nat
<1>1. proc \in [Procs -> ProcType] /\ th \in [Procs -> CallType]
  BY Zenon DEF IInv, TypeOK
<1> QED BY <1>1, Zenon DEF CallType, ProcType

\* A call's record keeps its type when some of its fields are set.
LEMMA CallFields ==
  ASSUME NEW f \in [Procs -> CallType], NEW p \in Procs, NEW l \in Locations
  PROVE  /\ [f EXCEPT ![p].pc = l] \in [Procs -> CallType]
         /\ \A t \in Pages \cup {0} : [f EXCEPT ![p].pc = l, ![p].t = t] \in [Procs -> CallType]
         /\ \A n \in Nat : [f EXCEPT ![p].pc = l, ![p].sz = n] \in [Procs -> CallType]
         /\ \A n \in Nat : \A c \in SystemCalls :
              [f EXCEPT ![p].pc = l, ![p].call = c, ![p].sz = n] \in [Procs -> CallType]
<1>1. f[p] \in CallType
  BY Zenon
<1>2. [f EXCEPT ![p].pc = l] \in [Procs -> CallType]
  <2>1. [f[p] EXCEPT !.pc = l] \in CallType
    BY <1>1, Zenon DEF CallType
  <2>2. [f EXCEPT ![p].pc = l] = [f EXCEPT ![p] = [f[p] EXCEPT !.pc = l]]
    BY Zenon
  <2> QED BY <2>1, <2>2, OneEntry, Zenon
<1>3. ASSUME NEW t \in Pages \cup {0}
      PROVE  [f EXCEPT ![p].pc = l, ![p].t = t] \in [Procs -> CallType]
  <2>1. [f[p] EXCEPT !.pc = l, !.t = t] \in CallType
    BY <1>1, Zenon DEF CallType
  <2>2. [f EXCEPT ![p].pc = l, ![p].t = t] = [f EXCEPT ![p] = [f[p] EXCEPT !.pc = l, !.t = t]]
    BY Zenon
  <2> QED BY <2>1, <2>2, OneEntry, Zenon
<1>4. ASSUME NEW n \in Nat
      PROVE  [f EXCEPT ![p].pc = l, ![p].sz = n] \in [Procs -> CallType]
  <2>1. [f[p] EXCEPT !.pc = l, !.sz = n] \in CallType
    BY <1>1, Zenon DEF CallType
  <2>2. [f EXCEPT ![p].pc = l, ![p].sz = n] = [f EXCEPT ![p] = [f[p] EXCEPT !.pc = l, !.sz = n]]
    BY Zenon
  <2> QED BY <2>1, <2>2, OneEntry, Zenon
<1>5. ASSUME NEW n \in Nat, NEW c \in SystemCalls
      PROVE  [f EXCEPT ![p].pc = l, ![p].call = c, ![p].sz = n] \in [Procs -> CallType]
  <2>1. [f[p] EXCEPT !.pc = l, !.call = c, !.sz = n] \in CallType
    BY <1>1, Zenon DEF CallType
  <2>2. [f EXCEPT ![p].pc = l, ![p].call = c, ![p].sz = n]
          = [f EXCEPT ![p] = [f[p] EXCEPT !.pc = l, !.call = c, !.sz = n]]
    BY Zenon
  <2> QED BY <2>1, <2>2, OneEntry, Zenon
<1> QED BY <1>2, <1>3, <1>4, <1>5, Zenon

\* A process's record keeps its type when some of its fields are set.
LEMMA ProcFields ==
  ASSUME NEW f \in [Procs -> ProcType], NEW p
  PROVE  /\ \A t \in Pages \cup {0} : [f EXCEPT ![p].pagetable = t] \in [Procs -> ProcType]
         /\ \A n \in Nat : [f EXCEPT ![p].sz = n, ![p].state = "RUNNING"] \in [Procs -> ProcType]
         /\ \A n \in Nat : \A t \in Pages \cup {0} :
              [f EXCEPT ![p].pagetable = t, ![p].sz = n] \in [Procs -> ProcType]
<1>1. CASE p \in Procs
  <2>1. f[p] \in ProcType
    BY <1>1, Zenon
  <2>2. ASSUME NEW t \in Pages \cup {0}
        PROVE  [f EXCEPT ![p].pagetable = t] \in [Procs -> ProcType]
    <3>1. [f[p] EXCEPT !.pagetable = t] \in ProcType
      BY <2>1, Zenon DEF ProcType
    <3>2. [f EXCEPT ![p].pagetable = t] = [f EXCEPT ![p] = [f[p] EXCEPT !.pagetable = t]]
      BY <1>1, Zenon
    <3> QED BY <1>1, <3>1, <3>2, OneEntry, Zenon
  <2>3. ASSUME NEW n \in Nat
        PROVE  [f EXCEPT ![p].sz = n, ![p].state = "RUNNING"] \in [Procs -> ProcType]
    <3>1. [f[p] EXCEPT !.sz = n, !.state = "RUNNING"] \in ProcType
      BY <2>1, Zenon DEF ProcType
    <3>2. [f EXCEPT ![p].sz = n, ![p].state = "RUNNING"]
            = [f EXCEPT ![p] = [f[p] EXCEPT !.sz = n, !.state = "RUNNING"]]
      BY <1>1, Zenon
    <3> QED BY <1>1, <3>1, <3>2, OneEntry, Zenon
  <2>4. ASSUME NEW n \in Nat, NEW t \in Pages \cup {0}
        PROVE  [f EXCEPT ![p].pagetable = t, ![p].sz = n] \in [Procs -> ProcType]
    <3>1. [f[p] EXCEPT !.pagetable = t, !.sz = n] \in ProcType
      BY <2>1, Zenon DEF ProcType
    <3>2. [f EXCEPT ![p].pagetable = t, ![p].sz = n]
            = [f EXCEPT ![p] = [f[p] EXCEPT !.pagetable = t, !.sz = n]]
      BY <1>1, Zenon
    <3> QED BY <1>1, <3>1, <3>2, OneEntry, Zenon
  <2> QED BY <2>2, <2>3, <2>4, Zenon
<1>2. CASE p \notin Procs
  BY <1>2, Zenon
<1> QED BY <1>1, <1>2, Zenon

\* The numbers that the steps compute.
LEMMA Arithmetic ==
  ASSUME IInv, NEW p \in Procs
  PROVE  /\ th[p].a + PGSIZE \in Nat
         /\ PGROUNDUP(th[p].sz) \in Nat /\ PGROUNDUP(th[p].sz) + 2 * PGSIZE \in Nat
         /\ PGROUNDUP(proc[p].sz) \in Nat /\ Ends \subseteq Nat
         /\ \A n \in Sbrks : /\ (proc[p].sz + n) % UINT \in Nat
                             /\ n > 0 => proc[p].sz + n \in Nat
<1>1. th[p].a \in Nat /\ th[p].sz \in Nat /\ proc[p].sz \in Nat
  BY Zenon DEF IInv, TypeOK, CallType, ProcType
<1>2. PGROUNDUP(th[p].sz) \in Nat /\ PGROUNDUP(proc[p].sz) \in Nat
  BY <1>1, RoundUp, Zenon
<1>3. th[p].a + PGSIZE \in Nat /\ PGROUNDUP(th[p].sz) + 2 * PGSIZE \in Nat
  BY <1>1, <1>2, Constants
<1>4. ASSUME NEW n \in Sbrks
      PROVE  (proc[p].sz + n) % UINT \in Nat /\ (n > 0 => proc[p].sz + n \in Nat)
  <2>1. n \in Int /\ UINT \in Nat \ {0}
    BY SizeAssumption, Constants, Zenon
  <2> QED BY <1>1, <2>1
<1>5. Ends \subseteq Nat
  BY SizeAssumption
<1> QED BY <1>2, <1>3, <1>4, <1>5, Zenon

\* A page from the free list.
LEMMA FreshPage ==
  ASSUME IInv, mem.free # {}
  PROVE  kalloc(mem) \in Pages /\ kalloc(mem) \in mem.free /\ kalloc(mem) # 0
BY Kalloc, Zenon DEF IInv, TypeOK

\* proc_pagetable() fails.
LEMMA FailTypes ==
  ASSUME IInv, NEW p \in Procs, NEW m, PagetableFails(p, m)
  PROVE  proc' \in [Procs -> ProcType] /\ th' \in [Procs -> CallType]
<1>1. CASE th[p].call = "fork"
  BY <1>1, StartTypes, Zenon DEF PagetableFails, Return, IInv, TypeOK
<1>2. CASE th[p].call # "fork"
  <2>1. th' = [th EXCEPT ![p].pc = "bad", ![p].t = 0] /\ proc' = proc
    BY <1>2, Zenon DEF PagetableFails
  <2> QED BY <2>1, RecordsTyped, CallFields, LocationsAre, Zenon
<1> QED BY <1>1, <1>2, Zenon

\* The records of processes and calls keep their types.
LEMMA RecordTypes == IInv /\ [Next]_vars => proc' \in [Procs -> ProcType] /\ th' \in [Procs -> CallType]
<1> SUFFICES ASSUME IInv, [Next]_vars PROVE proc' \in [Procs -> ProcType] /\ th' \in [Procs -> CallType]
  BY Zenon
<1>1. ASSUME NEW p \in Procs, uvmalloc(p)
      PROVE  proc' \in [Procs -> ProcType] /\ th' \in [Procs -> CallType]
  BY <1>1, Arithmetic, StartTypes, LocationsAre, Zenon
       DEF uvmalloc, Return, IInv, TypeOK, CallType, ProcType
<1>2. ASSUME NEW p \in Procs, uvmalloc_fail(p)
      PROVE  proc' \in [Procs -> ProcType] /\ th' \in [Procs -> CallType]
  <2>1. [th[p] EXCEPT !.pc = "bad"] \in CallType
    BY RecordsTyped, LocationsAre, Zenon DEF CallType
  <2>2. PICK e \in CallType : th' = [th EXCEPT ![p] = e] /\ proc' = proc
    BY <1>2, <2>1, StartTypes, Zenon DEF uvmalloc_fail
  <2> QED BY <2>2, RecordsTyped, OneEntry, Zenon
<1>3. ASSUME NEW p \in Procs, growproc_done(p)
      PROVE  proc' \in [Procs -> ProcType] /\ th' \in [Procs -> CallType]
  BY <1>3, StartTypes, LocationsAre, Zenon DEF growproc_done, Return, IInv, TypeOK,
       CallType, ProcType
<1>4. ASSUME NEW p \in Procs, uvmcreate(p)
      PROVE  proc' \in [Procs -> ProcType] /\ th' \in [Procs -> CallType]
  <2>1. CASE mem.free = {}
    BY <1>4, <2>1, FailTypes, Zenon DEF uvmcreate
  <2>2. CASE mem.free # {}
    <3>1. th' = [th EXCEPT ![p].pc = "trampoline", ![p].t = kalloc(mem)] /\ proc' = proc
      BY <1>4, <2>2, Zenon DEF uvmcreate
    <3>2. kalloc(mem) \in Pages \cup {0}
      BY <2>2, FreshPage, Zenon
    <3> QED BY <3>1, <3>2, RecordsTyped, CallFields, LocationsAre, Zenon
  <2> QED BY <2>1, <2>2, Zenon
<1>5. ASSUME NEW p \in Procs, map_trampoline(p)
      PROVE  proc' \in [Procs -> ProcType] /\ th' \in [Procs -> CallType]
  <2>1. CASE CanWalk(mem, th[p].t, TRAMPOLINE)
    <3>1. th' = [th EXCEPT ![p].pc = "trapframe"] /\ proc' = proc
      BY <1>5, <2>1, Zenon DEF map_trampoline
    <3> QED BY <3>1, RecordsTyped, CallFields, LocationsAre, Zenon
  <2>2. CASE ~CanWalk(mem, th[p].t, TRAMPOLINE)
    BY <1>5, <2>2, FailTypes, Zenon DEF map_trampoline
  <2> QED BY <2>1, <2>2, Zenon
<1>6. ASSUME NEW p \in Procs, map_trapframe(p)
      PROVE  proc' \in [Procs -> ProcType] /\ th' \in [Procs -> CallType]
  <2>1. CASE CanWalk(mem, th[p].t, TRAPFRAME)
    <3>1. PICK l \in Locations : th' = [th EXCEPT ![p].pc = l]
      BY <1>6, <2>1, LocationsAre, Zenon DEF map_trapframe
    <3>2. proc' = proc \/ proc' = [proc EXCEPT ![th[p].np].pagetable = th[p].t]
      BY <1>6, <2>1, Zenon DEF map_trapframe
    <3>3. th' \in [Procs -> CallType]
      BY <3>1, RecordsTyped, CallFields, LocationsAre, Zenon
    <3>4. th[p].t \in Pages \cup {0} /\ proc \in [Procs -> ProcType]
      BY Zenon DEF IInv, TypeOK, CallType
    <3>5. proc' \in [Procs -> ProcType]
      <4>1. [proc EXCEPT ![th[p].np].pagetable = th[p].t] \in [Procs -> ProcType]
        BY <3>4, ProcFields, Zenon
      <4> QED BY <3>2, <3>4, <4>1, Zenon
    <3> QED BY <3>3, <3>5, Zenon
  <2>2. CASE ~CanWalk(mem, th[p].t, TRAPFRAME)
    BY <1>6, <2>2, FailTypes, Zenon DEF map_trapframe
  <2> QED BY <2>1, <2>2, Zenon
<1>7. ASSUME NEW p \in Procs, uvmcopy(p)
      PROVE  proc' \in [Procs -> ProcType] /\ th' \in [Procs -> CallType]
  BY <1>7, Arithmetic, StartTypes, LocationsAre, Zenon
       DEF uvmcopy, Return, IInv, TypeOK, CallType, ProcType
<1>8. ASSUME NEW p \in Procs, uvmcopy_fail(p)
      PROVE  proc' \in [Procs -> ProcType] /\ th' \in [Procs -> CallType]
  BY <1>8, StartTypes, LocationsAre, Zenon DEF uvmcopy_fail, Return, IInv, TypeOK,
       CallType, ProcType
<1>9. ASSUME NEW p \in Procs, fork_done(p)
      PROVE  proc' \in [Procs -> ProcType] /\ th' \in [Procs -> CallType]
  <2>1. /\ proc' = [proc EXCEPT ![th[p].np].sz = proc[p].sz, ![th[p].np].state = "RUNNING"]
        /\ th' = [th EXCEPT ![p] = Idle]
    BY <1>9, Zenon DEF fork_done, Return
  <2>2. proc' \in [Procs -> ProcType]
    BY <2>1, RecordsTyped, ProcFields, Zenon
  <2> QED BY <2>1, <2>2, RecordsTyped, OneEntry, StartTypes, Zenon
<1>10. ASSUME NEW p \in Procs, fetch_arg(p)
      PROVE  proc' \in [Procs -> ProcType] /\ th' \in [Procs -> CallType]
  BY <1>10, FreshPage, StartTypes, LocationsAre, Zenon
       DEF fetch_arg, Return, IInv, TypeOK, CallType, ProcType
<1>11. ASSUME NEW p \in Procs, argv_bad(p)
      PROVE  proc' \in [Procs -> ProcType] /\ th' \in [Procs -> CallType]
  BY <1>11, StartTypes, LocationsAre, Zenon DEF argv_bad, Return, IInv, TypeOK,
       CallType, ProcType
<1>12. ASSUME NEW p \in Procs, exec(p)
      PROVE  proc' \in [Procs -> ProcType] /\ th' \in [Procs -> CallType]
  BY <1>12, StartTypes, LocationsAre, Zenon DEF exec, Return, IInv, TypeOK, CallType,
       ProcType
<1>13. ASSUME NEW p \in Procs, stack(p)
      PROVE  proc' \in [Procs -> ProcType] /\ th' \in [Procs -> CallType]
  BY <1>13, Arithmetic, StartTypes, LocationsAre, Zenon
       DEF stack, Return, IInv, TypeOK, CallType, ProcType
<1>14. ASSUME NEW p \in Procs, segment_done(p)
      PROVE  proc' \in [Procs -> ProcType] /\ th' \in [Procs -> CallType]
  <2>1. /\ th' = [th EXCEPT ![p].pc = "segments", ![p].call = "exec", ![p].sz = th[p].new]
        /\ proc' = proc
    BY <1>14, Zenon DEF segment_done
  <2> QED BY <2>1, RecordsTyped, CallFields, LocationsAre, Zenon
<1>15. ASSUME NEW p \in Procs, stack_done(p)
      PROVE  proc' \in [Procs -> ProcType] /\ th' \in [Procs -> CallType]
  <2>1. th' = [th EXCEPT ![p].pc = "commit", ![p].sz = th[p].new] /\ proc' = proc
    BY <1>15, Zenon DEF stack_done
  <2> QED BY <2>1, RecordsTyped, CallFields, LocationsAre, Zenon
<1>16. ASSUME NEW p \in Procs, NEW end \in Ends, segment(p, end)
      PROVE  proc' \in [Procs -> ProcType] /\ th' \in [Procs -> CallType]
  <2>1. th[p] \in CallType /\ end \in Nat /\ PGROUNDUP(th[p].sz) \in Nat
    BY Arithmetic, RecordsTyped, Zenon
  <2>2. PICK e \in CallType : th' = [th EXCEPT ![p] = e] /\ proc' = proc
    <3>1. [th[p] EXCEPT !.pc = "uvmalloc", !.call = "segment", !.old = PGROUNDUP(th[p].sz),
                        !.a = PGROUNDUP(th[p].sz), !.new = end] \in CallType
      BY <2>1, LocationsAre, Zenon DEF CallType
    <3> QED BY <1>16, <2>1, <3>1, Zenon DEF segment
  <2> QED BY <2>2, RecordsTyped, OneEntry, Zenon
<1>17. ASSUME NEW p \in Procs, commit(p)
      PROVE  proc' \in [Procs -> ProcType] /\ th' \in [Procs -> CallType]
  <2>1. /\ proc' = [proc EXCEPT ![p].pagetable = th[p].t, ![p].sz = th[p].sz]
        /\ th' = [th EXCEPT ![p] = Idle]
    BY <1>17, Zenon DEF commit, Return
  <2>2. proc' \in [Procs -> ProcType]
    BY <2>1, RecordsTyped, ProcFields, Zenon
  <2> QED BY <2>1, <2>2, RecordsTyped, OneEntry, StartTypes, Zenon
<1>18. ASSUME NEW p \in Procs, exec_goto_bad(p)
      PROVE  proc' \in [Procs -> ProcType] /\ th' \in [Procs -> CallType]
  BY <1>18, StartTypes, LocationsAre, Zenon DEF exec_goto_bad, Return, IInv, TypeOK,
       CallType, ProcType
<1>19. ASSUME NEW p \in Procs, exec_bad(p)
      PROVE  proc' \in [Procs -> ProcType] /\ th' \in [Procs -> CallType]
  BY <1>19, StartTypes, LocationsAre, Zenon DEF exec_bad, Return, IInv, TypeOK,
       CallType, ProcType
<1>20. ASSUME NEW p \in Procs, exit(p)
      PROVE  proc' \in [Procs -> ProcType] /\ th' \in [Procs -> CallType]
  BY <1>20, StartTypes, LocationsAre, Zenon DEF exit, Return, IInv, TypeOK, CallType,
       ProcType
<1>21. ASSUME NEW p \in Procs, sys_exec(p)
      PROVE  proc' \in [Procs -> ProcType] /\ th' \in [Procs -> CallType]
  BY <1>21, StartTypes, LocationsAre, Zenon DEF sys_exec, Return, IInv, TypeOK,
       CallType, ProcType
<1>22. ASSUME NEW p \in Procs, NEW n \in Sbrks, growproc(p, n)
      PROVE  proc' \in [Procs -> ProcType] /\ th' \in [Procs -> CallType]
  BY <1>22, Arithmetic, StartTypes, LocationsAre, Zenon
       DEF growproc, Return, IInv, TypeOK, CallType, ProcType
<1>23. ASSUME NEW p \in Procs, NEW n \in Sbrks, growproc_shrink(p, n)
      PROVE  proc' \in [Procs -> ProcType] /\ th' \in [Procs -> CallType]
  <2>1. (proc[p].sz + n) % UINT \in Nat
    BY Arithmetic, Zenon
  <2>2. th' = th /\ (proc' = proc \/ proc' = [proc EXCEPT ![p].sz = (proc[p].sz + n) % UINT])
    BY <1>23, Zenon DEF growproc_shrink
  <2> QED BY <2>1, <2>2, Zenon DEF IInv, TypeOK, ProcType
<1>24. ASSUME NEW p \in Procs, NEW q \in Procs, fork(p, q)
      PROVE  proc' \in [Procs -> ProcType] /\ th' \in [Procs -> CallType]
  BY <1>24, FreshPage, StartTypes, LocationsAre, Zenon DEF fork, Return, IInv, TypeOK,
       CallType, ProcType
<1>25. ASSUME NEW p \in Procs, NEW q \in Procs, wait(p, q)
      PROVE  proc' \in [Procs -> ProcType] /\ th' \in [Procs -> CallType]
  BY <1>25, StartTypes, LocationsAre, Zenon DEF wait, Return, IInv, TypeOK, CallType,
       ProcType
<1>26. CASE UNCHANGED vars
  BY <1>26, Zenon DEF vars, IInv, TypeOK
<1> QED
  BY <1>1, <1>2, <1>3, <1>4, <1>5, <1>6, <1>7, <1>8, <1>9, <1>10, <1>11, <1>12, <1>13,
       <1>14, <1>15, <1>16, <1>17, <1>18, <1>19, <1>20, <1>21, <1>22, <1>23, <1>24,
       <1>25, <1>26, Zenon DEF Next, Step

------------------------------------------------------------------------------
\* The steps that the calls take: control and sizes.

\* A step of p changes the record of its call, and at most one process's slot x.
Only(p, x) ==
  /\ \A q \in Procs \ {p} : th'[q] = th[q]
  /\ \A q \in Procs \ {x} : proc'[q] = proc[q]

\* A step that sets one call's record changes no other.
LEMMA ThEntry ==
  ASSUME IInv, NEW p \in Procs, NEW e, th' = [th EXCEPT ![p] = e]
  PROVE  th'[p] = e /\ \A q \in Procs \ {p} : th'[q] = th[q]
BY RecordsTyped, OneEntry, Zenon

\* A step that sets one process's record changes no other.
LEMMA ProcEntry ==
  ASSUME IInv, NEW x \in Procs, NEW r, proc' = [proc EXCEPT ![x] = r]
  PROVE  proc'[x] = r /\ \A q \in Procs \ {x} : proc'[q] = proc[q]
BY RecordsTyped, OneEntry, Zenon

\* What is said of a process holds as long as its records stay.
LEMMA ControlFrame ==
  ASSUME NEW q \in Procs, CallOK(q), th'[q] = th[q], proc'[q] = proc[q]
  PROVE  CallOK(q)'
BY Zenon DEF CallOK

\* What is said of a child being made holds as long as its slot stays.
LEMMA ForkFrame ==
  ASSUME NEW q \in Procs, ForkOK(q), th'[q] = th[q],
         th[q].call = "fork" => proc'[th[q].np] = proc[th[q].np]
  PROVE  ForkOK(q)'
BY Zenon DEF ForkOK

\* The sizes of a process are as good as before when its records stay.
LEMMA SizeFrame ==
  ASSUME NEW q \in Procs, SizeOK(q), th'[q] = th[q], proc'[q] = proc[q]
  PROVE  SizeOK(q)'
BY Zenon DEF SizeOK, SizeOf

\* What p's call is about is p itself, the child it makes, or a slot without a call.
Mine(p, x) ==
  /\ \A q \in Procs \ {p} : th[q].np # x
  /\ x # p => th[x] = Idle
  /\ x = p \/ th[p].call # "sbrk"
  /\ x = th[p].np \/ th[p].pc # "uvmcopy"

\* A running process is nobody's child being made.
LEMMA MineSelf ==
  ASSUME IInv, NEW p \in Procs, proc[p].state = "RUNNING", th[p].pc # "uvmcopy"
  PROVE  Mine(p, p)
<1>1. ASSUME NEW q \in Procs, th[q].np = p PROVE FALSE
  BY <1>1, Constants, Zenon DEF IInv, Control, CallOK, ForkOK
<1> QED BY <1>1, Zenon DEF Mine

\* A child being made has one parent, and makes no call.
LEMMA MineChild ==
  ASSUME IInv, NEW p \in Procs, th[p].call = "fork"
  PROVE  th[p].np \in Procs /\ th[p].np # p /\ Mine(p, th[p].np)
<1>1. th[p].np \in Procs
  <2>1. th[p].np \in Procs \cup {0} /\ CallOK(p)
    BY RecordsTyped, Zenon DEF IInv, Control, CallType
  <2> QED BY <2>1, Zenon DEF CallOK
<1>2. proc[th[p].np].state = "USED" /\ th[p].pc # "idle"
  BY Zenon DEF IInv, Control, CallOK, ForkOK
<1>3. th[th[p].np] = Idle
  BY <1>1, <1>2, Zenon DEF IInv, Control, CallOK
<1>4. th[p].np # p
  BY <1>2, Zenon DEF IInv, Control, CallOK
<1>5. ASSUME NEW q \in Procs \ {p} PROVE th[q].np # th[p].np
  BY <1>1, Constants, Zenon DEF IInv, Control
<1> QED BY <1>1, <1>3, <1>4, <1>5, Zenon DEF Mine

\* A slot that is unused or a zombie is in no call.
LEMMA MineOther ==
  ASSUME IInv, NEW p \in Procs, th[p] = Idle, NEW x \in Procs, proc[x].state \in {"UNUSED", "ZOMBIE"}
  PROVE  Mine(p, x)
<1>1. ASSUME NEW q \in Procs, th[q].np = x PROVE FALSE
  BY <1>1, Constants, Zenon DEF IInv, Control, CallOK, ForkOK
<1>2. th[x] = Idle
  BY Zenon DEF IInv, Control, CallOK
<1> QED BY <1>1, <1>2, StartFields, Zenon DEF Mine

\* A process without a call.
LEMMA IdleOK == ASSUME NEW q \in Procs, th'[q] = Idle PROVE CallOK(q)' /\ ForkOK(q)' /\ CallTable(q)'
BY StartFields, Zenon DEF CallOK, ForkOK, CallTable

\* Control and Sizes hold after a step if they do for p and x.
LEMMA ControlIs ==
  ASSUME IInv, NEW p \in Procs, NEW x \in Procs, Mine(p, x), Only(p, x),
         CallOK(p)', ForkOK(p)', SlotOK(x)', th'[p].np \in {0, th[p].np, x}
  PROVE  Control'
<1>1. ASSUME NEW q \in Procs PROVE CallOK(q)'
  <2>1. CASE q # p /\ q # x
    BY <2>1, ControlFrame, Zenon DEF Only, IInv, Control
  <2>2. CASE q # p /\ q = x
    BY <2>2, IdleOK, Zenon DEF Mine, Only
  <2> QED BY <2>1, <2>2, Zenon
<1>2. ASSUME NEW q \in Procs PROVE ForkOK(q)'
  <2>1. ForkOK(q) /\ CallOK(q)
    BY Zenon DEF IInv, Control
  <2>2. CASE q # p
    <3>1. th[q].call = "fork" => th[q].np \in Procs \ {x}
      BY <2>1, <2>2, Zenon DEF CallOK, IInv, TypeOK, CallType, Mine
    <3> QED BY <2>1, <2>2, <3>1, ForkFrame, Zenon DEF Only
  <2> QED BY <2>2, Zenon
<1>3. ASSUME NEW q \in Procs PROVE SlotOK(q)'
  <2>1. SlotOK(q)
    BY Zenon DEF IInv, Control
  <2>2. CASE q # x
    BY <2>1, <2>2, Zenon DEF Only, SlotOK
  <2> QED BY <2>2, Zenon
<1>4. ASSUME NEW q \in Procs \ {p}, th'[q].np = th'[p].np PROVE th'[q].np = 0
  BY <1>4, Zenon DEF IInv, Control, Only, Mine
<1>5. ASSUME NEW q \in Procs, NEW y \in Procs, th'[q].np = th'[y].np, th'[q].np # 0
      PROVE  q = y
  <2>1. CASE q # p /\ y # p
    <3>1. th'[q] = th[q] /\ th'[y] = th[y]
      BY <2>1, Zenon DEF Only
    <3> QED BY <1>5, <3>1, Zenon DEF IInv, Control
  <2> QED BY <1>4, <1>5, <2>1, Zenon
<1> QED BY <1>1, <1>2, <1>3, <1>5, Zenon DEF Control

\* Sizes holds after a step if it does for p, and for the size of x.
LEMMA SizesAre ==
  ASSUME IInv, NEW p \in Procs, NEW x \in Procs, Mine(p, x), Only(p, x), SizeOK(p)',
         proc'[x].sz <= UMAX
  PROVE  Sizes'
<1>1. ASSUME NEW q \in Procs PROVE SizeOK(q)'
  <2>1. CASE q # p /\ q # x
    BY <2>1, SizeFrame, Zenon DEF Only, IInv, Sizes
  <2>2. CASE q # p /\ q = x
    <3>1. th'[q] = Idle
      BY <2>2, Zenon DEF Mine, Only
    <3> QED BY <2>2, <3>1, ZeroFits, StartFields, Zenon DEF SizeOK
  <2> QED BY <2>1, <2>2, Zenon
<1> QED BY <1>1, Zenon DEF Sizes

------------------------------------------------------------------------------
\* The steps that the calls take: page tables and owners.

\* The page tables that p's call and process x have, and those of the rest.
Own(p, x) == {proc[x].pagetable, th[p].t, 0}
Rest(p, x) == {proc[q].pagetable : q \in Procs \ {x}} \cup {th[q].t : q \in Procs \ {p}}
\* What becomes of the page tables in use.
RootsKept == Roots' = Roots
RootsAdded(g) == Roots' = Roots \cup {g}
RootsRemoved(t) == Roots' = Roots \ {t}

\* Roots are those two.
LEMMA RootsSplit ==
  ASSUME NEW p \in Procs, NEW x \in Procs
  PROVE  Roots = (Own(p, x) \cup Rest(p, x)) \ {0}
BY Zenon DEF Roots, Own, Rest

\* After a step the page tables of the rest are the same.
LEMMA RootsSplitNext ==
  ASSUME NEW p \in Procs, NEW x \in Procs, Only(p, x)
  PROVE  Roots' = (Own(p, x)' \cup Rest(p, x)) \ {0}
<1>1. Rest(p, x)' = Rest(p, x)
  BY Zenon DEF Rest, Only
<1>2. Roots' = (Own(p, x)' \cup Rest(p, x)') \ {0}
  BY Zenon DEF Roots, Own, Rest
<1> QED BY <1>1, <1>2, Zenon

\* The same tables, one more, or one less.
LEMMA KeepRoots ==
  ASSUME NEW p \in Procs, NEW x \in Procs, Only(p, x), Own(p, x)' = Own(p, x)
  PROVE  RootsKept
<1>1. Roots = (Own(p, x) \cup Rest(p, x)) \ {0} /\ Roots' = (Own(p, x)' \cup Rest(p, x)) \ {0}
  BY RootsSplit, RootsSplitNext, Zenon
<1> QED BY <1>1, Zenon DEF RootsKept

\* One more.
LEMMA AddRoot ==
  ASSUME NEW p \in Procs, NEW x \in Procs, Only(p, x), NEW g, g # 0,
         Own(p, x)' = Own(p, x) \cup {g}
  PROVE  RootsAdded(g)
<1>1. Roots = (Own(p, x) \cup Rest(p, x)) \ {0} /\ Roots' = (Own(p, x)' \cup Rest(p, x)) \ {0}
  BY RootsSplit, RootsSplitNext, Zenon
<1> QED BY <1>1, Zenon DEF RootsAdded

\* One less.
LEMMA RemoveRoot ==
  ASSUME NEW p \in Procs, NEW x \in Procs, Only(p, x), NEW t, t # 0, t \notin Rest(p, x),
         Own(p, x)' = Own(p, x) \ {t}
  PROVE  RootsRemoved(t)
<1>1. Roots = (Own(p, x) \cup Rest(p, x)) \ {0} /\ Roots' = (Own(p, x)' \cup Rest(p, x)) \ {0}
  BY RootsSplit, RootsSplitNext, Zenon
<1> QED BY <1>1, Zenon DEF RootsRemoved

\* The trapframe of process x and the arguments of p's call.
TrapframeOwner(x) == <<"trapframe", x, 0, proc[x].trapframe>>
ArgvOwner(p, g) == <<"argv", p, 0, g>>
ArgvOf(p) == {ArgvOwner(p, g) : g \in th[p].argv}
\* What becomes of the other owners.
OthersKept == Others' = Others
OthersAdded(w) == Others' = Others \cup {w}
OthersRemoved(W) == Others' = Others \ W

\* The trapframes stay with their processes.
LEMMA KeepTrapframes ==
  ASSUME NEW p \in Procs, NEW x \in Procs, Only(p, x), proc'[x].trapframe = proc[x].trapframe
  PROVE  TrapframeOwners(proc') = TrapframeOwners(proc)
<1>1. \A q \in Procs : proc'[q].trapframe = proc[q].trapframe
  BY Zenon DEF Only
<1> QED BY <1>1, Zenon DEF TrapframeOwners

\* The arguments stay with their calls.
LEMMA KeepArgv ==
  ASSUME NEW p \in Procs, NEW x \in Procs, Only(p, x), th'[p].argv = th[p].argv
  PROVE  ArgvOwners(th') = ArgvOwners(th)
<1>1. \A q \in Procs : th'[q].argv = th[q].argv
  BY Zenon DEF Only
<1> QED BY <1>1, Zenon DEF ArgvOwners

\* So all owners outside the page tables stay.
LEMMA KeepOthers ==
  ASSUME NEW p \in Procs, NEW x \in Procs, Only(p, x), proc'[x].trapframe = proc[x].trapframe,
         th'[p].argv = th[p].argv
  PROVE  OthersKept
BY KeepTrapframes, KeepArgv, Zenon DEF OthersKept, Others

\* A process gets a trapframe, or a call an argument ...
LEMMA AddTrapframe ==
  ASSUME NEW p \in Procs, NEW x \in Procs, Only(p, x), th'[p].argv = th[p].argv,
         proc[x].trapframe = 0, proc'[x].trapframe # 0
  PROVE  OthersAdded(TrapframeOwner(x)')
<1>1. ArgvOwners(th') = ArgvOwners(th)
  BY KeepArgv, Zenon
<1>2. \A q \in Procs \ {x} : proc'[q].trapframe = proc[q].trapframe
  BY Zenon DEF Only
<1>3. TrapframeOwners(proc') = TrapframeOwners(proc) \cup {TrapframeOwner(x)'}
  BY <1>2 DEF TrapframeOwners, TrapframeOwner
<1> QED BY <1>1, <1>3, Zenon DEF OthersAdded, Others

\* exec() gets a page for one argument more.
LEMMA AddArgv ==
  ASSUME NEW p \in Procs, NEW x \in Procs, Only(p, x), proc'[x].trapframe = proc[x].trapframe,
         NEW g, th'[p].argv = th[p].argv \cup {g}
  PROVE  OthersAdded(ArgvOwner(p, g))
<1>1. TrapframeOwners(proc') = TrapframeOwners(proc)
  BY KeepTrapframes, Zenon
<1>2. \A q \in Procs \ {p} : th'[q].argv = th[q].argv
  BY Zenon DEF Only
<1>3. ArgvOwners(th') = ArgvOwners(th) \cup {ArgvOwner(p, g)}
  BY <1>2 DEF ArgvOwners, ArgvOwner
<1> QED BY <1>1, <1>3, Zenon DEF OthersAdded, Others

\* ... and loses them.
LEMMA DropTrapframe ==
  ASSUME NEW p \in Procs, NEW x \in Procs, Only(p, x), th'[p].argv = th[p].argv,
         proc[x].trapframe # 0, proc'[x].trapframe = 0
  PROVE  /\ OthersRemoved({TrapframeOwner(x)}) /\ {TrapframeOwner(x)} \in SUBSET Others
         /\ PagesOf({TrapframeOwner(x)}) = {proc[x].trapframe}
<1>1. ArgvOwners(th') = ArgvOwners(th)
  BY KeepArgv, Zenon
<1>2. \A q \in Procs \ {x} : proc'[q].trapframe = proc[q].trapframe
  BY Zenon DEF Only
<1>3. TrapframeOwners(proc') = TrapframeOwners(proc) \ {TrapframeOwner(x)}
  BY <1>2 DEF TrapframeOwners, TrapframeOwner
<1>4. TrapframeOwner(x) \notin ArgvOwners(th)
  BY DEF TrapframeOwner, ArgvOwners
<1>5. TrapframeOwner(x) \in TrapframeOwners(proc)
  BY Zenon DEF TrapframeOwner, TrapframeOwners
<1>6. PagesOf({TrapframeOwner(x)}) = {proc[x].trapframe}
  BY DEF PagesOf, TrapframeOwner
<1> QED BY <1>1, <1>3, <1>4, <1>5, <1>6, Zenon DEF OthersRemoved, Others

\* exec() gives back the pages of its arguments.
LEMMA DropArgv ==
  ASSUME NEW p \in Procs, NEW x \in Procs, Only(p, x), proc'[x].trapframe = proc[x].trapframe,
         th'[p].argv = {}
  PROVE  /\ OthersRemoved(ArgvOf(p)) /\ ArgvOf(p) \in SUBSET Others
         /\ PagesOf(ArgvOf(p)) = th[p].argv
<1>1. TrapframeOwners(proc') = TrapframeOwners(proc)
  BY KeepTrapframes, Zenon
<1>2. \A q \in Procs \ {p} : th'[q].argv = th[q].argv
  BY Zenon DEF Only
<1>3. ArgvOwners(th') = ArgvOwners(th) \ ArgvOf(p)
  BY <1>2 DEF ArgvOwners, ArgvOf, ArgvOwner
<1>4. ArgvOf(p) \cap TrapframeOwners(proc) = {}
  BY DEF TrapframeOwners, ArgvOf, ArgvOwner
<1>5. ArgvOf(p) \subseteq ArgvOwners(th)
  BY Zenon DEF ArgvOwners, ArgvOf, ArgvOwner
<1>6. PagesOf(ArgvOf(p)) = th[p].argv
  <2>1. \A g : ArgvOwner(p, g)[4] = g
    BY Zenon DEF ArgvOwner
  <2>2. PagesOf(ArgvOf(p)) \subseteq th[p].argv
    <3>1. ASSUME NEW o \in ArgvOf(p) PROVE o[4] \in th[p].argv
      BY <2>1, Zenon DEF ArgvOf
    <3> QED BY <3>1, Zenon DEF PagesOf
  <2>3. ASSUME NEW g \in th[p].argv PROVE g \in PagesOf(ArgvOf(p))
    <3>1. ArgvOwner(p, g) \in ArgvOf(p)
      BY Zenon DEF ArgvOf
    <3> QED BY <2>1, <3>1, Zenon DEF PagesOf
  <2> QED BY <2>2, <2>3, Zenon
<1> QED BY <1>1, <1>3, <1>4, <1>5, <1>6, Zenon DEF OthersRemoved, Others

\* Nobody else has the page tables of p's call and of the slot it is about.
Apart(p, x) == \A r \in Own(p, x) : r # 0 => r \notin Rest(p, x)

Alien(p, x, t) ==
  /\ \A q \in Procs \ {x} : proc[q].pagetable # t
  /\ \A q \in Procs \ {p} : th[q].t # t

\* A page table that is alien to the others is not one of the rest.
LEMMA NotRest ==
  ASSUME NEW p \in Procs, NEW x \in Procs, NEW t
  PROVE  t \notin Rest(p, x) <=> Alien(p, x, t)
BY Zenon DEF Rest, Alien

\* p has its page tables, and those of the slot it works on, to itself.
LEMMA MineApart ==
  ASSUME IInv, NEW p \in Procs, NEW x \in Procs, Mine(p, x)
  PROVE  Apart(p, x)
<1>1. ASSUME proc[x].pagetable # 0, NEW q \in Procs \ {x} PROVE proc[q].pagetable # proc[x].pagetable
  BY <1>1, Zenon DEF IInv, Unshared
<1>2. ASSUME proc[x].pagetable # 0, NEW q \in Procs \ {p} PROVE th[q].t # proc[x].pagetable
  BY <1>2, StartFields, Zenon DEF IInv, Unshared, Mine
<1>3. ASSUME th[p].t # 0, NEW q \in Procs \ {p} PROVE th[q].t # th[p].t
  BY <1>3, Zenon DEF IInv, Unshared
<1>4. ASSUME th[p].t # 0, NEW q \in Procs \ {x} PROVE proc[q].pagetable # th[p].t
  BY <1>4, Zenon DEF IInv, Unshared, Mine
<1>5. ASSUME NEW r \in Own(p, x), r # 0 PROVE r \notin Rest(p, x)
  <2>1. r = proc[x].pagetable \/ r = th[p].t
    BY <1>5, Zenon DEF Own
  <2>2. Alien(p, x, r)
    <3>1. CASE r = proc[x].pagetable
      BY <1>1, <1>2, <1>5, <3>1, Zenon DEF Alien
    <3>2. CASE r = th[p].t
      BY <1>3, <1>4, <1>5, <3>2, Zenon DEF Alien
    <3> QED BY <2>1, <3>1, <3>2, Zenon
  <2> QED BY <2>2, NotRest, Zenon
<1> QED BY <1>5, Zenon DEF Apart

\* Unshared holds after a step that takes no page table of the rest.
LEMMA UnsharedIs ==
  ASSUME IInv, NEW p \in Procs, NEW x \in Procs, Mine(p, x), Only(p, x),
         \A r \in Own(p, x)' : r # 0 => r \notin Rest(p, x),
         th'[p].t # 0 /\ th'[p].t = proc'[x].pagetable =>
           (th'[p].call = "sbrk" /\ x = p) \/ (th'[p].pc = "uvmcopy" /\ x = th'[p].np)
  PROVE  Unshared'
<1>1. /\ \A q \in Procs \ {p} : th'[q] = th[q]
      /\ \A q \in Procs \ {x} : proc'[q] = proc[q]
  BY Zenon DEF Only
<1>2. proc'[x].pagetable \in Own(p, x)' /\ th'[p].t \in Own(p, x)'
  BY Zenon DEF Own
<1>3. ASSUME proc'[x].pagetable # 0
      PROVE  /\ \A q \in Procs \ {x} : proc'[q].pagetable # proc'[x].pagetable
             /\ \A q \in Procs \ {p} : th'[q].t # proc'[x].pagetable
  <2>1. Alien(p, x, proc'[x].pagetable)
    BY <1>2, <1>3, NotRest, Zenon
  <2> QED BY <1>1, <2>1, Zenon DEF Alien
<1>4. ASSUME th'[p].t # 0
      PROVE  /\ \A q \in Procs \ {x} : proc'[q].pagetable # th'[p].t
             /\ \A q \in Procs \ {p} : th'[q].t # th'[p].t
  <2>1. Alien(p, x, th'[p].t)
    BY <1>2, <1>4, NotRest, Zenon
  <2> QED BY <1>1, <2>1, Zenon DEF Alien
<1>5. ASSUME NEW q \in Procs, NEW y \in Procs, proc'[q].pagetable = proc'[y].pagetable,
             proc'[q].pagetable # 0
      PROVE  q = y
  <2>1. CASE q # x /\ y # x
    <3>1. proc[q].pagetable = proc[y].pagetable /\ proc[q].pagetable # 0
      BY <1>1, <1>5, <2>1, Zenon
    <3> QED BY <3>1, Zenon DEF IInv, Unshared
  <2> QED BY <1>3, <1>5, <2>1, Zenon
<1>6. ASSUME NEW q \in Procs, NEW y \in Procs, th'[q].t = th'[y].t, th'[q].t # 0
      PROVE  q = y
  <2>1. CASE q # p /\ y # p
    <3>1. th[q].t = th[y].t /\ th[q].t # 0
      BY <1>1, <1>6, <2>1, Zenon
    <3> QED BY <3>1, Zenon DEF IInv, Unshared
  <2> QED BY <1>4, <1>6, <2>1, Zenon
<1>7. ASSUME NEW q \in Procs, NEW y \in Procs, th'[q].t = proc'[y].pagetable, th'[q].t # 0
      PROVE  (th'[q].call = "sbrk" /\ y = q) \/ (th'[q].pc = "uvmcopy" /\ y = th'[q].np)
  <2>1. CASE q # p /\ y # x
    <3>1. th[q].t = proc[y].pagetable /\ th[q].t # 0
      BY <1>1, <1>7, <2>1, Zenon
    <3>2. (th[q].call = "sbrk" /\ y = q) \/ (th[q].pc = "uvmcopy" /\ y = th[q].np)
      BY <3>1, Zenon DEF IInv, Unshared
    <3> QED BY <1>1, <2>1, <3>2, Zenon
  <2>2. CASE q # p /\ y = x
    BY <1>3, <1>7, <2>2, Zenon
  <2>3. CASE q = p /\ y # x
    BY <1>4, <1>7, <2>3, Zenon
  <2>4. CASE q = p /\ y = x
    BY <1>7, <2>4, Zenon
  <2> QED BY <2>1, <2>2, <2>3, <2>4, Zenon
<1> QED BY <1>5, <1>6, <1>7, Zenon DEF Unshared

\* Only page table t is changed, one that nobody else has.
OnlyTable(t) == \A r \in Pages \ {t} : mem'.pt[r] = mem.pt[r]

\* Tables holds after a step if it does for p and x, and one table changed.
LEMMA TablesAre ==
  ASSUME IInv, NEW p \in Procs, NEW x \in Procs, Mine(p, x), Only(p, x), NEW t,
         OnlyTable(t), t \notin Rest(p, x), ProcTable(p)', ProcTable(x)', CallTable(p)',
         \A r \in Pages \ {t} : r \in Roots => r \in Roots', 
         t \in Pages \ Roots' => mem'.pt[t] = Empty
  PROVE  Tables'
<1>1. ASSUME NEW q \in Procs PROVE CallTable(q)'
  <2>1. CASE q # p /\ q = x
    BY <2>1, IdleOK, Zenon DEF Mine, Only
  <2>2. CASE q # p /\ th[q].t # 0
    <3>1. th[q].t \in Pages \ {t}
      BY <2>2, Zenon DEF IInv, TypeOK, CallType, Rest
    <3>2. th'[q] = th[q] /\ mem'.pt[th[q].t] = mem.pt[th[q].t]
      BY <2>2, <3>1, Zenon DEF OnlyTable, Only
    <3>3. CallTable(q)
      BY Zenon DEF IInv, Tables
    <3> QED BY <3>2, <3>3, Zenon DEF CallTable, Maps, MapsOnly
  <2>3. CASE q # p /\ th[q].t = 0
    <3>1. th'[q] = th[q] /\ CallOK(q)
      BY <2>3, Zenon DEF Only, IInv, Control
    <3> QED BY <2>3, <3>1, Zenon DEF CallTable, CallOK
  <2> QED BY <2>1, <2>2, <2>3, Zenon
<1>2. ASSUME NEW q \in Procs PROVE ProcTable(q)'
  <2>1. CASE q # p /\ q # x
    <3>1. th'[q] = th[q] /\ proc'[q] = proc[q] /\ ProcTable(q) /\ SlotOK(q)
      BY <2>1, Zenon DEF Only, IInv, Control, Tables
    <3>2. CASE proc[q].pagetable # 0
      <4>1. proc[q].pagetable \in Pages \ {t}
        BY <2>1, <3>2, Zenon DEF IInv, TypeOK, ProcType, Rest
      <4>2. mem'.pt[proc[q].pagetable] = mem.pt[proc[q].pagetable]
        BY <4>1, Zenon DEF OnlyTable
      <4> QED BY <3>1, <4>2, Zenon DEF ProcTable, Maps
    <3>3. CASE proc[q].pagetable = 0
      BY <3>1, <3>3, Zenon DEF ProcTable, SlotOK
    <3> QED BY <3>2, <3>3, Zenon
  <2> QED BY <2>1, Zenon
<1>3. ASSUME NEW r \in Pages \ Roots' PROVE mem'.pt[r] = Empty
  BY <1>3, Zenon DEF IInv, Tables, OnlyTable
<1> QED BY <1>1, <1>2, <1>3, Zenon DEF Tables

------------------------------------------------------------------------------
\* The invariant after a step.

\* What the invariant says of one process, and of a step's p and x.
LEMMA Locals ==
  ASSUME IInv, NEW p \in Procs
  PROVE  /\ CallOK(p) /\ ForkOK(p) /\ SlotOK(p) /\ SizeOK(p) /\ ProcTable(p) /\ CallTable(p)
         /\ th[p] \in CallType /\ proc[p] \in ProcType
BY Zenon DEF IInv, TypeOK, Control, Sizes, Tables

Local(p, x) ==
  /\ CallOK(p) /\ ForkOK(p) /\ SlotOK(x) /\ SizeOK(p) /\ proc[x].sz <= UMAX
  /\ th[p].t # 0 /\ th[p].t = proc[x].pagetable =>
       (th[p].call = "sbrk" /\ x = p) \/ (th[p].pc = "uvmcopy" /\ x = th[p].np)
  /\ ProcTable(p) /\ ProcTable(x) /\ CallTable(p)

\* ExactIs, of the next state.
LEMMA ExactNext == TypeOK' /\ Exact(mem', Roots', Others') => PagesExact'
<1>1. TypeOK' => (PagesExact' <=> Exact(mem, Roots, Others)')
  BY ExactIs, PTL
<1>2. Exact(mem, Roots, Others)' = Exact(mem', Roots', Others')
  BY Zenon DEF Exact
<1> QED BY <1>1, <1>2, Zenon

\* It holds again when it does for p and x, and memory is exact.
LEMMA StepInv ==
  ASSUME IInv, [Next]_vars, NEW p \in Procs, NEW x \in Procs, Mine(p, x), Only(p, x), Local(p, x)',
         th'[p].np \in {0, th[p].np, x}, panicked' = "no",
         \A r \in Own(p, x)' : r # 0 => r \notin Rest(p, x),
         mem' \in MemType, Exact(mem', Roots', Others'),
         NEW t, OnlyTable(t), t \notin Rest(p, x), \A r \in Pages \ {t} : r \in Roots => r \in Roots',
         t \in Pages \ Roots' => mem'.pt[t] = Empty
  PROVE  IInv'
<1>1. TypeOK'
  BY RecordTypes, Zenon DEF TypeOK
<1>2. PagesExact'
  BY <1>1, ExactNext, Zenon
<1>3. Control'
  BY ControlIs, Zenon DEF Local
<1>4. Sizes'
  BY SizesAre, Zenon DEF Local
<1>5. Unshared'
  BY UnsharedIs, Zenon DEF Local
<1>6. Tables'
  BY TablesAre, Zenon DEF Local
<1> QED BY <1>1, <1>2, <1>3, <1>4, <1>5, <1>6, Zenon DEF IInv

\* Steps that leave memory alone.
LEMMA SameMemory ==
  ASSUME IInv, [Next]_vars, NEW p \in Procs, NEW x \in Procs, Mine(p, x), Only(p, x), Local(p, x)',
         th'[p].np \in {0, th[p].np, x}, panicked' = "no", mem' = mem,
         Own(p, x)' = Own(p, x), proc'[x].trapframe = proc[x].trapframe, th'[p].argv = th[p].argv
  PROVE  IInv'
<1>1. RootsKept /\ OthersKept
  BY KeepRoots, KeepOthers, Zenon
<1>2. Roots' = Roots /\ Others' = Others
  BY <1>1, Zenon DEF RootsKept, OthersKept
<1>3. Exact(mem', Roots', Others') /\ mem' \in MemType
  BY <1>2, ExactIs, Zenon DEF IInv, TypeOK
<1>4. Apart(p, x)
  BY MineApart, Zenon
<1>5. \A r \in Own(p, x)' : r # 0 => r \notin Rest(p, x)
  BY <1>4, Zenon DEF Apart
<1>6. TrampolinePage \notin Pages \cup {0}
  BY Constants DEF TrampolinePage, Pages
<1>7. Rest(p, x) \subseteq Pages \cup {0}
  <2>1. ASSUME NEW q \in Procs PROVE proc[q].pagetable \in Pages \cup {0} /\ th[q].t \in Pages \cup {0}
    BY Zenon DEF IInv, TypeOK, CallType, ProcType
  <2> QED BY <2>1, Zenon DEF Rest
<1>8. TrampolinePage \notin Rest(p, x) /\ TrampolinePage \notin Pages /\ OnlyTable(TrampolinePage)
  BY <1>6, <1>7, Zenon DEF OnlyTable
<1> QED BY <1>2, <1>3, <1>5, <1>8, StepInv, Zenon

\* sbrk() begins, and ends.
LEMMA StepGrowproc ==
  ASSUME IInv, [Next]_vars, NEW p \in Procs, NEW n \in Sbrks, growproc(p, n)
  PROVE  IInv'
<1>1. proc[p].state = "RUNNING" /\ th[p].pc = "idle" /\ panicked = "no" /\ n > 0
      /\ proc[p].sz + n <= UMAX /\ UNCHANGED <<mem, proc, panicked>>
  BY Zenon DEF growproc, At, UMAX
<1>2. CallOK(p) /\ SlotOK(p) /\ SizeOK(p) /\ ProcTable(p) /\ th[p] = Idle /\ proc[p] \in ProcType
  BY <1>1, Locals, Zenon DEF CallOK
<1>3. Mine(p, p)
  BY <1>1, MineSelf, Zenon
<1>4. /\ Only(p, p)
      /\ th'[p] = [Idle EXCEPT !.pc = "uvmalloc", !.call = "sbrk", !.t = proc[p].pagetable,
                 !.old = PGROUNDUP(proc[p].sz), !.a = PGROUNDUP(proc[p].sz), !.new = proc[p].sz + n]
  BY <1>1, OneEntry, RecordsTyped, Zenon DEF growproc, Only
<1>5. /\ th'[p].pc = "uvmalloc" /\ th'[p].call = "sbrk" /\ th'[p].np = 0 /\ th'[p].argv = {}
      /\ th'[p].t = proc[p].pagetable /\ th'[p].old = PGROUNDUP(proc[p].sz) /\ th'[p].sz = 0
      /\ th'[p].a = PGROUNDUP(proc[p].sz) /\ th'[p].new = proc[p].sz + n
  BY <1>4, Zenon DEF Idle
<1>6. proc[p].sz \in Nat /\ proc[p].sz + n \in Nat /\ n \in Nat
  BY <1>1, <1>2, SizeAssumption DEF ProcType
<1>7. /\ PageAt(PGROUNDUP(proc[p].sz)) = PageCount(proc[p].sz) /\ Aligned(PGROUNDUP(proc[p].sz))
      /\ PageCount(proc[p].sz) \in Nat /\ PageCount(proc[p].sz) <= PageCount(proc[p].sz + n)
  BY <1>6, RoundUp, WholePages, PagesMonotone DEF PageAt, PageCount
<1>8. CallOK(p)' /\ ForkOK(p)' /\ SlotOK(p)'
  BY <1>1, <1>2, <1>5, Zenon DEF CallOK, ForkOK, SlotOK
<1>9. SizeOK(p)' /\ (proc[p].sz <= UMAX)'
  BY <1>1, <1>2, <1>5, <1>6, <1>7, Constants DEF SizeOK, SizeOf
<1>10. ProcTable(p)' /\ CallTable(p)'
  BY <1>1, <1>2, <1>5, <1>7, StartFields, Zenon DEF ProcTable, CallTable, Maps
<1>11. Local(p, p)'
  BY <1>5, <1>8, <1>9, <1>10, Zenon DEF Local
<1>12. Own(p, p)' = Own(p, p) /\ th[p].argv = {}
  BY <1>1, <1>2, <1>5, StartFields, Zenon DEF Own
<1> QED BY <1>1, <1>3, <1>4, <1>5, <1>11, <1>12, SameMemory, Zenon

\* Sizes that fit take no more than UPAGES pages, and a loop ends at the size.
LEMMA FitPages ==
  ASSUME NEW s \in Nat
  PROVE  /\ s <= UMAX => PageCount(s) <= UPAGES
         /\ s <= SEGMAX => s <= UMAX
BY FewestPages, Constants DEF UMAX

\* The loop over pages that has reached the size has done all pages of it.
LEMMA LoopEnds ==
  ASSUME NEW a \in Nat, Aligned(a), NEW s \in Nat, PageAt(a) <= PageCount(s), a >= s
  PROVE  PageAt(a) = PageCount(s) /\ PageCount(s) \in Nat
BY PageLoop, RoundUp

\* growproc() ends with the new size.
LEMMA StepGrowprocDone ==
  ASSUME IInv, [Next]_vars, NEW p \in Procs, growproc_done(p)
  PROVE  IInv'
<1>1. th[p].pc = "uvmalloc" /\ panicked = "no" /\ th[p].a >= th[p].new /\ th[p].call = "sbrk"
      /\ UNCHANGED <<mem, panicked>>
  BY Zenon DEF growproc_done, At
<1>2. /\ CallOK(p) /\ SlotOK(p) /\ SizeOK(p) /\ ProcTable(p)
      /\ th[p] \in CallType /\ proc[p] \in ProcType
  BY Locals, Zenon
<1>3. /\ proc[p].state = "RUNNING" /\ th[p].t = proc[p].pagetable /\ th[p].argv = {}
      /\ proc[p].pagetable # 0 /\ th[p].np = 0
  BY <1>1, <1>2, Zenon DEF CallOK, SlotOK
<1>4. Mine(p, p)
  BY <1>1, <1>3, MineSelf, Zenon
<1>5. Only(p, p) /\ th'[p] = Idle /\ proc'[p] = [proc[p] EXCEPT !.sz = th[p].new]
  BY OneEntry, RecordsTyped, Zenon DEF growproc_done, Return, Only
<1>6. /\ proc'[p].state = "RUNNING" /\ proc'[p].pagetable = proc[p].pagetable
      /\ proc'[p].trapframe = proc[p].trapframe /\ proc'[p].sz = th[p].new
      /\ th'[p].pc = "idle" /\ th'[p].call = "none" /\ th'[p].np = 0 /\ th'[p].t = 0
      /\ th'[p].sz = 0 /\ th'[p].argv = {}
  BY <1>2, <1>3, <1>5, StartFields, Zenon DEF ProcType
<1>7. PageAt(th[p].a) = PageCount(th[p].new) /\ th[p].new <= UMAX
  BY <1>1, <1>2, LoopEnds, Zenon DEF SizeOK, CallType
<1>8. CallOK(p)' /\ ForkOK(p)' /\ SlotOK(p)'
  BY <1>2, <1>3, <1>5, <1>6, Zenon DEF CallOK, ForkOK, SlotOK
<1>9. SizeOK(p)' /\ (proc[p].sz <= UMAX)'
  BY <1>6, <1>7, ZeroFits, Zenon DEF SizeOK, SizeOf
<1>10. ProcTable(p)' /\ CallTable(p)'
  BY <1>1, <1>2, <1>3, <1>6, <1>7, Zenon DEF ProcTable, CallTable, Maps
<1>11. Local(p, p)'
  BY <1>6, <1>8, <1>9, <1>10, Zenon DEF Local
<1>12. Own(p, p)' = Own(p, p)
  BY <1>3, <1>6, Zenon DEF Own
<1> QED BY <1>1, <1>3, <1>4, <1>5, <1>6, <1>11, <1>12, SameMemory, Zenon

\* exit().
LEMMA StepExit ==
  ASSUME IInv, [Next]_vars, NEW p \in Procs, exit(p)
  PROVE  IInv'
<1>1. /\ th[p].pc = "idle" /\ panicked = "no" /\ proc[p].state = "RUNNING"
      /\ UNCHANGED <<mem, th, panicked>>
  BY Zenon DEF exit, At
<1>2. CallOK(p) /\ SlotOK(p) /\ SizeOK(p) /\ ProcTable(p) /\ th[p] = Idle /\ proc[p] \in ProcType
  BY <1>1, Locals, Zenon DEF CallOK
<1>3. Mine(p, p)
  BY <1>1, MineSelf, Zenon
<1>4. Only(p, p) /\ th'[p] = Idle /\ proc'[p] = [proc[p] EXCEPT !.state = "ZOMBIE"]
  BY <1>1, <1>2, OneEntry, RecordsTyped, Zenon DEF exit, Only
<1>5. /\ proc'[p].state = "ZOMBIE" /\ proc'[p].pagetable = proc[p].pagetable
      /\ proc'[p].trapframe = proc[p].trapframe /\ proc'[p].sz = proc[p].sz
      /\ th'[p].pc = "idle" /\ th'[p].call = "none" /\ th'[p].np = 0 /\ th'[p].t = 0
      /\ th'[p].sz = 0 /\ th'[p].argv = {}
  BY <1>2, <1>4, StartFields, Zenon DEF ProcType
<1>6. CallOK(p)' /\ ForkOK(p)' /\ SlotOK(p)'
  BY <1>1, <1>2, <1>4, <1>5, Zenon DEF CallOK, ForkOK, SlotOK
<1>7. SizeOK(p)' /\ (proc[p].sz <= UMAX)'
  BY <1>2, <1>5, ZeroFits, Zenon DEF SizeOK, SizeOf
<1>8. ProcTable(p)' /\ CallTable(p)'
  BY <1>1, <1>2, <1>5, Zenon DEF ProcTable, CallTable, Maps
<1>9. Local(p, p)'
  BY <1>5, <1>6, <1>7, <1>8, Zenon DEF Local
<1>10. Own(p, p)' = Own(p, p)
  BY <1>1, <1>5, Zenon DEF Own
<1> QED BY <1>1, <1>3, <1>4, <1>5, <1>9, <1>10, SameMemory, Zenon

\* fork() ends: the child runs.
LEMMA StepForkDone ==
  ASSUME IInv, [Next]_vars, NEW p \in Procs, fork_done(p)
  PROVE  IInv'
<1>1. th[p].pc = "uvmcopy" /\ panicked = "no" /\ th[p].a >= proc[p].sz /\ UNCHANGED <<mem, panicked>>
  BY Zenon DEF fork_done, At
<1>2. /\ CallOK(p) /\ ForkOK(p) /\ SlotOK(p) /\ SizeOK(p) /\ ProcTable(p) /\ CallTable(p)
      /\ th[p] \in CallType /\ proc[p] \in ProcType
  BY Locals, Zenon
<1>3. /\ proc[p].state = "RUNNING" /\ th[p].call = "fork" /\ th[p].argv = {}
      /\ th[p].t # 0
  BY <1>1, <1>2, Zenon DEF CallOK, CallType, SystemCalls
<1>4. PICK np \in Procs : np = th[p].np /\ np # p /\ Mine(p, np)
  BY <1>3, MineChild, Zenon
<1>5. SlotOK(np) /\ proc[np] \in ProcType /\ proc[np].state = "USED" /\ proc[np].pagetable = th[p].t
  BY <1>1, <1>2, <1>3, <1>4, Locals, Zenon DEF ForkOK
<1>6. /\ Only(p, np) /\ th'[p] = Idle
      /\ proc'[np] = [proc[np] EXCEPT !.sz = proc[p].sz, !.state = "RUNNING"]
  <2>1. proc' = [proc EXCEPT ![np] = [proc[np] EXCEPT !.sz = proc[p].sz, !.state = "RUNNING"]]
    BY <1>4, Zenon DEF fork_done, IInv, TypeOK
  <2>2. Return(p)
    BY Zenon DEF fork_done
  <2>3. th'[p] = Idle /\ \A q \in Procs \ {p} : th'[q] = th[q]
    BY <2>2, ThEntry, Zenon DEF Return
  <2>4. /\ proc'[np] = [proc[np] EXCEPT !.sz = proc[p].sz, !.state = "RUNNING"]
        /\ \A q \in Procs \ {np} : proc'[q] = proc[q]
    BY <2>1, ProcEntry, Zenon
  <2> QED BY <2>3, <2>4, Zenon DEF Only
<1>7. /\ proc'[np].state = "RUNNING" /\ proc'[np].pagetable = th[p].t
      /\ proc'[np].trapframe = proc[np].trapframe /\ proc'[np].sz = proc[p].sz
      /\ th'[p].pc = "idle" /\ th'[p].call = "none" /\ th'[p].np = 0 /\ th'[p].t = 0
      /\ th'[p].sz = 0 /\ th'[p].argv = {} /\ th'[np].call = "none"
  BY <1>4, <1>5, <1>6 DEF Idle, ProcType, Mine, Only
<1>8. PageAt(th[p].a) = PageCount(proc[p].sz) /\ proc[p].sz <= UMAX
  BY <1>1, <1>2, LoopEnds, Zenon DEF SizeOK, CallType, ProcType
<1>9. proc'[p] = proc[p]
  BY <1>4, <1>6, Zenon DEF Only
<1>10. CallOK(p)' /\ ForkOK(p)'
  BY <1>6, <1>7, <1>9, Zenon DEF CallOK, ForkOK
<1>11. SlotOK(np)'
  BY <1>3, <1>5, <1>7, Zenon DEF SlotOK
<1>12. SizeOK(p)' /\ proc'[np].sz <= UMAX
  BY <1>7, <1>8, <1>9, ZeroFits, Zenon DEF SizeOK, SizeOf
<1>13. ProcTable(p)' /\ CallTable(p)'
  BY <1>1, <1>2, <1>3, <1>7, <1>9, Zenon DEF ProcTable, CallTable, Maps
<1>14. ProcTable(np)'
  BY <1>1, <1>2, <1>3, <1>7, <1>8, Zenon DEF ProcTable, CallTable, Maps
<1>15. Local(p, np)'
  BY <1>7, <1>10, <1>11, <1>12, <1>13, <1>14, Zenon DEF Local
<1>16. Own(p, np)' = Own(p, np)
  BY <1>5, <1>7, Zenon DEF Own
<1> QED BY <1>1, <1>3, <1>4, <1>6, <1>7, <1>15, <1>16, SameMemory, Zenon

\* exec() begins.
LEMMA StepSysExec ==
  ASSUME IInv, [Next]_vars, NEW p \in Procs, sys_exec(p)
  PROVE  IInv'
<1>1. /\ th[p].pc = "idle" /\ panicked = "no" /\ proc[p].state = "RUNNING"
      /\ UNCHANGED <<mem, proc, panicked>>
  BY Zenon DEF sys_exec, At
<1>2. CallOK(p) /\ SlotOK(p) /\ SizeOK(p) /\ ProcTable(p) /\ th[p] = Idle
  BY <1>1, Locals, Zenon DEF CallOK
<1>3. Mine(p, p)
  BY <1>1, MineSelf, Zenon
<1>4. Only(p, p) /\ th'[p] = [Idle EXCEPT !.pc = "argv", !.call = "exec"]
  BY <1>1, OneEntry, RecordsTyped, Zenon DEF sys_exec, Only
<1>5. /\ th'[p].pc = "argv" /\ th'[p].call = "exec" /\ th'[p].np = 0 /\ th'[p].t = 0
      /\ th'[p].sz = 0 /\ th'[p].a = 0 /\ th'[p].argv = {}
  BY <1>4, Zenon DEF Idle
<1>6. CallOK(p)' /\ ForkOK(p)' /\ SlotOK(p)'
  BY <1>1, <1>2, <1>5, Zenon DEF CallOK, ForkOK, SlotOK
<1>7. SizeOK(p)' /\ (proc[p].sz <= UMAX)'
  BY <1>1, <1>2, <1>5, ZeroFits, Zenon DEF SizeOK, SizeOf
<1>8. ProcTable(p)' /\ CallTable(p)'
  BY <1>1, <1>2, <1>5, StartFields, Zenon DEF ProcTable, CallTable, Maps
<1>9. Local(p, p)'
  BY <1>5, <1>6, <1>7, <1>8, Zenon DEF Local
<1>10. Own(p, p)' = Own(p, p) /\ th[p].argv = {}
  BY <1>1, <1>2, <1>5, StartFields, Zenon DEF Own
<1> QED BY <1>1, <1>3, <1>4, <1>5, <1>9, <1>10, SameMemory, Zenon

\* A step of exec() that keeps its page table and its arguments.
LEMMA ExecStep ==
  ASSUME IInv, [Next]_vars, NEW p \in Procs, UNCHANGED <<mem, proc>>, panicked' = "no", Only(p, p),
         th[p].call \in {"exec", "segment", "stack"}, th'[p].call \in {"exec", "segment", "stack"},
         th'[p].np = th[p].np, th'[p].t = th[p].t, th'[p].argv = th[p].argv,
         CallOK(p)', SizeOK(p)', CallTable(p)'
  PROVE  IInv'
<1>1. CallOK(p) /\ SlotOK(p) /\ SizeOK(p) /\ ProcTable(p)
  BY Locals, Zenon
<1>2. proc[p].state = "RUNNING" /\ th[p].pc # "uvmcopy"
  BY <1>1, Zenon DEF CallOK, Idle
<1>3. Mine(p, p)
  BY <1>2, MineSelf, Zenon
<1>4. ForkOK(p)' /\ SlotOK(p)' /\ ProcTable(p)' /\ (proc[p].sz <= UMAX)'
  BY <1>1, Zenon DEF ForkOK, SlotOK, ProcTable, Maps, SizeOK
<1>5. th[p].t # 0 => th[p].t # proc[p].pagetable
  BY <1>2, Zenon DEF IInv, Unshared
<1>6. Local(p, p)'
  BY <1>4, <1>5, Zenon DEF Local
<1>7. Own(p, p)' = Own(p, p)
  BY Zenon DEF Own
<1> QED BY <1>3, <1>6, <1>7, SameMemory, Zenon

\* exec() with a good header: proc_pagetable().
LEMMA StepExec ==
  ASSUME IInv, [Next]_vars, NEW p \in Procs, exec(p)
  PROVE  IInv'
<1>1. th[p].pc = "argv" /\ panicked' = "no" /\ UNCHANGED <<mem, proc>>
  BY Zenon DEF exec, At
<1>2. CallOK(p) /\ SizeOK(p) /\ th[p] \in CallType
  BY Locals, Zenon
<1>3. Only(p, p) /\ th'[p] = [th[p] EXCEPT !.pc = "uvmcreate"]
  BY <1>1, OneEntry, RecordsTyped, Zenon DEF exec, Only
<1>4. th[p].call = "exec"
  BY <1>1, <1>2, Zenon DEF CallOK, CallType, SystemCalls
<1>5. /\ th'[p].pc = "uvmcreate" /\ th'[p].call = "exec" /\ th'[p].np = th[p].np /\ th'[p].t = th[p].t
      /\ th'[p].sz = th[p].sz /\ th'[p].a = th[p].a /\ th'[p].argv = th[p].argv
  BY <1>2, <1>3, <1>4, Zenon DEF CallType
<1>6. CallOK(p)' /\ SizeOK(p)' /\ CallTable(p)'
  BY <1>1, <1>2, <1>4, <1>5, Zenon DEF CallOK, SizeOK, CallTable
<1> QED BY <1>1, <1>3, <1>4, <1>5, <1>6, ExecStep, Zenon

\* A program header.
LEMMA StepSegment ==
  ASSUME IInv, [Next]_vars, NEW p \in Procs, NEW end \in Ends, segment(p, end)
  PROVE  IInv'
<1>1. th[p].pc = "segments" /\ panicked' = "no" /\ UNCHANGED <<mem, proc>>
  BY Zenon DEF segment, At
<1>2. CallOK(p) /\ SizeOK(p) /\ CallTable(p) /\ th[p] \in CallType
  BY Locals, Zenon
<1>3. th[p].call = "exec" /\ th[p].t # 0
  BY <1>1, <1>2, Zenon DEF CallOK, CallType, SystemCalls
<1>4. CASE end < th[p].sz
  <2>1. Only(p, p) /\ th'[p] = th[p]
    BY <1>1, <1>4, OneEntry, RecordsTyped, Zenon DEF segment, Only
  <2>2. CallOK(p)' /\ SizeOK(p)' /\ CallTable(p)'
    BY <1>1, <1>2, <2>1, Zenon DEF CallOK, SizeOK, SizeOf, CallTable, Maps, MapsOnly
  <2> QED BY <1>1, <1>3, <2>1, <2>2, ExecStep, Zenon
<1>5. CASE ~(end < th[p].sz)
  <2>1. Only(p, p) /\ th'[p] = [th[p] EXCEPT !.pc = "uvmalloc", !.call = "segment",
                    !.old = PGROUNDUP(th[p].sz), !.a = PGROUNDUP(th[p].sz), !.new = end]
    BY <1>1, <1>5, OneEntry, RecordsTyped, Zenon DEF segment, Only
  <2>2. /\ th'[p].pc = "uvmalloc" /\ th'[p].call = "segment" /\ th'[p].np = th[p].np
        /\ th'[p].t = th[p].t /\ th'[p].sz = th[p].sz /\ th'[p].old = PGROUNDUP(th[p].sz)
        /\ th'[p].a = PGROUNDUP(th[p].sz) /\ th'[p].new = end /\ th'[p].argv = th[p].argv
    BY <1>2, <2>1, Zenon DEF CallType
  <2>3. th[p].sz \in Nat /\ end \in Nat /\ end <= SEGMAX /\ th[p].sz <= end
    BY <1>2, <1>5, SizeAssumption DEF CallType, SEGMAX
  <2>4. /\ PageAt(PGROUNDUP(th[p].sz)) = PageCount(th[p].sz) /\ Aligned(PGROUNDUP(th[p].sz))
        /\ PageCount(th[p].sz) \in Nat /\ PageCount(th[p].sz) <= PageCount(end)
    BY <2>3, RoundUp, WholePages, PagesMonotone, Zenon DEF PageAt, PageCount
  <2>5. CallOK(p)'
    BY <1>1, <1>2, <1>3, <2>2, Zenon DEF CallOK
  <2>6. SizeOK(p)'
    BY <1>1, <1>2, <1>3, <2>2, <2>3, <2>4 DEF SizeOK, SizeOf
  <2>7. CallTable(p)'
    BY <1>1, <1>2, <1>3, <2>2, <2>4, Zenon DEF CallTable, Maps
  <2> QED BY <1>1, <1>3, <2>1, <2>2, <2>5, <2>6, <2>7, ExecStep, Zenon
<1> QED BY <1>4, <1>5, Zenon

\* The segment is in memory: its size is the size so far.
LEMMA StepSegmentDone ==
  ASSUME IInv, [Next]_vars, NEW p \in Procs, segment_done(p)
  PROVE  IInv'
<1>1. /\ th[p].pc = "uvmalloc" /\ th[p].a >= th[p].new /\ th[p].call = "segment" /\ panicked = "no"
      /\ UNCHANGED <<mem, proc>>
  BY Zenon DEF segment_done, At
<1>2. CallOK(p) /\ SizeOK(p) /\ CallTable(p) /\ th[p] \in CallType
  BY Locals, Zenon
<1>3. /\ Only(p, p)
      /\ th'[p] = [th[p] EXCEPT !.pc = "segments", !.call = "exec", !.sz = th[p].new]
  <2>1. th' = [th EXCEPT ![p] = [th[p] EXCEPT !.pc = "segments", !.call = "exec", !.sz = th[p].new]]
    BY Zenon DEF segment_done, IInv, TypeOK
  <2> QED BY <1>1, <2>1, OneEntry, RecordsTyped, Zenon DEF Only
<1>4. /\ th'[p].pc = "segments" /\ th'[p].call = "exec" /\ th'[p].np = th[p].np
      /\ th'[p].t = th[p].t /\ th'[p].sz = th[p].new /\ th'[p].argv = th[p].argv
  BY <1>2, <1>3, Zenon DEF CallType
<1>5. /\ PageAt(th[p].a) = PageCount(th[p].new) /\ th[p].new <= SEGMAX
      /\ th[p].new <= UMAX /\ PageCount(th[p].new) <= UPAGES /\ th[p].new \in Nat
  BY <1>1, <1>2, LoopEnds, FitPages, Zenon DEF SizeOK, CallType
<1>6. Maps(mem, th[p].t, PageCount(th[p].new))
  BY <1>1, <1>2, <1>5, Zenon DEF CallTable
<1>7. ~NotMapped(mem, th[p].t, PageRange(0, th[p].new))
  BY <1>5, <1>6, RangeFacts DEF Maps, NotMapped
<1>8. panicked' = "no"
  BY <1>1, <1>7, Zenon DEF segment_done, PanicIf
<1>9. CallOK(p)'
  BY <1>1, <1>2, <1>4, Zenon DEF CallOK
<1>10. SizeOK(p)'
  BY <1>1, <1>2, <1>4, <1>5, Zenon DEF SizeOK, SizeOf
<1>11. CallTable(p)'
  BY <1>1, <1>4, <1>6, Zenon DEF CallTable, Maps
<1> QED BY <1>1, <1>3, <1>4, <1>8, <1>9, <1>10, <1>11, ExecStep, Zenon

\* The stack of a program.
LEMMA StackSize ==
  ASSUME NEW s \in Nat, s <= SEGMAX
  PROVE  /\ PGROUNDUP(s) \in Nat /\ PGROUNDUP(s) <= SEGMAX /\ PGROUNDUP(PGROUNDUP(s)) = PGROUNDUP(s)
         /\ PageCount(PGROUNDUP(s)) = PageCount(s) /\ PageAt(PGROUNDUP(s)) = PageCount(s)
         /\ PageCount(s) \in Nat /\ Aligned(PGROUNDUP(s)) /\ PGROUNDUP(s) + 2 * PGSIZE \in Nat
         /\ PageCount(s) <= PageCount(PGROUNDUP(s) + 2 * PGSIZE)
<1>1. UPAGES - 2 \in Nat /\ PGSIZE \in Nat \ {0}
  BY Constants
<1>2. PageCount(s) <= UPAGES - 2 /\ PageCount(s) \in Nat /\ PGROUNDUP(s) = PageCount(s) * PGSIZE
  BY <1>1, FewestPages, RoundUp, Zenon DEF SEGMAX
<1>3. PageCount(s) * PGSIZE <= (UPAGES - 2) * PGSIZE
  BY <1>1, <1>2, MulOrder, Zenon
<1>4. /\ PageCount(s) * PGSIZE \in Nat /\ PageCount(PageCount(s) * PGSIZE) = PageCount(s)
      /\ PageAt(PageCount(s) * PGSIZE) = PageCount(s) /\ Aligned(PageCount(s) * PGSIZE)
      /\ PGROUNDUP(PageCount(s) * PGSIZE) = PageCount(s) * PGSIZE
  BY <1>2, WholePages, Zenon
<1>5. PGROUNDUP(s) + 2 * PGSIZE \in Nat /\ PGROUNDUP(s) <= PGROUNDUP(s) + 2 * PGSIZE
  BY <1>1, <1>2, <1>4
<1>6. PageCount(PGROUNDUP(s)) <= PageCount(PGROUNDUP(s) + 2 * PGSIZE)
  BY <1>2, <1>4, <1>5, PagesMonotone, Zenon
<1> QED BY <1>2, <1>3, <1>4, <1>5, <1>6, Zenon DEF SEGMAX

\* exec() asks for the guard page and the stack.
LEMMA StepStack ==
  ASSUME IInv, [Next]_vars, NEW p \in Procs, stack(p)
  PROVE  IInv'
<1>1. th[p].pc = "segments" /\ panicked' = "no" /\ UNCHANGED <<mem, proc>>
  BY Zenon DEF stack, At
<1>2. CallOK(p) /\ SizeOK(p) /\ CallTable(p) /\ th[p] \in CallType
  BY Locals, Zenon
<1>3. th[p].call = "exec" /\ th[p].t # 0
  BY <1>1, <1>2, Zenon DEF CallOK, CallType, SystemCalls
<1>4. PICK s : s = PGROUNDUP(th[p].sz)
  BY Zenon
<1>5. /\ Only(p, p)
      /\ th'[p] = [th[p] EXCEPT !.pc = "uvmalloc", !.call = "stack", !.sz = s, !.old = s, !.a = s,
                                !.new = s + 2 * PGSIZE]
  <2>1. th' = [th EXCEPT ![p] = [th[p] EXCEPT !.pc = "uvmalloc", !.call = "stack", !.sz = s,
                                 !.old = s, !.a = s, !.new = s + 2 * PGSIZE]]
    BY <1>4, Zenon DEF stack, IInv, TypeOK
  <2> QED BY <1>1, <2>1, OneEntry, RecordsTyped, Zenon DEF Only
<1>6. /\ th'[p].pc = "uvmalloc" /\ th'[p].call = "stack" /\ th'[p].np = th[p].np
      /\ th'[p].t = th[p].t /\ th'[p].sz = s /\ th'[p].old = s
      /\ th'[p].a = s /\ th'[p].new = s + 2 * PGSIZE /\ th'[p].argv = th[p].argv
  BY <1>2, <1>5, Zenon DEF CallType
<1>7. th[p].sz \in Nat /\ th[p].sz <= SEGMAX
  BY <1>2, <1>3, Zenon DEF CallType, SizeOK
<1>8. /\ s \in Nat /\ s <= SEGMAX /\ PGROUNDUP(s) = s /\ PageCount(s) = PageCount(th[p].sz)
      /\ PageAt(s) = PageCount(s) /\ PageCount(s) \in Nat /\ Aligned(s) /\ s + 2 * PGSIZE \in Nat
      /\ PageCount(s) <= PageCount(s + 2 * PGSIZE)
  BY <1>4, <1>7, StackSize, Zenon
<1>9. s + 2 * PGSIZE <= UMAX /\ s <= UMAX /\ s <= s + 2 * PGSIZE
  BY <1>8, Constants
<1>10. CallOK(p)'
  BY <1>1, <1>2, <1>3, <1>6, Zenon DEF CallOK
<1>11. SizeOK(p)'
  BY <1>1, <1>2, <1>6, <1>8, <1>9 DEF SizeOK, SizeOf
<1>12. CallTable(p)'
  BY <1>1, <1>2, <1>3, <1>6, <1>8, Zenon DEF CallTable, Maps
<1> QED BY <1>1, <1>3, <1>5, <1>6, <1>10, <1>11, <1>12, ExecStep, Zenon

\* The stack is in memory.
LEMMA StepStackDone ==
  ASSUME IInv, [Next]_vars, NEW p \in Procs, stack_done(p)
  PROVE  IInv'
<1>1. /\ th[p].pc = "uvmalloc" /\ th[p].a >= th[p].new /\ th[p].call = "stack" /\ panicked' = "no"
      /\ UNCHANGED <<mem, proc>>
  BY Zenon DEF stack_done, At
<1>2. CallOK(p) /\ SizeOK(p) /\ CallTable(p) /\ th[p] \in CallType
  BY Locals, Zenon
<1>3. Only(p, p) /\ th'[p] = [th[p] EXCEPT !.pc = "commit", !.sz = th[p].new]
  <2>1. th' = [th EXCEPT ![p] = [th[p] EXCEPT !.pc = "commit", !.sz = th[p].new]]
    BY Zenon DEF stack_done, IInv, TypeOK
  <2> QED BY <1>1, <2>1, OneEntry, RecordsTyped, Zenon DEF Only
<1>4. /\ th'[p].pc = "commit" /\ th'[p].call = "stack" /\ th'[p].np = th[p].np
      /\ th'[p].t = th[p].t /\ th'[p].sz = th[p].new /\ th'[p].argv = th[p].argv
  BY <1>1, <1>2, <1>3, Zenon DEF CallType
<1>5. PageAt(th[p].a) = PageCount(th[p].new) /\ th[p].new <= UMAX
  BY <1>1, <1>2, LoopEnds, Zenon DEF SizeOK, CallType
<1>6. CallOK(p)'
  BY <1>1, <1>2, <1>4, Zenon DEF CallOK
<1>7. SizeOK(p)'
  BY <1>1, <1>2, <1>4, <1>5, Zenon DEF SizeOK, SizeOf
<1>8. CallTable(p)'
  BY <1>1, <1>2, <1>4, <1>5, Zenon DEF CallTable, Maps
<1> QED BY <1>1, <1>3, <1>4, <1>6, <1>7, <1>8, ExecStep, Zenon

\* exec() gives up.
LEMMA StepExecGotoBad ==
  ASSUME IInv, [Next]_vars, NEW p \in Procs, exec_goto_bad(p)
  PROVE  IInv'
<1>1. th[p].pc \in {"segments", "commit"} /\ panicked' = "no" /\ UNCHANGED <<mem, proc>>
  BY Zenon DEF exec_goto_bad, At
<1>2. CallOK(p) /\ SizeOK(p) /\ CallTable(p) /\ th[p] \in CallType
  BY Locals, Zenon
<1>3. Only(p, p) /\ th'[p] = [th[p] EXCEPT !.pc = "bad"]
  BY <1>1, OneEntry, RecordsTyped, Zenon DEF exec_goto_bad, Only
<1>4. /\ th'[p].pc = "bad" /\ th'[p].call = th[p].call /\ th'[p].np = th[p].np
      /\ th'[p].t = th[p].t /\ th'[p].sz = th[p].sz /\ th'[p].argv = th[p].argv
  BY <1>2, <1>3, Zenon DEF CallType
<1>5. th[p].call \in {"exec", "stack"}
  BY <1>1, <1>2, Zenon DEF CallOK, CallType, SystemCalls
<1>6. CallOK(p)'
  BY <1>1, <1>2, <1>4, <1>5, Zenon DEF CallOK
<1>7. SizeOK(p)'
  BY <1>1, <1>2, <1>4, Zenon DEF SizeOK, SizeOf
<1>8. CallTable(p)'
  BY <1>1, <1>2, <1>4, Zenon DEF CallTable, Maps
<1> QED BY <1>1, <1>3, <1>4, <1>5, <1>6, <1>7, <1>8, ExecStep, Zenon

\* Steps that change one page table, and no owner outside it.
LEMMA SameRoots ==
  ASSUME IInv, [Next]_vars, NEW p \in Procs, NEW x \in Procs, Mine(p, x), Only(p, x), Local(p, x)',
         th'[p].np \in {0, th[p].np, x}, panicked' = "no",
         Own(p, x)' = Own(p, x), proc'[x].trapframe = proc[x].trapframe, th'[p].argv = th[p].argv,
         mem' \in MemType, Exact(mem', Roots, Others), NEW t \in Own(p, x), t # 0, OnlyTable(t)
  PROVE  IInv'
<1>1. RootsKept /\ OthersKept
  BY KeepRoots, KeepOthers, Zenon
<1>2. Roots' = Roots /\ Others' = Others
  BY <1>1, Zenon DEF RootsKept, OthersKept
<1>3. Exact(mem', Roots', Others')
  BY <1>2, Zenon
<1>4. Apart(p, x)
  BY MineApart, Zenon
<1>5. (\A r \in Own(p, x)' : r # 0 => r \notin Rest(p, x)) /\ t \notin Rest(p, x)
  BY <1>4, Zenon DEF Apart
<1>6. t \in Roots
  BY RootsSplit, Zenon
<1> QED BY <1>2, <1>3, <1>5, <1>6, StepInv, Zenon

\* A table maps one user page more, or some less.
OneMore(n, m, t, k, g) ==
  \A v \in VPages : n.pt[t].leaf[v] = IF v = k THEN g ELSE m.pt[t].leaf[v]

\* The page that follows the last one is mapped.
LEMMA MapsMore ==
  ASSUME NEW m, NEW n, NEW t, NEW k \in Nat, NEW g, g # 0, Maps(m, t, k), OneMore(n, m, t, k, g)
  PROVE  Maps(n, t, k + 1)
<1>1. VPages \subseteq Nat
  BY Layout, Zenon
<1>2. ASSUME NEW v \in VPages PROVE v < k + 1 <=> v < k \/ v = k
  BY <1>1
<1> QED BY <1>2, Zenon DEF Maps, OneMore

\* The pages above a smaller size are unmapped.
LEMMA MapsLess ==
  ASSUME NEW m, NEW n, NEW t, NEW s \in Nat, NEW z \in Nat, s <= z, PageCount(z) <= UPAGES,
         Maps(m, t, PageCount(z)), UserCut(n, m, t, PageRange(s, z))
  PROVE  Maps(n, t, PageCount(s))
<1>1. /\ PageRange(s, z) = {v \in VPages : PageCount(s) <= v /\ v < PageCount(z)}
      /\ PageRange(s, z) \in SUBSET UserPages
  BY RangeFacts, Zenon
<1>2. VPages \subseteq Nat /\ PageCount(s) \in Nat /\ PageCount(z) \in Nat /\ PageCount(s) <= PageCount(z)
  BY Layout, RoundUp, PagesMonotone, Zenon
<1>3. ASSUME NEW v \in VPages
      PROVE  n.pt[t].leaf[v] # 0 <=> (v < PageCount(s) \/ v \in {TRAPFRAME, TRAMPOLINE})
  <2>1. v \in PageRange(s, z) <=> PageCount(s) <= v /\ v < PageCount(z)
    BY <1>1, Zenon
  <2>2. v \in PageRange(s, z) => v \notin {TRAPFRAME, TRAMPOLINE}
    BY <1>1, Zenon DEF UserPages
  <2>3. /\ n.pt[t].leaf[v] = IF v \in PageRange(s, z) THEN 0 ELSE m.pt[t].leaf[v]
        /\ m.pt[t].leaf[v] # 0 <=> (v < PageCount(z) \/ v \in {TRAPFRAME, TRAMPOLINE})
    BY Zenon DEF UserCut, Maps
  <2>4. v \in Nat
    BY <1>2, Zenon
  <2> QED BY <1>2, <2>1, <2>2, <2>3, <2>4
<1> QED BY <1>3, Zenon DEF Maps

\* The pages between two sizes are mapped, so uvmunmap() does not panic.
LEMMA MapsRange ==
  ASSUME NEW m, NEW t, NEW s \in Nat, NEW z \in Nat, PageCount(z) <= UPAGES, Maps(m, t, PageCount(z))
  PROVE  ~NotMapped(m, t, PageRange(s, z))
<1>1. PageRange(s, z) = {v \in VPages : PageCount(s) <= v /\ v < PageCount(z)}
  BY RangeFacts, Zenon
<1>2. ASSUME NEW v \in PageRange(s, z) PROVE m.pt[t].leaf[v] # 0
  BY <1>1, Zenon DEF Maps
<1> QED BY <1>2, Zenon DEF NotMapped

\* Where the page tables are.
LEMMA RootsAre ==
  ASSUME IInv, NEW p \in Procs
  PROVE  /\ Roots \in SUBSET Pages /\ mem \in MemType /\ Exact(mem, Roots, Others)
         /\ th[p].t # 0 => th[p].t \in Roots
         /\ proc[p].pagetable # 0 => proc[p].pagetable \in Roots
<1>1. ASSUME NEW q \in Procs PROVE proc[q].pagetable \in Pages \cup {0} /\ th[q].t \in Pages \cup {0}
  BY Zenon DEF IInv, TypeOK, CallType, ProcType
<1>2. Roots \in SUBSET Pages
  BY <1>1, Zenon DEF Roots
<1>3. mem \in MemType /\ Exact(mem, Roots, Others)
  BY ExactIs, Zenon DEF IInv, TypeOK
<1> QED BY <1>2, <1>3, Zenon DEF Roots

\* One more page of user memory, for uvmalloc() and uvmcopy().
LEMMA MapPage ==
  ASSUME IInv, NEW t \in Roots, NEW k \in Nat, k < UPAGES, Maps(mem, t, k), mem.free # {},
         CanWalk(Taken(mem), t, k), mem' = mappages(Taken(mem), t, k, kalloc(mem))
  PROVE  /\ mem' \in MemType /\ Exact(mem', Roots, Others) /\ OnlyTable(t)
         /\ Maps(mem', t, k + 1) /\ mem.pt[t].leaf[k] = 0
<1>1. Roots \in SUBSET Pages /\ mem \in MemType /\ Exact(mem, Roots, Others)
  BY RootsAre, SizeAssumption, Zenon
<1>2. k \in UserPages /\ k \in VPages
  BY Layout, Constants DEF UserPages
<1>3. mem.pt[t].leaf[k] = 0
  BY <1>2 DEF Maps, UserPages
<1>4. kalloc(mem) # 0 /\ kalloc(mem) \in Nat /\ Taken(mem) \in MemType /\ Taken(mem).pt = mem.pt
  BY <1>1, Kalloc, Constants, Zenon
<1>5. Exact(mem', Roots, Others)
  BY <1>1, <1>2, <1>3, MapUser, Zenon
<1>6. /\ mem' \in MemType
      /\ \A r \in Pages \ {t} : mem'.pt[r] = Taken(mem).pt[r]
      /\ \A v \in VPages : mem'.pt[t].leaf[v] = IF v = k THEN kalloc(mem) ELSE Taken(mem).pt[t].leaf[v]
  BY <1>1, <1>2, <1>4, MapFacts
<1>7. OnlyTable(t)
  BY <1>4, <1>6, Zenon DEF OnlyTable
<1>8. Maps(mem', t, k + 1)
  <2>1. OneMore(mem', mem, t, k, kalloc(mem))
    BY <1>4, <1>6, Zenon DEF OneMore
  <2> QED BY <1>4, <2>1, MapsMore, Zenon
<1> QED BY <1>3, <1>5, <1>6, <1>7, <1>8, Zenon

\* Going on with the loop of uvmalloc(), and of uvmcopy().
LEMMA LoopGoesOn ==
  ASSUME NEW a \in Nat, Aligned(a), NEW s \in Nat, a < s, s <= UMAX
  PROVE  /\ PageAt(a) \in Nat /\ PageAt(a) < UPAGES /\ a + PGSIZE \in Nat /\ Aligned(a + PGSIZE)
         /\ PageAt(a + PGSIZE) = PageAt(a) + 1 /\ PageAt(a + PGSIZE) <= PageCount(s)
         /\ PageAt(a) < PageCount(s)
<1>1. PageCount(s) <= UPAGES /\ PageCount(s) \in Nat /\ UPAGES \in Nat
  BY FitPages, RoundUp, Constants, Zenon
<1>2. /\ PageAt(a) \in Nat /\ PageAt(a) < PageCount(s)
      /\ a + PGSIZE \in Nat /\ Aligned(a + PGSIZE) /\ PageAt(a + PGSIZE) = PageAt(a) + 1
  BY PageLoop, Zenon
<1> QED BY <1>1, <1>2

\* uvmalloc() maps one page more.
LEMMA StepUvmalloc ==
  ASSUME IInv, [Next]_vars, NEW p \in Procs, uvmalloc(p)
  PROVE  IInv'
<1>1. /\ th[p].pc = "uvmalloc" /\ th[p].a < th[p].new /\ panicked = "no" /\ UNCHANGED proc
      /\ mem.free # {} /\ CanWalk(Taken(mem), th[p].t, PageAt(th[p].a))
      /\ mem' = mappages(Taken(mem), th[p].t, PageAt(th[p].a), kalloc(mem))
  BY Zenon DEF uvmalloc, At, PageAt
<1>2. /\ CallOK(p) /\ SlotOK(p) /\ SizeOK(p) /\ ProcTable(p) /\ CallTable(p)
      /\ th[p] \in CallType /\ proc[p] \in ProcType
  BY Locals, Zenon
<1>3. proc[p].state = "RUNNING" /\ th[p].t # 0 /\ th[p].call \in {"sbrk", "segment", "stack"}
      /\ th[p].np = 0
  BY <1>1, <1>2, Zenon DEF CallOK, CallType, SystemCalls
<1>4. Only(p, p) /\ th'[p] = [th[p] EXCEPT !.a = th[p].a + PGSIZE]
  BY <1>1, OneEntry, RecordsTyped, Zenon DEF uvmalloc, Only
<1>5. /\ th'[p].pc = "uvmalloc" /\ th'[p].call = th[p].call /\ th'[p].np = 0
      /\ th'[p].t = th[p].t /\ th'[p].sz = th[p].sz /\ th'[p].old = th[p].old
      /\ th'[p].a = th[p].a + PGSIZE /\ th'[p].new = th[p].new /\ th'[p].argv = th[p].argv
  BY <1>1, <1>2, <1>3, <1>4, Zenon DEF CallType
<1>6. /\ th[p].a \in Nat /\ Aligned(th[p].a) /\ th[p].new \in Nat /\ th[p].new <= UMAX
      /\ Maps(mem, th[p].t, PageAt(th[p].a))
  BY <1>1, <1>2, <1>3, FitPages, Zenon DEF SizeOK, CallTable, CallType
<1>7. /\ PageAt(th[p].a) \in Nat /\ PageAt(th[p].a) < UPAGES /\ th[p].a + PGSIZE \in Nat
      /\ Aligned(th[p].a + PGSIZE) /\ PageAt(th[p].a + PGSIZE) = PageAt(th[p].a) + 1
      /\ PageAt(th[p].a + PGSIZE) <= PageCount(th[p].new)
  BY <1>1, <1>6, LoopGoesOn, Zenon
<1>8. th[p].t \in Roots
  BY <1>3, RootsAre, Zenon
<1>9. /\ mem' \in MemType /\ Exact(mem', Roots, Others) /\ OnlyTable(th[p].t)
      /\ Maps(mem', th[p].t, PageAt(th[p].a) + 1) /\ mem.pt[th[p].t].leaf[PageAt(th[p].a)] = 0
  BY <1>1, <1>6, <1>7, <1>8, MapPage, Zenon
<1>10. panicked' = "no"
  BY <1>1, <1>9, Zenon DEF uvmalloc, PanicIf, PageAt
<1>11. CallOK(p)' /\ ForkOK(p)' /\ SlotOK(p)'
  BY <1>1, <1>2, <1>3, <1>5, Zenon DEF CallOK, ForkOK, SlotOK
<1>12. SizeOK(p)' /\ (proc[p].sz <= UMAX)'
  <2>1. PageCount(SizeOf(p)) \in Nat
    BY <1>2, RoundUp, Zenon DEF SizeOf, CallType, ProcType
  <2> QED BY <1>1, <1>2, <1>3, <1>5, <1>7, <2>1 DEF SizeOK, SizeOf
<1>13. CallTable(p)'
  BY <1>5, <1>7, <1>9, Zenon DEF CallTable, Maps
<1>14. ProcTable(p)'
  <2>1. CASE th[p].call = "sbrk"
    BY <1>1, <1>2, <1>5, <1>7, <1>9, <2>1, Zenon DEF ProcTable, CallOK, Maps
  <2>2. CASE th[p].call # "sbrk"
    <3>1. proc[p].pagetable \in Pages \ {th[p].t}
      BY <1>1, <1>2, <1>3, <2>2, Zenon DEF IInv, Unshared, ProcType, SlotOK
    <3>2. mem'.pt[proc[p].pagetable] = mem.pt[proc[p].pagetable]
      BY <1>9, <3>1, Zenon DEF OnlyTable
    <3> QED BY <1>1, <1>2, <1>5, <2>2, <3>2, Zenon DEF ProcTable, Maps
  <2> QED BY <2>1, <2>2, Zenon
<1>15. Local(p, p)'
  <2>1. th[p].t = proc[p].pagetable => th[p].call = "sbrk"
    BY <1>1, <1>3, Zenon DEF IInv, Unshared
  <2> QED BY <1>1, <1>5, <1>11, <1>12, <1>13, <1>14, <2>1, Zenon DEF Local
<1>16. Own(p, p)' = Own(p, p) /\ th[p].t \in Own(p, p) /\ Mine(p, p)
  BY <1>1, <1>3, <1>5, MineSelf, Zenon DEF Own
<1> QED BY <1>1, <1>3, <1>4, <1>5, <1>9, <1>10, <1>15, <1>16, SameRoots, Zenon

\* uvmcopy() copies one page more.
LEMMA StepUvmcopy ==
  ASSUME IInv, [Next]_vars, NEW p \in Procs, uvmcopy(p)
  PROVE  IInv'
<1>1. /\ th[p].pc = "uvmcopy" /\ th[p].a < proc[p].sz /\ panicked = "no" /\ UNCHANGED proc
      /\ mem.free # {} /\ CanWalk(Taken(mem), th[p].t, PageAt(th[p].a))
      /\ mem' = mappages(Taken(mem), th[p].t, PageAt(th[p].a), kalloc(mem))
  BY Zenon DEF uvmcopy, At, PageAt
<1>2. /\ CallOK(p) /\ ForkOK(p) /\ SlotOK(p) /\ SizeOK(p) /\ ProcTable(p) /\ CallTable(p)
      /\ th[p] \in CallType /\ proc[p] \in ProcType
  BY Locals, Zenon
<1>3. proc[p].state = "RUNNING" /\ th[p].t # 0 /\ th[p].call = "fork"
  BY <1>1, <1>2, Zenon DEF CallOK, CallType, SystemCalls
<1>4. PICK np \in Procs : np = th[p].np /\ np # p /\ Mine(p, np)
  BY <1>3, MineChild, Zenon
<1>5. SlotOK(np) /\ proc[np].state = "USED" /\ proc[np].pagetable = th[p].t /\ SizeOK(np)
  BY <1>1, <1>2, <1>3, <1>4, Locals, Zenon DEF ForkOK
<1>6. Only(p, np) /\ th'[p] = [th[p] EXCEPT !.a = th[p].a + PGSIZE]
  BY <1>1, OneEntry, RecordsTyped, Zenon DEF uvmcopy, Only
<1>7. /\ th'[p].pc = "uvmcopy" /\ th'[p].call = "fork" /\ th'[p].np = np
      /\ th'[p].t = th[p].t /\ th'[p].sz = th[p].sz
      /\ th'[p].a = th[p].a + PGSIZE /\ th'[p].argv = th[p].argv
  BY <1>1, <1>2, <1>3, <1>4, <1>6, Zenon DEF CallType
<1>8. /\ th[p].a \in Nat /\ Aligned(th[p].a) /\ proc[p].sz \in Nat /\ proc[p].sz <= UMAX
      /\ Maps(mem, th[p].t, PageAt(th[p].a))
  BY <1>1, <1>2, Zenon DEF SizeOK, CallTable, CallType, ProcType
<1>9. /\ PageAt(th[p].a) \in Nat /\ PageAt(th[p].a) < UPAGES /\ th[p].a + PGSIZE \in Nat
      /\ Aligned(th[p].a + PGSIZE) /\ PageAt(th[p].a + PGSIZE) = PageAt(th[p].a) + 1
      /\ PageAt(th[p].a + PGSIZE) <= PageCount(proc[p].sz) /\ PageAt(th[p].a) < PageCount(proc[p].sz)
  BY <1>1, <1>8, LoopGoesOn, Zenon
<1>10. th[p].t \in Roots
  BY <1>3, RootsAre, Zenon
<1>11. /\ mem' \in MemType /\ Exact(mem', Roots, Others) /\ OnlyTable(th[p].t)
       /\ Maps(mem', th[p].t, PageAt(th[p].a) + 1) /\ mem.pt[th[p].t].leaf[PageAt(th[p].a)] = 0
  BY <1>1, <1>8, <1>9, <1>10, MapPage, Zenon
<1>12. mem.pt[proc[p].pagetable].leaf[PageAt(th[p].a)] # 0
  BY <1>2, <1>3, <1>9, Layout, Zenon DEF ProcTable, Maps
<1>13. panicked' = "no"
  BY <1>1, <1>11, <1>12, Zenon DEF uvmcopy, PanicIf, PageAt
<1>14. CallOK(p)' /\ ForkOK(p)' /\ SlotOK(np)'
  BY <1>1, <1>2, <1>3, <1>4, <1>5, <1>7, Zenon DEF CallOK, ForkOK, SlotOK
<1>15. SizeOK(p)' /\ (proc[np].sz <= UMAX)'
  BY <1>1, <1>2, <1>3, <1>5, <1>7, <1>9, Zenon DEF SizeOK, SizeOf
<1>16. CallTable(p)' /\ ProcTable(np)'
  BY <1>1, <1>5, <1>7, <1>9, <1>11, Zenon DEF CallTable, ProcTable, Maps
<1>17. ProcTable(p)'
  <2>1. proc[p].pagetable \in Pages \ {th[p].t}
    BY <1>2, <1>3, <1>4, <1>5, Zenon DEF IInv, Unshared, ProcType, SlotOK
  <2>2. mem'.pt[proc[p].pagetable] = mem.pt[proc[p].pagetable]
    BY <1>11, <2>1, Zenon DEF OnlyTable
  <2> QED BY <1>1, <1>2, <1>3, <1>7, <2>2, Zenon DEF ProcTable, Maps
<1>18. Local(p, np)'
  BY <1>1, <1>7, <1>14, <1>15, <1>16, <1>17, Zenon DEF Local
<1>19. Own(p, np)' = Own(p, np) /\ th[p].t \in Own(p, np)
  BY <1>1, <1>7, Zenon DEF Own
<1> QED BY <1>1, <1>3, <1>4, <1>6, <1>7, <1>11, <1>13, <1>18, <1>19, SameRoots, Zenon

\* User memory shrinks, for uvmdealloc().
LEMMA CutPages ==
  ASSUME IInv, NEW t \in Roots, NEW s \in Nat, NEW z \in Nat, s <= z, PageCount(z) <= UPAGES,
         Maps(mem, t, PageCount(z)), mem' = uvmunmap(mem, t, PageRange(s, z))
  PROVE  /\ mem' \in MemType /\ Exact(mem', Roots, Others) /\ OnlyTable(t)
         /\ Maps(mem', t, PageCount(s)) /\ ~NotMapped(mem, t, PageRange(s, z))
<1>1. Roots \in SUBSET Pages /\ mem \in MemType /\ Exact(mem, Roots, Others)
  BY RootsAre, SizeAssumption, Zenon
<1>2. ~NotMapped(mem, t, PageRange(s, z)) /\ PageRange(s, z) \in SUBSET UserPages
  BY MapsRange, RangeFacts, Zenon
<1>3. /\ mem' \in MemType /\ Exact(mem', Roots, Others) /\ UserCut(mem', mem, t, PageRange(s, z))
  BY <1>1, <1>2, UvmunmapExact, Zenon
<1>4. Maps(mem', t, PageCount(s))
  BY <1>3, MapsLess, Zenon
<1> QED BY <1>2, <1>3, <1>4, Zenon DEF OnlyTable, UserCut

\* uvmalloc() finds no page, and takes back what it has mapped.
LEMMA StepUvmallocFail ==
  ASSUME IInv, [Next]_vars, NEW p \in Procs, uvmalloc_fail(p)
  PROVE  IInv'
<1> DEFINE gone == PageRange(th[p].old, th[p].a)
<1>1. /\ th[p].pc = "uvmalloc" /\ panicked = "no" /\ UNCHANGED proc
      /\ mem' = uvmunmap(mem, th[p].t, gone)
  BY Zenon DEF uvmalloc_fail, At
<1>2. /\ CallOK(p) /\ SlotOK(p) /\ SizeOK(p) /\ ProcTable(p) /\ CallTable(p)
      /\ th[p] \in CallType /\ proc[p] \in ProcType
  BY Locals, Zenon
<1>3. proc[p].state = "RUNNING" /\ th[p].t # 0 /\ th[p].call \in {"sbrk", "segment", "stack"}
      /\ th[p].np = 0 /\ (th[p].call = "sbrk" => th[p].argv = {} /\ th[p].t = proc[p].pagetable)
  BY <1>1, <1>2, Zenon DEF CallOK, CallType, SystemCalls
<1>4. /\ Only(p, p)
      /\ th'[p] = IF th[p].call = "sbrk" THEN Idle ELSE [th[p] EXCEPT !.pc = "bad"]
  BY <1>1, OneEntry, RecordsTyped, Zenon DEF uvmalloc_fail, Only
<1>5. PICK s \in Nat : s = SizeOf(p)
  BY <1>2, Zenon DEF SizeOf, CallType, ProcType
<1>6. /\ th[p].a \in Nat /\ Aligned(th[p].a) /\ th[p].new \in Nat /\ th[p].new <= UMAX
      /\ Maps(mem, th[p].t, PageAt(th[p].a)) /\ th[p].old = PGROUNDUP(s)
      /\ PageCount(s) <= PageAt(th[p].a) /\ PageAt(th[p].a) <= PageCount(th[p].new)
  BY <1>1, <1>2, <1>3, <1>5, FitPages, Zenon DEF SizeOK, CallTable, CallType
<1>7. /\ PageCount(s) \in Nat /\ PageCount(th[p].a) = PageAt(th[p].a) /\ PageAt(th[p].a) \in Nat
      /\ th[p].old = PageCount(s) * PGSIZE /\ th[p].a = PageAt(th[p].a) * PGSIZE
      /\ PageCount(th[p].new) <= UPAGES /\ PageCount(th[p].new) \in Nat
  BY <1>6, RoundUp, PageLoop, FitPages, Zenon DEF Aligned
<1>8. /\ th[p].old \in Nat /\ PageCount(th[p].old) = PageCount(s) /\ th[p].old <= th[p].a
      /\ PageCount(th[p].a) <= UPAGES
  BY <1>6, <1>7, WholePages, MulOrder, Constants
<1>9. th[p].t \in Roots
  BY <1>3, RootsAre, Zenon
<1>10. /\ mem' \in MemType /\ Exact(mem', Roots, Others) /\ OnlyTable(th[p].t)
       /\ Maps(mem', th[p].t, PageCount(s)) /\ ~NotMapped(mem, th[p].t, gone)
  BY <1>1, <1>6, <1>7, <1>8, <1>9, CutPages, Zenon
<1>11. panicked' = "no"
  BY <1>1, <1>10, Zenon DEF uvmalloc_fail, PanicIf
<1>12. th[p].t \in Own(p, p) /\ Mine(p, p)
  BY <1>1, <1>3, MineSelf, Zenon DEF Own
<1>13. CASE th[p].call = "sbrk"
  <2>1. /\ th'[p] = Idle /\ th'[p].pc = "idle" /\ th'[p].call = "none" /\ th'[p].np = 0
        /\ th'[p].t = 0 /\ th'[p].sz = 0 /\ th'[p].argv = {}
    BY <1>4, <1>13, StartFields, Zenon
  <2>2. CallOK(p)' /\ ForkOK(p)' /\ SlotOK(p)'
    BY <1>1, <1>2, <1>3, <2>1, Zenon DEF CallOK, ForkOK, SlotOK
  <2>3. SizeOK(p)' /\ (proc[p].sz <= UMAX)'
    BY <1>1, <1>2, <2>1, ZeroFits, Zenon DEF SizeOK, SizeOf
  <2>4. ProcTable(p)' /\ CallTable(p)'
    BY <1>1, <1>3, <1>5, <1>10, <1>13, <2>1, Zenon DEF ProcTable, CallTable, SizeOf,
         Maps
  <2>5. Local(p, p)'
    BY <2>1, <2>2, <2>3, <2>4, Zenon DEF Local
  <2>6. Own(p, p)' = Own(p, p)
    BY <1>1, <1>3, <1>13, <2>1, Zenon DEF Own
  <2> QED BY <1>1, <1>3, <1>4, <1>10, <1>11, <1>12, <1>13, <2>1, <2>5, <2>6, SameRoots,
               Zenon
<1>14. CASE th[p].call # "sbrk"
  <2>1. /\ th'[p].pc = "bad" /\ th'[p].call = th[p].call /\ th'[p].np = 0 /\ th'[p].t = th[p].t
        /\ th'[p].sz = th[p].sz /\ th'[p].argv = th[p].argv
    BY <1>2, <1>3, <1>4, <1>14, Zenon DEF CallType
  <2>2. CallOK(p)' /\ ForkOK(p)' /\ SlotOK(p)'
    BY <1>1, <1>2, <1>3, <1>14, <2>1, Zenon DEF CallOK, ForkOK, SlotOK
  <2>3. SizeOK(p)' /\ (proc[p].sz <= UMAX)'
    BY <1>1, <1>2, <2>1, Zenon DEF SizeOK, SizeOf
  <2>4. CallTable(p)'
    BY <1>5, <1>10, <1>14, <2>1, Zenon DEF CallTable, SizeOf, Maps
  <2>5. proc[p].pagetable \in Pages \ {th[p].t}
    BY <1>1, <1>2, <1>3, <1>14, Zenon DEF IInv, Unshared, ProcType, SlotOK
  <2>6. mem'.pt[proc[p].pagetable] = mem.pt[proc[p].pagetable]
    BY <1>10, <2>5, Zenon DEF OnlyTable
  <2>7. ProcTable(p)'
    BY <1>1, <1>2, <1>14, <2>1, <2>6, Zenon DEF ProcTable, Maps
  <2>8. Local(p, p)'
    BY <1>1, <2>1, <2>2, <2>3, <2>4, <2>5, <2>7, Zenon DEF Local
  <2>9. Own(p, p)' = Own(p, p)
    BY <1>1, <2>1, Zenon DEF Own
  <2> QED BY <1>1, <1>3, <1>4, <1>10, <1>11, <1>12, <2>1, <2>8, <2>9, SameRoots, Zenon
<1> QED BY <1>13, <1>14, Zenon

\* Nothing changes.
LEMMA Stutter == IInv /\ UNCHANGED vars => IInv'
<1> SUFFICES ASSUME IInv, UNCHANGED vars PROVE IInv'
  BY Zenon
<1>1. mem' = mem /\ proc' = proc /\ th' = th /\ panicked' = panicked
  BY Zenon DEF vars
<1>2. TypeOK'
  BY <1>1, Zenon DEF IInv, TypeOK
<1>3. Control' /\ Sizes' /\ Unshared'
  <2>1. Control'
    <3>1. ASSUME NEW p \in Procs PROVE CallOK(p)' /\ ForkOK(p)' /\ SlotOK(p)'
      BY <1>1, ControlFrame, ForkFrame, Zenon DEF IInv, Control, SlotOK
    <3> QED BY <1>1, <3>1, Zenon DEF IInv, Control
  <2>2. Sizes'
    BY <1>1, SizeFrame, Zenon DEF IInv, Sizes
  <2>3. Unshared'
    BY <1>1, Zenon DEF IInv, Unshared
  <2> QED BY <2>1, <2>2, <2>3, Zenon
<1>4. Roots' = Roots
  BY <1>1, Zenon DEF Roots
<1>5. Tables'
  BY <1>1, <1>4, Zenon DEF IInv, Tables, ProcTable, CallTable, Maps, MapsOnly
<1>6. Others' = Others
  BY <1>1, Zenon DEF Others
<1>7. PagesExact'
  <2>1. Exact(mem', Roots', Others')
    BY <1>1, <1>4, <1>6, ExactIs, Zenon DEF IInv
  <2> QED BY <1>2, <2>1, ExactNext, Zenon
<1> QED BY <1>1, <1>2, <1>3, <1>5, <1>7, Zenon DEF IInv

\* sbrk() with a negative argument.
LEMMA StepGrowprocShrink ==
  ASSUME IInv, [Next]_vars, NEW p \in Procs, NEW n \in Sbrks, growproc_shrink(p, n)
  PROVE  IInv'
<1>1. PICK s : s = (proc[p].sz + n) % UINT
  BY Zenon
<1>2. th[p].pc = "idle" /\ panicked = "no" /\ proc[p].state = "RUNNING" /\ UNCHANGED th
  BY Zenon DEF growproc_shrink, At
<1>3. /\ CallOK(p) /\ SlotOK(p) /\ SizeOK(p) /\ ProcTable(p) /\ th[p] = Idle
      /\ proc[p] \in ProcType
  BY <1>2, Locals, Zenon DEF CallOK
<1>4. CASE s >= proc[p].sz
  BY <1>1, <1>2, <1>4, Stutter, Zenon DEF growproc_shrink, vars
<1>5. CASE ~(s >= proc[p].sz)
  <2>1. /\ mem' = uvmunmap(mem, proc[p].pagetable, PageRange(s, proc[p].sz))
        /\ proc' = [proc EXCEPT ![p].sz = s]
        /\ PanicIf(NotMapped(mem, proc[p].pagetable, PageRange(s, proc[p].sz)), "uvmunmap")
    BY <1>1, <1>5, Zenon DEF growproc_shrink
  <2>2. /\ s \in Nat /\ proc[p].sz \in Nat /\ s <= proc[p].sz /\ s <= UMAX
        /\ PageCount(proc[p].sz) <= UPAGES
    BY <1>1, <1>3, <1>5, Arithmetic, FitPages, Constants DEF ProcType, SizeOK
  <2>3. Only(p, p) /\ proc'[p] = [proc[p] EXCEPT !.sz = s] /\ th'[p] = Idle
    BY <1>2, <1>3, <2>1, OneEntry, RecordsTyped, Zenon DEF Only
  <2>4. /\ proc'[p].state = "RUNNING" /\ proc'[p].pagetable = proc[p].pagetable
        /\ proc'[p].trapframe = proc[p].trapframe /\ proc'[p].sz = s
        /\ th'[p].pc = "idle" /\ th'[p].call = "none" /\ th'[p].np = 0 /\ th'[p].t = 0
        /\ th'[p].sz = 0 /\ th'[p].argv = {} /\ th[p].call = "none"
    BY <1>2, <1>3, <2>3, StartFields, Zenon DEF ProcType
  <2>5. Maps(mem, proc[p].pagetable, PageCount(proc[p].sz)) /\ proc[p].pagetable # 0
    BY <1>2, <1>3, <2>4, Zenon DEF ProcTable, SlotOK
  <2>6. proc[p].pagetable \in Roots
    BY <2>5, RootsAre, Zenon
  <2>7. /\ mem' \in MemType /\ Exact(mem', Roots, Others) /\ OnlyTable(proc[p].pagetable)
        /\ Maps(mem', proc[p].pagetable, PageCount(s))
        /\ ~NotMapped(mem, proc[p].pagetable, PageRange(s, proc[p].sz))
    BY <2>1, <2>2, <2>5, <2>6, CutPages, Zenon
  <2>8. panicked' = "no"
    BY <1>2, <2>1, <2>7, Zenon DEF PanicIf
  <2>9. CallOK(p)' /\ ForkOK(p)' /\ SlotOK(p)'
    BY <1>3, <2>3, <2>4, <2>5 DEF CallOK, ForkOK, SlotOK
  <2>10. SizeOK(p)' /\ (proc[p].sz <= UMAX)'
    BY <2>2, <2>4, ZeroFits, Zenon DEF SizeOK, SizeOf
  <2>11. ProcTable(p)' /\ CallTable(p)'
    BY <2>4, <2>7, Zenon DEF ProcTable, CallTable, Maps
  <2>12. Local(p, p)'
    BY <2>4, <2>9, <2>10, <2>11, Zenon DEF Local
  <2>13. Own(p, p)' = Own(p, p) /\ proc[p].pagetable \in Own(p, p) /\ Mine(p, p)
    BY <1>2, <2>4, MineSelf, Zenon DEF Own
  <2> QED BY <1>2, <2>3, <2>4, <2>5, <2>7, <2>8, <2>12, <2>13, SameRoots, Zenon
<1> QED BY <1>4, <1>5, Zenon

\* The kernel's pages are mapped, in a new page table.
LEMMA MapKernelPage ==
  ASSUME IInv, NEW t \in Roots, NEW va \in {TRAPFRAME, TRAMPOLINE}, NEW S, MapsOnly(mem, t, S),
         CanWalk(mem, t, va), NEW g \in Nat \ {0}, mem' = mappages(mem, t, va, g)
  PROVE  /\ mem' \in MemType /\ Exact(mem', Roots, Others) /\ OnlyTable(t)
         /\ MapsOnly(mem', t, S \cup {va})
<1>1. Roots \in SUBSET Pages /\ mem \in MemType /\ Exact(mem, Roots, Others)
  BY RootsAre, SizeAssumption, Zenon
<1>2. va \in VPages
  BY Layout, Zenon
<1>3. Exact(mem', Roots, Others)
  BY <1>1, MapKernel, Zenon
<1>4. /\ mem' \in MemType
      /\ \A r \in Pages \ {t} : mem'.pt[r] = mem.pt[r]
      /\ \A v \in VPages : mem'.pt[t].leaf[v] = IF v = va THEN g ELSE mem.pt[t].leaf[v]
  BY <1>1, <1>2, MapFacts
<1> QED BY <1>3, <1>4, Zenon DEF OnlyTable, MapsOnly

\* proc_pagetable() maps the trampoline.
LEMMA StepMapTrampoline ==
  ASSUME IInv, [Next]_vars, NEW p \in Procs, map_trampoline(p), CanWalk(mem, th[p].t, TRAMPOLINE)
  PROVE  IInv'
<1>1. /\ th[p].pc = "trampoline" /\ panicked' = "no" /\ UNCHANGED proc
      /\ mem' = mappages(mem, th[p].t, TRAMPOLINE, TrampolinePage)
  BY Zenon DEF map_trampoline, At
<1>2. /\ CallOK(p) /\ ForkOK(p) /\ SlotOK(p) /\ SizeOK(p) /\ ProcTable(p) /\ CallTable(p)
      /\ th[p] \in CallType /\ proc[p] \in ProcType
  BY Locals, Zenon
<1>3. proc[p].state = "RUNNING" /\ th[p].t # 0 /\ th[p].call \in {"fork", "exec"}
  BY <1>1, <1>2, Zenon DEF CallOK, CallType, SystemCalls
<1>4. Only(p, p) /\ th'[p] = [th[p] EXCEPT !.pc = "trapframe"]
  <2>1. th' = [th EXCEPT ![p].pc = "trapframe"]
    BY Zenon DEF map_trampoline
  <2> QED BY <1>1, <2>1, OneEntry, RecordsTyped, Zenon DEF Only
<1>5. /\ th'[p].pc = "trapframe" /\ th'[p].call = th[p].call /\ th'[p].np = th[p].np
      /\ th'[p].t = th[p].t /\ th'[p].sz = th[p].sz /\ th'[p].a = th[p].a /\ th'[p].argv = th[p].argv
  BY <1>2, <1>4, Zenon DEF CallType
<1>6. th[p].t \in Roots /\ TrampolinePage \in Nat \ {0}
  BY <1>3, RootsAre, Constants DEF TrampolinePage
<1>7. MapsOnly(mem, th[p].t, {})
  BY <1>1, <1>2, Zenon DEF CallTable
<1>8. /\ mem' \in MemType /\ Exact(mem', Roots, Others) /\ OnlyTable(th[p].t)
      /\ MapsOnly(mem', th[p].t, {} \cup {TRAMPOLINE})
  BY <1>1, <1>6, <1>7, MapKernelPage, Zenon
<1>9. CallOK(p)' /\ ForkOK(p)' /\ SlotOK(p)'
  BY <1>1, <1>2, <1>3, <1>5, Zenon DEF CallOK, ForkOK, SlotOK
<1>10. SizeOK(p)' /\ (proc[p].sz <= UMAX)'
  BY <1>1, <1>2, <1>5, Zenon DEF SizeOK, SizeOf
<1>11. CallTable(p)'
  BY <1>5, <1>8, Zenon DEF CallTable, MapsOnly
<1>12. proc[p].pagetable \in Pages \ {th[p].t}
  BY <1>1, <1>2, <1>3, Zenon DEF IInv, Unshared, ProcType, SlotOK
<1>13. mem'.pt[proc[p].pagetable] = mem.pt[proc[p].pagetable]
  BY <1>8, <1>12, Zenon DEF OnlyTable
<1>14. ProcTable(p)'
  BY <1>1, <1>2, <1>3, <1>5, <1>13, Zenon DEF ProcTable, Maps
<1>15. Local(p, p)'
  BY <1>1, <1>5, <1>9, <1>10, <1>11, <1>12, <1>14, Zenon DEF Local
<1>16. Own(p, p)' = Own(p, p) /\ th[p].t \in Own(p, p) /\ Mine(p, p)
  BY <1>1, <1>3, <1>5, MineSelf, Zenon DEF Own
<1> QED BY <1>1, <1>3, <1>4, <1>5, <1>8, <1>15, <1>16, SameRoots, Zenon

\* proc_pagetable() maps the trapframe, and is done.
LEMMA StepMapTrapframe ==
  ASSUME IInv, [Next]_vars, NEW p \in Procs, map_trapframe(p), CanWalk(mem, th[p].t, TRAPFRAME)
  PROVE  IInv'
<1>1. /\ th[p].pc = "trapframe" /\ panicked' = "no"
      /\ mem' = mappages(mem, th[p].t, TRAPFRAME, proc[Target(p)].trapframe)
  BY Zenon DEF map_trapframe, At
<1>2. /\ CallOK(p) /\ ForkOK(p) /\ SlotOK(p) /\ SizeOK(p) /\ ProcTable(p) /\ CallTable(p)
      /\ th[p] \in CallType /\ proc[p] \in ProcType
  BY Locals, Zenon
<1>3. proc[p].state = "RUNNING" /\ th[p].t # 0 /\ th[p].call \in {"fork", "exec"}
  BY <1>1, <1>2, Zenon DEF CallOK, CallType, SystemCalls
<1>4. PICK x \in Procs : x = Target(p) /\ Mine(p, x) /\ SlotOK(x) /\ proc[x] \in ProcType
                         /\ SizeOK(x) /\ proc[x].state \in {"USED", "RUNNING"}
                         /\ (th[p].call = "fork" => x = th[p].np /\ x # p /\ proc[x].state = "USED"
                                                    /\ proc[x].pagetable = 0)
                         /\ (th[p].call # "fork" => x = p)
  <2>1. CASE th[p].call = "fork"
    <3>1. th[p].np \in Procs /\ th[p].np # p /\ Mine(p, th[p].np)
      BY <2>1, MineChild, Zenon
    <3>2. SlotOK(th[p].np) /\ proc[th[p].np] \in ProcType /\ SizeOK(th[p].np)
      BY <3>1, Locals, Zenon
    <3> QED BY <1>1, <1>2, <2>1, <3>1, <3>2, Zenon DEF Target, ForkOK
  <2>2. CASE th[p].call # "fork"
    BY <1>1, <1>2, <1>3, <2>2, MineSelf, Zenon DEF Target
  <2> QED BY <2>1, <2>2, Zenon
<1>5. /\ Only(p, x)
      /\ th'[p] = [th[p] EXCEPT !.pc = IF th[p].call = "fork" THEN "uvmcopy" ELSE "segments"]
      /\ proc'[x] = IF th[p].call = "fork" THEN [proc[x] EXCEPT !.pagetable = th[p].t] ELSE proc[x]
  <2>1. /\ th' = [th EXCEPT ![p].pc = IF th[p].call = "fork" THEN "uvmcopy" ELSE "segments"]
        /\ proc' = IF th[p].call = "fork" THEN [proc EXCEPT ![th[p].np].pagetable = th[p].t] ELSE proc
    BY Zenon DEF map_trapframe
  <2>2. /\ th'[p] = [th[p] EXCEPT !.pc = IF th[p].call = "fork" THEN "uvmcopy" ELSE "segments"]
        /\ \A q \in Procs \ {p} : th'[q] = th[q]
    BY <2>1, OneEntry, RecordsTyped, Zenon
  <2>3. CASE th[p].call = "fork"
    <3>1. proc' = [proc EXCEPT ![x] = [proc[x] EXCEPT !.pagetable = th[p].t]]
      BY <1>4, <2>1, <2>3, Zenon
    <3>2. /\ proc'[x] = [proc[x] EXCEPT !.pagetable = th[p].t]
          /\ \A q \in Procs \ {x} : proc'[q] = proc[q]
      BY <1>4, <3>1, ProcEntry, Zenon
    <3> QED BY <2>2, <2>3, <3>2, Zenon DEF Only
  <2>4. CASE th[p].call # "fork"
    BY <2>1, <2>2, <2>4, Zenon DEF Only
  <2> QED BY <2>3, <2>4, Zenon
<1>6. /\ th'[p].pc = (IF th[p].call = "fork" THEN "uvmcopy" ELSE "segments")
      /\ th'[p].call = th[p].call /\ th'[p].np = th[p].np
      /\ th'[p].t = th[p].t /\ th'[p].sz = th[p].sz /\ th'[p].a = th[p].a /\ th'[p].argv = th[p].argv
      /\ proc'[x].pagetable = (IF th[p].call = "fork" THEN th[p].t ELSE proc[x].pagetable)
      /\ proc'[x].state = proc[x].state /\ proc'[x].trapframe = proc[x].trapframe
      /\ proc'[x].sz = proc[x].sz /\ proc'[p] = proc[p]
  BY <1>2, <1>4, <1>5, Zenon DEF CallType, ProcType, Only
<1>7. th[p].t \in Roots /\ proc[x].trapframe \in Nat \ {0}
  BY <1>3, <1>4, RootsAre, Constants, Zenon DEF SlotOK, ProcType
<1>8. MapsOnly(mem, th[p].t, {TRAMPOLINE})
  BY <1>1, <1>2, Zenon DEF CallTable
<1>9. /\ mem' \in MemType /\ Exact(mem', Roots, Others) /\ OnlyTable(th[p].t)
      /\ MapsOnly(mem', th[p].t, {TRAMPOLINE} \cup {TRAPFRAME})
  BY <1>1, <1>4, <1>7, <1>8, MapKernelPage, Zenon
<1>10. th[p].a = 0 /\ th[p].sz = 0
  BY <1>1, <1>2, Zenon DEF SizeOK
<1>11. PageAt(0) = 0 /\ PageCount(0) = 0 /\ Aligned(0)
  BY WholePages, Constants
<1>12. Maps(mem', th[p].t, 0)
  BY <1>9, Layout DEF Maps, MapsOnly
<1>13. CallOK(p)'
  BY <1>1, <1>2, <1>3, <1>6, Zenon DEF CallOK
<1>14. ForkOK(p)'
  BY <1>4, <1>6, Zenon DEF ForkOK
<1>15. SlotOK(x)'
  BY <1>3, <1>4, <1>6, Zenon DEF SlotOK
<1>16. SizeOK(p)' /\ proc'[x].sz <= UMAX
  <2>1. PageCount(proc[p].sz) \in Nat
    BY <1>2, RoundUp, Zenon DEF ProcType
  <2>2. 0 <= PageCount(proc[p].sz)
    BY <2>1
  <2>3. th'[p].a = 0 /\ th'[p].sz = 0 /\ Aligned(th'[p].a) /\ PageAt(th'[p].a) = 0
    BY <1>6, <1>10, <1>11, Zenon
  <2> QED BY <1>2, <1>3, <1>4, <1>6, <2>2, <2>3, ZeroFits, Zenon DEF SizeOK, SizeOf
<1>17. CallTable(p)'
  BY <1>6, <1>10, <1>11, <1>12, Zenon DEF CallTable, Maps
<1>18. proc[p].pagetable \in Pages \ {th[p].t}
  BY <1>1, <1>2, <1>3, Zenon DEF IInv, Unshared, ProcType, SlotOK
<1>19. mem'.pt[proc[p].pagetable] = mem.pt[proc[p].pagetable]
  BY <1>9, <1>18, Zenon DEF OnlyTable
<1>20. ProcTable(p)'
  BY <1>1, <1>2, <1>3, <1>6, <1>19, MapsKept, Zenon DEF ProcTable
<1>21. ProcTable(x)'
  BY <1>4, <1>6, <1>20, Zenon DEF ProcTable
<1>22. Local(p, x)'
  BY <1>3, <1>4, <1>6, <1>13, <1>14, <1>15, <1>16, <1>17, <1>18, <1>20, <1>21,
       Zenon DEF Local
<1>23. Own(p, x)' = Own(p, x) /\ th[p].t \in Own(p, x)
  BY <1>4, <1>6, Zenon DEF Own
<1> QED BY <1>1, <1>3, <1>4, <1>5, <1>6, <1>9, <1>22, <1>23, SameRoots, Zenon

\* Steps that change no page table, but the owners outside them.
LEMMA SameTables ==
  ASSUME IInv, [Next]_vars, NEW p \in Procs, NEW x \in Procs, Mine(p, x), Only(p, x), Local(p, x)',
         th'[p].np \in {0, th[p].np, x}, panicked' = "no", Own(p, x)' = Own(p, x),
         mem' \in MemType, mem'.pt = mem.pt, Exact(mem', Roots, Others')
  PROVE  IInv'
<1>1. RootsKept
  BY KeepRoots, Zenon
<1>2. Roots' = Roots
  BY <1>1, Zenon DEF RootsKept
<1>3. Exact(mem', Roots', Others')
  BY <1>2, Zenon
<1>4. Apart(p, x)
  BY MineApart, Zenon
<1>5. \A r \in Own(p, x)' : r # 0 => r \notin Rest(p, x)
  BY <1>4, Zenon DEF Apart
<1>6. TrampolinePage \notin Pages \cup {0}
  BY Constants DEF TrampolinePage, Pages
<1>7. Rest(p, x) \subseteq Pages \cup {0}
  <2>1. ASSUME NEW q \in Procs PROVE proc[q].pagetable \in Pages \cup {0} /\ th[q].t \in Pages \cup {0}
    BY Zenon DEF IInv, TypeOK, CallType, ProcType
  <2> QED BY <2>1, Zenon DEF Rest
<1>8. TrampolinePage \notin Rest(p, x) /\ TrampolinePage \notin Pages /\ OnlyTable(TrampolinePage)
  BY <1>6, <1>7, Zenon DEF OnlyTable
<1> QED BY <1>2, <1>3, <1>5, <1>8, StepInv, Zenon

\* fork() begins: allocproc().
LEMMA StepFork ==
  ASSUME IInv, [Next]_vars, NEW p \in Procs, NEW np \in Procs, fork(p, np)
  PROVE  IInv'
<1>1. /\ th[p].pc = "idle" /\ panicked' = "no" /\ proc[p].state = "RUNNING"
      /\ proc[np].state = "UNUSED" /\ mem.free # {} /\ mem' = Taken(mem)
  BY Zenon DEF fork, At
<1>2. /\ CallOK(p) /\ SlotOK(p) /\ SizeOK(p) /\ ProcTable(p) /\ th[p] = Idle /\ np # p
      /\ proc[np] = NoProc
  BY <1>1, Locals, Zenon DEF CallOK, SlotOK
<1>3. Mine(p, np)
  BY <1>1, <1>2, MineOther, Zenon
<1>4. /\ Only(p, np) /\ th'[p] = [Idle EXCEPT !.pc = "uvmcreate", !.call = "fork", !.np = np]
      /\ proc'[np] = [NoProc EXCEPT !.state = "USED", !.trapframe = kalloc(mem)]
  BY OneEntry, RecordsTyped, Zenon DEF fork, Only
<1>5. /\ th'[p].pc = "uvmcreate" /\ th'[p].call = "fork" /\ th'[p].np = np /\ th'[p].t = 0
      /\ th'[p].sz = 0 /\ th'[p].a = 0 /\ th'[p].argv = {} /\ th[p].argv = {} /\ th[p].t = 0
      /\ th[p].call = "none" /\ proc'[np].state = "USED" /\ proc'[np].pagetable = 0
      /\ proc'[np].sz = 0 /\ proc'[np].trapframe = kalloc(mem) /\ proc'[p] = proc[p]
      /\ proc[np].pagetable = 0 /\ proc[np].trapframe = 0
  BY <1>2, <1>4, StartFields, StartTypes, Zenon DEF Only, CallType, ProcType
<1>6. kalloc(mem) # 0 /\ Taken(mem) \in MemType /\ Taken(mem).pt = mem.pt
  BY <1>1, Kalloc, Zenon DEF IInv, TypeOK
<1>7. Roots \in SUBSET Pages /\ mem \in MemType /\ Exact(mem, Roots, Others)
  BY RootsAre, Zenon
<1>8. Others' = Others \cup {TrapframeOwner(np)'}
  BY <1>4, <1>5, <1>6, AddTrapframe, Zenon DEF OthersAdded
<1>9. IsOther(TrapframeOwner(np)') /\ TrapframeOwner(np)'[4] = kalloc(mem)
  BY <1>5, Zenon DEF IsOther, TrapframeOwner
<1>10. Exact(mem', Roots, Others')
  BY <1>1, <1>7, <1>8, <1>9, KallocOther, Zenon
<1>11. CallOK(p)' /\ ForkOK(p)' /\ SlotOK(np)'
  BY <1>1, <1>2, <1>5, <1>6, Constants, Zenon DEF CallOK, ForkOK, SlotOK
<1>12. SizeOK(p)' /\ proc'[np].sz <= UMAX
  BY <1>2, <1>5, ZeroFits, Zenon DEF SizeOK, SizeOf
<1>13. ProcTable(p)' /\ ProcTable(np)' /\ CallTable(p)'
  BY <1>1, <1>2, <1>5, <1>6, Zenon DEF ProcTable, CallTable, Maps
<1>14. Local(p, np)'
  BY <1>5, <1>11, <1>12, <1>13, Zenon DEF Local
<1>15. Own(p, np)' = Own(p, np)
  BY <1>5, Zenon DEF Own
<1> QED BY <1>1, <1>3, <1>4, <1>5, <1>6, <1>10, <1>14, <1>15, SameTables, Zenon

\* exec() takes a page for an argument, or gives them back.
LEMMA StepFetchArg ==
  ASSUME IInv, [Next]_vars, NEW p \in Procs, fetch_arg(p)
  PROVE  IInv'
<1>1. th[p].pc = "argv" /\ panicked' = "no" /\ UNCHANGED proc /\ mem.free # {} /\ mem' = Taken(mem)
  BY Zenon DEF fetch_arg, At
<1>2. CallOK(p) /\ SlotOK(p) /\ SizeOK(p) /\ ProcTable(p) /\ th[p] \in CallType
  BY Locals, Zenon
<1>3. th[p].call = "exec" /\ proc[p].state = "RUNNING" /\ th[p].t = 0
  BY <1>1, <1>2, Zenon DEF CallOK, CallType, SystemCalls
<1>4. Only(p, p) /\ th'[p] = [th[p] EXCEPT !.argv = th[p].argv \cup {kalloc(mem)}]
  BY <1>1, OneEntry, RecordsTyped, Zenon DEF fetch_arg, Only
<1>5. /\ th'[p].pc = "argv" /\ th'[p].call = "exec" /\ th'[p].np = th[p].np /\ th'[p].t = 0
      /\ th'[p].sz = th[p].sz /\ th'[p].a = th[p].a /\ th'[p].argv = th[p].argv \cup {kalloc(mem)}
  BY <1>1, <1>2, <1>3, <1>4, Zenon DEF CallType
<1>6. Taken(mem) \in MemType /\ Taken(mem).pt = mem.pt
  BY <1>1, Kalloc, Zenon DEF IInv, TypeOK
<1>7. Roots \in SUBSET Pages /\ mem \in MemType /\ Exact(mem, Roots, Others)
  BY RootsAre, Zenon
<1>8. Others' = Others \cup {ArgvOwner(p, kalloc(mem))}
  BY <1>1, <1>4, <1>5, AddArgv, Zenon DEF OthersAdded
<1>9. IsOther(ArgvOwner(p, kalloc(mem))) /\ ArgvOwner(p, kalloc(mem))[4] = kalloc(mem)
  BY Zenon DEF IsOther, ArgvOwner
<1>10. Exact(mem', Roots, Others')
  BY <1>1, <1>7, <1>8, <1>9, KallocOther, Zenon
<1>11. CallOK(p)' /\ ForkOK(p)' /\ SlotOK(p)'
  BY <1>1, <1>2, <1>3, <1>5, Zenon DEF CallOK, ForkOK, SlotOK
<1>12. SizeOK(p)' /\ (proc[p].sz <= UMAX)'
  BY <1>1, <1>2, <1>3, <1>5, Zenon DEF SizeOK, SizeOf
<1>13. ProcTable(p)' /\ CallTable(p)'
  BY <1>1, <1>2, <1>3, <1>5, <1>6, Zenon DEF ProcTable, CallTable, Maps
<1>14. Local(p, p)'
  BY <1>5, <1>11, <1>12, <1>13, Zenon DEF Local
<1>15. Own(p, p)' = Own(p, p) /\ Mine(p, p)
  BY <1>1, <1>3, <1>5, MineSelf, Zenon DEF Own
<1> QED BY <1>1, <1>4, <1>5, <1>6, <1>10, <1>14, <1>15, SameTables, Zenon

\* exec() cannot have a page for an argument, and gives back what it has.
LEMMA StepArgvBad ==
  ASSUME IInv, [Next]_vars, NEW p \in Procs, argv_bad(p)
  PROVE  IInv'
<1>1. th[p].pc = "argv" /\ panicked' = "no" /\ UNCHANGED proc /\ mem' = kfree(mem, th[p].argv)
  BY Zenon DEF argv_bad, At
<1>2. CallOK(p) /\ SlotOK(p) /\ SizeOK(p) /\ ProcTable(p) /\ th[p] \in CallType
  BY Locals, Zenon
<1>3. th[p].call = "exec" /\ proc[p].state = "RUNNING" /\ th[p].t = 0
  BY <1>1, <1>2, Zenon DEF CallOK, CallType, SystemCalls
<1>4. Only(p, p) /\ th'[p] = Idle
  BY <1>1, OneEntry, RecordsTyped, Zenon DEF argv_bad, Return, Only
<1>5. /\ th'[p].pc = "idle" /\ th'[p].call = "none" /\ th'[p].np = 0 /\ th'[p].t = 0
      /\ th'[p].sz = 0 /\ th'[p].a = 0 /\ th'[p].argv = {}
  BY <1>4, StartFields, Zenon
<1>6. Roots \in SUBSET Pages /\ mem \in MemType /\ Exact(mem, Roots, Others)
  BY RootsAre, Zenon
<1>7. mem' \in MemType /\ mem'.pt = mem.pt
  BY <1>1, <1>2, <1>6, KfreeFacts, Zenon DEF CallType
<1>8. /\ Others' = Others \ ArgvOf(p) /\ ArgvOf(p) \in SUBSET Others
      /\ PagesOf(ArgvOf(p)) = th[p].argv
  BY <1>1, <1>4, <1>5, DropArgv, Zenon DEF OthersRemoved
<1>9. Exact(mem', Roots, Others')
  BY <1>1, <1>6, <1>8, KfreeOther, Zenon
<1>10. CallOK(p)' /\ ForkOK(p)' /\ SlotOK(p)'
  BY <1>1, <1>2, <1>3, <1>4, <1>5, Zenon DEF CallOK, ForkOK, SlotOK
<1>11. SizeOK(p)' /\ (proc[p].sz <= UMAX)'
  BY <1>1, <1>2, <1>5, Constants, Zenon DEF SizeOK, SizeOf
<1>12. ProcTable(p)' /\ CallTable(p)'
  BY <1>1, <1>2, <1>3, <1>5, <1>7, Zenon DEF ProcTable, CallTable, Maps
<1>13. Local(p, p)'
  BY <1>5, <1>10, <1>11, <1>12, Zenon DEF Local
<1>14. Own(p, p)' = Own(p, p) /\ Mine(p, p)
  BY <1>1, <1>3, <1>5, MineSelf, Zenon DEF Own
<1> QED BY <1>1, <1>4, <1>5, <1>7, <1>9, <1>13, <1>14, SameTables, Zenon

\* A page that is free is no page table.
LEMMA FreeNotRoot ==
  ASSUME IInv, NEW g \in mem.free
  PROVE  g \notin Roots
<1>1. Exact(mem, Roots, Others)
  BY RootsAre, SizeAssumption, Zenon
<1>2. ASSUME g \in Roots PROVE FALSE
  <2>1. RootOwner(g) \in Others \cup AllTables(mem, Roots)
    <3>1. RootOwner(g) \in TableOwners(mem, g)
      BY Zenon DEF TableOwners
    <3> QED BY <1>2, <3>1, Zenon DEF AllTables
  <2>2. RootOwner(g)[4] = g
    BY Zenon DEF RootOwner
  <2> QED BY <1>1, <2>1, <2>2, Zenon DEF Exact, Balanced
<1> QED BY <1>2, Zenon

\* uvmcreate() gets a page.
LEMMA StepUvmcreate ==
  ASSUME IInv, [Next]_vars, NEW p \in Procs, uvmcreate(p), mem.free # {}
  PROVE  IInv'
<1>1. PICK g : g = kalloc(mem)
  BY Zenon
<1>2. /\ th[p].pc = "uvmcreate" /\ panicked' = "no" /\ UNCHANGED proc /\ mem' = Taken(mem)
      /\ th' = [th EXCEPT ![p].pc = "trampoline", ![p].t = g]
  BY <1>1, Zenon DEF uvmcreate, At
<1>3. /\ CallOK(p) /\ ForkOK(p) /\ SlotOK(p) /\ SizeOK(p) /\ ProcTable(p)
      /\ th[p] \in CallType /\ proc[p] \in ProcType
  BY Locals, Zenon
<1>4. proc[p].state = "RUNNING" /\ th[p].t = 0 /\ th[p].call \in {"fork", "exec"}
  BY <1>2, <1>3, Zenon DEF CallOK, CallType, SystemCalls
<1>5. Only(p, p) /\ th'[p] = [th[p] EXCEPT !.pc = "trampoline", !.t = g]
  <2>1. th' = [th EXCEPT ![p] = [th[p] EXCEPT !.pc = "trampoline", !.t = g]]
    BY <1>2, Zenon DEF IInv, TypeOK
  <2>2. /\ th'[p] = [th[p] EXCEPT !.pc = "trampoline", !.t = g]
        /\ \A q \in Procs \ {p} : th'[q] = th[q]
    BY <2>1, ThEntry, Zenon
  <2> QED BY <1>2, <2>2, Zenon DEF Only
<1>6. /\ th'[p].pc = "trampoline" /\ th'[p].call = th[p].call /\ th'[p].np = th[p].np
      /\ th'[p].t = g /\ th'[p].sz = th[p].sz /\ th'[p].a = th[p].a /\ th'[p].argv = th[p].argv
  BY <1>3, <1>5, Zenon DEF CallType
<1>7. Roots \in SUBSET Pages /\ mem \in MemType /\ Exact(mem, Roots, Others)
  BY RootsAre, Zenon
<1>8. g \in Pages /\ g # 0 /\ g \in mem.free /\ mem' \in MemType /\ mem'.pt = mem.pt
  BY <1>1, <1>2, <1>7, Kalloc, Zenon
<1>9. g \notin Roots /\ mem.pt[g] = Empty
  BY <1>8, FreeNotRoot, Zenon DEF IInv, Tables
<1>10. Exact(mem', Roots \cup {g}, Others)
  BY <1>1, <1>2, <1>7, <1>9, KallocTable, Zenon
<1>11. Own(p, p)' = Own(p, p) \cup {g}
  BY <1>2, <1>4, <1>6, Zenon DEF Own
<1>12. Roots' = Roots \cup {g}
  BY <1>5, <1>8, <1>11, AddRoot, Zenon DEF RootsAdded
<1>13. Others' = Others
  BY <1>2, <1>5, <1>6, KeepOthers, Zenon DEF OthersKept
<1>14. Mine(p, p) /\ Apart(p, p)
  BY <1>2, <1>4, MineSelf, MineApart, Zenon
<1>15. g \notin Rest(p, p)
  BY <1>8, <1>9, RootsSplit, Zenon
<1>16. \A r \in Own(p, p)' : r # 0 => r \notin Rest(p, p)
  BY <1>11, <1>14, <1>15, Zenon DEF Apart
<1>17. CallOK(p)' /\ ForkOK(p)' /\ SlotOK(p)'
  BY <1>2, <1>3, <1>4, <1>6, <1>8, Zenon DEF CallOK, ForkOK, SlotOK
<1>18. SizeOK(p)' /\ (proc[p].sz <= UMAX)'
  BY <1>2, <1>3, <1>6, Zenon DEF SizeOK, SizeOf
<1>19. ProcTable(p)'
  BY <1>2, <1>3, <1>4, <1>6, <1>8, Zenon DEF ProcTable, Maps
<1>20. CallTable(p)'
  BY <1>6, <1>8, <1>9 DEF CallTable, MapsOnly, Empty
<1>21. proc[p].pagetable # g
  BY <1>4, <1>9, RootsAre, <1>3, Zenon DEF SlotOK
<1>22. Local(p, p)'
  BY <1>2, <1>6, <1>17, <1>18, <1>19, <1>20, <1>21, Zenon DEF Local
<1>23. OnlyTable(g) /\ g \in Roots' /\ (\A r \in Pages \ {g} : r \in Roots => r \in Roots')
  BY <1>8, <1>12, Zenon DEF OnlyTable
<1>24. Exact(mem', Roots', Others')
  BY <1>10, <1>12, <1>13, Zenon
<1> QED BY <1>2, <1>5, <1>6, <1>8, <1>14, <1>15, <1>16, <1>22, <1>23, <1>24, StepInv,
             Zenon

\* Steps that free a page table.
LEMMA LostRoot ==
  ASSUME IInv, [Next]_vars, NEW p \in Procs, NEW x \in Procs, Mine(p, x), Only(p, x), Local(p, x)',
         th'[p].np \in {0, th[p].np, x}, panicked' = "no", NEW t \in Own(p, x), t # 0,
         Own(p, x)' = Own(p, x) \ {t}, mem' \in MemType, Exact(mem', Roots \ {t}, Others'),
         Freed(mem', mem, t)
  PROVE  IInv'
<1>1. Apart(p, x)
  BY MineApart, Zenon
<1>2. (\A r \in Own(p, x)' : r # 0 => r \notin Rest(p, x)) /\ t \notin Rest(p, x)
  BY <1>1, Zenon DEF Apart
<1>3. Roots' = Roots \ {t}
  BY <1>2, RemoveRoot, Zenon DEF RootsRemoved
<1>4. Exact(mem', Roots', Others') /\ \A r \in Pages \ {t} : r \in Roots => r \in Roots'
  BY <1>3, Zenon
<1>5. OnlyTable(t) /\ mem'.pt[t] = Empty
  BY Zenon DEF OnlyTable, Freed
<1> QED BY <1>2, <1>4, <1>5, StepInv, Zenon

\* freeproc() of a process with a page table that maps what its size says.
LEMMA FreeprocExact ==
  ASSUME NEW m \in MemType, NEW R \in SUBSET Pages, NEW X, Exact(m, R, X), NEW q \in Procs,
         {TrapframeOwner(q)} \in SUBSET X, proc[q].trapframe # 0, NEW t \in R, t # 0,
         proc[q].pagetable = t, proc[q].sz \in Nat, PageCount(proc[q].sz) <= UPAGES,
         Maps(m, t, PageCount(proc[q].sz))
  PROVE  /\ ~FreeprocPanics(m, q) /\ freeproc(m, q) \in MemType
         /\ Exact(freeproc(m, q), R \ {t}, X \ {TrapframeOwner(q)}) /\ Freed(freeproc(m, q), m, t)
<1> DEFINE W == {TrapframeOwner(q)}
           n == kfree(m, {proc[q].trapframe})
<1>1. PagesOf(W) = {proc[q].trapframe}
  BY DEF PagesOf, TrapframeOwner
<1>2. Exact(n, R, X \ W)
  BY <1>1, KfreeOther, Zenon
<1>3. PagesOf(W) \in SUBSET Pages
  <2>1. W \in SUBSET (X \cup AllTables(m, R))
    BY Zenon
  <2> QED BY <2>1, OwnedPages, Zenon
<1>4. n \in MemType /\ n.pt = m.pt
  BY <1>1, <1>3, KfreeFacts, Zenon
<1>5. Maps(n, t, PageCount(proc[q].sz))
  BY <1>4, Zenon DEF Maps
<1>6. freeproc(m, q) = proc_freepagetable(n, t, proc[q].sz)
  BY Zenon DEF freeproc
<1> HIDE DEF n, W
<1>7. ~FreePanics(m, t, proc[q].sz)
  BY FreeTable, Zenon
<1>8. /\ proc_freepagetable(n, t, proc[q].sz) \in MemType
      /\ Exact(proc_freepagetable(n, t, proc[q].sz), R \ {t}, X \ W)
      /\ Freed(proc_freepagetable(n, t, proc[q].sz), n, t)
  BY <1>2, <1>4, <1>5, FreeTable, Zenon
<1>9. Freed(freeproc(m, q), m, t)
  BY <1>4, <1>6, <1>8, Zenon DEF Freed
<1> QED BY <1>6, <1>7, <1>8, <1>9, Zenon DEF FreeprocPanics, W

\* fork() fails: what becomes of the records.
LEMMA ForkFails ==
  ASSUME IInv, NEW p \in Procs, th[p].call = "fork", NEW np \in Procs, np = th[p].np,
         proc' = [proc EXCEPT ![np] = NoProc], Return(p),
         mem'.pt[proc[p].pagetable] = mem.pt[proc[p].pagetable]
  PROVE  /\ Mine(p, np) /\ Only(p, np) /\ Local(p, np)' /\ th'[p].np = 0
         /\ Own(p, np)' = {0} /\ Others' = Others \ {TrapframeOwner(np)}
         /\ {TrapframeOwner(np)} \in SUBSET Others /\ proc[np].trapframe # 0 /\ proc[np].sz = 0
         /\ PagesOf({TrapframeOwner(np)}) = {proc[np].trapframe}
<1>1. /\ CallOK(p) /\ ForkOK(p) /\ SlotOK(p) /\ SizeOK(p) /\ ProcTable(p) /\ SlotOK(np)
  BY Locals, Zenon
<1>2. Mine(p, np) /\ np # p
  BY MineChild, Zenon
<1>3. Only(p, np) /\ th'[p] = Idle /\ proc'[np] = NoProc
  <2>1. th'[p] = Idle /\ \A q \in Procs \ {p} : th'[q] = th[q]
    BY ThEntry, Zenon DEF Return
  <2>2. proc'[np] = NoProc /\ \A q \in Procs \ {np} : proc'[q] = proc[q]
    BY ProcEntry, Zenon
  <2> QED BY <2>1, <2>2, Zenon DEF Only
<1>4. /\ th'[p].pc = "idle" /\ th'[p].call = "none" /\ th'[p].np = 0 /\ th'[p].t = 0
      /\ th'[p].sz = 0 /\ th'[p].argv = {} /\ proc'[np].state = "UNUSED" /\ proc'[np].pagetable = 0
      /\ proc'[np].trapframe = 0 /\ proc'[np].sz = 0 /\ proc'[p] = proc[p]
  BY <1>2, <1>3, StartFields, Zenon DEF Only
<1>5. th[p].argv = {} /\ proc[p].state = "RUNNING"
  BY <1>1, Zenon DEF CallOK
<1>6. proc[np].trapframe # 0 /\ proc[np].sz = 0
  BY <1>1, Zenon DEF ForkOK, SlotOK
<1>7. /\ Others' = Others \ {TrapframeOwner(np)} /\ {TrapframeOwner(np)} \in SUBSET Others
      /\ PagesOf({TrapframeOwner(np)}) = {proc[np].trapframe}
  BY <1>3, <1>4, <1>5, <1>6, DropTrapframe, Zenon DEF OthersRemoved
<1>8. CallOK(p)' /\ ForkOK(p)' /\ SlotOK(np)'
  BY <1>3, <1>4, Zenon DEF CallOK, ForkOK, SlotOK
<1>9. SizeOK(p)' /\ proc'[np].sz <= UMAX
  BY <1>1, <1>4, ZeroFits, Zenon DEF SizeOK, SizeOf
<1>10. ProcTable(p)' /\ ProcTable(np)' /\ CallTable(p)'
  <2>1. Maps(mem, proc[p].pagetable, PageCount(proc[p].sz))
    BY <1>1, <1>5, Zenon DEF ProcTable
  <2>2. Maps(mem', proc[p].pagetable, PageCount(proc[p].sz))
    BY <2>1, MapsKept, Zenon
  <2> QED BY <1>4, <2>2, Zenon DEF ProcTable, CallTable
<1>11. Local(p, np)'
  BY <1>4, <1>8, <1>9, <1>10, Zenon DEF Local
<1>12. Own(p, np)' = {0}
  BY <1>4, Zenon DEF Own
<1> QED BY <1>2, <1>3, <1>4, <1>6, <1>7, <1>11, <1>12, Zenon

\* exec() fails in proc_pagetable(): likewise.
LEMMA ExecFailsCall ==
  ASSUME IInv, NEW p \in Procs, th' = [th EXCEPT ![p].pc = "bad", ![p].t = 0], UNCHANGED proc
  PROVE  Only(p, p) /\ th'[p] = [th[p] EXCEPT !.pc = "bad", !.t = 0]
<1>1. th' = [th EXCEPT ![p] = [th[p] EXCEPT !.pc = "bad", !.t = 0]]
  BY Zenon DEF IInv, TypeOK
<1>2. /\ th'[p] = [th[p] EXCEPT !.pc = "bad", !.t = 0]
      /\ \A q \in Procs \ {p} : th'[q] = th[q]
  BY <1>1, ThEntry, Zenon
<1> QED BY <1>2, Zenon DEF Only

\* exec() then goes to bad without a page table.
LEMMA ExecFails ==
  ASSUME IInv, NEW p \in Procs, th[p].call = "exec",
         th[p].pc \in {"uvmcreate", "trampoline", "trapframe"},
         Only(p, p), th'[p] = [th[p] EXCEPT !.pc = "bad", !.t = 0], UNCHANGED proc,
         mem'.pt[proc[p].pagetable] = mem.pt[proc[p].pagetable]
  PROVE  /\ Mine(p, p) /\ Local(p, p)' /\ th'[p].np = th[p].np
         /\ Own(p, p)' = {proc[p].pagetable, 0} /\ Others' = Others
<1>1. CallOK(p) /\ SlotOK(p) /\ SizeOK(p) /\ ProcTable(p) /\ th[p] \in CallType
  BY Locals, Zenon
<1>2. proc[p].state = "RUNNING"
  BY <1>1, Zenon DEF CallOK
<1>3. Mine(p, p)
  BY <1>2, MineSelf, Zenon
<1>5. /\ th'[p].pc = "bad" /\ th'[p].call = "exec" /\ th'[p].np = th[p].np /\ th'[p].t = 0
      /\ th'[p].sz = th[p].sz /\ th'[p].argv = th[p].argv
  BY <1>1, Zenon DEF CallType
<1>6. Others' = Others
  BY <1>5, KeepOthers, Zenon DEF OthersKept
<1>7. CallOK(p)' /\ ForkOK(p)' /\ SlotOK(p)'
  BY <1>1, <1>2, <1>5, Zenon DEF CallOK, ForkOK, SlotOK
<1>8. SizeOK(p)' /\ (proc[p].sz <= UMAX)'
  BY <1>1, <1>5, Zenon DEF SizeOK, SizeOf
<1>9. ProcTable(p)' /\ CallTable(p)'
  BY <1>1, <1>5, Zenon DEF ProcTable, CallTable, Maps
<1>10. Local(p, p)'
  BY <1>5, <1>7, <1>8, <1>9, Zenon DEF Local
<1>11. Own(p, p)' = {proc[p].pagetable, 0}
  BY <1>5, Zenon DEF Own
<1> QED BY <1>3, <1>5, <1>6, <1>10, <1>11, Zenon

\* proc_pagetable() fails without a page table, or after its page table t is freed.
LEMMA FailsEarly ==
  ASSUME IInv, [Next]_vars, NEW p \in Procs, th[p].pc = "uvmcreate", panicked' = "no",
         PagetableFails(p, mem)
  PROVE  IInv'
<1>1. CallOK(p) /\ ForkOK(p) /\ th[p] \in CallType /\ proc[p] \in ProcType
  BY Locals, Zenon
<1>2. th[p].call \in {"fork", "exec"} /\ th[p].t = 0
  BY <1>1, Zenon DEF CallOK, CallType, SystemCalls
<1>3. Roots \in SUBSET Pages /\ mem \in MemType /\ Exact(mem, Roots, Others)
  BY RootsAre, Zenon
<1>4. CASE th[p].call = "fork"
  <2>1. PICK np \in Procs : np = th[p].np
    BY <1>4, MineChild, Zenon
  <2>2. mem' = freeproc(mem, np) /\ proc' = [proc EXCEPT ![np] = NoProc] /\ Return(p)
    BY <1>4, <2>1, Zenon DEF PagetableFails
  <2>3. proc[np].pagetable = 0 /\ proc[np] \in ProcType /\ SlotOK(np) /\ proc[np].state = "USED"
    BY <1>1, <1>4, <2>1, Locals, Zenon DEF ForkOK
  <2>4. mem' = kfree(mem, {proc[np].trapframe}) /\ proc[np].trapframe \in Pages
    BY <2>2, <2>3, Zenon DEF freeproc, ProcType, SlotOK
  <2>5. mem' \in MemType /\ mem'.pt = mem.pt
    BY <1>3, <2>4, KfreeFacts, Zenon
  <2>6. /\ Mine(p, np) /\ Only(p, np) /\ Local(p, np)' /\ th'[p].np = 0
        /\ Own(p, np)' = {0} /\ Others' = Others \ {TrapframeOwner(np)}
        /\ {TrapframeOwner(np)} \in SUBSET Others
        /\ PagesOf({TrapframeOwner(np)}) = {proc[np].trapframe}
    BY <1>4, <2>1, <2>2, <2>5, ForkFails, Zenon
  <2>7. Exact(mem', Roots, Others')
    BY <1>3, <2>4, <2>6, KfreeOther, Zenon
  <2>8. Own(p, np)' = Own(p, np)
    BY <1>2, <2>3, <2>6, Zenon DEF Own
  <2> QED BY <2>5, <2>6, <2>7, <2>8, SameTables, Zenon
<1>5. CASE th[p].call = "exec"
  <2>1. /\ mem' = mem /\ UNCHANGED proc /\ th' = [th EXCEPT ![p].pc = "bad", ![p].t = 0]
    BY <1>5, Zenon DEF PagetableFails
  <2>2. Only(p, p) /\ th'[p] = [th[p] EXCEPT !.pc = "bad", !.t = 0]
    BY <2>1, ExecFailsCall, Zenon
  <2>3. /\ Mine(p, p) /\ Local(p, p)' /\ th'[p].np = th[p].np
        /\ Own(p, p)' = {proc[p].pagetable, 0} /\ Others' = Others
    BY <1>5, <2>1, <2>2, ExecFails, Zenon
  <2>4. Own(p, p)' = Own(p, p)
    BY <1>2, <2>3, Zenon DEF Own
  <2>5. mem' \in MemType /\ mem'.pt = mem.pt /\ Exact(mem', Roots, Others')
    BY <1>3, <2>1, <2>3, Zenon
  <2> QED BY <2>2, <2>3, <2>4, <2>5, SameTables, Zenon
<1> QED BY <1>2, <1>4, <1>5, Zenon

\* After the page table is freed.
LEMMA FailsLate ==
  ASSUME IInv, [Next]_vars, NEW p \in Procs, th[p].pc \in {"trampoline", "trapframe"},
         panicked' = "no", NEW m \in MemType, NEW t, t = th[p].t, Exact(m, Roots \ {t}, Others),
         Freed(m, mem, t), PagetableFails(p, m)
  PROVE  IInv'
<1>1. /\ CallOK(p) /\ ForkOK(p) /\ SlotOK(p) /\ th[p] \in CallType /\ proc[p] \in ProcType
  BY Locals, Zenon
<1>2. th[p].call \in {"fork", "exec"} /\ t # 0 /\ proc[p].state = "RUNNING" /\ proc[p].pagetable # 0
  BY <1>1, Zenon DEF CallOK, SlotOK, CallType, SystemCalls
<1>3. Roots \ {t} \in SUBSET Pages
  BY RootsAre, Zenon
<1>4. proc[p].pagetable \in Pages \ {t}
  BY <1>1, <1>2, Zenon DEF IInv, Unshared, ProcType
<1>5. m.pt[proc[p].pagetable] = mem.pt[proc[p].pagetable]
  BY <1>4, Zenon DEF Freed
<1>6. CASE th[p].call = "fork"
  <2>1. PICK np \in Procs : np = th[p].np
    BY <1>6, MineChild, Zenon
  <2>2. mem' = freeproc(m, np) /\ proc' = [proc EXCEPT ![np] = NoProc] /\ Return(p)
    BY <1>6, <2>1, Zenon DEF PagetableFails
  <2>3. proc[np].pagetable = 0 /\ proc[np] \in ProcType /\ SlotOK(np) /\ proc[np].state = "USED"
    BY <1>1, <1>6, <2>1, Locals, Zenon DEF ForkOK
  <2>4. mem' = kfree(m, {proc[np].trapframe}) /\ proc[np].trapframe \in Pages
    BY <2>2, <2>3, Zenon DEF freeproc, ProcType, SlotOK
  <2>5. mem' \in MemType /\ mem'.pt = m.pt
    BY <2>4, KfreeFacts, Zenon
  <2>6. mem'.pt[proc[p].pagetable] = mem.pt[proc[p].pagetable] /\ Freed(mem', mem, t)
    BY <1>5, <2>5, Zenon DEF Freed
  <2>7. /\ Mine(p, np) /\ Only(p, np) /\ Local(p, np)' /\ th'[p].np = 0
        /\ Own(p, np)' = {0} /\ Others' = Others \ {TrapframeOwner(np)}
        /\ {TrapframeOwner(np)} \in SUBSET Others
        /\ PagesOf({TrapframeOwner(np)}) = {proc[np].trapframe}
    BY <1>6, <2>1, <2>2, <2>6, ForkFails, Zenon
  <2>8. Exact(mem', Roots \ {t}, Others')
    BY <1>3, <2>4, <2>7, KfreeOther, Zenon
  <2>9. Own(p, np)' = Own(p, np) \ {t} /\ t \in Own(p, np)
    BY <1>2, <2>3, <2>7, Zenon DEF Own
  <2> QED BY <1>2, <2>5, <2>6, <2>7, <2>8, <2>9, LostRoot, Zenon
<1>7. CASE th[p].call = "exec"
  <2>1. /\ mem' = m /\ UNCHANGED proc /\ th' = [th EXCEPT ![p].pc = "bad", ![p].t = 0]
    BY <1>7, Zenon DEF PagetableFails
  <2>2. Only(p, p) /\ th'[p] = [th[p] EXCEPT !.pc = "bad", !.t = 0]
    BY <2>1, ExecFailsCall, Zenon
  <2>3. /\ Mine(p, p) /\ Local(p, p)' /\ th'[p].np = th[p].np
        /\ Own(p, p)' = {proc[p].pagetable, 0} /\ Others' = Others
    BY <1>5, <1>7, <2>1, <2>2, ExecFails, Zenon
  <2>4. Own(p, p)' = Own(p, p) \ {t} /\ t \in Own(p, p)
    BY <1>2, <1>4, <2>3, Zenon DEF Own
  <2>5. mem' \in MemType /\ Freed(mem', mem, t) /\ Exact(mem', Roots \ {t}, Others')
    BY <2>1, <2>3, Zenon
  <2> QED BY <1>2, <2>2, <2>3, <2>4, <2>5, LostRoot, Zenon
<1> QED BY <1>2, <1>6, <1>7, Zenon

\* A new page table without user memory is freed.
LEMMA FreeNewTable ==
  ASSUME NEW m \in MemType, NEW R \in SUBSET Pages, NEW t \in R, NEW X, Exact(m, R, X),
         MapsOnly(m, t, {})
  PROVE  /\ ~UvmfreePanics(m, t, 0) /\ uvmfree(m, t, 0) \in MemType
         /\ Exact(uvmfree(m, t, 0), R \ {t}, X) /\ Freed(uvmfree(m, t, 0), m, t)
<1>1. PageCount(0) = 0 /\ PageCount(0) <= UPAGES /\ 0 \in Nat
  BY WholePages, Constants
<1>2. \A v \in VPages : m.pt[t].leaf[v] # 0 <=> v < PageCount(0)
  BY <1>1, Layout DEF MapsOnly
<1> QED BY <1>1, <1>2, UvmfreeExact, Zenon

\* uvmcreate() gets no page.
LEMMA StepUvmcreateFails ==
  ASSUME IInv, [Next]_vars, NEW p \in Procs, uvmcreate(p), mem.free = {}
  PROVE  IInv'
<1>1. th[p].pc = "uvmcreate" /\ panicked' = "no" /\ PagetableFails(p, mem)
  BY Zenon DEF uvmcreate, At
<1> QED BY <1>1, FailsEarly, Zenon

\* The trampoline cannot be mapped: the new table is freed.
LEMMA StepTrampolineFails ==
  ASSUME IInv, [Next]_vars, NEW p \in Procs, map_trampoline(p), ~CanWalk(mem, th[p].t, TRAMPOLINE)
  PROVE  IInv'
<1>1. PICK t : t = th[p].t
  BY Zenon
<1>2. /\ th[p].pc = "trampoline" /\ panicked = "no" /\ PanicIf(UvmfreePanics(mem, t, 0), "freewalk")
      /\ PagetableFails(p, uvmfree(mem, t, 0))
  BY <1>1, Zenon DEF map_trampoline, At
<1>3. CallOK(p) /\ CallTable(p)
  BY Locals, Zenon
<1>4. t # 0 /\ MapsOnly(mem, t, {})
  BY <1>1, <1>2, <1>3, Zenon DEF CallOK, CallTable
<1>5. Roots \in SUBSET Pages /\ mem \in MemType /\ Exact(mem, Roots, Others) /\ t \in Roots
  BY <1>1, <1>4, RootsAre, Zenon
<1>6. /\ ~UvmfreePanics(mem, t, 0) /\ uvmfree(mem, t, 0) \in MemType
      /\ Exact(uvmfree(mem, t, 0), Roots \ {t}, Others) /\ Freed(uvmfree(mem, t, 0), mem, t)
  BY <1>4, <1>5, FreeNewTable, Zenon
<1>7. panicked' = "no" /\ th[p].pc \in {"trampoline", "trapframe"}
  BY <1>2, <1>6, Zenon DEF PanicIf
<1> QED BY <1>1, <1>2, <1>6, <1>7, FailsLate, Zenon

\* The trapframe cannot be mapped: the trampoline is unmapped, the table freed.
LEMMA StepTrapframeFails ==
  ASSUME IInv, [Next]_vars, NEW p \in Procs, map_trapframe(p), ~CanWalk(mem, th[p].t, TRAPFRAME)
  PROVE  IInv'
<1>1. PICK t : t = th[p].t
  BY Zenon
<1>2. PICK m : m = unmapped(mem, t, {TRAMPOLINE})
  BY Zenon
<1>3. /\ th[p].pc = "trapframe" /\ panicked = "no" /\ PanicIf(UvmfreePanics(m, t, 0), "freewalk")
      /\ PagetableFails(p, uvmfree(m, t, 0))
  BY <1>1, <1>2, Zenon DEF map_trapframe, At
<1>4. CallOK(p) /\ CallTable(p)
  BY Locals, Zenon
<1>5. t # 0 /\ MapsOnly(mem, t, {TRAMPOLINE})
  BY <1>1, <1>3, <1>4, Zenon DEF CallOK, CallTable
<1>6. Roots \in SUBSET Pages /\ mem \in MemType /\ Exact(mem, Roots, Others) /\ t \in Roots
  BY <1>1, <1>5, RootsAre, Zenon
<1>7. m \in MemType /\ LeavesCut(m, mem, t, {TRAMPOLINE})
  BY <1>2, <1>6, UnmapFacts, Layout, Zenon
<1>8. Exact(m, Roots, Others)
  BY <1>2, <1>6, UnmapKernel, Zenon
<1>9. MapsOnly(m, t, {})
  BY <1>5, <1>7, Zenon DEF MapsOnly, LeavesCut
<1>10. /\ ~UvmfreePanics(m, t, 0) /\ uvmfree(m, t, 0) \in MemType
       /\ Exact(uvmfree(m, t, 0), Roots \ {t}, Others) /\ Freed(uvmfree(m, t, 0), m, t)
  BY <1>6, <1>7, <1>8, <1>9, FreeNewTable, Zenon
<1>11. Freed(uvmfree(m, t, 0), mem, t)
  BY <1>7, <1>10, Zenon DEF Freed, LeavesCut
<1>12. panicked' = "no" /\ th[p].pc \in {"trampoline", "trapframe"}
  BY <1>3, <1>10, Zenon DEF PanicIf
<1> QED BY <1>1, <1>3, <1>10, <1>11, <1>12, FailsLate, Zenon

\* uvmcopy() fails, and fork() with it.
LEMMA StepUvmcopyFail ==
  ASSUME IInv, [Next]_vars, NEW p \in Procs, uvmcopy_fail(p)
  PROVE  IInv'
<1>1. PICK t : t = th[p].t
  BY Zenon
<1>2. PICK m : m = uvmunmap(mem, t, PageRange(0, th[p].a))
  BY Zenon
<1>3. /\ CallOK(p) /\ ForkOK(p) /\ SlotOK(p) /\ SizeOK(p) /\ CallTable(p)
      /\ th[p] \in CallType /\ proc[p] \in ProcType
  BY Locals, Zenon
<1>4. th[p].pc = "uvmcopy" /\ panicked = "no"
  BY Zenon DEF uvmcopy_fail, At
<1>5. proc[p].state = "RUNNING" /\ t # 0 /\ th[p].call = "fork" /\ proc[p].pagetable # 0
  BY <1>1, <1>3, <1>4, Zenon DEF CallOK, SlotOK, CallType, SystemCalls
<1>6. PICK np \in Procs : np = th[p].np /\ np # p
  BY <1>5, MineChild, Zenon
<1>7. /\ PanicIf(NotMapped(mem, t, PageRange(0, th[p].a)) \/ FreeprocPanics(m, np), "uvmunmap")
      /\ mem' = freeproc(m, np) /\ proc' = [proc EXCEPT ![np] = NoProc] /\ Return(p)
  BY <1>1, <1>2, <1>6, Zenon DEF uvmcopy_fail
<1>8. proc[np].state = "USED" /\ proc[np].pagetable = t /\ SlotOK(np)
  BY <1>1, <1>3, <1>4, <1>5, <1>6, Locals, Zenon DEF ForkOK
<1>9. /\ th[p].a \in Nat /\ PageCount(th[p].a) <= UPAGES /\ PageCount(0) = 0 /\ 0 <= th[p].a
      /\ Maps(mem, t, PageCount(th[p].a))
  <2>1. th[p].a \in Nat /\ Aligned(th[p].a) /\ PageAt(th[p].a) <= PageCount(proc[p].sz)
        /\ proc[p].sz \in Nat /\ proc[p].sz <= UMAX /\ Maps(mem, t, PageAt(th[p].a))
    BY <1>1, <1>3, <1>4, Zenon DEF SizeOK, CallTable, CallType, ProcType
  <2>2. /\ PageCount(th[p].a) = PageAt(th[p].a) /\ PageAt(th[p].a) \in Nat
        /\ PageCount(proc[p].sz) <= UPAGES /\ PageCount(proc[p].sz) \in Nat
    BY <2>1, PageLoop, FitPages, RoundUp, Zenon
  <2>3. PageCount(0) = 0
    BY WholePages, Constants
  <2> QED BY <2>1, <2>2, <2>3, Constants
<1>10. Roots \in SUBSET Pages /\ mem \in MemType /\ Exact(mem, Roots, Others) /\ t \in Roots
  BY <1>1, <1>5, RootsAre, Zenon
<1>11. ~NotMapped(mem, t, PageRange(0, th[p].a)) /\ PageRange(0, th[p].a) \in SUBSET UserPages
  BY <1>9, MapsRange, RangeFacts, Zenon
<1>12. m \in MemType /\ Exact(m, Roots, Others) /\ UserCut(m, mem, t, PageRange(0, th[p].a))
  BY <1>2, <1>10, <1>11, UvmunmapExact, Zenon
<1>13. Maps(m, t, PageCount(0))
  BY <1>9, <1>12, MapsLess, Zenon
<1>14. proc[p].pagetable \in Pages \ {t}
  BY <1>1, <1>3, <1>4, <1>5, <1>6, <1>8, Zenon DEF IInv, Unshared, ProcType
<1>15. proc[np].trapframe # 0 /\ proc[np].sz = 0
  BY <1>8, Zenon DEF SlotOK
<1>16. {TrapframeOwner(np)} \in SUBSET Others
  BY <1>15, Zenon DEF Others, TrapframeOwners, TrapframeOwner
<1>17. /\ ~FreeprocPanics(m, np) /\ mem' \in MemType
       /\ Exact(mem', Roots \ {t}, Others \ {TrapframeOwner(np)}) /\ Freed(mem', m, t)
  <2>1. proc[np].sz \in Nat /\ PageCount(proc[np].sz) <= UPAGES /\ Maps(m, t, PageCount(proc[np].sz))
    BY <1>9, <1>13, <1>15, Constants
  <2> QED BY <1>5, <1>7, <1>8, <1>10, <1>12, <1>15, <1>16, <2>1, FreeprocExact, Zenon
<1>18. panicked' = "no"
  BY <1>4, <1>7, <1>11, <1>17, Zenon DEF PanicIf
<1>19. Freed(mem', mem, t)
  BY <1>12, <1>17, Zenon DEF Freed, UserCut
<1>20. mem'.pt[proc[p].pagetable] = mem.pt[proc[p].pagetable]
  BY <1>14, <1>19, Zenon DEF Freed
<1>21. /\ Mine(p, np) /\ Only(p, np) /\ Local(p, np)' /\ th'[p].np = 0
       /\ Own(p, np)' = {0} /\ Others' = Others \ {TrapframeOwner(np)}
  BY <1>5, <1>6, <1>7, <1>20, ForkFails, Zenon
<1>22. Own(p, np)' = Own(p, np) \ {t} /\ t \in Own(p, np)
  BY <1>1, <1>5, <1>8, <1>21, Zenon DEF Own
<1> QED BY <1>5, <1>17, <1>18, <1>19, <1>21, <1>22, LostRoot, Zenon

\* wait() frees a process that has exited.
LEMMA StepWait ==
  ASSUME IInv, [Next]_vars, NEW p \in Procs, NEW q \in Procs, wait(p, q)
  PROVE  IInv'
<1>1. PICK t : t = proc[q].pagetable
  BY Zenon
<1>2. /\ th[p].pc = "idle" /\ panicked = "no" /\ proc[p].state = "RUNNING"
      /\ proc[q].state = "ZOMBIE" /\ UNCHANGED th
  BY Zenon DEF wait, At
<1>3. /\ CallOK(p) /\ SlotOK(p) /\ SizeOK(p) /\ ProcTable(p) /\ th[p] = Idle /\ q # p
      /\ proc[p] \in ProcType
  BY <1>2, Locals, Zenon DEF CallOK
<1>4. /\ SlotOK(q) /\ SizeOK(q) /\ ProcTable(q) /\ th[q] = Idle /\ proc[q] \in ProcType
  BY <1>2, Locals, Zenon DEF CallOK
<1>5. /\ PanicIf(FreeprocPanics(mem, q), "uvmunmap") /\ mem' = freeproc(mem, q)
      /\ proc' = [proc EXCEPT ![q] = NoProc]
  BY Zenon DEF wait
<1>6. Mine(p, q)
  BY <1>2, <1>3, MineOther, Zenon
<1>7. Only(p, q) /\ proc'[q] = NoProc
  BY <1>2, <1>5, OneEntry, RecordsTyped, Zenon DEF Only
<1>8. /\ th[p].pc = "idle" /\ th[p].call = "none" /\ th[p].np = 0 /\ th[p].t = 0 /\ th[p].sz = 0
      /\ th[p].argv = {} /\ th[q].call = "none" /\ proc'[q].state = "UNUSED" /\ proc'[q].sz = 0
      /\ proc'[q].pagetable = 0 /\ proc'[q].trapframe = 0 /\ proc'[p] = proc[p] /\ th' = th
  BY <1>2, <1>3, <1>4, <1>7, StartFields, Zenon DEF Only
<1>9. /\ t # 0 /\ proc[q].trapframe # 0 /\ Maps(mem, t, PageCount(proc[q].sz))
      /\ proc[q].sz \in Nat /\ PageCount(proc[q].sz) <= UPAGES
  BY <1>1, <1>2, <1>4, <1>8, FitPages, Zenon DEF SlotOK, ProcTable, SizeOK, ProcType
<1>10. Roots \in SUBSET Pages /\ mem \in MemType /\ Exact(mem, Roots, Others) /\ t \in Roots
  BY <1>1, <1>9, RootsAre, Zenon
<1>11. Others' = Others \ {TrapframeOwner(q)} /\ {TrapframeOwner(q)} \in SUBSET Others
  BY <1>7, <1>8, <1>9, DropTrapframe, Zenon DEF OthersRemoved
<1>12. /\ ~FreeprocPanics(mem, q) /\ mem' \in MemType
       /\ Exact(mem', Roots \ {t}, Others \ {TrapframeOwner(q)}) /\ Freed(mem', mem, t)
  BY <1>1, <1>5, <1>9, <1>10, <1>11, FreeprocExact, Zenon
<1>13. panicked' = "no"
  BY <1>2, <1>5, <1>12, Zenon DEF PanicIf
<1>14. proc[p].pagetable \in Pages \ {t}
  BY <1>1, <1>2, <1>3, Zenon DEF IInv, Unshared, ProcType, SlotOK
<1>15. mem'.pt[proc[p].pagetable] = mem.pt[proc[p].pagetable]
  BY <1>12, <1>14, Zenon DEF Freed
<1>16. CallOK(p)' /\ ForkOK(p)' /\ SlotOK(q)'
  BY <1>2, <1>3, <1>7, <1>8, Zenon DEF CallOK, ForkOK, SlotOK
<1>17. SizeOK(p)' /\ proc'[q].sz <= UMAX
  BY <1>3, <1>8, Constants, Zenon DEF SizeOK, SizeOf
<1>18. ProcTable(p)' /\ ProcTable(q)' /\ CallTable(p)'
  BY <1>3, <1>8, <1>15, Zenon DEF ProcTable, CallTable, Maps
<1>19. Local(p, q)'
  BY <1>8, <1>16, <1>17, <1>18, Zenon DEF Local
<1>20. Own(p, q)' = Own(p, q) \ {t} /\ t \in Own(p, q)
  BY <1>1, <1>8, <1>9, Zenon DEF Own
<1>21. Exact(mem', Roots \ {t}, Others') /\ th'[p].np = th[p].np
  BY <1>8, <1>11, <1>12, Zenon
<1> QED BY <1>6, <1>7, <1>9, <1>12, <1>13, <1>19, <1>20, <1>21, LostRoot, Zenon

\* The memory of a process is freed, and the arguments of exec() after it.
LEMMA FreeOld ==
  ASSUME IInv, NEW p \in Procs, NEW t \in Roots, NEW sz \in Nat, PageCount(sz) <= UPAGES,
         Maps(mem, t, PageCount(sz)), ArgvOf(p) \in SUBSET Others, PagesOf(ArgvOf(p)) = th[p].argv,
         mem' = kfree(proc_freepagetable(mem, t, sz), th[p].argv)
  PROVE  /\ ~FreePanics(mem, t, sz) /\ mem' \in MemType
         /\ Exact(mem', Roots \ {t}, Others \ ArgvOf(p)) /\ Freed(mem', mem, t)
<1>1. Roots \in SUBSET Pages /\ mem \in MemType /\ Exact(mem, Roots, Others)
  BY RootsAre, Zenon
<1>2. PICK m : m = proc_freepagetable(mem, t, sz)
  BY Zenon
<1>3. /\ ~FreePanics(mem, t, sz) /\ m \in MemType /\ Exact(m, Roots \ {t}, Others) /\ Freed(m, mem, t)
  BY <1>1, <1>2, FreeTable, Zenon
<1>4. Roots \ {t} \in SUBSET Pages /\ th[p].argv \in SUBSET Pages
  BY <1>1, Zenon DEF IInv, TypeOK, CallType
<1>5. Exact(mem', Roots \ {t}, Others \ ArgvOf(p))
  BY <1>2, <1>3, <1>4, KfreeOther, Zenon
<1>6. mem' \in MemType /\ mem'.pt = m.pt
  BY <1>2, <1>3, <1>4, KfreeFacts, Zenon
<1> QED BY <1>3, <1>5, <1>6, Zenon DEF Freed

\* exec() switches to the new memory.
LEMMA StepCommit ==
  ASSUME IInv, [Next]_vars, NEW p \in Procs, commit(p)
  PROVE  IInv'
<1>1. PICK t : t = proc[p].pagetable
  BY Zenon
<1>2. /\ th[p].pc = "commit" /\ panicked = "no" /\ PanicIf(FreePanics(mem, t, proc[p].sz), "exec")
      /\ mem' = kfree(proc_freepagetable(mem, t, proc[p].sz), th[p].argv)
      /\ proc' = [proc EXCEPT ![p].pagetable = th[p].t, ![p].sz = th[p].sz] /\ Return(p)
  BY <1>1, Zenon DEF commit, At
<1>3. /\ CallOK(p) /\ SlotOK(p) /\ SizeOK(p) /\ ProcTable(p) /\ CallTable(p)
      /\ th[p] \in CallType /\ proc[p] \in ProcType
  BY Locals, Zenon
<1>4. /\ proc[p].state = "RUNNING" /\ th[p].t # 0 /\ th[p].call = "stack" /\ t # 0
      /\ th[p].t \in Pages /\ t \in Pages
  BY <1>1, <1>2, <1>3, Zenon DEF CallOK, SlotOK, CallType, ProcType, SystemCalls
<1>5. Only(p, p) /\ th'[p] = Idle /\ proc'[p] = [proc[p] EXCEPT !.pagetable = th[p].t, !.sz = th[p].sz]
  <2>1. proc' = [proc EXCEPT ![p] = [proc[p] EXCEPT !.pagetable = th[p].t, !.sz = th[p].sz]]
    BY <1>2, Zenon DEF IInv, TypeOK
  <2>2. Return(p)
    BY <1>2, Zenon
  <2> QED BY <2>1, <2>2, OneEntry, RecordsTyped, Zenon DEF Return, Only
<1>6. /\ th'[p].pc = "idle" /\ th'[p].call = "none" /\ th'[p].np = 0 /\ th'[p].t = 0
      /\ th'[p].sz = 0 /\ th'[p].argv = {} /\ proc'[p].state = proc[p].state
      /\ proc'[p].pagetable = th[p].t /\ proc'[p].sz = th[p].sz
      /\ proc'[p].trapframe = proc[p].trapframe
  BY <1>3, <1>5, StartFields, Zenon DEF ProcType
<1>7. /\ Maps(mem, t, PageCount(proc[p].sz)) /\ Maps(mem, th[p].t, PageCount(th[p].sz))
      /\ proc[p].sz \in Nat /\ PageCount(proc[p].sz) <= UPAGES
  BY <1>1, <1>2, <1>3, <1>4, FitPages, Zenon DEF ProcTable, CallTable, SizeOK, ProcType
<1>8. t \in Roots /\ th[p].t # t
  BY <1>1, <1>2, <1>4, RootsAre, Zenon DEF IInv, Unshared
<1>9. /\ Others' = Others \ ArgvOf(p) /\ ArgvOf(p) \in SUBSET Others
      /\ PagesOf(ArgvOf(p)) = th[p].argv
  BY <1>5, <1>6, DropArgv, Zenon DEF OthersRemoved
<1>10. /\ ~FreePanics(mem, t, proc[p].sz) /\ mem' \in MemType
       /\ Exact(mem', Roots \ {t}, Others \ ArgvOf(p)) /\ Freed(mem', mem, t)
  BY <1>2, <1>7, <1>8, <1>9, FreeOld, Zenon
<1>11. panicked' = "no"
  BY <1>2, <1>10, Zenon DEF PanicIf
<1>12. mem'.pt[th[p].t] = mem.pt[th[p].t]
  BY <1>4, <1>8, <1>10, Zenon DEF Freed
<1>13. CallOK(p)' /\ ForkOK(p)' /\ SlotOK(p)'
  BY <1>3, <1>4, <1>5, <1>6, Zenon DEF CallOK, ForkOK, SlotOK
<1>14. SizeOK(p)' /\ (proc[p].sz <= UMAX)'
  BY <1>3, <1>6, ZeroFits, Zenon DEF SizeOK, SizeOf
<1>15. ProcTable(p)' /\ CallTable(p)'
  BY <1>6, <1>7, <1>12, Zenon DEF ProcTable, CallTable, Maps
<1>16. Local(p, p)'
  BY <1>6, <1>13, <1>14, <1>15, Zenon DEF Local
<1>17. Own(p, p)' = Own(p, p) \ {t} /\ t \in Own(p, p) /\ Mine(p, p)
  BY <1>1, <1>2, <1>4, <1>6, <1>8, MineSelf, Zenon DEF Own
<1>18. Exact(mem', Roots \ {t}, Others')
  BY <1>9, <1>10, Zenon
<1> QED BY <1>4, <1>5, <1>6, <1>10, <1>11, <1>16, <1>17, <1>18, LostRoot, Zenon

\* exec() fails: the new memory and the arguments are freed.
LEMMA StepExecBad ==
  ASSUME IInv, [Next]_vars, NEW p \in Procs, exec_bad(p)
  PROVE  IInv'
<1>1. PICK t : t = th[p].t
  BY Zenon
<1>2. /\ th[p].pc = "bad" /\ panicked = "no" /\ UNCHANGED proc /\ Return(p)
      /\ PanicIf(t # 0 /\ FreePanics(mem, t, th[p].sz), "exec")
      /\ mem' = kfree(IF t = 0 THEN mem ELSE proc_freepagetable(mem, t, th[p].sz), th[p].argv)
  BY <1>1, Zenon DEF exec_bad, At
<1>3. /\ CallOK(p) /\ SlotOK(p) /\ SizeOK(p) /\ ProcTable(p) /\ CallTable(p)
      /\ th[p] \in CallType /\ proc[p] \in ProcType
  BY Locals, Zenon
<1>4. /\ proc[p].state = "RUNNING" /\ th[p].call \in {"exec", "segment", "stack"}
      /\ proc[p].pagetable # 0
  BY <1>2, <1>3, Zenon DEF CallOK, SlotOK, CallType, SystemCalls
<1>5. Only(p, p) /\ th'[p] = Idle
  BY <1>2, OneEntry, RecordsTyped, Zenon DEF Return, Only
<1>6. /\ th'[p].pc = "idle" /\ th'[p].call = "none" /\ th'[p].np = 0 /\ th'[p].t = 0
      /\ th'[p].sz = 0 /\ th'[p].argv = {}
  BY <1>5, StartFields, Zenon
<1>7. /\ Others' = Others \ ArgvOf(p) /\ ArgvOf(p) \in SUBSET Others
      /\ PagesOf(ArgvOf(p)) = th[p].argv
  BY <1>2, <1>5, <1>6, DropArgv, Zenon DEF OthersRemoved
<1>8. CallOK(p)' /\ ForkOK(p)' /\ SlotOK(p)'
  BY <1>2, <1>3, <1>4, <1>5, <1>6, Zenon DEF CallOK, ForkOK, SlotOK
<1>9. SizeOK(p)' /\ (proc[p].sz <= UMAX)'
  BY <1>2, <1>3, <1>6, ZeroFits, Zenon DEF SizeOK, SizeOf
<1>10. Mine(p, p)
  BY <1>2, <1>4, MineSelf, Zenon
<1>11. ASSUME mem'.pt[proc[p].pagetable] = mem.pt[proc[p].pagetable] PROVE Local(p, p)'
  <2>1. ProcTable(p)' /\ CallTable(p)'
    BY <1>2, <1>3, <1>4, <1>6, <1>11, Zenon DEF ProcTable, CallTable, Maps
  <2> QED BY <1>6, <1>8, <1>9, <2>1, Zenon DEF Local
<1>12. Roots \in SUBSET Pages /\ mem \in MemType /\ Exact(mem, Roots, Others) /\ (t # 0 => t \in Roots)
  BY <1>1, RootsAre, Zenon
<1>13. CASE t = 0
  <2>1. mem' = kfree(mem, th[p].argv) /\ panicked' = "no"
    BY <1>2, <1>13, Zenon DEF PanicIf
  <2>2. mem' \in MemType /\ mem'.pt = mem.pt
    BY <1>3, <1>12, <2>1, KfreeFacts, Zenon DEF CallType
  <2>3. Exact(mem', Roots, Others')
    BY <1>7, <1>12, <2>1, KfreeOther, Zenon
  <2>4. Own(p, p)' = Own(p, p)
    BY <1>1, <1>2, <1>6, <1>13, Zenon DEF Own
  <2> QED BY <1>5, <1>6, <1>10, <1>11, <2>1, <2>2, <2>3, <2>4, SameTables, Zenon
<1>14. CASE t # 0
  <2>1. mem' = kfree(proc_freepagetable(mem, t, th[p].sz), th[p].argv)
    BY <1>2, <1>14, Zenon
  <2>2. /\ Maps(mem, t, PageCount(th[p].sz)) /\ th[p].sz \in Nat /\ PageCount(th[p].sz) <= UPAGES
    BY <1>1, <1>2, <1>3, <1>14, FitPages, Zenon DEF CallTable, SizeOK, CallType
  <2>3. /\ ~FreePanics(mem, t, th[p].sz) /\ mem' \in MemType
        /\ Exact(mem', Roots \ {t}, Others \ ArgvOf(p)) /\ Freed(mem', mem, t)
    BY <1>7, <1>12, <1>14, <2>1, <2>2, FreeOld, Zenon
  <2>4. panicked' = "no"
    BY <1>2, <2>3, Zenon DEF PanicIf
  <2>5. proc[p].pagetable \in Pages \ {t}
    BY <1>1, <1>2, <1>3, <1>4, <1>14, Zenon DEF IInv, Unshared, ProcType
  <2>6. mem'.pt[proc[p].pagetable] = mem.pt[proc[p].pagetable]
    BY <2>3, <2>5, Zenon DEF Freed
  <2>7. Own(p, p)' = Own(p, p) \ {t} /\ t \in Own(p, p)
    BY <1>1, <1>2, <1>6, <1>14, <2>5, Zenon DEF Own
  <2>8. Exact(mem', Roots \ {t}, Others')
    BY <1>7, <2>3, Zenon
  <2> QED BY <1>5, <1>6, <1>10, <1>11, <1>14, <2>3, <2>4, <2>6, <2>7, <2>8, LostRoot,
               Zenon
<1> QED BY <1>13, <1>14, Zenon

------------------------------------------------------------------------------
\* The theorems.

\* After userinit(): where the trampoline's table is, and the pages of process 1.
LEMMA InitLayout ==
  /\ 0 \in Nodes /\ PX(TRAMPOLINE) \in Nodes /\ PX(TRAMPOLINE) # 0
  /\ 0 \in UserPages /\ TRAPFRAME # 0 /\ TRAMPOLINE # 0 /\ TRAPFRAME # TRAMPOLINE
<1>1. /\ TRAPFRAME \in Nat /\ TRAMPOLINE = TRAPFRAME + 1 /\ UPAGES <= TRAPFRAME /\ UPAGES >= 2
      /\ NODE \in Nat \ {0} /\ PX(TRAMPOLINE) \in Nodes /\ TRAPFRAME \in VPages
  BY Layout, Constants, Zenon
<1>2. UPAGES + NODE - 1 \in Nat /\ UPAGES \in Nat
  BY <1>1, Constants
<1>3. PICK k \in Nat : k = (UPAGES + NODE - 1) \div NODE /\ TRAPFRAME = k * NODE
  BY <1>1, <1>2, DivFacts, Zenon DEF TRAPFRAME
<1>4. k # 0
  <2>1. 0 * NODE = 0
    BY <1>1
  <2> QED BY <1>1, <1>2, <1>3, <2>1
<1>5. NODE <= k * NODE
  <2>1. 1 * NODE <= k * NODE
    BY <1>1, <1>3, <1>4, MulOrder
  <2> QED BY <1>1, <2>1
<1>6. PX(TRAMPOLINE) \in Nat /\ TRAMPOLINE < PX(TRAMPOLINE) * NODE + NODE
  BY <1>1, DivFacts DEF PX
<1>7. PX(TRAMPOLINE) # 0
  BY <1>1, <1>3, <1>5, <1>6
<1>8. 0 \in Nodes
  BY <1>6 DEF Nodes
<1>9. 0 \in VPages /\ TRAPFRAME # 0 /\ TRAMPOLINE # 0 /\ TRAPFRAME # TRAMPOLINE
  BY <1>1, <1>2 DEF VPages
<1> QED BY <1>1, <1>7, <1>8, <1>9, Zenon DEF UserPages

\* The first state's types.
LEMMA InitTypes == Init => TypeOK
<1> SUFFICES ASSUME Init PROVE TypeOK
  BY Zenon
<1>1. /\ {1, 2, 3, 4, 5} \subseteq Pages /\ TrampolinePage \in Nat /\ Pages \subseteq Nat
  BY Constants DEF Pages, TrampolinePage
<1>2. th \in [Procs -> CallType]
  BY StartTypes, Zenon DEF Init
<1>3. proc \in [Procs -> ProcType]
  <2>1. [state |-> "RUNNING", pagetable |-> 2, trapframe |-> 1, sz |-> PGSIZE] \in ProcType
    BY <1>1, Constants, Zenon DEF ProcType
  <2> QED BY <2>1, StartTypes, Zenon DEF Init
<1>4. Empty \in TableType
  BY Zenon DEF Empty, TableType
<1>5. [node |-> [n \in Nodes |-> IF n = 0 THEN 4 ELSE IF n = PX(TRAMPOLINE) THEN 3 ELSE 0],
       leaf |-> [v \in VPages |-> IF v = 0 THEN 5 ELSE IF v = TRAPFRAME THEN 1
                                  ELSE IF v = TRAMPOLINE THEN TrampolinePage ELSE 0]] \in TableType
  BY <1>1, Zenon DEF TableType
<1>6. mem \in MemType
  BY <1>4, <1>5, Zenon DEF Init, MemType
<1> QED BY <1>2, <1>3, <1>6, Zenon DEF TypeOK

\* The invariant holds at the start.
LEMMA InitInv == Init => IInv
<1> SUFFICES ASSUME Init PROVE IInv
  BY Zenon
<1>1. TypeOK
  BY InitTypes, Zenon
<1>2. /\ 1 \in Procs /\ 0 \notin Procs /\ {1, 2, 3, 4, 5} \subseteq Pages /\ 0 \notin Pages
  BY Constants, SizeAssumption DEF Pages
<1>3. /\ \A p \in Procs : th[p] = Idle
      /\ \A p \in Procs \ {1} : proc[p] = NoProc
      /\ proc[1] = [state |-> "RUNNING", pagetable |-> 2, trapframe |-> 1, sz |-> PGSIZE]
  BY <1>2, Zenon DEF Init
<1>4. /\ proc[1].state = "RUNNING" /\ proc[1].pagetable = 2 /\ proc[1].trapframe = 1
      /\ proc[1].sz = PGSIZE
      /\ \A p \in Procs \ {1} : proc[p].state = "UNUSED" /\ proc[p].pagetable = 0
                                /\ proc[p].trapframe = 0 /\ proc[p].sz = 0
      /\ \A p \in Procs : th[p].pc = "idle" /\ th[p].call = "none" /\ th[p].np = 0 /\ th[p].t = 0
                          /\ th[p].sz = 0 /\ th[p].argv = {}
  BY <1>3 DEF Idle, NoProc
<1>5. Control
  BY <1>3, <1>4, Constants DEF Control, CallOK, ForkOK, SlotOK
<1>6. PGSIZE \in Nat /\ PGSIZE <= UMAX
  <2>1. 1 * PGSIZE <= UPAGES * PGSIZE
    BY Constants, MulOrder
  <2> QED BY <2>1, Constants DEF UMAX
<1>7. Sizes
  BY <1>4, <1>6, ZeroFits, Zenon DEF Sizes, SizeOK
<1>8. Unshared
  BY <1>4, Zenon DEF Unshared
<1>9. Roots = {2}
  BY <1>2, <1>4 DEF Roots
<1>10. /\ mem.free = Pages \ 1..5 /\ mem.twice = FALSE
       /\ \A r \in Pages \ {2} : mem.pt[r] = Empty
       /\ mem.pt[2].node = [n \in Nodes |-> IF n = 0 THEN 4 ELSE IF n = PX(TRAMPOLINE) THEN 3 ELSE 0]
       /\ mem.pt[2].leaf = [v \in VPages |-> IF v = 0 THEN 5 ELSE IF v = TRAPFRAME THEN 1
                                             ELSE IF v = TRAMPOLINE THEN TrampolinePage ELSE 0]
  BY <1>2, Zenon DEF Init
<1>11. Tables
  <2>1. PageCount(PGSIZE) = 1
    <3>1. PageCount(1 * PGSIZE) = 1
      BY WholePages, Zenon
    <3> QED BY <3>1, Constants
  <2>2. TrampolinePage # 0 /\ VPages \subseteq Nat
    BY Constants, Layout DEF TrampolinePage
  <2>3. Maps(mem, 2, 1)
    BY <1>10, <2>2 DEF Maps
  <2>4. ASSUME NEW p \in Procs PROVE ProcTable(p) /\ CallTable(p)
    BY <1>4, <2>1, <2>3, Zenon DEF ProcTable, CallTable
  <2> QED BY <1>9, <1>10, <2>4, Zenon DEF Tables
<1>12. Others = {<<"trapframe", 1, 0, 1>>}
  <2>1. TrapframeOwners(proc) = {<<"trapframe", 1, 0, 1>>}
    BY <1>2, <1>4 DEF TrapframeOwners
  <2>2. ArgvOwners(th) = {}
    BY <1>4 DEF ArgvOwners
  <2> QED BY <2>1, <2>2, Zenon DEF Others
<1>13. AllTables(mem, Roots) = {<<"root", 2, 0, 2>>, <<"node", 2, 0, 4>>,
         <<"node", 2, PX(TRAMPOLINE), 3>>, <<"leaf", 2, 0, 5>>}
  <2>1. NodeOwners(mem, 2) = {<<"node", 2, 0, 4>>, <<"node", 2, PX(TRAMPOLINE), 3>>}
    BY <1>10, InitLayout DEF NodeOwners, NodeOwner
  <2>2. LeafOwners(mem, 2) = {<<"leaf", 2, 0, 5>>}
    BY <1>10, InitLayout DEF LeafOwners, LeafOwner, UserPages
  <2>3. TableOwners(mem, 2) = {<<"root", 2, 0, 2>>, <<"node", 2, 0, 4>>,
          <<"node", 2, PX(TRAMPOLINE), 3>>, <<"leaf", 2, 0, 5>>}
    BY <2>1, <2>2, Zenon DEF TableOwners, RootOwner
  <2> QED BY <1>9, <2>3, Zenon DEF AllTables
<1>14. Exact(mem, Roots, Others)
  <2>1. Pages = (Pages \ 1..5) \cup {1, 2, 3, 4, 5}
    BY <1>2
  <2>2. Balanced(mem.free, Others \cup AllTables(mem, Roots))
    BY <1>10, <1>12, <1>13, <2>1 DEF Balanced
  <2>3. \A x \in Others : IsOther(x)
    BY <1>12 DEF IsOther
  <2> QED BY <1>10, <2>2, <2>3, Zenon DEF Exact
<1>15. PagesExact
  BY <1>1, <1>14, ExactIs, Zenon
<1>16. panicked = "no"
  BY Zenon DEF Init
<1> QED BY <1>1, <1>5, <1>7, <1>8, <1>11, <1>15, <1>16, Zenon DEF IInv

\* Every step keeps it.
LEMMA Invariance == IInv /\ [Next]_vars => IInv'
<1> SUFFICES ASSUME IInv, [Next]_vars PROVE IInv'
  BY Zenon
<1>1. ASSUME NEW p \in Procs, uvmalloc(p) \/ uvmalloc_fail(p) \/ growproc_done(p) PROVE IInv'
  BY <1>1, StepUvmalloc, StepUvmallocFail, StepGrowprocDone, Zenon
<1>2. ASSUME NEW p \in Procs, uvmcreate(p) PROVE IInv'
  BY <1>2, StepUvmcreate, StepUvmcreateFails, Zenon
<1>3. ASSUME NEW p \in Procs, map_trampoline(p) PROVE IInv'
  BY <1>3, StepMapTrampoline, StepTrampolineFails, Zenon
<1>4. ASSUME NEW p \in Procs, map_trapframe(p) PROVE IInv'
  BY <1>4, StepMapTrapframe, StepTrapframeFails, Zenon
<1>5. ASSUME NEW p \in Procs, uvmcopy(p) \/ uvmcopy_fail(p) \/ fork_done(p) PROVE IInv'
  BY <1>5, StepUvmcopy, StepUvmcopyFail, StepForkDone, Zenon
<1>6. ASSUME NEW p \in Procs, fetch_arg(p) \/ argv_bad(p) \/ exec(p) PROVE IInv'
  BY <1>6, StepFetchArg, StepArgvBad, StepExec, Zenon
<1>7. ASSUME NEW p \in Procs, stack(p) \/ segment_done(p) \/ stack_done(p) PROVE IInv'
  BY <1>7, StepStack, StepSegmentDone, StepStackDone, Zenon
<1>8. ASSUME NEW p \in Procs, NEW end \in Ends, segment(p, end) PROVE IInv'
  BY <1>8, StepSegment, Zenon
<1>9. ASSUME NEW p \in Procs, commit(p) \/ exec_goto_bad(p) \/ exec_bad(p) PROVE IInv'
  BY <1>9, StepCommit, StepExecGotoBad, StepExecBad, Zenon
<1>10. ASSUME NEW p \in Procs, exit(p) \/ sys_exec(p) PROVE IInv'
  BY <1>10, StepExit, StepSysExec, Zenon
<1>11. ASSUME NEW p \in Procs, NEW n \in Sbrks, growproc(p, n) \/ growproc_shrink(p, n) PROVE IInv'
  BY <1>11, StepGrowproc, StepGrowprocShrink, Zenon
<1>12. ASSUME NEW p \in Procs, NEW q \in Procs, fork(p, q) \/ wait(p, q) PROVE IInv'
  BY <1>12, StepFork, StepWait, Zenon
<1>13. ASSUME UNCHANGED vars PROVE IInv'
  BY <1>13, Stutter, Zenon
<1>14. ASSUME NEW p \in Procs, Step(p) PROVE IInv'
  BY <1>1, <1>2, <1>3, <1>4, <1>5, <1>6, <1>7, <1>8, <1>9, <1>14, Zenon DEF Step
<1> QED BY <1>10, <1>11, <1>12, <1>13, <1>14, Zenon DEF Next

\* The invariant says what a process's size maps.
LEMMA MapsSize == IInv => SizeIsMapped
<1> SUFFICES ASSUME IInv, NEW p \in Procs, proc[p].state \in {"RUNNING", "ZOMBIE"}, th[p].call # "sbrk"
             PROVE  /\ proc[p].pagetable # 0
                    /\ {v \in VPages : mem.pt[proc[p].pagetable].leaf[v] # 0}
                         = PageRange(0, proc[p].sz) \cup {TRAPFRAME, TRAMPOLINE}
  BY Zenon DEF IInv, SizeIsMapped
<1>1. SlotOK(p) /\ SizeOK(p) /\ ProcTable(p) /\ proc[p] \in ProcType
  BY Locals, Zenon
<1>2. proc[p].pagetable # 0 /\ Maps(mem, proc[p].pagetable, PageCount(proc[p].sz))
  BY <1>1, Zenon DEF SlotOK, ProcTable
<1>3. 0 \in Nat /\ proc[p].sz \in Nat /\ PageCount(proc[p].sz) <= UPAGES
  BY <1>1, FitPages, Zenon DEF SizeOK, ProcType
<1>4. PageRange(0, proc[p].sz) = {v \in VPages : 0 <= v /\ v < PageCount(proc[p].sz)}
  BY <1>3, RangeFacts
<1>5. \A v \in VPages : 0 <= v
  BY Layout
<1>6. TRAPFRAME \in VPages /\ TRAMPOLINE \in VPages
  BY Layout, Zenon
<1>7. {v \in VPages : mem.pt[proc[p].pagetable].leaf[v] # 0}
         = PageRange(0, proc[p].sz) \cup {TRAPFRAME, TRAMPOLINE}
  BY <1>2, <1>4, <1>5, <1>6, Zenon DEF Maps
<1> QED BY <1>2, <1>7, Zenon

\* Every page is free or has one owner, at every step of fork(), exec(), sbrk(),
\* exit() and wait() and in every exit taken for want of memory: kalloc() never
\* returns a page in use, no page is lost, none is freed twice.
THEOREM PagesNeverLost == Spec => []PagesExact
<1>1. IInv => PagesExact
  BY Zenon DEF IInv
<1> QED BY <1>1, InitInv, Invariance, PTL DEF Spec

\* What is mapped is what the size says, outside sbrk() and after every call that
\* failed, so none of the panics of uvmunmap(), mappages(), uvmcopy(), freewalk()
\* and loadseg() is reached.
THEOREM SizeAlwaysMapped == Spec => []SizeIsMapped
BY InitInv, Invariance, MapsSize, PTL DEF Spec
==============================================================================
