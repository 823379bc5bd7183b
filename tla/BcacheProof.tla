----------------------------- MODULE BcacheProof -----------------------------
(***************************************************************************)
(* Proofs about the buffer cache of kernel/bio.c, for any number of        *)
(* processes, blocks and buffers: a block has one buffer, which one        *)
(* process at a time uses, reference counts are exact, and recycling loses *)
(* no contents.                                                            *)
(***************************************************************************)
EXTENDS Bcache, FiniteSetTheorems, TLAPS

\* The type of every variable.
TypeOK ==
  /\ blockno \in [Bufs -> Blocks \cup {None}]
  /\ valid \in [Bufs -> BOOLEAN]
  /\ refcnt \in [Bufs -> Nat]
  /\ data \in [Bufs -> Data]
  /\ owner \in [Bufs -> Procs \cup {None}]
  /\ disk \in [Blocks -> Data]
  /\ pc \in [Procs -> {"idle", "acquire", "read", "unref"}]
  /\ cur \in [Procs -> Bufs \cup {None}]
  /\ held \in [Procs -> SUBSET Bufs]
  /\ logged \subseteq Blocks

\* The list has every buffer once.
Listed ==
  /\ lru \in [Bufs -> Bufs]
  /\ \A b \in Bufs : \E j \in Bufs : lru[j] = b
  /\ \A i, j \in Bufs : lru[i] = lru[j] => i = j

\* The processes that have a reference to b, and the reference of the log.
Refs(b) == {p \in Procs : b \in held[p] \/ cur[p] = b}
Pin(b) == IF blockno[b] \in logged THEN 1 ELSE 0

\* b->refcnt is the number of references.
Counted == \A b \in Bufs : refcnt[b] = Cardinality(Refs(b)) + Pin(b)

\* What a process refers to.
Referred == \A p \in Procs :
  /\ pc[p] = "idle" <=> cur[p] = None
  /\ cur[p] \notin held[p]
  /\ \A b \in Bufs : b \in held[p] \/ cur[p] = b => blockno[b] # None
  /\ \A b \in held[p] : valid[b]

\* b->lock is held by the process that has the buffer from bread().
Locked == \A b \in Bufs, p \in Procs :
  owner[b] = p <=> b \in held[p] \/ (pc[p] = "read" /\ cur[p] = b)

\* A pinned block is cached, and other cached blocks are as on the disk.
Clean ==
  /\ \A k \in logged : \E b \in Bufs : blockno[b] = k /\ valid[b]
  /\ \A b \in Bufs : valid[b] /\ blockno[b] \notin logged =>
       blockno[b] # None /\ data[b] = disk[blockno[b]]

\* The inductive invariant.
IInv == TypeOK /\ Listed /\ OneBuffer /\ Counted /\ Referred /\ Locked /\ Clean

------------------------------------------------------------------------------
\* What the steps do to the references and to the list.

\* A process between two steps of a call has the buffer the call is about.
LEMMA CurIsBuf ==
  ASSUME IInv, NEW p \in Procs, pc[p] # "idle"
  PROVE  cur[p] \in Bufs /\ blockno[cur[p]] \in Blocks
BY DEF IInv, TypeOK, Referred

\* A buffer that is not referred to is the one bget() recycles.
LEMMA Recycled ==
  ASSUME IInv, NEW p \in Procs, NEW k \in Blocks, bget_recycle(p, k)
  PROVE  \E b \in Bufs : /\ refcnt[b] = 0
                         /\ blockno' = [blockno EXCEPT ![b] = k]
                         /\ valid' = [valid EXCEPT ![b] = FALSE]
                         /\ refcnt' = [refcnt EXCEPT ![b] = 1]
                         /\ Goto(p, "acquire", b)
BY DEF IInv, Listed, bget_recycle

\* Counting references.
LEMMA Unreferred ==
  ASSUME IInv, NEW b \in Bufs, refcnt[b] = 0
  PROVE  blockno[b] \notin logged /\ \A p \in Procs : b \notin held[p] /\ cur[p] # b
<1>1. IsFiniteSet(Refs(b)) /\ Cardinality(Refs(b)) \in Nat
  BY ProcsAssumption, FS_Subset, FS_CardinalityType DEF Refs
<1>2. Cardinality(Refs(b)) + Pin(b) = 0 /\ Pin(b) \in {0, 1}
  BY DEF IInv, Counted, Pin
<1>3. Cardinality(Refs(b)) = 0 /\ Pin(b) = 0
  BY <1>1, <1>2
<1>4. Refs(b) = {}
  BY <1>1, <1>3, FS_EmptySet
<1> QED BY <1>3, <1>4 DEF Refs, Pin

LEMMA OneMore ==
  ASSUME NEW b \in Bufs, NEW p \in Procs, p \notin Refs(b), Refs(b)' = Refs(b) \cup {p}
  PROVE  Cardinality(Refs(b)) \in Nat /\ Cardinality(Refs(b)') = Cardinality(Refs(b)) + 1
<1>1. IsFiniteSet(Refs(b))
  BY ProcsAssumption, FS_Subset DEF Refs
<1> QED BY <1>1, FS_AddElement, FS_CardinalityType

LEMMA OneLess ==
  ASSUME NEW b \in Bufs, NEW p \in Procs, p \in Refs(b), Refs(b)' = Refs(b) \ {p}
  PROVE  Cardinality(Refs(b)) \in Nat /\ Cardinality(Refs(b)') = Cardinality(Refs(b)) - 1
                                      /\ Cardinality(Refs(b)') \in Nat
<1>1. IsFiniteSet(Refs(b)) /\ IsFiniteSet(Refs(b)')
  BY ProcsAssumption, FS_Subset DEF Refs
<1> QED BY <1>1, FS_RemoveElement, FS_CardinalityType

\* brelse() keeps every buffer in the list.
LEMMA MoveToFrontLists ==
  ASSUME Listed, NEW b \in Bufs
  PROVE  /\ MoveToFront(b) \in [Bufs -> Bufs]
         /\ \A c \in Bufs : \E j \in Bufs : MoveToFront(b)[j] = c
         /\ \A i, j \in Bufs : MoveToFront(b)[i] = MoveToFront(b)[j] => i = j
<1> DEFINE at == CHOOSE j \in Bufs : lru[j] = b
           new == MoveToFront(b)
<1>1. at \in Bufs /\ lru[at] = b
  BY DEF Listed
<1> HIDE DEF at
<1>2. new = [j \in Bufs |-> IF j = 1 THEN b ELSE IF j <= at THEN lru[j - 1] ELSE lru[j]]
  BY DEF MoveToFront, at
<1>3. NBUF \in Nat /\ 1 \in Bufs
  BY <1>1, SizeAssumption DEF Bufs
<1> HIDE DEF new
<1>4. \A j \in Bufs : new[j] = IF j = 1 THEN b ELSE IF j <= at THEN lru[j - 1] ELSE lru[j]
  BY <1>2
<1>5. \A j \in Bufs : j # 1 => j - 1 \in Bufs /\ j - 1 # j
  BY <1>3 DEF Bufs
<1>6. new \in [Bufs -> Bufs]
  BY <1>2, <1>5 DEF Listed
<1>7. ASSUME NEW c \in Bufs PROVE \E j \in Bufs : new[j] = c
  <2>1. PICK i \in Bufs : lru[i] = c
    BY DEF Listed
  <2>2. CASE i = at
    BY <1>1, <1>3, <1>4, <2>1, <2>2
  <2>3. CASE i < at
    <3>1. i + 1 \in Bufs /\ i + 1 # 1 /\ i + 1 <= at /\ (i + 1) - 1 = i
      BY <1>1, <1>3, <2>3 DEF Bufs
    <3> QED BY <1>4, <2>1, <3>1
  <2>4. CASE i > at
    <3>1. i # 1 /\ ~(i <= at)
      BY <1>1, <1>3, <2>4 DEF Bufs
    <3> QED BY <1>4, <2>1, <3>1
  <2> QED BY <1>1, <1>3, <2>2, <2>3, <2>4 DEF Bufs
<1>8. ASSUME NEW i \in Bufs, NEW j \in Bufs, new[i] = new[j] PROVE i = j
  <2> DEFINE old(x) == IF x = 1 THEN at ELSE IF x <= at THEN x - 1 ELSE x
  <2>1. \A x \in Bufs : old(x) \in Bufs /\ new[x] = lru[old(x)]
    BY <1>1, <1>4, <1>5
  <2>2. old(i) = old(j)
    <3> HIDE DEF old
    <3> QED BY <1>8, <2>1 DEF Listed
  <2> QED BY <1>1, <1>3, <2>2 DEF Bufs
<1> QED BY <1>6, <1>7, <1>8 DEF new


\* A process that refers to a buffer is counted.
LEMMA Referenced ==
  ASSUME IInv, NEW b \in Bufs, NEW p \in Procs, b \in held[p] \/ cur[p] = b
  PROVE  refcnt[b] \in Nat \ {0}
BY Unreferred DEF IInv, TypeOK

------------------------------------------------------------------------------
\* Every conjunct of the invariant is kept by every step.

\* The types.
LEMMA TypeStep == IInv /\ [Next]_vars => TypeOK'
<1> SUFFICES ASSUME IInv, [Next]_vars PROVE TypeOK'
  OBVIOUS
<1> USE DEF IInv, TypeOK, Goto
<1>1. ASSUME NEW p \in Procs, acquiresleep(p)
      PROVE  TypeOK'
  <2>1. cur[p] \in Bufs
    BY <1>1, CurIsBuf DEF acquiresleep
  <2> QED BY <1>1, <2>1 DEF acquiresleep
<1>2. ASSUME NEW p \in Procs, bread(p)
      PROVE  TypeOK'
  <2>1. cur[p] \in Bufs /\ blockno[cur[p]] \in Blocks
    BY <1>2, CurIsBuf DEF bread
  <2>2. (IF valid[cur[p]] THEN data[cur[p]] ELSE disk[blockno[cur[p]]]) \in Data
    BY <2>1
  <2> QED BY <1>2, <2>1, <2>2 DEF bread
<1>3. ASSUME NEW p \in Procs, brelse_unref(p)
      PROVE  TypeOK'
  <2>1. cur[p] \in Bufs
    BY <1>3, CurIsBuf DEF brelse_unref
  <2>2. refcnt[cur[p]] - 1 \in Nat
    BY <2>1, Referenced
  <2> QED BY <1>3, <2>1, <2>2 DEF brelse_unref
<1>4. ASSUME NEW p \in Procs, NEW k \in Blocks, bget_hit(p, k)
      PROVE  TypeOK'
  <2>1. PICK b \in Bufs : refcnt' = [refcnt EXCEPT ![b] = @ + 1] /\ Goto(p, "acquire", b)
    BY <1>4 DEF bget_hit, Cached
  <2> QED BY <1>4, <2>1 DEF bget_hit
<1>5. ASSUME NEW p \in Procs, NEW k \in Blocks, bget_recycle(p, k)
      PROVE  TypeOK'
  <2>1. PICK b \in Bufs : /\ blockno' = [blockno EXCEPT ![b] = k]
                          /\ valid' = [valid EXCEPT ![b] = FALSE]
                          /\ refcnt' = [refcnt EXCEPT ![b] = 1]
                          /\ Goto(p, "acquire", b)
    BY <1>5, Recycled
  <2> QED BY <1>5, <2>1 DEF bget_recycle
<1>6. ASSUME NEW p \in Procs, NEW k \in Blocks, bget_panic(p, k)
      PROVE  TypeOK'
  BY <1>6 DEF bget_panic, buf, thread
<1>7. ASSUME NEW p \in Procs, NEW b \in Bufs, bunpin(p, b)
      PROVE  TypeOK'
  <2>1. blockno[b] \in Blocks /\ b \in held[p]
    BY <1>7 DEF bunpin, Holds, Referred
  <2>2. refcnt[b] \in Nat \ {0}
    BY <2>1, Referenced
  <2>3. refcnt[b] - 1 \in Nat
    BY <2>2
  <2> QED BY <1>7, <2>1, <2>3 DEF bunpin, thread
<1>8. ASSUME NEW p \in Procs, NEW b \in Bufs, brelse(p, b)
      PROVE  TypeOK'
  BY <1>8 DEF brelse
<1>9. ASSUME NEW p \in Procs, NEW b \in Bufs, NEW v \in Data, bwrite(p, b, v)
      PROVE  TypeOK'
  <2>1. blockno[b] \in Blocks
    BY <1>9 DEF bwrite, Holds, Referred
  <2> QED BY <1>9, <2>1 DEF bwrite, buf, thread
<1>10. ASSUME NEW p \in Procs, NEW b \in Bufs, NEW v \in Data, bpin(p, b, v)
      PROVE  TypeOK'
  <2>1. blockno[b] \in Blocks
    BY <1>10 DEF bpin, Holds, Referred
  <2>2. CASE blockno[b] \in logged
    BY <1>10, <2>1, <2>2 DEF bpin, thread
  <2>3. CASE blockno[b] \notin logged
    BY <1>10, <2>1, <2>3 DEF bpin, thread
  <2> QED BY <2>2, <2>3
<1>11. CASE UNCHANGED vars
  BY <1>11 DEF vars, buf, thread
<1> HIDE DEF IInv, TypeOK, Goto
<1> QED BY <1>1, <1>2, <1>3, <1>4, <1>5, <1>6, <1>7, <1>8, <1>9, <1>10, <1>11, Zenon DEF Next, Step

\* The list.
LEMMA ListedStep == IInv /\ [Next]_vars => Listed'
<1> SUFFICES ASSUME IInv, [Next]_vars PROVE Listed'
  OBVIOUS
<1>1. ASSUME NEW p \in Procs, acquiresleep(p)
      PROVE  Listed'
  BY <1>1 DEF acquiresleep, IInv, Listed
<1>2. ASSUME NEW p \in Procs, bread(p)
      PROVE  Listed'
  BY <1>2 DEF bread, IInv, Listed
<1>3. ASSUME NEW p \in Procs, brelse_unref(p)
      PROVE  Listed'
  <2>1. cur[p] \in Bufs
    BY <1>3, CurIsBuf DEF brelse_unref
  <2>2. Listed
    BY DEF IInv
  <2>3. lru' = MoveToFront(cur[p]) \/ lru' = lru
    BY <1>3 DEF brelse_unref
  <2>4. CASE lru' = MoveToFront(cur[p])
    <3> DEFINE Lists(f) == /\ f \in [Bufs -> Bufs]
                           /\ \A c \in Bufs : \E j \in Bufs : f[j] = c
                           /\ \A i, j \in Bufs : f[i] = f[j] => i = j
    <3>1. Lists(MoveToFront(cur[p]))
      BY <2>1, <2>2, MoveToFrontLists, Zenon
    <3>2. Lists(lru')
      <4> HIDE DEF Lists
      <4> QED BY <2>4, <3>1
    <3> QED BY <3>2 DEF Listed
  <2>5. CASE lru' = lru
    BY <2>2, <2>5 DEF Listed
  <2> QED BY <2>3, <2>4, <2>5
<1>4. ASSUME NEW p \in Procs, NEW k \in Blocks, bget_hit(p, k)
      PROVE  Listed'
  BY <1>4 DEF bget_hit, IInv, Listed
<1>5. ASSUME NEW p \in Procs, NEW k \in Blocks, bget_recycle(p, k)
      PROVE  Listed'
  BY <1>5 DEF bget_recycle, IInv, Listed
<1>6. ASSUME NEW p \in Procs, NEW k \in Blocks, bget_panic(p, k)
      PROVE  Listed'
  BY <1>6 DEF bget_panic, IInv, Listed
<1>7. ASSUME NEW p \in Procs, NEW b \in Bufs, bunpin(p, b)
      PROVE  Listed'
  BY <1>7 DEF bunpin, IInv, Listed
<1>8. ASSUME NEW p \in Procs, NEW b \in Bufs, brelse(p, b)
      PROVE  Listed'
  BY <1>8 DEF brelse, IInv, Listed
<1>9. ASSUME NEW p \in Procs, NEW b \in Bufs, NEW v \in Data, bwrite(p, b, v)
      PROVE  Listed'
  BY <1>9 DEF bwrite, IInv, Listed
<1>10. ASSUME NEW p \in Procs, NEW b \in Bufs, NEW v \in Data, bpin(p, b, v)
      PROVE  Listed'
  BY <1>10 DEF bpin, IInv, Listed
<1>11. CASE UNCHANGED vars
  BY <1>11 DEF vars, IInv, Listed
<1> QED BY <1>1, <1>2, <1>3, <1>4, <1>5, <1>6, <1>7, <1>8, <1>9, <1>10, <1>11, Zenon DEF Next, Step

\* bget() scans the whole cache and recycles under one lock.
LEMMA OneBufferStep == IInv /\ [Next]_vars => OneBuffer'
<1> SUFFICES ASSUME IInv, [Next]_vars PROVE OneBuffer'
  OBVIOUS
<1>1. ASSUME NEW p \in Procs, acquiresleep(p)
      PROVE  OneBuffer'
  BY <1>1 DEF acquiresleep, IInv, OneBuffer, buf
<1>2. ASSUME NEW p \in Procs, bread(p)
      PROVE  OneBuffer'
  BY <1>2 DEF bread, IInv, OneBuffer, buf
<1>3. ASSUME NEW p \in Procs, brelse_unref(p)
      PROVE  OneBuffer'
  BY <1>3 DEF brelse_unref, IInv, OneBuffer, buf
<1>4. ASSUME NEW p \in Procs, NEW k \in Blocks, bget_hit(p, k)
      PROVE  OneBuffer'
  BY <1>4 DEF bget_hit, IInv, OneBuffer, buf
<1>5. ASSUME NEW p \in Procs, NEW k \in Blocks, bget_recycle(p, k)
      PROVE  OneBuffer'
  <2>1. PICK b \in Bufs : blockno' = [blockno EXCEPT ![b] = k]
    BY <1>5, Recycled
  <2>2. \A c \in Bufs : blockno[c] # k
    BY <1>5 DEF bget_recycle, Cached
  <2> QED BY <2>1, <2>2 DEF IInv, TypeOK, OneBuffer
<1>6. ASSUME NEW p \in Procs, NEW k \in Blocks, bget_panic(p, k)
      PROVE  OneBuffer'
  BY <1>6 DEF bget_panic, IInv, OneBuffer, buf
<1>7. ASSUME NEW p \in Procs, NEW b \in Bufs, bunpin(p, b)
      PROVE  OneBuffer'
  BY <1>7 DEF bunpin, IInv, OneBuffer, buf
<1>8. ASSUME NEW p \in Procs, NEW b \in Bufs, brelse(p, b)
      PROVE  OneBuffer'
  BY <1>8 DEF brelse, IInv, OneBuffer, buf
<1>9. ASSUME NEW p \in Procs, NEW b \in Bufs, NEW v \in Data, bwrite(p, b, v)
      PROVE  OneBuffer'
  BY <1>9 DEF bwrite, IInv, OneBuffer, buf
<1>10. ASSUME NEW p \in Procs, NEW b \in Bufs, NEW v \in Data, bpin(p, b, v)
      PROVE  OneBuffer'
  BY <1>10 DEF bpin, IInv, OneBuffer, buf
<1>11. CASE UNCHANGED vars
  BY <1>11 DEF vars, buf, IInv, OneBuffer
<1> QED BY <1>1, <1>2, <1>3, <1>4, <1>5, <1>6, <1>7, <1>8, <1>9, <1>10, <1>11, Zenon DEF Next, Step

\* A step that leaves the buffers and the references of others alone.
LEMMA ReferredFrame ==
  ASSUME IInv, NEW p \in Procs, UNCHANGED blockno,
         \A q \in Procs : q # p => pc'[q] = pc[q] /\ cur'[q] = cur[q] /\ held'[q] = held[q],
         \A b \in Bufs : valid[b] => valid'[b],
         pc'[p] = "idle" <=> cur'[p] = None, cur'[p] \notin held'[p],
         \A b \in Bufs : b \in held'[p] \/ cur'[p] = b => blockno[b] # None,
         \A b \in held'[p] : valid'[b]
  PROVE  Referred'
<1> SUFFICES ASSUME NEW q \in Procs
             PROVE  /\ pc'[q] = "idle" <=> cur'[q] = None
                    /\ cur'[q] \notin held'[q]
                    /\ \A b \in Bufs : b \in held'[q] \/ cur'[q] = b => blockno'[b] # None
                    /\ \A b \in held'[q] : valid'[b]
  BY DEF Referred
<1>1. CASE q = p
  BY <1>1
<1>2. CASE q # p
  BY <1>2 DEF IInv, TypeOK, Referred
<1> QED BY <1>1, <1>2

\* What a process refers to stays what it asked for.
LEMMA ReferredStep == IInv /\ [Next]_vars => Referred'
<1> SUFFICES ASSUME IInv, [Next]_vars PROVE Referred'
  OBVIOUS
<1>1. ASSUME NEW p \in Procs, acquiresleep(p)
      PROVE  Referred'
  <2>1. cur[p] \in Bufs /\ cur' = cur /\ held' = held /\ pc[p] = "acquire"
    BY <1>1, CurIsBuf DEF acquiresleep, Goto, IInv, TypeOK
  <2>2. \A q \in Procs : pc'[q] = IF q = p THEN "read" ELSE pc[q]
    BY <1>1 DEF acquiresleep, Goto, IInv, TypeOK
  <2> QED BY <1>1, <2>1, <2>2, ReferredFrame DEF acquiresleep, IInv, TypeOK, Referred
<1>2. ASSUME NEW p \in Procs, bread(p)
      PROVE  Referred'
  <2>1. cur[p] \in Bufs /\ blockno[cur[p]] # None /\ 0 \notin Bufs
    BY <1>2, CurIsBuf, BlocksAssumption DEF bread, Bufs, None
  <2>2. \A q \in Procs : /\ pc'[q] = IF q = p THEN "idle" ELSE pc[q]
                         /\ cur'[q] = IF q = p THEN None ELSE cur[q]
                         /\ held'[q] = IF q = p THEN held[p] \cup {cur[p]} ELSE held[q]
    BY <1>2 DEF bread, Goto, IInv, TypeOK
  <2>3. \A c \in Bufs : valid[c] \/ c = cur[p] => valid'[c]
    BY <1>2, <2>1 DEF bread, IInv, TypeOK
  <2>4. held[p] \subseteq Bufs /\ \A c \in held[p] : valid[c] /\ blockno[c] # None
    BY DEF IInv, TypeOK, Referred
  <2>5. cur'[p] \notin held'[p] /\ (pc'[p] = "idle" <=> cur'[p] = None)
    BY <2>1, <2>2, <2>4 DEF None
  <2>6. \A c \in Bufs : c \in held'[p] \/ cur'[p] = c => blockno[c] # None
    BY <2>1, <2>2, <2>4 DEF None
  <2>7. \A c \in held'[p] : valid'[c]
    BY <2>1, <2>2, <2>3, <2>4
  <2>8. blockno' = blockno
    BY <1>2 DEF bread
  <2> QED BY <2>2, <2>3, <2>5, <2>6, <2>7, <2>8, ReferredFrame
<1>3. ASSUME NEW p \in Procs, brelse_unref(p)
      PROVE  Referred'
  <2>1. 0 \notin Bufs
    BY DEF Bufs
  <2>2. \A q \in Procs : /\ pc'[q] = IF q = p THEN "idle" ELSE pc[q]
                         /\ cur'[q] = IF q = p THEN None ELSE cur[q]
    BY <1>3 DEF brelse_unref, Goto, IInv, TypeOK
  <2>3. UNCHANGED <<blockno, valid, held>>
    BY <1>3 DEF brelse_unref
  <2>4. held[p] \subseteq Bufs /\ \A c \in held[p] : valid[c] /\ blockno[c] # None
    BY DEF IInv, TypeOK, Referred
  <2> QED BY <2>1, <2>2, <2>3, <2>4, ReferredFrame DEF None
<1>4. ASSUME NEW p \in Procs, NEW k \in Blocks, bget_hit(p, k)
      PROVE  Referred'
  <2>1. PICK b \in Bufs : blockno[b] = k /\ Goto(p, "acquire", b)
    BY <1>4 DEF bget_hit, Cached
  <2>2. b \notin held[p] /\ k # None /\ 0 \notin Bufs
    BY <1>4, <2>1, BlocksAssumption DEF bget_hit, MayGet, None, Bufs
  <2>3. \A q \in Procs : /\ pc'[q] = IF q = p THEN "acquire" ELSE pc[q]
                         /\ cur'[q] = IF q = p THEN b ELSE cur[q]
    BY <2>1 DEF Goto, IInv, TypeOK
  <2>4. UNCHANGED <<blockno, valid, held>>
    BY <1>4 DEF bget_hit
  <2>5. held[p] \subseteq Bufs /\ \A c \in held[p] : valid[c] /\ blockno[c] # None
    BY DEF IInv, TypeOK, Referred
  <2> QED BY <2>1, <2>2, <2>3, <2>4, <2>5, ReferredFrame DEF None
<1>5. ASSUME NEW p \in Procs, NEW k \in Blocks, bget_recycle(p, k)
      PROVE  Referred'
  <2>1. PICK b \in Bufs : /\ refcnt[b] = 0
                          /\ blockno' = [blockno EXCEPT ![b] = k]
                          /\ valid' = [valid EXCEPT ![b] = FALSE]
                          /\ Goto(p, "acquire", b)
    BY <1>5, Recycled
  <2>2. \A q \in Procs : b \notin held[q] /\ cur[q] # b
    BY <2>1, Unreferred
  <2>3. \A q \in Procs : /\ pc'[q] = IF q = p THEN "acquire" ELSE pc[q]
                         /\ cur'[q] = IF q = p THEN b ELSE cur[q]
    BY <2>1 DEF Goto, IInv, TypeOK
  <2>4. held' = held /\ k # None /\ b # None
    BY <1>5, BlocksAssumption DEF bget_recycle, None, Bufs
  <2>5. \A c \in Bufs : /\ blockno'[c] = IF c = b THEN k ELSE blockno[c]
                        /\ c # b => valid'[c] = valid[c]
    BY <2>1 DEF IInv, TypeOK
  <2>6. ASSUME NEW q \in Procs
        PROVE  /\ pc'[q] = "idle" <=> cur'[q] = None
               /\ cur'[q] \notin held'[q]
               /\ \A c \in Bufs : c \in held'[q] \/ cur'[q] = c => blockno'[c] # None
               /\ \A c \in held'[q] : valid'[c]
    BY <2>2, <2>3, <2>4, <2>5 DEF IInv, TypeOK, Referred
  <2> QED BY <2>6 DEF Referred
<1>6. ASSUME NEW p \in Procs, NEW k \in Blocks, bget_panic(p, k)
      PROVE  Referred'
  BY <1>6 DEF bget_panic, buf, thread, IInv, Referred
<1>7. ASSUME NEW p \in Procs, NEW b \in Bufs, bunpin(p, b)
      PROVE  Referred'
  BY <1>7 DEF bunpin, thread, IInv, Referred
<1>8. ASSUME NEW p \in Procs, NEW b \in Bufs, brelse(p, b)
      PROVE  Referred'
  <2>1. b \in held[p] /\ 0 \notin Bufs
    BY <1>8 DEF brelse, Holds, Bufs
  <2>2. \A q \in Procs : /\ pc'[q] = IF q = p THEN "unref" ELSE pc[q]
                         /\ cur'[q] = IF q = p THEN b ELSE cur[q]
                         /\ held'[q] = IF q = p THEN held[p] \ {b} ELSE held[q]
    BY <1>8 DEF brelse, Goto, IInv, TypeOK
  <2>3. UNCHANGED <<blockno, valid>>
    BY <1>8 DEF brelse
  <2>4. held[p] \subseteq Bufs /\ \A c \in held[p] : valid[c] /\ blockno[c] # None
    BY DEF IInv, TypeOK, Referred
  <2> QED BY <2>1, <2>2, <2>3, <2>4, ReferredFrame DEF None
<1>9. ASSUME NEW p \in Procs, NEW b \in Bufs, NEW v \in Data, bwrite(p, b, v)
      PROVE  Referred'
  BY <1>9 DEF bwrite, thread, IInv, Referred
<1>10. ASSUME NEW p \in Procs, NEW b \in Bufs, NEW v \in Data, bpin(p, b, v)
      PROVE  Referred'
  BY <1>10 DEF bpin, thread, IInv, Referred
<1>11. CASE UNCHANGED vars
  BY <1>11 DEF vars, buf, thread, IInv, Referred
<1> QED BY <1>1, <1>2, <1>3, <1>4, <1>5, <1>6, <1>7, <1>8, <1>9, <1>10, <1>11, Zenon DEF Next, Step

\* A step that moves no reference.
LEMMA CountedFrame ==
  ASSUME IInv, UNCHANGED <<blockno, refcnt, logged>>, \A b \in Bufs : Refs(b)' = Refs(b)
  PROVE  Counted'
<1> SUFFICES ASSUME NEW b \in Bufs PROVE refcnt'[b] = Cardinality(Refs(b)') + Pin(b)'
  BY DEF Counted
<1>1. Refs(b)' = Refs(b) /\ Pin(b)' = Pin(b) /\ refcnt'[b] = refcnt[b]
  BY DEF Pin
<1>2. refcnt[b] = Cardinality(Refs(b)) + Pin(b)
  BY DEF IInv, Counted
<1> QED BY <1>1, <1>2

\* A new reference of p to b, which the log has not pinned or has not unpinned.
LEMMA CountedMore ==
  ASSUME IInv, NEW b \in Bufs, NEW p \in Procs, p \notin Refs(b), Refs(b)' = Refs(b) \cup {p},
         Pin(b)' = Pin(b), refcnt'[b] = refcnt[b] + 1,
         \A c \in Bufs : c # b => Refs(c)' = Refs(c) /\ Pin(c)' = Pin(c) /\ refcnt'[c] = refcnt[c]
  PROVE  Counted'
<1> SUFFICES ASSUME NEW c \in Bufs PROVE refcnt'[c] = Cardinality(Refs(c)') + Pin(c)'
  BY DEF Counted
<1>1. refcnt[c] = Cardinality(Refs(c)) + Pin(c) /\ Pin(c) \in {0, 1}
  BY DEF IInv, Counted, Pin
<1>2. CASE c = b
  <2>1. Cardinality(Refs(b)) \in Nat /\ Cardinality(Refs(b)') = Cardinality(Refs(b)) + 1
    BY OneMore
  <2> QED BY <1>1, <1>2, <2>1
<1>3. CASE c # b
  BY <1>1, <1>3
<1> QED BY <1>2, <1>3

\* Reference counts are exact.
LEMMA CountedStep == IInv /\ [Next]_vars => Counted'
<1> SUFFICES ASSUME IInv, [Next]_vars PROVE Counted'
  OBVIOUS
<1>1. ASSUME NEW p \in Procs, acquiresleep(p)
      PROVE  Counted'
  <2>1. cur' = cur /\ held' = held
    BY <1>1 DEF acquiresleep, Goto, IInv, TypeOK
  <2>2. \A c \in Bufs : Refs(c)' = Refs(c)
    BY <2>1 DEF Refs
  <2> QED BY <1>1, <2>2, CountedFrame DEF acquiresleep
<1>2. ASSUME NEW p \in Procs, bread(p)
      PROVE  Counted'
  <2>1. cur[p] \in Bufs /\ None \notin Bufs
    BY <1>2, CurIsBuf DEF bread, Bufs, None
  <2>2. \A q \in Procs : /\ cur'[q] = IF q = p THEN None ELSE cur[q]
                         /\ held'[q] = IF q = p THEN held[p] \cup {cur[p]} ELSE held[q]
    BY <1>2 DEF bread, Goto, IInv, TypeOK
  <2>3. \A c \in Bufs : Refs(c)' = Refs(c)
    BY <2>1, <2>2 DEF Refs
  <2> QED BY <1>2, <2>3, CountedFrame DEF bread
<1>3. ASSUME NEW p \in Procs, brelse_unref(p)
      PROVE  Counted'
  <2>1. PICK b \in Bufs : b = cur[p]
    BY <1>3, CurIsBuf DEF brelse_unref
  <2>2. refcnt' = [refcnt EXCEPT ![b] = refcnt[b] - 1] /\ UNCHANGED <<blockno, logged, held>>
    BY <1>3, <2>1 DEF brelse_unref
  <2>3. b \notin held[p] /\ None \notin Bufs
    BY <2>1 DEF IInv, Referred, None, Bufs
  <2>4. \A q \in Procs : cur'[q] = IF q = p THEN None ELSE cur[q]
    BY <1>3 DEF brelse_unref, Goto, IInv, TypeOK
  <2>5. p \in Refs(b) /\ Refs(b)' = Refs(b) \ {p} /\ \A c \in Bufs \ {b} : Refs(c)' = Refs(c)
    BY <2>1, <2>2, <2>3, <2>4 DEF Refs
  <2>6. Cardinality(Refs(b)) \in Nat /\ Cardinality(Refs(b)') = Cardinality(Refs(b)) - 1
    BY <2>5, OneLess
  <2>7. \A c \in Bufs : /\ Pin(c)' = Pin(c) /\ Pin(c) \in {0, 1}
                        /\ refcnt[c] = Cardinality(Refs(c)) + Pin(c)
                        /\ refcnt'[c] = IF c = b THEN refcnt[b] - 1 ELSE refcnt[c]
    BY <2>2 DEF IInv, TypeOK, Counted, Pin
  <2> SUFFICES ASSUME NEW c \in Bufs PROVE refcnt'[c] = Cardinality(Refs(c)') + Pin(c)'
    BY DEF Counted
  <2>8. CASE c = b
    BY <2>6, <2>7, <2>8
  <2>9. CASE c # b
    BY <2>5, <2>7, <2>9
  <2> QED BY <2>8, <2>9
<1>4. ASSUME NEW p \in Procs, NEW k \in Blocks, bget_hit(p, k)
      PROVE  Counted'
  <2>1. PICK b \in Bufs : /\ blockno[b] = k /\ Goto(p, "acquire", b)
                          /\ refcnt' = [refcnt EXCEPT ![b] = refcnt[b] + 1]
    BY <1>4 DEF bget_hit, Cached
  <2>2. b \notin held[p] /\ cur[p] = None /\ None \notin Bufs
    BY <1>4, <2>1, BlocksAssumption DEF bget_hit, MayGet, Ready, IInv, Referred, None, Bufs
  <2>3. \A q \in Procs : cur'[q] = IF q = p THEN b ELSE cur[q]
    BY <2>1 DEF Goto, IInv, TypeOK
  <2>4. UNCHANGED <<blockno, logged, held>>
    BY <1>4 DEF bget_hit
  <2>5. p \notin Refs(b) /\ Refs(b)' = Refs(b) \cup {p} /\ \A c \in Bufs \ {b} : Refs(c)' = Refs(c)
    BY <2>2, <2>3, <2>4 DEF Refs
  <2>6. \A c \in Bufs : Pin(c)' = Pin(c) /\ refcnt'[c] = IF c = b THEN refcnt[b] + 1 ELSE refcnt[c]
    BY <2>1, <2>4 DEF IInv, TypeOK, Pin
  <2> QED BY <2>5, <2>6, CountedMore
<1>5. ASSUME NEW p \in Procs, NEW k \in Blocks, bget_recycle(p, k)
      PROVE  Counted'
  <2>1. PICK b \in Bufs : /\ refcnt[b] = 0 /\ Goto(p, "acquire", b)
                          /\ blockno' = [blockno EXCEPT ![b] = k]
                          /\ refcnt' = [refcnt EXCEPT ![b] = 1]
    BY <1>5, Recycled
  <2>2. blockno[b] \notin logged /\ \A q \in Procs : b \notin held[q] /\ cur[q] # b
    BY <2>1, Unreferred
  <2>3. cur[p] = None /\ None \notin Bufs
    BY <1>5 DEF bget_recycle, MayGet, Ready, IInv, Referred, None, Bufs
  <2>4. \A q \in Procs : cur'[q] = IF q = p THEN b ELSE cur[q]
    BY <2>1 DEF Goto, IInv, TypeOK
  <2>5. UNCHANGED <<logged, held>>
    BY <1>5 DEF bget_recycle
  <2>6. p \notin Refs(b) /\ Refs(b)' = Refs(b) \cup {p} /\ \A c \in Bufs \ {b} : Refs(c)' = Refs(c)
    BY <2>2, <2>3, <2>4, <2>5 DEF Refs
  <2>7. k \notin logged
    BY <1>5 DEF bget_recycle, Cached, IInv, Clean
  <2>8. \A c \in Bufs : /\ Pin(c)' = Pin(c)
                        /\ refcnt'[c] = IF c = b THEN refcnt[b] + 1 ELSE refcnt[c]
    BY <2>1, <2>2, <2>5, <2>7 DEF IInv, TypeOK, Pin
  <2> QED BY <2>6, <2>8, CountedMore
<1>6. ASSUME NEW p \in Procs, NEW k \in Blocks, bget_panic(p, k)
      PROVE  Counted'
  BY <1>6, CountedFrame DEF bget_panic, buf, thread, Refs
<1>7. ASSUME NEW p \in Procs, NEW b \in Bufs, bunpin(p, b)
      PROVE  Counted'
  <2>1. \A c \in Bufs : Refs(c)' = Refs(c)
    BY <1>7 DEF bunpin, thread, Refs
  <2>2. \A c \in Bufs : c # b => blockno[c] # blockno[b]
    BY <1>7 DEF bunpin, Holds, IInv, TypeOK, OneBuffer, Referred
  <2>3. \A c \in Bufs : refcnt'[c] = IF c = b THEN refcnt[b] - 1 ELSE refcnt[c]
    BY <1>7 DEF bunpin, IInv, TypeOK
  <2>4. \A c \in Bufs : Pin(c)' = IF c = b THEN 0 ELSE Pin(c)
    BY <1>7, <2>2 DEF bunpin, Pin
  <2>5. Pin(b) = 1
    BY <1>7 DEF bunpin, Pin
  <2> SUFFICES ASSUME NEW c \in Bufs PROVE refcnt'[c] = Cardinality(Refs(c)') + Pin(c)'
    BY DEF Counted
  <2>6. refcnt[c] = Cardinality(Refs(c)) + Pin(c) /\ Cardinality(Refs(c)) \in Nat
    BY ProcsAssumption, FS_Subset, FS_CardinalityType DEF IInv, Counted, Refs
  <2> QED BY <2>1, <2>3, <2>4, <2>5, <2>6
<1>8. ASSUME NEW p \in Procs, NEW b \in Bufs, brelse(p, b)
      PROVE  Counted'
  <2>1. b \in held[p] /\ cur[p] = None /\ None \notin Bufs
    BY <1>8 DEF brelse, Holds, Ready, IInv, Referred, Bufs, None
  <2>2. \A q \in Procs : /\ cur'[q] = IF q = p THEN b ELSE cur[q]
                         /\ held'[q] = IF q = p THEN held[p] \ {b} ELSE held[q]
    BY <1>8 DEF brelse, Goto, IInv, TypeOK
  <2>3. \A c \in Bufs : Refs(c)' = Refs(c)
    BY <2>1, <2>2 DEF Refs
  <2> QED BY <1>8, <2>3, CountedFrame DEF brelse
<1>9. ASSUME NEW p \in Procs, NEW b \in Bufs, NEW v \in Data, bwrite(p, b, v)
      PROVE  Counted'
  BY <1>9, CountedFrame DEF bwrite, thread, Refs
<1>10. ASSUME NEW p \in Procs, NEW b \in Bufs, NEW v \in Data, bpin(p, b, v)
      PROVE  Counted'
  <2>1. \A c \in Bufs : Refs(c)' = Refs(c)
    BY <1>10 DEF bpin, thread, Refs
  <2>2. \A c \in Bufs : c # b => blockno[c] # blockno[b]
    BY <1>10 DEF bpin, Holds, IInv, TypeOK, OneBuffer, Referred
  <2>3. CASE blockno[b] \in logged
    <3>1. logged' = logged /\ refcnt' = refcnt /\ blockno' = blockno
      BY <1>10, <2>3 DEF bpin, IInv, TypeOK
    <3> QED BY <2>1, <3>1, CountedFrame
  <2>4. CASE blockno[b] \notin logged
    <3>1. \A c \in Bufs : refcnt'[c] = IF c = b THEN refcnt[b] + 1 ELSE refcnt[c]
      BY <1>10, <2>4 DEF bpin, IInv, TypeOK
    <3>2. \A c \in Bufs : Pin(c)' = IF c = b THEN 1 ELSE Pin(c)
      BY <1>10, <2>2 DEF bpin, Pin
    <3>3. Pin(b) = 0
      BY <2>4 DEF Pin
    <3> SUFFICES ASSUME NEW c \in Bufs PROVE refcnt'[c] = Cardinality(Refs(c)') + Pin(c)'
      BY DEF Counted
    <3>4. refcnt[c] = Cardinality(Refs(c)) + Pin(c) /\ Cardinality(Refs(c)) \in Nat
      BY ProcsAssumption, FS_Subset, FS_CardinalityType DEF IInv, Counted, Refs
    <3> QED BY <2>1, <3>1, <3>2, <3>3, <3>4
  <2> QED BY <2>3, <2>4
<1>11. CASE UNCHANGED vars
  BY <1>11, CountedFrame DEF vars, buf, thread, Refs
<1> QED BY <1>1, <1>2, <1>3, <1>4, <1>5, <1>6, <1>7, <1>8, <1>9, <1>10, <1>11, Zenon DEF Next, Step

\* A step of p that takes and gives up no sleep-lock.
LEMMA LockedFrame ==
  ASSUME IInv, UNCHANGED owner, NEW p \in Procs,
         \A q \in Procs \ {p} : pc'[q] = pc[q] /\ cur'[q] = cur[q] /\ held'[q] = held[q],
         \A b \in Bufs : b \in held'[p] \/ (pc'[p] = "read" /\ cur'[p] = b)
                         <=> b \in held[p] \/ (pc[p] = "read" /\ cur[p] = b)
  PROVE  Locked'
BY DEF IInv, Locked

\* The sleep-lock is held by who has the buffer.
LEMMA LockedStep == IInv /\ [Next]_vars => Locked'
<1> SUFFICES ASSUME IInv, [Next]_vars PROVE Locked'
  OBVIOUS
<1>1. ASSUME NEW p \in Procs, acquiresleep(p)
      PROVE  Locked'
  <2>1. cur[p] \in Bufs /\ cur' = cur /\ held' = held /\ owner[cur[p]] = None /\ None \notin Procs
    BY <1>1, CurIsBuf, ProcsAssumption DEF acquiresleep, Goto, IInv, TypeOK, None
  <2>2. \A q \in Procs : pc'[q] = IF q = p THEN "read" ELSE pc[q]
    BY <1>1 DEF acquiresleep, Goto, IInv, TypeOK
  <2>3. \A c \in Bufs : owner'[c] = IF c = cur[p] THEN p ELSE owner[c]
    BY <1>1 DEF acquiresleep, IInv, TypeOK
  <2>4. pc[p] = "acquire"
    BY <1>1 DEF acquiresleep
  <2> SUFFICES ASSUME NEW c \in Bufs, NEW q \in Procs
               PROVE  owner'[c] = q <=> c \in held'[q] \/ (pc'[q] = "read" /\ cur'[q] = c)
    BY DEF Locked
  <2>5. owner[c] = q <=> c \in held[q] \/ (pc[q] = "read" /\ cur[q] = c)
    BY DEF IInv, Locked
  <2> QED BY <2>1, <2>2, <2>3, <2>4, <2>5
<1>2. ASSUME NEW p \in Procs, bread(p)
      PROVE  Locked'
  <2>1. cur[p] \in Bufs /\ None \notin Bufs /\ pc[p] = "read" /\ owner' = owner
    BY <1>2, CurIsBuf DEF bread, Bufs, None
  <2>2. \A q \in Procs : /\ pc'[q] = IF q = p THEN "idle" ELSE pc[q]
                         /\ cur'[q] = IF q = p THEN None ELSE cur[q]
                         /\ held'[q] = IF q = p THEN held[p] \cup {cur[p]} ELSE held[q]
    BY <1>2 DEF bread, Goto, IInv, TypeOK
  <2> QED BY <2>1, <2>2, LockedFrame
<1>3. ASSUME NEW p \in Procs, brelse_unref(p)
      PROVE  Locked'
  <2>1. pc[p] = "unref" /\ UNCHANGED <<owner, held>>
    BY <1>3 DEF brelse_unref
  <2>2. \A q \in Procs : /\ pc'[q] = IF q = p THEN "idle" ELSE pc[q]
                         /\ cur'[q] = IF q = p THEN None ELSE cur[q]
    BY <1>3 DEF brelse_unref, Goto, IInv, TypeOK
  <2> QED BY <2>1, <2>2, LockedFrame
<1>4. ASSUME NEW p \in Procs, NEW k \in Blocks, bget_hit(p, k)
      PROVE  Locked'
  <2>1. PICK b \in Bufs : Goto(p, "acquire", b)
    BY <1>4 DEF bget_hit, Cached
  <2>2. \A q \in Procs : /\ pc'[q] = IF q = p THEN "acquire" ELSE pc[q]
                         /\ cur'[q] = IF q = p THEN b ELSE cur[q]
    BY <2>1 DEF Goto, IInv, TypeOK
  <2>3. pc[p] = "idle" /\ UNCHANGED <<owner, held>>
    BY <1>4 DEF bget_hit, MayGet, Ready
  <2> QED BY <2>2, <2>3, LockedFrame
<1>5. ASSUME NEW p \in Procs, NEW k \in Blocks, bget_recycle(p, k)
      PROVE  Locked'
  <2>1. PICK b \in Bufs : Goto(p, "acquire", b)
    BY <1>5, Recycled
  <2>2. \A q \in Procs : /\ pc'[q] = IF q = p THEN "acquire" ELSE pc[q]
                         /\ cur'[q] = IF q = p THEN b ELSE cur[q]
    BY <2>1 DEF Goto, IInv, TypeOK
  <2>3. pc[p] = "idle" /\ UNCHANGED <<owner, held>>
    BY <1>5 DEF bget_recycle, MayGet, Ready
  <2> QED BY <2>2, <2>3, LockedFrame
<1>6. ASSUME NEW p \in Procs, NEW k \in Blocks, bget_panic(p, k)
      PROVE  Locked'
  BY <1>6 DEF bget_panic, buf, thread, IInv, Locked
<1>7. ASSUME NEW p \in Procs, NEW b \in Bufs, bunpin(p, b)
      PROVE  Locked'
  BY <1>7 DEF bunpin, thread, IInv, Locked
<1>8. ASSUME NEW p \in Procs, NEW b \in Bufs, brelse(p, b)
      PROVE  Locked'
  <2>1. b \in held[p] /\ pc[p] = "idle" /\ None \notin Procs
    BY <1>8, ProcsAssumption DEF brelse, Holds, Ready, None
  <2>2. \A q \in Procs : /\ pc'[q] = IF q = p THEN "unref" ELSE pc[q]
                         /\ cur'[q] = IF q = p THEN b ELSE cur[q]
                         /\ held'[q] = IF q = p THEN held[p] \ {b} ELSE held[q]
    BY <1>8 DEF brelse, Goto, IInv, TypeOK
  <2>3. \A c \in Bufs : owner'[c] = IF c = b THEN None ELSE owner[c]
    BY <1>8 DEF brelse, IInv, TypeOK
  <2> SUFFICES ASSUME NEW c \in Bufs, NEW q \in Procs
               PROVE  owner'[c] = q <=> c \in held'[q] \/ (pc'[q] = "read" /\ cur'[q] = c)
    BY DEF Locked
  <2>4. owner[b] = p /\ (owner[c] = q <=> c \in held[q] \/ (pc[q] = "read" /\ cur[q] = c))
    BY <2>1 DEF IInv, Locked
  <2> QED BY <2>1, <2>2, <2>3, <2>4
<1>9. ASSUME NEW p \in Procs, NEW b \in Bufs, NEW v \in Data, bwrite(p, b, v)
      PROVE  Locked'
  BY <1>9 DEF bwrite, thread, IInv, Locked
<1>10. ASSUME NEW p \in Procs, NEW b \in Bufs, NEW v \in Data, bpin(p, b, v)
      PROVE  Locked'
  BY <1>10 DEF bpin, thread, IInv, Locked
<1>11. CASE UNCHANGED vars
  BY <1>11 DEF vars, buf, thread, IInv, Locked
<1> QED BY <1>1, <1>2, <1>3, <1>4, <1>5, <1>6, <1>7, <1>8, <1>9, <1>10, <1>11, Zenon DEF Next, Step

\* A step that touches no block.
LEMMA CleanFrame ==
  ASSUME IInv, UNCHANGED <<blockno, valid, data, disk, logged>>
  PROVE  Clean'
BY DEF IInv, Clean

\* Blocks that are not pinned are on the disk.
LEMMA CleanStep == IInv /\ [Next]_vars => Clean'
<1> SUFFICES ASSUME IInv, [Next]_vars PROVE Clean'
  OBVIOUS
<1>1. ASSUME NEW p \in Procs, acquiresleep(p)
      PROVE  Clean'
  BY <1>1, CleanFrame DEF acquiresleep
<1>2. ASSUME NEW p \in Procs, bread(p)
      PROVE  Clean'
  <2>1. PICK b \in Bufs : b = cur[p] /\ blockno[b] # None
    BY <1>2, CurIsBuf, BlocksAssumption DEF bread, None
  <2>2. UNCHANGED <<blockno, disk, logged>>
    BY <1>2 DEF bread
  <2>3. \A c \in Bufs : /\ data'[c] = IF c = b /\ ~valid[b] THEN disk[blockno[b]] ELSE data[c]
                        /\ valid[c] => valid'[c]
                        /\ c # b => valid'[c] = valid[c]
    BY <1>2, <2>1 DEF bread, IInv, TypeOK
  <2>4. \A m \in logged' : \E c \in Bufs : blockno'[c] = m /\ valid'[c]
    BY <2>2, <2>3 DEF IInv, Clean
  <2>5. ASSUME NEW c \in Bufs, valid'[c], blockno'[c] \notin logged'
        PROVE  blockno'[c] # None /\ data'[c] = disk'[blockno'[c]]
    <3>1. CASE c = b /\ ~valid[b]
      BY <2>1, <2>2, <2>3, <3>1
    <3>2. CASE ~(c = b /\ ~valid[b])
      BY <2>2, <2>3, <2>5, <3>2 DEF IInv, Clean
    <3> QED BY <3>1, <3>2
  <2> QED BY <2>4, <2>5 DEF Clean
<1>3. ASSUME NEW p \in Procs, brelse_unref(p)
      PROVE  Clean'
  BY <1>3, CleanFrame DEF brelse_unref
<1>4. ASSUME NEW p \in Procs, NEW k \in Blocks, bget_hit(p, k)
      PROVE  Clean'
  BY <1>4, CleanFrame DEF bget_hit
<1>5. ASSUME NEW p \in Procs, NEW k \in Blocks, bget_recycle(p, k)
      PROVE  Clean'
  <2>1. PICK b \in Bufs : /\ refcnt[b] = 0
                          /\ blockno' = [blockno EXCEPT ![b] = k]
                          /\ valid' = [valid EXCEPT ![b] = FALSE]
    BY <1>5, Recycled
  <2>2. blockno[b] \notin logged
    BY <2>1, Unreferred
  <2>3. \A c \in Bufs : /\ c # b => blockno'[c] = blockno[c] /\ valid'[c] = valid[c]
                        /\ ~valid'[b]
    BY <2>1 DEF IInv, TypeOK
  <2>4. UNCHANGED <<data, disk, logged>>
    BY <1>5 DEF bget_recycle
  <2>5. \A m \in logged' : \E c \in Bufs : blockno'[c] = m /\ valid'[c]
    <3>1. \A m \in logged : \E c \in Bufs : blockno[c] = m /\ valid[c]
      BY DEF IInv, Clean
    <3> QED BY <2>2, <2>3, <2>4, <3>1
  <2>6. ASSUME NEW c \in Bufs, valid'[c], blockno'[c] \notin logged'
        PROVE  blockno'[c] # None /\ data'[c] = disk'[blockno'[c]]
    BY <2>3, <2>4, <2>6 DEF IInv, Clean
  <2> QED BY <2>5, <2>6 DEF Clean
<1>6. ASSUME NEW p \in Procs, NEW k \in Blocks, bget_panic(p, k)
      PROVE  Clean'
  BY <1>6, CleanFrame DEF bget_panic, buf
<1>7. ASSUME NEW p \in Procs, NEW b \in Bufs, bunpin(p, b)
      PROVE  Clean'
  <2>1. b \in held[p] /\ valid[b] /\ blockno[b] \in Blocks /\ blockno[b] # None
    BY <1>7 DEF bunpin, Holds, IInv, TypeOK, Referred
  <2>2. \A c \in Bufs : c # b => blockno[c] # blockno[b]
    BY <2>1 DEF IInv, OneBuffer
  <2>3. UNCHANGED <<blockno, valid>>
    BY <1>7 DEF bunpin
  <2>4. /\ data' = data
        /\ \A m \in Blocks : disk'[m] = IF m = blockno[b] THEN data[b] ELSE disk[m]
    BY <1>7 DEF bunpin, IInv, TypeOK
  <2>5. \A m \in logged' : \E c \in Bufs : blockno'[c] = m /\ valid'[c]
    <3>1. \A m \in logged : \E c \in Bufs : blockno[c] = m /\ valid[c]
      BY DEF IInv, Clean
    <3>2. logged' \subseteq logged
      BY <1>7 DEF bunpin
    <3> QED BY <2>3, <3>1, <3>2
  <2>6. ASSUME NEW c \in Bufs, valid'[c], blockno'[c] \notin logged'
        PROVE  blockno'[c] # None /\ data'[c] = disk'[blockno'[c]]
    <3>1. CASE c = b
      BY <1>7, <2>1, <2>3, <2>4, <2>6, <3>1 DEF bunpin
    <3>2. CASE c # b
      <4>1. valid[c] /\ blockno[c] \notin logged
        BY <1>7, <2>2, <2>3, <2>6, <3>2 DEF bunpin
      <4>2. blockno[c] # None /\ data[c] = disk[blockno[c]] /\ blockno[c] \in Blocks
        BY <4>1 DEF IInv, TypeOK, Clean
      <4> QED BY <2>2, <2>3, <2>4, <3>2, <4>2
    <3> QED BY <3>1, <3>2
  <2> QED BY <2>5, <2>6 DEF Clean
<1>8. ASSUME NEW p \in Procs, NEW b \in Bufs, brelse(p, b)
      PROVE  Clean'
  BY <1>8, CleanFrame DEF brelse
<1>9. ASSUME NEW p \in Procs, NEW b \in Bufs, NEW v \in Data, bwrite(p, b, v)
      PROVE  Clean'
  <2>1. b \in held[p] /\ valid[b] /\ blockno[b] \in Blocks /\ blockno[b] # None
    BY <1>9 DEF bwrite, Holds, IInv, TypeOK, Referred
  <2>2. \A c \in Bufs : c # b => blockno[c] # blockno[b]
    BY <2>1 DEF IInv, OneBuffer
  <2>3. UNCHANGED <<blockno, valid, logged>>
    BY <1>9 DEF bwrite
  <2>4. /\ \A c \in Bufs : data'[c] = IF c = b THEN v ELSE data[c]
        /\ \A m \in Blocks : disk'[m] = IF m = blockno[b] THEN v ELSE disk[m]
    BY <1>9 DEF bwrite, IInv, TypeOK
  <2>5. \A m \in logged' : \E c \in Bufs : blockno'[c] = m /\ valid'[c]
    BY <1>9, <2>1, <2>3 DEF bwrite, IInv, Clean
  <2>6. ASSUME NEW c \in Bufs, valid'[c], blockno'[c] \notin logged'
        PROVE  blockno'[c] # None /\ data'[c] = disk'[blockno'[c]]
    <3>1. CASE c = b
      BY <1>9, <2>1, <2>3, <2>4, <2>6, <3>1 DEF bwrite
    <3>2. CASE c # b
      <4>1. valid[c] /\ blockno[c] \notin logged
        BY <1>9, <2>2, <2>3, <2>6, <3>2 DEF bwrite
      <4>2. blockno[c] # None /\ data[c] = disk[blockno[c]] /\ blockno[c] \in Blocks
        BY <4>1 DEF IInv, TypeOK, Clean
      <4> QED BY <2>2, <2>3, <2>4, <3>2, <4>2
    <3> QED BY <3>1, <3>2
  <2> QED BY <2>5, <2>6 DEF Clean
<1>10. ASSUME NEW p \in Procs, NEW b \in Bufs, NEW v \in Data, bpin(p, b, v)
      PROVE  Clean'
  <2>1. b \in held[p] /\ valid[b] /\ blockno[b] \in Blocks /\ blockno[b] # None
    BY <1>10 DEF bpin, Holds, IInv, TypeOK, Referred
  <2>2. \A c \in Bufs : c # b => blockno[c] # blockno[b]
    BY <2>1 DEF IInv, OneBuffer
  <2>3. UNCHANGED <<blockno, valid>>
    BY <1>10 DEF bpin
  <2>4. /\ \A c \in Bufs : data'[c] = IF c = b THEN v ELSE data[c]
        /\ disk' = disk
    BY <1>10 DEF bpin, IInv, TypeOK
  <2>5. \A m \in logged' : \E c \in Bufs : blockno'[c] = m /\ valid'[c]
    BY <1>10, <2>1, <2>3 DEF bpin, IInv, Clean
  <2>6. ASSUME NEW c \in Bufs, valid'[c], blockno'[c] \notin logged'
        PROVE  blockno'[c] # None /\ data'[c] = disk'[blockno'[c]]
    <3>1. CASE c = b
      BY <1>10, <2>1, <2>3, <2>4, <2>6, <3>1 DEF bpin
    <3>2. CASE c # b
      <4>1. valid[c] /\ blockno[c] \notin logged
        BY <1>10, <2>2, <2>3, <2>6, <3>2 DEF bpin
      <4>2. blockno[c] # None /\ data[c] = disk[blockno[c]] /\ blockno[c] \in Blocks
        BY <4>1 DEF IInv, TypeOK, Clean
      <4> QED BY <2>2, <2>3, <2>4, <3>2, <4>2
    <3> QED BY <3>1, <3>2
  <2> QED BY <2>5, <2>6 DEF Clean
<1>11. CASE UNCHANGED vars
  BY <1>11, CleanFrame DEF vars, buf
<1> QED BY <1>1, <1>2, <1>3, <1>4, <1>5, <1>6, <1>7, <1>8, <1>9, <1>10, <1>11, Zenon DEF Next, Step

------------------------------------------------------------------------------
\* The theorems.

\* The invariant holds in every state of kernel/bio.c, for any number of
\* processes, blocks, buffers and pins.
THEOREM Invariance == Spec => []IInv
<1>1. Init => IInv
  <2> SUFFICES ASSUME Init PROVE IInv
    OBVIOUS
  <2>0. NBUF \in Nat
    BY SizeAssumption
  <2>1. TypeOK
    <3>1. (CHOOSE d \in Data : TRUE) \in Data
      BY DataAssumption
    <3> QED BY <3>1 DEF Init, TypeOK
  <2>2. Listed
    <3>1. \A j \in Bufs : NBUF + 1 - j \in Bufs /\ NBUF + 1 - (NBUF + 1 - j) = j
      BY <2>0 DEF Bufs
    <3>2. lru \in [Bufs -> Bufs] /\ \A j \in Bufs : lru[j] = NBUF + 1 - j
      BY <3>1 DEF Init
    <3>3. \A b \in Bufs : lru[NBUF + 1 - b] = b
      BY <3>1, <3>2
    <3>4. \A i, j \in Bufs : lru[i] = lru[j] => i = j
      BY <2>0, <3>2 DEF Bufs
    <3> QED BY <3>1, <3>2, <3>3, <3>4 DEF Listed
  <2>3. OneBuffer /\ Clean
    BY DEF Init, OneBuffer, Clean
  <2>4. Referred
    BY DEF Init, Referred, Bufs, None
  <2>5. Locked
    BY ProcsAssumption DEF Init, Locked, None
  <2>6. Counted
    <3> SUFFICES ASSUME NEW b \in Bufs PROVE refcnt[b] = Cardinality(Refs(b)) + Pin(b)
      BY DEF Counted
    <3>1. Refs(b) = {} /\ Pin(b) = 0 /\ refcnt[b] = 0
      BY DEF Init, Refs, Pin, Bufs, None
    <3> QED BY <3>1, FS_EmptySet
  <2> QED BY <2>1, <2>2, <2>3, <2>4, <2>5, <2>6 DEF IInv
<1>2. IInv /\ [Next]_vars => IInv'
  BY TypeStep, ListedStep, OneBufferStep, CountedStep, ReferredStep, LockedStep, CleanStep DEF IInv
<1> QED BY <1>1, <1>2, PTL DEF Spec

\* A block has at most one buffer.
THEOREM BufferSafety == Spec => []OneBuffer
<1>1. IInv => OneBuffer
  BY DEF IInv
<1> QED BY <1>1, Invariance, PTL

\* One process at a time has a block from bread(), whatever buffers it went
\* through.
Exclusive == \A p, q \in Procs : \A b \in held[p], c \in held[q] :
  blockno[b] = blockno[c] => p = q

\* The sleep-lock and bget() together make a block the holder's own
\* (bio.c:13).
THEOREM BlockExclusion == Spec => []Exclusive
<1>1. IInv => Exclusive
  <2> SUFFICES ASSUME IInv, NEW p \in Procs, NEW q \in Procs, NEW b \in held[p],
                      NEW c \in held[q], blockno[b] = blockno[c]
               PROVE  p = q
    BY DEF Exclusive
  <2>1. b \in Bufs /\ c \in Bufs /\ blockno[b] # None
    BY DEF IInv, TypeOK, Referred
  <2>2. b = c
    BY <2>1 DEF IInv, OneBuffer
  <2>3. owner[b] = p /\ owner[b] = q
    BY <2>1, <2>2 DEF IInv, Locked
  <2> QED BY <2>3
<1> QED BY <1>1, Invariance, PTL

\* What bread() finds, for a block with a buffer b and for one without, as an
\* expression on any state.
LEMMA Found ==
  ASSUME NEW bn, NEW va, NEW da, NEW d, NEW k, NEW b \in Bufs, bn[b] = k,
         \A c \in Bufs : bn[c] = k => c = b
  PROVE  (IF \E c \in {x \in Bufs : bn[x] = k} : va[c]
          THEN da[CHOOSE c \in {x \in Bufs : bn[x] = k} : va[c]] ELSE d)
         = IF va[b] THEN da[b] ELSE d
<1>1. CASE va[b]
  <2>1. (CHOOSE c \in {x \in Bufs : bn[x] = k} : va[c]) = b
    BY <1>1
  <2> QED BY <1>1, <2>1
<1>2. CASE ~va[b]
  BY <1>2
<1> QED BY <1>1, <1>2

LEMMA FoundCached ==
  ASSUME OneBuffer, NEW k \in Blocks, NEW b \in Bufs, blockno[b] = k
  PROVE  Current(k) = IF valid[b] THEN data[b] ELSE disk[k]
<1>1. \A c \in Bufs : blockno[c] = k => c = b
  BY BlocksAssumption DEF OneBuffer, None
<1> QED BY <1>1, Found DEF Current, Cached

LEMMA FoundCachedNext ==
  ASSUME OneBuffer', NEW k \in Blocks, NEW b \in Bufs, blockno'[b] = k
  PROVE  Current(k)' = IF valid'[b] THEN data'[b] ELSE disk'[k]
<1>1. \A c \in Bufs : blockno'[c] = k => c = b
  BY BlocksAssumption DEF OneBuffer, None
<1> QED BY <1>1, Found DEF Current, Cached

LEMMA NotCached ==
  ASSUME NEW k \in Blocks
  PROVE  /\ (\A b \in Bufs : blockno[b] # k) => Current(k) = disk[k]
         /\ (\A b \in Bufs : blockno'[b] # k) => Current(k)' = disk'[k]
BY DEF Current, Cached

\* Steps on other blocks do not matter to block k.
LEMMA Untouched ==
  ASSUME OneBuffer, OneBuffer', NEW k \in Blocks, disk'[k] = disk[k],
         \A c \in Bufs : /\ blockno'[c] = k <=> blockno[c] = k
                         /\ blockno[c] = k => valid'[c] = valid[c] /\ data'[c] = data[c]
  PROVE  Current(k)' = Current(k)
<1>1. CASE \E c \in Bufs : blockno[c] = k
  BY <1>1, FoundCached, FoundCachedNext
<1>2. CASE \A c \in Bufs : blockno[c] # k
  BY <1>2, NotCached
<1> QED BY <1>1, <1>2

\* Nobody changes the contents of a block but its holder: reading a block in,
\* taking a buffer over, writing back and releasing keep what every other
\* process would read.
THEOREM HolderChanges == Spec => ChangedByHolder
<1> DEFINE Touched(m) == \E p \in Procs, b \in Cached(m) : Holds(p, b)
<1>1. ASSUME IInv, IInv', [Next]_vars, NEW m \in Blocks
      PROVE  Current(m)' = Current(m) \/ Touched(m)
  <2>0. OneBuffer /\ OneBuffer'
    BY <1>1 DEF IInv
  <2>1. ASSUME NEW p \in Procs, acquiresleep(p)
        PROVE  Current(m)' = Current(m) \/ Touched(m)
    BY <2>0, <2>1, Untouched DEF acquiresleep
  <2>2. ASSUME NEW p \in Procs, bread(p)
        PROVE  Current(m)' = Current(m) \/ Touched(m)
    <3>1. PICK b \in Bufs : b = cur[p]
      BY <1>1, <2>2, CurIsBuf DEF bread
    <3>2. \A c \in Bufs : /\ data'[c] = IF c = b /\ ~valid[b] THEN disk[blockno[b]] ELSE data[c]
                          /\ valid'[c] = IF c = b THEN TRUE ELSE valid[c]
      BY <1>1, <2>2, <3>1 DEF bread, IInv, TypeOK
    <3>3. UNCHANGED <<blockno, disk>>
      BY <1>1, <2>2 DEF bread
    <3>4. CASE blockno[b] = m
      <4>1. Current(m) = IF valid[b] THEN data[b] ELSE disk[m]
        BY <3>4, <2>0, FoundCached
      <4>2. Current(m)' = IF valid'[b] THEN data'[b] ELSE disk'[m]
        BY <3>3, <3>4, <2>0, FoundCachedNext
      <4>3. valid'[b] /\ data'[b] = IF valid[b] THEN data[b] ELSE disk[m]
        BY <3>2, <3>4
      <4>4. CASE valid[b]
        BY <4>1, <4>2, <4>3, <4>4
      <4>5. CASE ~valid[b]
        BY <4>1, <4>2, <4>3, <4>5
      <4> QED BY <4>4, <4>5
    <3>5. CASE blockno[b] # m
      BY <3>2, <3>3, <3>5, <2>0, Untouched
    <3> QED BY <3>4, <3>5
  <2>3. ASSUME NEW p \in Procs, brelse_unref(p)
        PROVE  Current(m)' = Current(m) \/ Touched(m)
    BY <2>0, <2>3, Untouched DEF brelse_unref
  <2>4. ASSUME NEW p \in Procs, NEW k \in Blocks, bget_hit(p, k)
        PROVE  Current(m)' = Current(m) \/ Touched(m)
    BY <2>0, <2>4, Untouched DEF bget_hit
  <2>5. ASSUME NEW p \in Procs, NEW k \in Blocks, bget_recycle(p, k)
        PROVE  Current(m)' = Current(m) \/ Touched(m)
    <3>1. PICK b \in Bufs : /\ refcnt[b] = 0
                            /\ blockno' = [blockno EXCEPT ![b] = k]
                            /\ valid' = [valid EXCEPT ![b] = FALSE]
      BY <1>1, <2>5, <1>1, Recycled
    <3>2. blockno[b] \notin logged
      BY <3>1, <1>1, Unreferred
    <3>3. \A c \in Bufs : /\ blockno'[c] = IF c = b THEN k ELSE blockno[c]
                          /\ valid'[c] = IF c = b THEN FALSE ELSE valid[c]
      BY <1>1, <3>1 DEF IInv, TypeOK
    <3>4. UNCHANGED <<data, disk>> /\ \A c \in Bufs : blockno[c] # k
      BY <1>1, <2>5 DEF bget_recycle, Cached
    <3>5. CASE m = k
      <4>1. Current(m) = disk[m]
        BY <3>4, <3>5, NotCached
      <4>2. Current(m)' = disk'[m]
        BY <3>3, <3>5, <2>0, FoundCachedNext
      <4> QED BY <3>4, <4>1, <4>2
    <3>6. CASE m # k /\ m = blockno[b]
      <4>1. Current(m) = IF valid[b] THEN data[b] ELSE disk[m]
        BY <3>6, <2>0, FoundCached
      <4>2. valid[b] => data[b] = disk[m]
        BY <1>1, <3>2, <3>6 DEF IInv, Clean
      <4>3. \A c \in Bufs : blockno'[c] # m
        BY <1>1, <3>3, <3>6, BlocksAssumption DEF IInv, OneBuffer, None
      <4>4. Current(m)' = disk'[m]
        BY <4>3, NotCached
      <4> QED BY <3>4, <4>1, <4>2, <4>4
    <3>7. CASE m # k /\ m # blockno[b]
      BY <3>3, <3>4, <3>7, <2>0, Untouched
    <3> QED BY <3>5, <3>6, <3>7
  <2>6. ASSUME NEW p \in Procs, NEW k \in Blocks, bget_panic(p, k)
        PROVE  Current(m)' = Current(m) \/ Touched(m)
    BY <2>0, <2>6, Untouched DEF bget_panic, buf
  <2>7. ASSUME NEW p \in Procs, NEW b \in Bufs, bunpin(p, b)
        PROVE  Current(m)' = Current(m) \/ Touched(m)
    <3>1. Holds(p, b)
      BY <1>1, <2>7 DEF bunpin
    <3>2. UNCHANGED <<blockno, valid, data>>
      BY <1>1, <2>7 DEF bunpin
    <3>3. m # blockno[b] => disk'[m] = disk[m]
      BY <1>1, <2>7 DEF bunpin, IInv, TypeOK
    <3>4. CASE m = blockno[b]
      BY <3>1, <3>4 DEF Cached, Touched
    <3>5. CASE m # blockno[b]
      BY <3>2, <3>3, <3>5, <2>0, Untouched
    <3> QED BY <3>4, <3>5
  <2>8. ASSUME NEW p \in Procs, NEW b \in Bufs, brelse(p, b)
        PROVE  Current(m)' = Current(m) \/ Touched(m)
    BY <2>0, <2>8, Untouched DEF brelse
  <2>9. ASSUME NEW p \in Procs, NEW b \in Bufs, NEW v \in Data, bwrite(p, b, v)
        PROVE  Current(m)' = Current(m) \/ Touched(m)
    <3>1. Holds(p, b)
      BY <1>1, <2>9 DEF bwrite
    <3>2. UNCHANGED <<blockno, valid>> /\ \A c \in Bufs : c # b => data'[c] = data[c]
      BY <1>1, <2>9 DEF bwrite, IInv, TypeOK
    <3>3. m # blockno[b] => disk'[m] = disk[m]
      BY <1>1, <2>9 DEF bwrite, IInv, TypeOK
    <3>4. CASE m = blockno[b]
      BY <3>1, <3>4 DEF Cached, Touched
    <3>5. CASE m # blockno[b]
      BY <3>2, <3>3, <3>5, <2>0, Untouched
    <3> QED BY <3>4, <3>5
  <2>10. ASSUME NEW p \in Procs, NEW b \in Bufs, NEW v \in Data, bpin(p, b, v)
        PROVE  Current(m)' = Current(m) \/ Touched(m)
    <3>1. Holds(p, b)
      BY <1>1, <2>10 DEF bpin
    <3>2. UNCHANGED <<blockno, valid>> /\ \A c \in Bufs : c # b => data'[c] = data[c]
      BY <1>1, <2>10 DEF bpin, IInv, TypeOK
    <3>3. m # blockno[b] => disk'[m] = disk[m]
      BY <1>1, <2>10 DEF bpin
    <3>4. CASE m = blockno[b]
      BY <3>1, <3>4 DEF Cached, Touched
    <3>5. CASE m # blockno[b]
      BY <3>2, <3>3, <3>5, <2>0, Untouched
    <3> QED BY <3>4, <3>5
  <2>11. CASE UNCHANGED vars
    BY <2>0, <2>11, Untouched DEF vars, buf
  <2> HIDE DEF Touched
  <2> QED BY <1>1, <2>1, <2>2, <2>3, <2>4, <2>5, <2>6, <2>7, <2>8, <2>9, <2>10, <2>11, Zenon DEF Next, Step
<1>2. IInv /\ IInv' /\ [Next]_vars => [\A k \in Blocks : Current(k)' # Current(k) =>
                                        \E p \in Procs, b \in Cached(k) : Holds(p, b)]_vars
  BY <1>1
<1> QED BY <1>2, Invariance, PTL DEF Spec, ChangedByHolder
==============================================================================
