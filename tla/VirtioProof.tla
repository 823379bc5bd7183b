------------------------------ MODULE VirtioProof -----------------------------
(***************************************************************************)
(* Proofs about kernel/virtio_disk.c, for any number of processes, buffers *)
(* and descriptors: descriptors are neither shared nor lost, no panic is   *)
(* reached, and virtio_disk_rw() returns after its transfer.               *)
(***************************************************************************)
EXTENDS Virtio, ModularArithmetic, FiniteSetTheorems

Locations == {"idle", "try", "sleep_free", "sleep_buf", "check"}

\* The type of every variable.
TypeOK ==
  /\ free \in [Descs -> BOOLEAN]
  /\ desc \in [Descs -> [more : BOOLEAN, next : Descs, addr : Bufs \cup {None}]]
  /\ ops \in [Descs -> [out : BOOLEAN, sector : Bufs \cup {None}]]
  /\ info \in [Descs -> [b : Bufs \cup {None}, ok : BOOLEAN]]
  /\ avail \in [idx : 0..(U16 - 1), ring : [Descs -> Descs \cup {Stale}]]
  /\ used \in [idx : 0..(U16 - 1), ring : [Descs -> Descs \cup {Stale}]]
  /\ seen \in 0..(U16 - 1) /\ used_idx \in 0..(U16 - 1)
  /\ taken \subseteq Descs
  /\ bdisk \in [Bufs -> BOOLEAN]
  /\ newer \in [Bufs -> {"none", "buffer", "disk", "lost"}]
  /\ pc \in [Procs -> Locations]
  /\ buf \in [Procs -> Bufs \cup {None}]
  /\ write \in [Procs -> BOOLEAN]
  /\ idx0 \in [Procs -> Descs]

\* The part of a ring that is written and not read yet, and what it holds.
Pending(ring, from, to) ==
  {ring[(from + k) % NUM] : k \in 0..(((to - from) % U16) - 1)}
Window(ring, from, to) ==
  /\ (to - from) % U16 < NUM
  /\ \A k \in 0..(((to - from) % U16) - 1) : ring[(from + k) % NUM] # Stale
  /\ \A k, l \in 0..(((to - from) % U16) - 1) :
       ring[(from + k) % NUM] = ring[(from + l) % NUM] => k = l
Queued == Pending(avail.ring, seen, avail.idx)
Completed == Pending(used.ring, used_idx, used.idx)

Rings == Window(avail.ring, seen, avail.idx) /\ Window(used.ring, used_idx, used.idx)

\* The descriptors of a request, from its head.
Second(i) == desc[i].next
Third(i) == desc[desc[i].next].next
Heads == {idx0[p] : p \in Waiting}

\* The request of p has three descriptors, which the device can follow.
Owns(p) == LET i == idx0[p] IN
  /\ i # Second(i) /\ i # Third(i) /\ Second(i) # Third(i)
  /\ desc[i].more /\ desc[Second(i)].more /\ ~desc[Third(i)].more
  /\ desc[Second(i)].addr = buf[p]
  /\ info[i].b = buf[p] /\ ops[i] = [out |-> write[p], sector |-> buf[p]]

\* They are its own, and the others are free.
Chains ==
  /\ \A p \in Waiting : Owns(p)
  /\ \A p, q \in Waiting : p # q => Chain(idx0[p]) \cap Chain(idx0[q]) = {}
  /\ \A d \in Descs : ~free[d] <=> \E p \in Waiting : d \in Chain(idx0[p])

\* A buffer is locked by the process that transfers it.
Buffers ==
  /\ \A p \in Procs : pc[p] = "idle" <=> buf[p] = None
  /\ \A p, q \in Procs : buf[p] = buf[q] /\ buf[p] # None => p = q

\* A request is queued, with the device, completed, or over.
Progress ==
  /\ Queued \cup taken \cup Completed \subseteq Heads
  /\ Queued \cap taken = {} /\ Queued \cap Completed = {} /\ taken \cap Completed = {}
  /\ \A i \in Completed : info[i].ok
  /\ \A p \in Waiting : idx0[p] \in Queued \cup taken \cup Completed => bdisk[buf[p]]

\* Buffer and disk differ until the device has done its part.
Transfer == \A p \in Procs : pc[p] # "idle" =>
  newer[buf[p]] = IF p \in Waiting /\ idx0[p] \notin Queued \cup taken THEN "none"
                  ELSE IF write[p] THEN "buffer" ELSE "disk"

\* The inductive invariant.
IInv == TypeOK /\ Rings /\ Chains /\ Buffers /\ Progress /\ Transfer /\ ~panicked

------------------------------------------------------------------------------
\* Three values that differ make a set of three.
LEMMA ThreeElements ==
  ASSUME NEW x, NEW y, NEW z, x # y, x # z, y # z
  PROVE  Cardinality(({x} \cup {y}) \cup {z}) = 3
<1>1. IsFiniteSet({x}) /\ Cardinality({x}) = 1
  BY FS_Singleton, Zenon
<1>2. IsFiniteSet({x} \cup {y}) /\ Cardinality({x} \cup {y}) = 1 + 1
  <2>1. y \notin {x}
    BY Zenon
  <2> QED BY <1>1, <2>1, FS_AddElement, Zenon
<1>3. Cardinality(({x} \cup {y}) \cup {z}) = 1 + 1 + 1
  <2>1. z \notin {x} \cup {y}
    BY Zenon
  <2> QED BY <1>2, <2>1, FS_AddElement, Zenon
<1> QED BY <1>3

\* The sizes of the rings.
LEMMA Sizes ==
  /\ NUM \in Nat \ {0} /\ 3 <= NUM /\ U16 \in Nat \ {0} /\ NUM <= U16
  /\ \E k \in Nat : U16 = k * NUM
<1>1. NUM \in Nat /\ 3 <= NUM
  BY SizeAssumption
<1>2. PICK k \in 1..U16 : U16 = k * NUM
  BY SizeAssumption, Zenon
<1>3. U16 \in Int
  BY <1>1, <1>2
<1>4. k \in Nat /\ 1 <= k
  BY <1>2, <1>3
<1>5. k * NUM >= NUM
  BY <1>1, <1>4
<1> QED
  BY <1>1, <1>2, <1>3, <1>4, <1>5

\* An index is within the ring.
LEMMA CellRange ==
  ASSUME NEW x \in Int
  PROVE  x % NUM \in Descs
BY Sizes, ModRange, Zenon DEF Descs

\* Two cells of a window are different ones.
LEMMA Cells ==
  ASSUME NEW from \in Nat, NEW k \in Nat, NEW l \in Nat, k < l, l < k + NUM
  PROVE  (from + k) % NUM # (from + l) % NUM
<1>1. NUM \in Nat \ {0} /\ from + k \in Int /\ l - k \in 1..(NUM - 1)
  BY Sizes
<1>2. ((from + k) + (l - k)) % NUM # (from + k) % NUM
  BY <1>1, ModDistinct, Zenon
<1>3. (from + k) + (l - k) = from + l
  OBVIOUS
<1> QED
  BY <1>2, <1>3, Zenon

\* The length of a window, and where it ends.
LEMMA Length ==
  ASSUME NEW from \in 0..(U16 - 1), NEW to \in 0..(U16 - 1)
  PROVE  /\ (to - from) % U16 \in 0..(U16 - 1)
         /\ (from + ((to - from) % U16)) % NUM = to % NUM
<1>1. NUM \in Nat \ {0} /\ U16 \in Nat \ {0} /\ to - from \in Int
  BY Sizes
<1>2. PICK k \in Nat : U16 = k * NUM
  BY Sizes, Zenon
<1>3. (from + ((to - from) % U16)) % NUM = to % NUM
  BY <1>1, <1>2, RingCell, Zenon
<1> QED
  BY <1>1, <1>3, ModRange, Zenon

\* Writing the cell after a window that leaves room extends it.
LEMMA WindowPut ==
  ASSUME NEW ring \in [Descs -> Descs \cup {Stale}],
         NEW from \in 0..(U16 - 1), NEW to \in 0..(U16 - 1), NEW i \in Descs,
         Window(ring, from, to), (to - from) % U16 <= NUM - 3,
         i \notin Pending(ring, from, to)
  PROVE  /\ Inc16(to) \in 0..(U16 - 1)
         /\ Window([ring EXCEPT ![to % NUM] = i], from, Inc16(to))
         /\ Pending([ring EXCEPT ![to % NUM] = i], from, Inc16(to)) =
              Pending(ring, from, to) \cup {i}
<1> DEFINE n == (to - from) % U16
           r2 == [ring EXCEPT ![to % NUM] = i]
           m == (((to + 1) % U16) - from) % U16
<1>1. n \in Nat /\ n <= NUM - 3 /\ (from + n) % NUM = to % NUM /\ NUM \in Nat /\ NUM <= U16
      /\ U16 \in Nat \ {0} /\ n # U16 - 1
  BY Sizes, Length
<1>2. (to + 1) % U16 \in 0..(U16 - 1) /\ m = n + 1
  BY <1>1, RingPut, Zenon
<1>3. \A k \in 0..(n - 1) : (from + k) % NUM # to % NUM
  <2> SUFFICES ASSUME NEW k \in 0..(n - 1) PROVE (from + k) % NUM # (from + n) % NUM
    BY <1>1, Zenon
  <2>1. k \in Nat /\ k < n /\ n < k + NUM /\ from \in Nat
    BY <1>1
  <2> QED
    BY <1>1, <2>1, Cells, Zenon
<1>4. \A k \in Int : (from + k) % NUM \in Descs
  BY CellRange
<1>5. r2[(from + n) % NUM] = i
  BY <1>1, <1>4
<1>6. \A k \in 0..(n - 1) : r2[(from + k) % NUM] = ring[(from + k) % NUM]
  <2> TAKE k \in 0..(n - 1)
  <2>1. (from + k) % NUM \in Descs /\ (from + k) % NUM # to % NUM
    BY <1>3, <1>4
  <2> QED BY <2>1, Zenon
<1>7. 0..(n + 1 - 1) = 0..(n - 1) \cup {n}
  BY <1>1
<1>8. i # Stale
  BY ValueAssumption, Zenon DEF Descs
<1>9. /\ \A k \in 0..(n - 1) : ring[(from + k) % NUM] # Stale /\ ring[(from + k) % NUM] # i
      /\ \A k, l \in 0..(n - 1) : ring[(from + k) % NUM] = ring[(from + l) % NUM] => k = l
  BY Zenon DEF Window, Pending
<1>10. Window(r2, from, Inc16(to))
  <2>1. \A k \in 0..(n - 1) \cup {n} : r2[(from + k) % NUM] # Stale
    BY <1>5, <1>6, <1>8, <1>9, Zenon
  <2>2. \A k, l \in 0..(n - 1) \cup {n} : r2[(from + k) % NUM] = r2[(from + l) % NUM] => k = l
    BY <1>5, <1>6, <1>9, Zenon
  <2>3. n + 1 < NUM
    BY <1>1
  <2> HIDE DEF n, r2, m
  <2> QED
    BY <1>2, <1>7, <2>1, <2>2, <2>3 DEF Window, Inc16, m
<1>11. Pending(r2, from, Inc16(to)) = Pending(ring, from, to) \cup {i}
  <2>1. {r2[(from + k) % NUM] : k \in 0..(n - 1) \cup {n}} =
          {ring[(from + k) % NUM] : k \in 0..(n - 1)} \cup {i}
    <3> HIDE DEF n, r2, m
    <3> QED BY <1>5, <1>6, Zenon
  <2>2. Pending(r2, from, Inc16(to)) = {r2[(from + k) % NUM] : k \in 0..(m - 1)}
    BY Zenon DEF Pending, Inc16
  <2>3. Pending(ring, from, to) = {ring[(from + k) % NUM] : k \in 0..(n - 1)}
    BY Zenon DEF Pending
  <2>4. m - 1 = n + 1 - 1
    BY <1>1, <1>2
  <2> HIDE DEF n, r2, m
  <2> QED
    BY <1>7, <2>1, <2>2, <2>3, <2>4, Zenon
<1> QED
  BY <1>2, <1>10, <1>11, Zenon DEF Inc16

\* Reading the first cell of a window that is not empty shortens it.
LEMMA WindowGet ==
  ASSUME NEW ring \in [Descs -> Descs \cup {Stale}],
         NEW from \in 0..(U16 - 1), NEW to \in 0..(U16 - 1), from # to,
         Window(ring, from, to)
  PROVE  /\ Inc16(from) \in 0..(U16 - 1)
         /\ ring[from % NUM] \in Descs /\ ring[from % NUM] \in Pending(ring, from, to)
         /\ Window([ring EXCEPT ![from % NUM] = Stale], Inc16(from), to)
         /\ Pending([ring EXCEPT ![from % NUM] = Stale], Inc16(from), to) =
              Pending(ring, from, to) \ {ring[from % NUM]}
<1> DEFINE n == (to - from) % U16
           r2 == [ring EXCEPT ![from % NUM] = Stale]
           m == (to - ((from + 1) % U16)) % U16
<1>1. n \in Nat /\ n < NUM /\ NUM \in Nat /\ U16 \in Nat \ {0} /\ NUM \in Nat \ {0}
  BY Sizes, Length DEF Window
<1>2. (from + 1) % U16 \in 0..(U16 - 1) /\ m = n - 1
  BY <1>1, RingGet, Zenon
<1>3. n >= 1
  <2>1. m \in 0..(U16 - 1)
    BY <1>1, <1>2, Length, Zenon
  <2> HIDE DEF n, m
  <2> QED BY <1>1, <1>2, <2>1
<1>4. \A k \in Int : (from + k) % NUM \in Descs
  BY CellRange
<1>5. \A k \in Int : (((from + 1) % U16) + k) % NUM = (from + 1 + k) % NUM
  <2>1. PICK j \in Nat : U16 = j * NUM
    BY Sizes, Zenon
  <2> QED
    BY <1>1, <2>1, RingNext, Zenon
<1>6. \A k \in 0..(n - 2) : (from + 1 + k) % NUM # from % NUM
  <2> TAKE k \in 0..(n - 2)
  <2>1. 1 + k \in Nat /\ 0 < 1 + k /\ 1 + k < 0 + NUM /\ from \in Nat /\ 0 \in Nat
    BY <1>1
  <2>2. (from + 0) % NUM # (from + (1 + k)) % NUM
    BY <2>1, Cells, Zenon
  <2>3. from + 0 = from /\ from + (1 + k) = from + 1 + k
    BY <2>1
  <2> QED
    BY <2>2, <2>3, Zenon
<1>7. \A k \in 0..(n - 2) : r2[(from + 1 + k) % NUM] = ring[(from + (k + 1)) % NUM]
  <2> TAKE k \in 0..(n - 2)
  <2>1. from + 1 + k = from + (k + 1) /\ from + 1 + k \in Int
    BY <1>1
  <2>2. (from + 1 + k) % NUM \in Descs
    BY <2>1, CellRange, Zenon
  <2> QED
    BY <1>6, <2>1, <2>2, Zenon
<1>8. /\ \A k \in 0..(n - 1) : ring[(from + k) % NUM] # Stale
      /\ \A k, l \in 0..(n - 1) : ring[(from + k) % NUM] = ring[(from + l) % NUM] => k = l
  BY Zenon DEF Window
<1>9. ring[from % NUM] = ring[(from + 0) % NUM] /\ 0 \in 0..(n - 1)
  BY <1>1, <1>3
<1>10. ring[from % NUM] \in Descs /\ ring[from % NUM] \in Pending(ring, from, to)
  <2>1. (from + 0) % NUM \in Descs
    <3>1. from + 0 \in Int
      OBVIOUS
    <3> QED BY <3>1, CellRange, Zenon
  <2>2. ring[(from + 0) % NUM] # Stale
    BY <1>8, <1>9, Zenon
  <2> QED
    BY <1>9, <2>1, <2>2, Zenon DEF Pending
<1>11. \A k \in 0..(n - 2) : k + 1 \in 0..(n - 1) /\ k + 1 # 0
  BY <1>1
<1>12. \A k \in 0..(n - 1) : k # 0 => \E j \in 0..(n - 2) : k = j + 1
  <2> TAKE k \in 0..(n - 1)
  <2> HAVE k # 0
  <2>1. k - 1 \in 0..(n - 2) /\ k = (k - 1) + 1
    BY <1>1
  <2> QED BY <2>1, Zenon
<1>13. n - 1 - 1 = n - 2
  BY <1>1
<1>14. \A k \in 0..(n - 2) : r2[(((from + 1) % U16) + k) % NUM] = ring[(from + (k + 1)) % NUM]
  BY <1>5, <1>7
<1> DEFINE s == (from + 1) % U16
           head == ring[from % NUM]
<1> HIDE DEF n, r2, m, s
<1>15. Window(r2, s, to)
  <2>1. \A k \in 0..(n - 2) : r2[(s + k) % NUM] # Stale
    BY <1>8, <1>11, <1>14 DEF s
  <2>2. \A k, l \in 0..(n - 2) : r2[(s + k) % NUM] = r2[(s + l) % NUM] => k = l
    <3> TAKE k, l \in 0..(n - 2)
    <3> HAVE r2[(s + k) % NUM] = r2[(s + l) % NUM]
    <3>1. k + 1 = l + 1
      BY <1>8, <1>11, <1>14 DEF s
    <3> QED BY <1>1, <3>1
  <2>3. n - 1 < NUM
    BY <1>1
  <2> QED
    BY <1>2, <1>13, <2>1, <2>2, <2>3, Zenon DEF Window, m, s
<1>16. Pending(r2, s, to) = Pending(ring, from, to) \ {head}
  <2>1. {r2[(s + k) % NUM] : k \in 0..(n - 2)} = {ring[(from + k) % NUM] : k \in 0..(n - 1)} \ {head}
    <3>1. ASSUME NEW x \in {r2[(s + k) % NUM] : k \in 0..(n - 2)}
          PROVE  x \in {ring[(from + k) % NUM] : k \in 0..(n - 1)} \ {head}
      <4>1. PICK k \in 0..(n - 2) : x = ring[(from + (k + 1)) % NUM]
        BY <1>14, Zenon DEF s
      <4> QED BY <1>8, <1>9, <1>11, <4>1, Zenon
    <3>2. ASSUME NEW x \in {ring[(from + k) % NUM] : k \in 0..(n - 1)} \ {head}
          PROVE  x \in {r2[(s + k) % NUM] : k \in 0..(n - 2)}
      <4>1. PICK k \in 0..(n - 1) : x = ring[(from + k) % NUM]
        BY Zenon
      <4>2. k # 0
        BY <1>9, <4>1, Zenon
      <4>3. PICK j \in 0..(n - 2) : k = j + 1
        BY <1>12, <4>2, Zenon
      <4> QED BY <1>14, <4>1, <4>3, Zenon DEF s
    <3> QED BY <3>1, <3>2, Zenon
  <2> QED
    BY <1>2, <1>13, <2>1, Zenon DEF Pending, n, m, s
<1> QED
  BY <1>2, <1>10, <1>15, <1>16, Zenon DEF Inc16, s, r2

\* A window whose contents leave out three descriptors has room for three.
LEMMA WindowRoom ==
  ASSUME NEW ring \in [Descs -> Descs \cup {Stale}],
         NEW from \in 0..(U16 - 1), NEW to \in 0..(U16 - 1), Window(ring, from, to),
         NEW i \in Descs, NEW j \in Descs, NEW k \in Descs, i # j, i # k, j # k,
         Pending(ring, from, to) \cap {i, j, k} = {}
  PROVE  (to - from) % U16 <= NUM - 3
<1> DEFINE n == (to - from) % U16
           f == [x \in 1..n |-> ring[(from + (x - 1)) % NUM]]
           rest == ((Descs \ {i}) \ {j}) \ {k}
<1>1. n \in Nat /\ NUM \in Nat
  BY Sizes, Length
<1>2. IsFiniteSet(Descs) /\ Cardinality(Descs) = NUM
  <2>1. 0 \in Int /\ NUM - 1 \in Int /\ (NUM - 1) - 0 + 1 = NUM /\ ~(0 > NUM - 1)
    BY Sizes
  <2> QED BY <2>1, FS_Interval, Zenon DEF Descs
<1>3. IsFiniteSet(rest) /\ Cardinality(rest) = NUM - 3
  <2>1. IsFiniteSet(Descs \ {i}) /\ Cardinality(Descs \ {i}) = NUM - 1
    BY <1>2, FS_RemoveElement, Zenon
  <2>2. IsFiniteSet((Descs \ {i}) \ {j}) /\ Cardinality((Descs \ {i}) \ {j}) = NUM - 1 - 1
    BY <2>1, FS_RemoveElement, Zenon
  <2>3. k \in (Descs \ {i}) \ {j}
    BY Zenon
  <2>4. IsFiniteSet(rest) /\ Cardinality(rest) = NUM - 1 - 1 - 1
    BY <2>2, <2>3, FS_RemoveElement
  <2> QED BY <1>1, <2>4
<1>4. \A x \in 1..n : x - 1 \in 0..(n - 1) /\ x - 1 \in Int
  BY <1>1
<1>5. ASSUME NEW x \in 1..n
      PROVE  f[x] \in rest
  <2>1. f[x] # Stale /\ f[x] \in Pending(ring, from, to)
    BY <1>4, Zenon DEF Window, Pending
  <2>2. from + (x - 1) \in Int
    BY <1>1
  <2>3. f[x] \in Descs
    BY <2>1, <2>2, CellRange, Zenon
  <2> QED BY <2>1, <2>3, Zenon
<1>6. ASSUME NEW x \in 1..n, NEW y \in 1..n, f[x] = f[y]
      PROVE  x = y
  <2>1. x - 1 = y - 1
    BY <1>4, <1>6, Zenon DEF Window
  <2> QED BY <1>1, <2>1
<1>7. f \in Injection(1..n, rest)
  <2> HIDE DEF n, rest
  <2>1. f \in [1..n -> rest]
    BY <1>5, Zenon
  <2> HIDE DEF f
  <2> QED BY <1>6, <2>1, Zenon DEF Injection, IsInjective
<1>8. IsFiniteSet(1..n) /\ Cardinality(1..n) = n
  <2> HIDE DEF n
  <2> QED BY <1>1, FS_Interval
<1> HIDE DEF f, rest, n
<1>9. Cardinality(1..n) <= Cardinality(rest)
  BY <1>3, <1>7, <1>8, FS_Injection, Zenon
<1> QED
  BY <1>3, <1>8, <1>9, Zenon DEF n

------------------------------------------------------------------------------
\* Chains of descriptors.

\* The descriptors of a request.
LEMMA ChainIs ==
  ASSUME TypeOK, Chains, NEW p \in Waiting
  PROVE  /\ idx0[p] \in Descs /\ Second(idx0[p]) \in Descs /\ Third(idx0[p]) \in Descs
         /\ Chain(idx0[p]) = {idx0[p], Second(idx0[p]), Third(idx0[p])}
<1>1. idx0[p] \in Descs
  BY Zenon DEF TypeOK, Waiting
<1>2. Second(idx0[p]) \in Descs
  BY <1>1, Zenon DEF TypeOK, Second
<1>3. Third(idx0[p]) \in Descs
  BY <1>2, Zenon DEF TypeOK, Second, Third
<1> QED
  BY <1>1, <1>2, <1>3, Zenon DEF Chains, Owns, Chain, Second, Third

\* A set of heads without that of p has none of its descriptors.
LEMMA HeadRoom ==
  ASSUME TypeOK, Chains, NEW p \in Waiting, NEW S \in SUBSET Heads, idx0[p] \notin S
  PROVE  S \cap {idx0[p], Second(idx0[p]), Third(idx0[p])} = {}
<1> SUFFICES ASSUME NEW x \in S, x \in {idx0[p], Second(idx0[p]), Third(idx0[p])} PROVE FALSE
  BY Zenon
<1>1. PICK q \in Waiting : x = idx0[q]
  BY Zenon DEF Heads
<1>2. x \in Chain(idx0[p]) /\ x \in Chain(idx0[q]) /\ q # p
  BY <1>1, ChainIs, Zenon
<1> QED
  BY <1>2, Zenon DEF Chains

\* The descriptors that a request keeps are as they were.
LEMMA ChainSame ==
  ASSUME TypeOK, Chains, NEW p \in Waiting, idx0'[p] = idx0[p],
         \A d \in Chain(idx0[p]) : desc'[d] = desc[d]
  PROVE  /\ Second(idx0[p])' = Second(idx0[p]) /\ Third(idx0[p])' = Third(idx0[p])
         /\ Chain(idx0[p])' = Chain(idx0[p])
<1> DEFINE i == idx0[p]
<1>1. desc'[i] = desc[i] /\ desc'[Second(i)] = desc[Second(i)] /\ desc'[Third(i)] = desc[Third(i)]
  BY ChainIs, Zenon
<1>2. Second(i)' = Second(i) /\ Third(i)' = Third(i)
  BY <1>1, Zenon DEF Second, Third
<1>3. desc[i].more /\ desc[Second(i)].more /\ ~desc[Third(i)].more
  BY Zenon DEF Chains, Owns
<1> QED
  BY <1>1, <1>2, <1>3, Zenon DEF Chain, Second, Third

\* A request whose descriptors do not change is still one.
LEMMA OwnsSame ==
  ASSUME NEW p \in Waiting, Owns(p),
         idx0'[p] = idx0[p], buf'[p] = buf[p], write'[p] = write[p],
         info'[idx0[p]].b = info[idx0[p]].b, ops'[idx0[p]] = ops[idx0[p]],
         desc'[idx0[p]] = desc[idx0[p]],
         desc'[Second(idx0[p])] = desc[Second(idx0[p])],
         desc'[Third(idx0[p])] = desc[Third(idx0[p])]
  PROVE  Owns(p)'
<1>1. desc'[idx0'[p]].next = desc[idx0[p]].next /\ desc'[idx0'[p]].more = desc[idx0[p]].more
  BY Zenon
<1>2. desc'[desc'[idx0'[p]].next] = desc[desc[idx0[p]].next]
  BY <1>1, Zenon DEF Second
<1>3. desc'[desc'[desc'[idx0'[p]].next].next] = desc[desc[desc[idx0[p]].next].next]
  BY <1>2, Zenon DEF Third
<1> QED BY <1>1, <1>2, <1>3, Zenon DEF Owns, Second, Third

\* A step that ends some requests, and leaves the others alone.
LEMMA ChainsFrame ==
  ASSUME TypeOK, Chains, Waiting' \subseteq Waiting,
         \A p \in Waiting' : /\ idx0'[p] = idx0[p] /\ buf'[p] = buf[p] /\ write'[p] = write[p]
                             /\ \A d \in Chain(idx0[p]) : desc'[d] = desc[d]
                             /\ info'[idx0[p]].b = info[idx0[p]].b /\ ops'[idx0[p]] = ops[idx0[p]],
         \A d \in Descs : free'[d] <=> free[d] \/ \E p \in Waiting \ Waiting' : d \in Chain(idx0[p])
  PROVE  Chains'
<1>1. \A p \in Waiting' : Chain(idx0[p])' = Chain(idx0[p])
  BY ChainSame, Zenon
<1>2. ASSUME NEW p \in Waiting'
      PROVE  Owns(p)'
  <2>1. Owns(p) /\ idx0'[p] = idx0[p] /\ buf'[p] = buf[p] /\ write'[p] = write[p]
        /\ info'[idx0[p]].b = info[idx0[p]].b /\ ops'[idx0[p]] = ops[idx0[p]]
    BY Zenon DEF Chains
  <2>2. /\ desc'[idx0[p]] = desc[idx0[p]]
        /\ desc'[desc[idx0[p]].next] = desc[desc[idx0[p]].next]
        /\ desc'[desc[desc[idx0[p]].next].next] = desc[desc[desc[idx0[p]].next].next]
    <3>1. /\ idx0[p] \in Chain(idx0[p]) /\ desc[idx0[p]].next \in Chain(idx0[p])
          /\ desc[desc[idx0[p]].next].next \in Chain(idx0[p])
      BY ChainIs, Zenon DEF Second, Third
    <3>2. \A d \in Chain(idx0[p]) : desc'[d] = desc[d]
      BY Zenon
    <3> QED BY <3>1, <3>2, Zenon
  <2> QED BY <2>1, <2>2, OwnsSame, Zenon DEF Second, Third
<1>3. ASSUME NEW p \in Waiting', NEW q \in Waiting', p # q
      PROVE  Chain(idx0[p])' \cap Chain(idx0[q])' = {}
  <2>1. Chain(idx0[p]) \cap Chain(idx0[q]) = {}
    <3>1. p \in Waiting /\ q \in Waiting
      BY Zenon
    <3> QED BY <1>3, <3>1 DEF Chains
  <2>2. Chain(idx0[p])' = Chain(idx0[p]) /\ Chain(idx0[q])' = Chain(idx0[q])
    BY <1>1, Zenon
  <2> QED BY <2>1, <2>2, Zenon
<1>4. ASSUME NEW d \in Descs
      PROVE  ~free'[d] <=> \E p \in Waiting' : d \in Chain(idx0[p])'
  <2>1. (\E p \in Waiting' : d \in Chain(idx0[p])') <=> \E p \in Waiting' : d \in Chain(idx0[p])
    BY <1>1
  <2>2. \A p \in Waiting', q \in Waiting \ Waiting' : Chain(idx0[p]) \cap Chain(idx0[q]) = {}
    BY Zenon DEF Chains
  <2> QED BY <2>1, <2>2, Zenon DEF Chains
<1> QED
  BY <1>2, <1>3, <1>4, Zenon DEF Chains

------------------------------------------------------------------------------
\* Every step keeps the invariant.

\* A step that only moves processes between places where they wait.
LEMMA Frame ==
  ASSUME IInv, pc' \in [Procs -> Locations], UNCHANGED <<driver, used_idx, avail, used, seen, taken,
           bufs, buf, write, idx0, panicked>>,
         \A p \in Procs : /\ pc'[p] \in {"sleep_buf", "check"} <=> pc[p] \in {"sleep_buf", "check"}
                          /\ pc'[p] = "idle" <=> pc[p] = "idle"
  PROVE  IInv'
<1>1. Waiting' = Waiting
  BY Zenon DEF Waiting
<1>2. TypeOK' /\ Rings' /\ Queued' = Queued /\ Completed' = Completed /\ Heads' = Heads /\ ~panicked'
  BY <1>1 DEF IInv, TypeOK, Rings, Window, Queued, Completed, Pending, Heads, driver,
       bufs
<1>3. Chains'
  BY <1>1, ChainsFrame, Zenon DEF IInv, driver
<1>4. Buffers'
  BY Zenon DEF IInv, Buffers
<1>5. Progress'
  BY <1>1, <1>2, Zenon DEF IInv, Progress, driver, bufs
<1>6. Transfer'
  BY <1>1, <1>2, Zenon DEF IInv, Transfer, bufs
<1> QED
  BY <1>2, <1>3, <1>4, <1>5, <1>6, Zenon DEF IInv

\* A request that completes or is taken is somebody's.
LEMMA HeadOf ==
  ASSUME IInv, NEW i \in Queued \cup taken \cup Completed
  PROVE  \E p \in Waiting : i = idx0[p]
BY Zenon DEF IInv, Progress, Heads

\* A call begins.
LEMMA BeginStep ==
  ASSUME IInv, NEW p \in Procs, NEW b \in Bufs, NEW w \in BOOLEAN, virtio_disk_rw(p, b, w)
  PROVE  IInv'
<1>1. /\ pc[p] = "idle" /\ \A q \in Procs : buf[q] # b
      /\ \A q \in Procs : /\ pc'[q] = IF q = p THEN "try" ELSE pc[q]
                          /\ buf'[q] = IF q = p THEN b ELSE buf[q]
                          /\ write'[q] = IF q = p THEN w ELSE write[q]
      /\ newer' = [newer EXCEPT ![b] = IF w THEN "buffer" ELSE "disk"]
  BY DEF virtio_disk_rw, IInv, TypeOK
<1>2. UNCHANGED <<free, desc, ops, info, used_idx, avail, used, seen, taken, bdisk, idx0, panicked>>
  BY Zenon DEF virtio_disk_rw, driver
<1>3. Waiting' = Waiting /\ p \notin Waiting
  BY <1>1, Zenon DEF Waiting
<1>4. TypeOK'
  BY <1>2 DEF virtio_disk_rw, IInv, TypeOK, Locations
<1>5. Rings' /\ Queued' = Queued /\ Completed' = Completed /\ Heads' = Heads /\ ~panicked'
  BY <1>2, <1>3 DEF IInv, Rings, Window, Queued, Completed, Pending, Heads
<1>6. \A q \in Waiting : q # p /\ q \in Procs /\ buf[q] # b
  BY <1>1, <1>3, Zenon DEF Waiting
<1>7. Chains'
  BY <1>1, <1>2, <1>3, <1>6, ChainsFrame DEF IInv
<1>8. Buffers'
  BY <1>1, ValueAssumption DEF IInv, Buffers
<1>9. Progress'
  BY <1>1, <1>2, <1>3, <1>5, <1>6 DEF IInv, Progress
<1>10. Transfer'
  <2>1. \A c \in Bufs : newer'[c] = IF c = b THEN IF w THEN "buffer" ELSE "disk" ELSE newer[c]
    BY <1>1 DEF IInv, TypeOK
  <2>2. \A q \in Procs : q # p /\ pc[q] # "idle" => buf[q] \in Bufs
    BY Zenon DEF IInv, TypeOK, Buffers
  <2> QED BY <1>1, <1>2, <1>3, <1>5, <2>1, <2>2 DEF IInv, Transfer
<1> QED
  BY <1>4, <1>5, <1>7, <1>8, <1>9, <1>10, Zenon DEF IInv

\* The device takes a request.
LEMMA TakeStep ==
  ASSUME IInv, dev_take
  PROVE  IInv'
<1> DEFINE i == avail.ring[seen % NUM]
<1>1. UNCHANGED <<driver, used_idx, used, bufs, thread>> /\ seen # avail.idx
      /\ taken' = (taken \cup {i}) \ {Stale} /\ seen' = Inc16(seen)
      /\ avail'.ring = [avail.ring EXCEPT ![seen % NUM] = Stale] /\ avail'.idx = avail.idx
      /\ avail' \in [idx : {avail.idx}, ring : {[avail.ring EXCEPT ![seen % NUM] = Stale]}]
      /\ panicked' = (panicked \/ i = Stale)
  BY Zenon DEF dev_take, IInv, TypeOK
<1>2. /\ avail.ring \in [Descs -> Descs \cup {Stale}]
      /\ seen \in 0..(U16 - 1) /\ avail.idx \in 0..(U16 - 1) /\ Window(avail.ring, seen, avail.idx)
  BY Zenon DEF IInv, TypeOK, Rings
<1>3. /\ Inc16(seen) \in 0..(U16 - 1) /\ i \in Descs /\ i \in Queued
      /\ Window([avail.ring EXCEPT ![seen % NUM] = Stale], Inc16(seen), avail.idx)
      /\ Pending([avail.ring EXCEPT ![seen % NUM] = Stale], Inc16(seen), avail.idx) = Queued \ {i}
  BY <1>1, <1>2, WindowGet DEF Queued
<1> HIDE DEF i
<1>4. i # Stale /\ Stale \notin Descs
  BY <1>3, ValueAssumption, Zenon DEF Descs
<1>5. taken' = taken \cup {i} /\ ~panicked'
  <2>1. taken \subseteq Descs /\ ~panicked
    BY Zenon DEF IInv, TypeOK
  <2>2. ~panicked'
    BY <1>1, <1>4, <2>1, Zenon
  <2> QED BY <1>1, <1>4, <2>1, <2>2
<1>6. Queued' = Queued \ {i} /\ Rings' /\ Completed' = Completed
  <2>1. /\ avail'.ring = [avail.ring EXCEPT ![seen % NUM] = Stale] /\ avail'.idx = avail.idx
        /\ seen' = Inc16(seen) /\ used' = used /\ used_idx' = used_idx
    BY <1>1 DEF IInv, TypeOK
  <2>2. Queued' = Queued \ {i} /\ Window(avail.ring, seen, avail.idx)'
    BY <1>3, <2>1 DEF Queued, Pending, Window
  <2>3. Completed' = Completed /\ Window(used.ring, used_idx, used.idx)'
    BY <2>1 DEF IInv, Rings, Completed, Pending, Window
  <2> QED BY <2>2, <2>3, Zenon DEF Rings
<1>7. Waiting' = Waiting /\ Heads' = Heads
  BY <1>1 DEF Waiting, Heads, thread
<1>8. TypeOK'
  <2>1. avail' \in [idx : 0..(U16 - 1), ring : [Descs -> Descs \cup {Stale}]]
    BY <1>1, <1>2, Zenon
  <2> QED BY <1>1, <1>3, <1>5, <2>1 DEF IInv, TypeOK, driver, bufs, thread
<1>9. Chains'
  BY <1>1, <1>7, ChainsFrame, Zenon DEF IInv, driver, thread
<1>10. Buffers'
  BY <1>1, Zenon DEF IInv, Buffers, thread
<1>11. Progress'
  BY <1>1, <1>3, <1>5, <1>6, <1>7 DEF IInv, Progress, driver, bufs, thread
<1>12. Transfer'
  <2>1. Queued' \cup taken' = Queued \cup taken
    BY <1>3, <1>5, <1>6, Zenon
  <2> QED BY <1>1, <1>7, <2>1, Zenon DEF IInv, Transfer, bufs, thread
<1> QED
  BY <1>5, <1>6, <1>8, <1>9, <1>10, <1>11, <1>12, Zenon DEF IInv

\* The device completes a request.
LEMMA CompleteStep ==
  ASSUME IInv, NEW i \in Descs, dev_complete(i)
  PROVE  IInv'
<1>1. UNCHANGED <<free, desc, ops, used_idx, avail, seen, bdisk, thread, panicked>> /\ i \in taken
      /\ taken' = taken \ {i} /\ info' = [info EXCEPT ![i].ok = TRUE]
      /\ used' = [idx |-> Inc16(used.idx), ring |-> [used.ring EXCEPT ![used.idx % NUM] = i]]
  BY Zenon DEF dev_complete
<1>2. PICK p \in Waiting : i = idx0[p]
  BY <1>1, HeadOf, Zenon
<1>3. Owns(p) /\ buf[p] \in Bufs /\ p \in Procs /\ pc[p] # "idle"
  BY <1>2 DEF IInv, Chains, Waiting, Buffers, TypeOK
<1>4. newer' = [newer EXCEPT ![buf[p]] = "none"]
  <2>1. desc[desc[i].next].addr = buf[p] /\ ops[i].sector = buf[p] /\ ops[i].out = write[p]
    <3>1. desc[desc[i].next].addr = buf[p] /\ ops[i] = [out |-> write[p], sector |-> buf[p]]
      BY <1>2, <1>3, Zenon DEF Owns, Second
    <3> QED BY <3>1
  <2>2. newer[buf[p]] = IF write[p] THEN "buffer" ELSE "disk"
    BY <1>1, <1>2, <1>3, Zenon DEF IInv, Transfer
  <2>3. newer' = [newer EXCEPT ![buf[p]] =
           IF ops[i].sector = buf[p] /\ newer[buf[p]] \in {IF ops[i].out THEN "buffer" ELSE "disk", "none"}
           THEN "none" ELSE "lost"]
    BY <2>1, Zenon DEF dev_complete
  <2> QED BY <2>1, <2>2, <2>3, Zenon
<1>5. /\ used.ring \in [Descs -> Descs \cup {Stale}]
      /\ used_idx \in 0..(U16 - 1) /\ used.idx \in 0..(U16 - 1) /\ Window(used.ring, used_idx, used.idx)
  BY Zenon DEF IInv, TypeOK, Rings
<1>6. i \notin Completed /\ i \notin Queued /\ Completed \in SUBSET Heads
  BY <1>1, Zenon DEF IInv, Progress
<1>7. (used.idx - used_idx) % U16 <= NUM - 3
  <2>1. Completed \cap {i, Second(i), Third(i)} = {}
    BY <1>2, <1>6, HeadRoom, Zenon DEF IInv
  <2>2. Second(i) \in Descs /\ Third(i) \in Descs
    BY <1>2, ChainIs, Zenon DEF IInv
  <2>3. i # Second(i) /\ i # Third(i) /\ Second(i) # Third(i)
    BY <1>2, <1>3, Zenon DEF Owns
  <2> QED BY <1>5, <2>1, <2>2, <2>3, WindowRoom, Zenon DEF Completed
<1>8. /\ Inc16(used.idx) \in 0..(U16 - 1)
      /\ Window([used.ring EXCEPT ![used.idx % NUM] = i], used_idx, Inc16(used.idx))
      /\ Pending([used.ring EXCEPT ![used.idx % NUM] = i], used_idx, Inc16(used.idx)) = Completed \cup {i}
  BY <1>5, <1>6, <1>7, WindowPut DEF Completed
<1>9. Completed' = Completed \cup {i} /\ Rings' /\ Queued' = Queued
  BY <1>1, <1>8 DEF Completed, IInv, Rings, Queued, Pending, Window
<1>10. Waiting' = Waiting /\ Heads' = Heads
  BY <1>1, Zenon DEF Waiting, Heads, thread
<1>11. \A d \in Descs : info'[d].b = info[d].b /\ (info'[d].ok <=> d = i \/ info[d].ok)
  <2>1. info' = [info EXCEPT ![i] = [info[i] EXCEPT !.ok = TRUE]] /\ info \in [Descs -> [b : Bufs \cup {None}, ok : BOOLEAN]]
    BY <1>1 DEF IInv, TypeOK
  <2>2. \A d \in Descs : info'[d] = IF d = i THEN [info[i] EXCEPT !.ok = TRUE] ELSE info[d]
    BY <2>1, Zenon
  <2>3. info'[i].ok /\ info'[i].b = info[i].b
    BY <2>1, <2>2, Zenon
  <2> QED BY <2>2, <2>3, Zenon
<1>12. TypeOK'
  <2>1. used' \in [idx : 0..(U16 - 1), ring : [Descs -> Descs \cup {Stale}]]
    BY <1>1, <1>5, <1>8, Zenon
  <2>2. newer' \in [Bufs -> {"none", "buffer", "disk", "lost"}]
    BY <1>4, Zenon DEF IInv, TypeOK
  <2>3. info' \in [Descs -> [b : Bufs \cup {None}, ok : BOOLEAN]] /\ taken' \subseteq Descs
    <3>1. info \in [Descs -> [b : Bufs \cup {None}, ok : BOOLEAN]] /\ taken \subseteq Descs
      BY Zenon DEF IInv, TypeOK
    <3>2. [info[i] EXCEPT !.ok = TRUE] \in [b : Bufs \cup {None}, ok : BOOLEAN]
      BY <3>1, Zenon
    <3> QED BY <1>1, <3>1, <3>2, Zenon
  <2> QED BY <1>1, <2>1, <2>2, <2>3, Zenon DEF IInv, TypeOK, thread
<1>13. Chains'
  <2>1. \A q \in Waiting : idx0[q] \in Descs
    BY Zenon DEF IInv, TypeOK, Waiting
  <2> QED BY <1>1, <1>10, <1>11, <2>1, ChainsFrame, Zenon DEF IInv, thread
<1>14. Buffers'
  BY <1>1, Zenon DEF IInv, Buffers, thread
<1>15. Progress'
  <2>1. \A d \in Completed : d \in Descs
    BY DEF IInv, Progress, Heads, Waiting, TypeOK
  <2> QED BY <1>1, <1>6, <1>9, <1>10, <1>11, <2>1, Zenon DEF IInv, Progress, thread
<1>16. Transfer'
  <2>1. \A c \in Bufs : newer'[c] = IF c = buf[p] THEN "none" ELSE newer[c]
    BY <1>4, Zenon DEF IInv, TypeOK
  <2>2. \A q \in Procs : pc[q] # "idle" => buf[q] \in Bufs /\ (q # p => buf[q] # buf[p])
    BY <1>3, ValueAssumption, Zenon DEF IInv, TypeOK, Buffers
  <2>3. \A q \in Waiting : q # p => idx0[q] # i
    BY <1>2, ChainIs, Zenon DEF IInv, Chains
  <2>4. \A q \in Waiting : idx0[q] \notin Queued' \cup taken' <=> q = p \/ idx0[q] \notin Queued \cup taken
    BY <1>1, <1>2, <1>6, <1>9, <2>3, Zenon
  <2> QED BY <1>1, <1>2, <1>3, <1>10, <2>1, <2>2, <2>4 DEF IInv, Transfer, thread
<1> QED
  BY <1>1, <1>9, <1>12, <1>13, <1>14, <1>15, <1>16, Zenon DEF IInv

\* The interrupt handler reads the used ring.
LEMMA IntrStep ==
  ASSUME IInv, intr_next
  PROVE  IInv'
<1> DEFINE i == used.ring[used_idx % NUM]
<1>1. UNCHANGED <<driver, avail, seen, taken, newer, buf, write, idx0>> /\ used_idx # used.idx
      /\ used_idx' = Inc16(used_idx)
      /\ used' = [used EXCEPT !.ring[used_idx % NUM] = Stale]
  BY Zenon DEF intr_next
<1>2. /\ used.ring \in [Descs -> Descs \cup {Stale}]
      /\ used_idx \in 0..(U16 - 1) /\ used.idx \in 0..(U16 - 1) /\ Window(used.ring, used_idx, used.idx)
  BY Zenon DEF IInv, TypeOK, Rings
<1>3. /\ Inc16(used_idx) \in 0..(U16 - 1) /\ i \in Descs /\ i \in Completed
      /\ Window([used.ring EXCEPT ![used_idx % NUM] = Stale], Inc16(used_idx), used.idx)
      /\ Pending([used.ring EXCEPT ![used_idx % NUM] = Stale], Inc16(used_idx), used.idx) = Completed \ {i}
  BY <1>1, <1>2, WindowGet, Zenon DEF Completed
<1>4. used'.ring = [used.ring EXCEPT ![used_idx % NUM] = Stale] /\ used'.idx = used.idx
      /\ used' \in [idx : 0..(U16 - 1), ring : [Descs -> Descs \cup {Stale}]]
  BY <1>1, <1>2, Zenon DEF IInv, TypeOK
<1>5. PICK p \in Waiting : i = idx0[p]
  BY <1>3, HeadOf, Zenon
<1>6. Owns(p) /\ buf[p] \in Bufs /\ p \in Procs /\ pc[p] # "idle"
  BY <1>5 DEF IInv, Chains, Waiting, Buffers, TypeOK
<1>7. i # Stale /\ info[i].ok /\ info[i].b = buf[p] /\ buf[p] # None
  BY <1>3, <1>5, <1>6, ValueAssumption, Zenon DEF IInv, Progress, Owns, Descs
<1>8. bdisk' = [bdisk EXCEPT ![buf[p]] = FALSE] /\ pc' = WakeBuf(pc, buf[p]) /\ UNCHANGED panicked
  BY <1>7, Zenon DEF intr_next
<1> HIDE DEF i
<1>9. \A q \in Procs : /\ pc'[q] \in Locations
                       /\ pc'[q] \in {"sleep_buf", "check"} <=> pc[q] \in {"sleep_buf", "check"}
                       /\ pc'[q] = "idle" <=> pc[q] = "idle"
  BY <1>8, Zenon DEF WakeBuf, IInv, TypeOK, Locations
<1>10. Waiting' = Waiting /\ Heads' = Heads
  BY <1>1, <1>9, Zenon DEF Waiting, Heads
<1>11. Completed' = Completed \ {i} /\ Rings' /\ Queued' = Queued
  <2>1. used_idx' = Inc16(used_idx) /\ avail' = avail /\ seen' = seen
    BY <1>1, Zenon
  <2>2. Completed' = Completed \ {i} /\ Window(used.ring, used_idx, used.idx)'
    BY <1>3, <1>4, <2>1 DEF Completed, Pending, Window
  <2>3. Queued' = Queued /\ Window(avail.ring, seen, avail.idx)'
    BY <2>1 DEF IInv, Rings, Queued, Pending, Window
  <2> QED BY <2>2, <2>3, Zenon DEF Rings
<1>12. TypeOK'
  <2>1. pc' \in [Procs -> Locations]
    BY <1>8, <1>9, Zenon DEF WakeBuf
  <2>2. bdisk' \in [Bufs -> BOOLEAN]
    BY <1>6, <1>8, Zenon DEF IInv, TypeOK
  <2> QED BY <1>1, <1>3, <1>4, <2>1, <2>2, Zenon DEF IInv, TypeOK, driver
<1>13. Chains'
  BY <1>1, <1>10, ChainsFrame, Zenon DEF IInv, driver
<1>14. Buffers'
  BY <1>1, <1>9, Zenon DEF IInv, Buffers
<1>15. Progress'
  <2>1. \A c \in Bufs : bdisk'[c] = (c # buf[p] /\ bdisk[c])
    BY <1>8, Zenon DEF IInv, TypeOK
  <2>2. \A q \in Waiting : buf[q] \in Bufs /\ (q # p => buf[q] # buf[p])
    BY <1>5, <1>6, ValueAssumption DEF IInv, TypeOK, Buffers, Waiting
  <2>3. i \notin Queued /\ i \notin taken
    BY <1>3, Zenon DEF IInv, Progress
  <2>4. \A q \in Waiting : idx0[q] \in Queued \cup taken \cup (Completed \ {i}) => bdisk'[buf[q]]
    BY <1>5, <2>1, <2>2, <2>3, Zenon DEF IInv, Progress
  <2> QED BY <1>1, <1>10, <1>11, <2>4, Zenon DEF IInv, Progress, driver
<1>16. Transfer'
  BY <1>1, <1>9, <1>10, <1>11, Zenon DEF IInv, Transfer
<1> QED
  BY <1>8, <1>11, <1>12, <1>13, <1>14, <1>15, <1>16, Zenon DEF IInv

\* A call returns.
LEMMA ReturnStep ==
  ASSUME IInv, NEW p \in Procs, rw_done(p)
  PROVE  IInv'
<1> DEFINE i == idx0[p]
<1>1. UNCHANGED <<used_idx, avail, used, seen, taken, bufs>> /\ pc[p] = "check" /\ ~bdisk[buf[p]]
      /\ panicked' = (\E d \in Chain(i) : free[d])
      /\ info' = [info EXCEPT ![i].b = None] /\ ops' = [ops EXCEPT ![i] = NoOp]
      /\ \A d \in Descs : /\ free'[d] = (free[d] \/ d \in Chain(i))
                          /\ desc'[d] = IF d \in Chain(i) THEN NoDesc ELSE desc[d]
  BY Zenon DEF rw_done, free_chain, Return
<1>2. p \in Waiting /\ Owns(p) /\ i \in Descs /\ buf[p] \in Bufs
  BY <1>1 DEF Waiting, IInv, Chains, TypeOK, Buffers
<1>3. Chain(i) \subseteq Descs /\ i \in Chain(i) /\ \A d \in Chain(i) : ~free[d]
  <2>1. Chain(i) \subseteq Descs /\ i \in Chain(i)
    BY <1>2, ChainIs, Zenon DEF IInv
  <2>2. \A d \in Descs : d \in Chain(i) => ~free[d]
    BY <1>2, Zenon DEF IInv, Chains
  <2> QED BY <2>1, <2>2, Zenon
<1>4. ~panicked'
  BY <1>1, <1>3, Zenon
<1>5. \A q \in Procs : /\ pc'[q] \in Locations
                       /\ q # p => (pc'[q] \in {"sleep_buf", "check"} <=> pc[q] \in {"sleep_buf", "check"})
                       /\ q # p => (pc'[q] = "idle" <=> pc[q] = "idle")
                       /\ pc'[p] = "idle"
                       /\ q # p => buf'[q] = buf[q] /\ write'[q] = write[q] /\ idx0'[q] = idx0[q]
                       /\ buf'[p] = None
  BY Zenon DEF rw_done, Return, WakeFree, IInv, TypeOK, Locations
<1>6. Waiting' = Waiting \ {p}
  BY <1>5, Zenon DEF Waiting
<1>7. \A q \in Waiting' : q # p /\ q \in Procs /\ q \in Waiting /\ idx0[q] \in Descs /\ idx0[q] # i
                          /\ Chain(idx0[q]) \cap Chain(i) = {} /\ Chain(idx0[q]) \subseteq Descs
  <2> TAKE q \in Waiting'
  <2>1. q # p /\ q \in Procs /\ q \in Waiting
    BY <1>6, Zenon DEF Waiting
  <2>2. Chain(idx0[q]) \cap Chain(i) = {}
    BY <1>2, <2>1, Zenon DEF IInv, Chains
  <2> QED BY <1>2, <1>3, <2>1, <2>2, ChainIs DEF IInv
<1>8. TypeOK'
  <2>1. 0 \in Descs
    BY SizeAssumption DEF Descs
  <2>2. free' \in [Descs -> BOOLEAN] /\ desc' \in [Descs -> [more : BOOLEAN, next : Descs, addr : Bufs \cup {None}]]
    BY <2>1 DEF rw_done, free_chain, IInv, TypeOK, NoDesc
  <2>3. ops' \in [Descs -> [out : BOOLEAN, sector : Bufs \cup {None}]]
    BY <1>1, Zenon DEF IInv, TypeOK, NoOp
  <2>4. info' \in [Descs -> [b : Bufs \cup {None}, ok : BOOLEAN]]
    <3>1. info \in [Descs -> [b : Bufs \cup {None}, ok : BOOLEAN]]
      BY Zenon DEF IInv, TypeOK
    <3>2. [info[i] EXCEPT !.b = None] \in [b : Bufs \cup {None}, ok : BOOLEAN]
      BY <1>2, <3>1
    <3> QED BY <1>1, <3>1, <3>2, Zenon
  <2>5. pc' \in [Procs -> Locations]
    BY <1>5, Zenon DEF rw_done, WakeFree
  <2>6. buf' \in [Procs -> Bufs \cup {None}] /\ write' \in [Procs -> BOOLEAN] /\ idx0' \in [Procs -> Descs]
    BY <2>1, Zenon DEF rw_done, Return, IInv, TypeOK
  <2> QED BY <1>1, <2>2, <2>3, <2>4, <2>5, <2>6, Zenon DEF IInv, TypeOK, bufs
<1>9. Rings' /\ Queued' = Queued /\ Completed' = Completed
  BY <1>1 DEF IInv, Rings, Window, Queued, Completed, Pending
<1>10. Chains'
  <2>1. \A q \in Waiting' : /\ idx0'[q] = idx0[q] /\ buf'[q] = buf[q] /\ write'[q] = write[q]
                            /\ \A d \in Chain(idx0[q]) : desc'[d] = desc[d]
                            /\ info'[idx0[q]].b = info[idx0[q]].b /\ ops'[idx0[q]] = ops[idx0[q]]
    <3> TAKE q \in Waiting'
    <3>1. idx0'[q] = idx0[q] /\ buf'[q] = buf[q] /\ write'[q] = write[q]
      BY <1>5, <1>7, Zenon
    <3>2. \A d \in Chain(idx0[q]) : desc'[d] = desc[d]
      BY <1>1, <1>7, Zenon
    <3>3. info'[idx0[q]].b = info[idx0[q]].b /\ ops'[idx0[q]] = ops[idx0[q]]
      BY <1>1, <1>7, Zenon DEF IInv, TypeOK
    <3> QED BY <3>1, <3>2, <3>3, Zenon
  <2>2. \A d \in Descs : free'[d] <=> free[d] \/ \E q \in Waiting \ Waiting' : d \in Chain(idx0[q])
    BY <1>1, <1>2, <1>6, Zenon
  <2> QED BY <1>6, <2>1, <2>2, ChainsFrame, Zenon DEF IInv
<1>11. Buffers'
  BY <1>5 DEF IInv, Buffers
<1>12. i \notin Queued \cup taken \cup Completed
  BY <1>1, <1>2, Zenon DEF IInv, Progress
<1>13. Progress'
  <2>1. Heads \ {i} \subseteq Heads'
    <3> SUFFICES ASSUME NEW q \in Waiting, idx0[q] # i PROVE idx0[q] \in Heads'
      BY Zenon DEF Heads
    <3>1. q \in Waiting' /\ idx0'[q] = idx0[q]
      BY <1>5, <1>6, Zenon DEF Waiting
    <3> QED BY <3>1, Zenon DEF Heads
  <2>2. \A d \in Completed : info'[d].ok = info[d].ok
    <3>1. \A d \in Completed : d \in Descs
      BY DEF IInv, Progress, Heads, Waiting, TypeOK
    <3> QED BY <1>1, <3>1 DEF IInv, TypeOK
  <2>3. \A q \in Waiting' : idx0'[q] = idx0[q] /\ buf'[q] = buf[q] /\ q \in Waiting
    BY <1>5, <1>7, Zenon
  <2> QED BY <1>1, <1>9, <1>12, <2>1, <2>2, <2>3 DEF IInv, Progress, bufs
<1>14. Transfer'
  <2>1. ASSUME NEW q \in Procs, pc'[q] # "idle"
        PROVE  /\ q # p /\ pc[q] # "idle" /\ buf'[q] = buf[q] /\ write'[q] = write[q] /\ idx0'[q] = idx0[q]
               /\ q \in Waiting' <=> q \in Waiting
    BY <1>5, <1>6, <2>1, Zenon
  <2> QED BY <1>1, <1>9, <2>1 DEF IInv, Transfer, bufs
<1> QED
  BY <1>4, <1>8, <1>9, <1>10, <1>11, <1>13, <1>14, Zenon DEF IInv

\* A request is queued.
LEMMA SubmitStep ==
  ASSUME IInv, NEW p \in Procs, rw_submit(p)
  PROVE  IInv'
<1> DEFINE b == buf[p]
<1>1. PICK i, j, k \in Descs :
       /\ alloc3_desc(i, j, k)
       /\ free' = [free EXCEPT ![i] = FALSE, ![j] = FALSE, ![k] = FALSE]
       /\ ops' = [ops EXCEPT ![i] = [out |-> write[p], sector |-> b]]
       /\ desc' = [desc EXCEPT ![i] = [more |-> TRUE, next |-> j, addr |-> None],
                               ![j] = [more |-> TRUE, next |-> k, addr |-> b],
                               ![k] = NoDesc]
       /\ info' = [info EXCEPT ![i] = [b |-> b, ok |-> FALSE]]
       /\ avail' = [idx |-> Inc16(avail.idx),
                    ring |-> [avail.ring EXCEPT ![avail.idx % NUM] = i]]
       /\ idx0' = [idx0 EXCEPT ![p] = i]
  BY Zenon DEF rw_submit
<1>2. UNCHANGED <<used_idx, used, seen, taken, newer, buf, write, panicked>> /\ pc[p] = "try"
      /\ bdisk' = [bdisk EXCEPT ![b] = TRUE] /\ pc' = [pc EXCEPT ![p] = "sleep_buf"]
  BY Zenon DEF rw_submit
<1>3. free[i] /\ free[j] /\ free[k] /\ i # j /\ i # k /\ j # k
  BY <1>1, Zenon DEF alloc3_desc, IsLeastFree, Free
<1>4. b \in Bufs /\ p \notin Waiting
  BY <1>2, Zenon DEF IInv, TypeOK, Buffers, Waiting
<1>5. \A q \in Procs : /\ pc'[q] = IF q = p THEN "sleep_buf" ELSE pc[q]
                       /\ idx0'[q] = IF q = p THEN i ELSE idx0[q]
  BY <1>1, <1>2, Zenon DEF IInv, TypeOK
<1>6. Waiting' = Waiting \cup {p}
  BY <1>5, Zenon DEF Waiting
<1>7. \A d \in Descs : /\ free'[d] = (d \notin {i, j, k} /\ free[d])
                       /\ desc'[d] = IF d = i THEN [more |-> TRUE, next |-> j, addr |-> None]
                                     ELSE IF d = j THEN [more |-> TRUE, next |-> k, addr |-> b]
                                     ELSE IF d = k THEN NoDesc ELSE desc[d]
                       /\ ops'[d] = IF d = i THEN [out |-> write[p], sector |-> b] ELSE ops[d]
                       /\ info'[d] = IF d = i THEN [b |-> b, ok |-> FALSE] ELSE info[d]
  <2>1. \A d \in Descs : free'[d] = (d \notin {i, j, k} /\ free[d])
    BY <1>1, Zenon DEF IInv, TypeOK
  <2>2. \A d \in Descs : desc'[d] = IF d = i THEN [more |-> TRUE, next |-> j, addr |-> None]
                                     ELSE IF d = j THEN [more |-> TRUE, next |-> k, addr |-> b]
                                     ELSE IF d = k THEN NoDesc ELSE desc[d]
    BY <1>1, <1>3, Zenon DEF IInv, TypeOK
  <2>3. \A d \in Descs : /\ ops'[d] = IF d = i THEN [out |-> write[p], sector |-> b] ELSE ops[d]
                         /\ info'[d] = IF d = i THEN [b |-> b, ok |-> FALSE] ELSE info[d]
    BY <1>1 DEF IInv, TypeOK
  <2> QED BY <2>1, <2>2, <2>3, Zenon
<1>8. \A q \in Waiting : /\ q \in Procs /\ q # p /\ idx0'[q] = idx0[q] /\ idx0[q] \in Chain(idx0[q])
                         /\ Chain(idx0[q]) \subseteq Descs /\ Chain(idx0[q]) \cap {i, j, k} = {}
  <2> TAKE q \in Waiting
  <2>1. q \in Procs /\ q # p /\ idx0'[q] = idx0[q]
    BY <1>4, <1>5, Zenon DEF Waiting
  <2>2. Chain(idx0[q]) \subseteq Descs /\ idx0[q] \in Chain(idx0[q])
    BY ChainIs DEF IInv
  <2>3. \A d \in Descs : d \in Chain(idx0[q]) => ~free[d]
    BY Zenon DEF IInv, Chains
  <2> QED BY <1>3, <2>1, <2>2, <2>3, Zenon
<1>9. Heads \cap {i, j, k} = {} /\ Heads' = Heads \cup {i}
  <2>1. Heads \cap {i, j, k} = {}
    BY <1>8, Zenon DEF Heads
  <2>2. \A q \in Waiting' : idx0'[q] = IF q = p THEN i ELSE idx0[q]
    BY <1>5, <1>6, Zenon DEF Waiting
  <2>3. Heads' = Heads \cup {i}
    BY <1>4, <1>6, <2>2, Zenon DEF Heads
  <2> QED BY <2>1, <2>3, Zenon
<1>10. /\ avail.ring \in [Descs -> Descs \cup {Stale}]
       /\ seen \in 0..(U16 - 1) /\ avail.idx \in 0..(U16 - 1) /\ Window(avail.ring, seen, avail.idx)
  BY Zenon DEF IInv, TypeOK, Rings
<1>11. Queued \cap {i, j, k} = {} /\ taken \cap {i, j, k} = {} /\ Completed \cap {i, j, k} = {}
  BY <1>9, Zenon DEF IInv, Progress
<1>12. (avail.idx - seen) % U16 <= NUM - 3
  BY <1>3, <1>10, <1>11, WindowRoom, Zenon DEF Queued
<1>13. /\ Inc16(avail.idx) \in 0..(U16 - 1)
       /\ Window([avail.ring EXCEPT ![avail.idx % NUM] = i], seen, Inc16(avail.idx))
       /\ Pending([avail.ring EXCEPT ![avail.idx % NUM] = i], seen, Inc16(avail.idx)) = Queued \cup {i}
  BY <1>10, <1>11, <1>12, WindowPut DEF Queued
<1>14. Queued' = Queued \cup {i} /\ Rings' /\ Completed' = Completed
  <2>1. avail'.idx = Inc16(avail.idx) /\ avail'.ring = [avail.ring EXCEPT ![avail.idx % NUM] = i]
    BY <1>1, Zenon
  <2>2. Queued' = Pending([avail.ring EXCEPT ![avail.idx % NUM] = i], seen, Inc16(avail.idx))
    BY <1>2, <2>1 DEF Queued, Pending
  <2>3. Window(avail.ring, seen, avail.idx)'
    BY <1>2, <1>13, <2>1 DEF Window
  <2>4. Window(used.ring, used_idx, used.idx)' /\ Completed' = Completed
    BY <1>2 DEF IInv, Rings, Completed, Pending, Window
  <2> QED BY <1>13, <2>2, <2>3, <2>4, Zenon DEF Rings
<1>15. TypeOK'
  <2>1. avail' \in [idx : 0..(U16 - 1), ring : [Descs -> Descs \cup {Stale}]]
    BY <1>1, <1>10, <1>13, Zenon
  <2>2. 0 \in Descs
    BY SizeAssumption DEF Descs
  <2>3. free' \in [Descs -> BOOLEAN] /\ idx0' \in [Procs -> Descs]
    BY <1>1, Zenon DEF IInv, TypeOK
  <2>4. desc' \in [Descs -> [more : BOOLEAN, next : Descs, addr : Bufs \cup {None}]]
    <3>1. \A d \in Descs : desc'[d] \in [more : BOOLEAN, next : Descs, addr : Bufs \cup {None}]
      <4> DEFINE D == [more : BOOLEAN, next : Descs, addr : Bufs \cup {None}]
      <4>1. /\ [more |-> TRUE, next |-> j, addr |-> None] \in D
            /\ [more |-> TRUE, next |-> k, addr |-> b] \in D /\ NoDesc \in D
        BY <1>4, <2>2, Zenon DEF NoDesc
      <4>2. \A d \in Descs : desc[d] \in D
        BY Zenon DEF IInv, TypeOK
      <4> HIDE DEF D
      <4>3. \A d \in Descs : desc'[d] \in D
        BY <1>7, <4>1, <4>2, Zenon
      <4> QED BY <4>3, Zenon DEF D
    <3>2. DOMAIN desc' = Descs /\ desc' = [d \in DOMAIN desc' |-> desc'[d]]
      BY <1>1, Zenon DEF IInv, TypeOK
    <3> QED BY <3>1, <3>2, Zenon
  <2>5. ops' \in [Descs -> [out : BOOLEAN, sector : Bufs \cup {None}]]
    BY <1>1, <1>4, Zenon DEF IInv, TypeOK
  <2>6. info' \in [Descs -> [b : Bufs \cup {None}, ok : BOOLEAN]]
    BY <1>1, <1>4, Zenon DEF IInv, TypeOK
  <2>7. bdisk' \in [Bufs -> BOOLEAN] /\ pc' \in [Procs -> Locations]
    BY <1>2, <1>4, Zenon DEF IInv, TypeOK, Locations
  <2> QED BY <1>2, <2>1, <2>3, <2>4, <2>5, <2>6, <2>7, Zenon DEF IInv, TypeOK
<1>16. Owns(p)' /\ Chain(idx0[p])' = {i, j, k}
  <2>1. idx0'[p] = i /\ buf'[p] = b /\ write'[p] = write[p]
    BY <1>2, <1>5, Zenon
  <2>2. /\ desc'[i] = [more |-> TRUE, next |-> j, addr |-> None]
        /\ desc'[j] = [more |-> TRUE, next |-> k, addr |-> b]
        /\ desc'[k] = NoDesc
    BY <1>3, <1>7, Zenon
  <2>3. ops'[i] = [out |-> write[p], sector |-> b] /\ info'[i] = [b |-> b, ok |-> FALSE]
    BY <1>7, Zenon
  <2>4. Owns(p)'
    <3>1. /\ desc'[i].more /\ desc'[i].next = j /\ desc'[j].more /\ desc'[j].next = k
          /\ desc'[j].addr = b /\ ~desc'[k].more /\ info'[i].b = b
      BY <2>2, <2>3 DEF NoDesc
    <3> QED BY <1>3, <2>1, <2>3, <3>1 DEF Owns, Second, Third
  <2>5. Chain(idx0[p])' = {i, j, k}
    BY <2>1, <2>2 DEF Chain, NoDesc
  <2> QED BY <2>4, <2>5, Zenon
<1>17. \A q \in Waiting : Owns(q)' /\ Chain(idx0[q])' = Chain(idx0[q])
  <2> TAKE q \in Waiting
  <2>1. \A d \in Chain(idx0[q]) : desc'[d] = desc[d] /\ ops'[d] = ops[d] /\ info'[d] = info[d]
    BY <1>7, <1>8
  <2>2. Chain(idx0[q])' = Chain(idx0[q])
    BY <1>8, <2>1, ChainSame, Zenon DEF IInv
  <2>3. /\ idx0[q] \in Chain(idx0[q]) /\ desc[idx0[q]].next \in Chain(idx0[q])
        /\ desc[desc[idx0[q]].next].next \in Chain(idx0[q])
    BY ChainIs, Zenon DEF IInv, Second, Third
  <2>4. Owns(q) /\ idx0'[q] = idx0[q] /\ buf'[q] = buf[q] /\ write'[q] = write[q]
    BY <1>2, <1>8, Zenon DEF IInv, Chains
  <2>5. Owns(q)'
    BY <2>1, <2>3, <2>4, OwnsSame, Zenon DEF Second, Third
  <2> QED BY <2>2, <2>5, Zenon
<1>18. Chains'
  <2>1. \A q \in Waiting' : Owns(q)'
    BY <1>6, <1>16, <1>17, Zenon
  <2>2. ASSUME NEW q \in Waiting', NEW r \in Waiting', q # r
        PROVE  Chain(idx0[q])' \cap Chain(idx0[r])' = {}
    <3>1. CASE q \in Waiting /\ r \in Waiting
      <4>1. Chain(idx0[q]) \cap Chain(idx0[r]) = {}
        BY <2>2, <3>1, Zenon DEF IInv, Chains
      <4>2. Chain(idx0[q])' = Chain(idx0[q]) /\ Chain(idx0[r])' = Chain(idx0[r])
        BY <1>17, <3>1, Zenon
      <4> QED BY <4>1, <4>2, Zenon
    <3>2. CASE q = p
      <4>1. r \in Waiting
        BY <1>6, <2>2, <3>2, Zenon
      <4>2. Chain(idx0[q])' = {i, j, k} /\ Chain(idx0[r])' = Chain(idx0[r])
        BY <1>16, <1>17, <3>2, <4>1, Zenon
      <4> QED BY <1>8, <4>1, <4>2, Zenon
    <3>3. CASE r = p
      <4>1. q \in Waiting
        BY <1>6, <2>2, <3>3, Zenon
      <4>2. Chain(idx0[r])' = {i, j, k} /\ Chain(idx0[q])' = Chain(idx0[q])
        BY <1>16, <1>17, <3>3, <4>1, Zenon
      <4> QED BY <1>8, <4>1, <4>2, Zenon
    <3> QED BY <1>6, <3>1, <3>2, <3>3, Zenon
  <2>3. ASSUME NEW d \in Descs
        PROVE  ~free'[d] <=> \E q \in Waiting' : d \in Chain(idx0[q])'
    <3>1. (\E q \in Waiting' : d \in Chain(idx0[q])') <=>
            d \in {i, j, k} \/ \E q \in Waiting : d \in Chain(idx0[q])
      BY <1>6, <1>16, <1>17, Zenon
    <3>2. ~free[d] <=> \E q \in Waiting : d \in Chain(idx0[q])
      BY Zenon DEF IInv, Chains
    <3> QED BY <1>7, <3>1, <3>2, Zenon
  <2> QED BY <2>1, <2>2, <2>3, Zenon DEF Chains
<1>19. Buffers'
  BY <1>2, <1>5 DEF IInv, Buffers
<1>20. Progress'
  <2>1. \A c \in Bufs : bdisk'[c] = (c = b \/ bdisk[c])
    BY <1>2, <1>4, Zenon DEF IInv, TypeOK
  <2>2. \A q \in Waiting : buf[q] \in Bufs
    BY Zenon DEF IInv, TypeOK, Buffers, Waiting
  <2>3. \A d \in Completed : info'[d].ok
    <3>1. \A d \in Completed : d \in Descs /\ d # i
      BY <1>11 DEF IInv, Progress, Heads, Waiting, TypeOK
    <3>2. \A d \in Completed : info'[d] = info[d]
      BY <1>7, <3>1, Zenon
    <3> QED BY <3>2, Zenon DEF IInv, Progress
  <2>4. \A q \in Waiting' : idx0'[q] \in Queued' \cup taken' \cup Completed' => bdisk'[buf'[q]]
    <3> TAKE q \in Waiting'
    <3>1. CASE q = p
      BY <1>2, <1>4, <2>1, <3>1, Zenon
    <3>2. CASE q # p
      <4>1. q \in Waiting /\ idx0'[q] = idx0[q] /\ idx0[q] # i /\ buf'[q] = buf[q]
        BY <1>2, <1>6, <1>8, <3>2, Zenon
      <4>2. idx0[q] \in Queued \cup taken \cup Completed => bdisk[buf[q]]
        BY <4>1, Zenon DEF IInv, Progress
      <4> QED BY <1>2, <1>14, <2>1, <2>2, <4>1, <4>2, Zenon
    <3> QED BY <3>1, <3>2, Zenon
  <2> QED BY <1>2, <1>9, <1>11, <1>14, <2>3, <2>4, Zenon DEF IInv, Progress
<1>21. Transfer'
  <2>1. newer[b] = IF write[p] THEN "buffer" ELSE "disk"
    BY <1>2, <1>4, Zenon DEF IInv, Transfer
  <2>2. ASSUME NEW q \in Procs, q # p, pc'[q] # "idle"
        PROVE  /\ pc[q] # "idle" /\ q \in Waiting' <=> q \in Waiting
               /\ q \in Waiting => (idx0'[q] \in Queued' \cup taken' <=> idx0[q] \in Queued \cup taken)
    BY <1>2, <1>5, <1>6, <1>8, <1>14, <2>2, Zenon
  <2>3. p \in Waiting' /\ idx0'[p] \in Queued'
    BY <1>5, <1>6, <1>14, Zenon
  <2> QED BY <1>2, <2>1, <2>2, <2>3 DEF IInv, Transfer
<1> QED
  BY <1>2, <1>14, <1>15, <1>18, <1>19, <1>20, <1>21, Zenon DEF IInv

------------------------------------------------------------------------------
\* The theorems.

\* The invariant holds when the driver starts.
LEMMA InitInv == Init => IInv
<1> SUFFICES ASSUME Init PROVE IInv
  BY Zenon
<1>1. 0 \in Descs /\ 0 \in 0..(U16 - 1) /\ (0 - 0) % U16 = 0 /\ 0 < NUM
  <2>1. U16 \in Nat \ {0} /\ NUM \in Nat \ {0} /\ 0 \in 0..(U16 - 1)
    BY Sizes
  <2>2. 0 % U16 = 0
    BY <2>1, ModSmall, Zenon
  <2> QED BY <2>1, <2>2 DEF Descs
<1>2. TypeOK
  BY <1>1, Zenon DEF Init, TypeOK, NoDesc, NoOp, Locations
<1>3. avail.idx = 0 /\ seen = 0 /\ used.idx = 0 /\ used_idx = 0
  BY Zenon DEF Init
<1>4. 0..(0 - 1) = {}
  OBVIOUS
<1>5. Rings /\ Queued = {} /\ Completed = {}
  BY <1>1, <1>3, <1>4, Zenon DEF Rings, Queued, Completed, Pending, Window
<1>6. Waiting = {} /\ taken = {}
  BY Zenon DEF Init, Waiting
<1>7. Chains
  BY <1>6, Zenon DEF Init, Chains
<1>8. Buffers
  BY Zenon DEF Init, Buffers
<1>9. Progress
  BY <1>5, <1>6, Zenon DEF Progress
<1>10. Transfer
  BY Zenon DEF Init, Transfer
<1> QED
  BY <1>2, <1>5, <1>7, <1>8, <1>9, <1>10, Zenon DEF IInv, Init

\* Every step keeps the invariant, and ends only calls whose transfer is over.
LEMMA Step ==
  ASSUME IInv, [Next]_vars
  PROVE  /\ IInv'
         /\ \A p \in Procs : pc[p] # "idle" /\ pc'[p] = "idle" => newer[buf[p]] = "none"
<1> DEFINE Ends == \A p \in Procs : pc[p] # "idle" /\ pc'[p] = "idle" => newer[buf[p]] = "none"
<1>1. pc \in [Procs -> Locations]
  BY Zenon DEF IInv, TypeOK
<1>2. ASSUME NEW p \in Procs, rw_sleep(p)
      PROVE  IInv' /\ Ends
  <2>1. UNCHANGED <<driver, used_idx, avail, used, seen, taken, bufs, buf, write, idx0, panicked>>
    BY <1>2, Zenon DEF rw_sleep
  <2>2. /\ pc' \in [Procs -> Locations]
        /\ \A q \in Procs : /\ pc'[q] \in {"sleep_buf", "check"} <=> pc[q] \in {"sleep_buf", "check"}
                            /\ pc'[q] = "idle" <=> pc[q] = "idle"
    BY <1>1, <1>2, Zenon DEF rw_sleep, WakeFree, Locations
  <2> QED BY <2>1, <2>2, Frame, Zenon
<1>3. ASSUME NEW p \in Procs, rw_submit(p)
      PROVE  IInv' /\ Ends
  <2>1. Ends
    BY <1>1, <1>3, Zenon DEF rw_submit
  <2> QED BY <1>3, <2>1, SubmitStep, Zenon
<1>4. ASSUME NEW p \in Procs, rw_again(p)
      PROVE  IInv' /\ Ends
  <2>1. UNCHANGED <<driver, used_idx, avail, used, seen, taken, bufs, buf, write, idx0, panicked>>
    BY <1>4, Zenon DEF rw_again
  <2>2. /\ pc' \in [Procs -> Locations]
        /\ \A q \in Procs : /\ pc'[q] \in {"sleep_buf", "check"} <=> pc[q] \in {"sleep_buf", "check"}
                            /\ pc'[q] = "idle" <=> pc[q] = "idle"
    BY <1>1, <1>4, Zenon DEF rw_again, Locations
  <2> QED BY <2>1, <2>2, Frame, Zenon
<1>5. ASSUME NEW p \in Procs, rw_done(p)
      PROVE  IInv' /\ Ends
  <2>1. pc[p] = "check" /\ ~bdisk[buf[p]] /\ \A q \in Procs : q # p => (pc'[q] = "idle" => pc[q] = "idle")
    BY <1>1, <1>5, Zenon DEF rw_done, WakeFree
  <2>2. p \in Waiting
    BY <2>1, Zenon DEF Waiting
  <2>3. idx0[p] \notin Queued \cup taken
    BY <2>1, <2>2, Zenon DEF IInv, Progress
  <2>4. newer[buf[p]] = "none"
    BY <2>1, <2>2, <2>3, Zenon DEF IInv, Transfer
  <2> QED BY <1>5, <2>1, <2>4, ReturnStep, Zenon
<1>6. ASSUME NEW p \in Procs, kill(p)
      PROVE  IInv' /\ Ends
  <2>1. UNCHANGED <<driver, used_idx, avail, used, seen, taken, bufs, buf, write, idx0, panicked>>
    BY <1>6, Zenon DEF kill
  <2>2. /\ pc' \in [Procs -> Locations]
        /\ \A q \in Procs : /\ pc'[q] \in {"sleep_buf", "check"} <=> pc[q] \in {"sleep_buf", "check"}
                            /\ pc'[q] = "idle" <=> pc[q] = "idle"
    BY <1>1, <1>6, Zenon DEF kill, Locations
  <2> QED BY <2>1, <2>2, Frame, Zenon
<1>7. ASSUME NEW p \in Procs, NEW b \in Bufs, NEW w \in BOOLEAN, virtio_disk_rw(p, b, w)
      PROVE  IInv' /\ Ends
  <2>1. Ends
    BY <1>1, <1>7, Zenon DEF virtio_disk_rw
  <2> QED BY <1>7, <2>1, BeginStep, Zenon
<1>8. ASSUME intr_ack \/ intr_done
      PROVE  IInv' /\ Ends
  <2>1. UNCHANGED <<driver, used_idx, avail, used, seen, taken, bufs, thread, panicked>>
    BY <1>8, Zenon DEF intr_ack, intr_done
  <2> QED BY <1>1, <2>1, Frame, Zenon DEF thread
<1>9. ASSUME intr_next
      PROVE  IInv' /\ Ends
  <2>1. Ends
    BY <1>1, <1>9 DEF intr_next, WakeBuf
  <2> QED BY <1>9, <2>1, IntrStep, Zenon
<1>10. ASSUME dev_take
       PROVE  IInv' /\ Ends
  <2>1. Ends
    BY <1>10, Zenon DEF dev_take, thread
  <2> QED BY <1>10, <2>1, TakeStep, Zenon
<1>11. ASSUME NEW i \in Descs, dev_complete(i)
       PROVE  IInv' /\ Ends
  <2>1. Ends
    BY <1>11, Zenon DEF dev_complete, thread
  <2> QED BY <1>11, <2>1, CompleteStep, Zenon
<1>12. ASSUME UNCHANGED vars
       PROVE  IInv' /\ Ends
  BY <1>1, <1>12, Frame, Zenon DEF vars, thread
<1> HIDE DEF Ends
<1>13. IInv' /\ Ends
  BY <1>2, <1>3, <1>4, <1>5, <1>6, <1>7, <1>8, <1>9, <1>10, <1>11, <1>12, Zenon
     DEF Next, Call, Intr, Device
<1> QED
  BY <1>13, Zenon DEF Ends

\* The invariant holds in every state of the driver and the device, for any
\* number of processes, buffers and descriptors.
THEOREM Invariance == Spec => []IInv
<1>1. IInv /\ [Next]_vars => IInv'
  BY Step, Zenon
<1> QED
  BY InitInv, <1>1, PTL DEF Spec

\* Descriptors are neither shared nor lost, and no panic of the driver is
\* reached.
THEOREM DescriptorSafety == Spec => []ChainsDisjoint
<1>1. IInv => ChainsDisjoint
  <2> SUFFICES ASSUME IInv PROVE ChainsDisjoint
    BY Zenon
  <2>1. ASSUME NEW p \in Waiting
        PROVE  Cardinality(Chain(idx0[p])) = 3
    <3> DEFINE i == idx0[p]
    <3>1. Chain(i) = ({i} \cup {Second(i)}) \cup {Third(i)}
      BY ChainIs, Zenon DEF IInv
    <3>2. i # Second(i) /\ i # Third(i) /\ Second(i) # Third(i)
      BY Zenon DEF IInv, Chains, Owns
    <3>3. Cardinality(({i} \cup {Second(i)}) \cup {Third(i)}) = 3
      BY <3>2, ThreeElements, Zenon
    <3> QED BY <3>1, <3>3, Zenon
  <2>2. \A p, q \in Waiting : p # q => Chain(idx0[p]) \cap Chain(idx0[q]) = {}
    BY Zenon DEF IInv, Chains
  <2>3. Descs \ Free = UNION {Chain(idx0[p]) : p \in Waiting}
    <3>1. \A p \in Waiting : Chain(idx0[p]) \subseteq Descs
      BY ChainIs, Zenon DEF IInv
    <3>2. \A d \in Descs : ~free[d] <=> \E p \in Waiting : d \in Chain(idx0[p])
      BY Zenon DEF IInv, Chains
    <3> QED BY <3>1, <3>2, Zenon DEF Free
  <2> QED
    BY <2>1, <2>2, <2>3, Zenon DEF ChainsDisjoint, IInv
<1> QED
  BY <1>1, Invariance, PTL

\* virtio_disk_rw() returns after its transfer, whoever woke it up.
THEOREM TransferDone == Spec => DoneAgrees
<1>1. IInv /\ [Next]_vars =>
        [\A p \in Procs : pc[p] # "idle" /\ pc'[p] = "idle" => newer[buf[p]] = "none"]_vars
  BY Step, Zenon
<1> QED
  BY <1>1, Invariance, PTL DEF Spec, DoneAgrees
==============================================================================
