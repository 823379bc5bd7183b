-------------------------- MODULE ModularArithmetic --------------------------
(***************************************************************************)
(* Facts about % that the proofs on ring buffers need: an index that       *)
(* counts modulo the width of its type, and addresses a ring whose size    *)
(* divides that width.                                                     *)
(***************************************************************************)
EXTENDS Integers, TLAPS

\* A remainder is below the modulus.
LEMMA ModRange ==
  ASSUME NEW m \in Nat \ {0}, NEW x \in Int
  PROVE  x % m \in 0..(m - 1)
OBVIOUS

\* The remainder of a number within one modulus of 0..m-1.
LEMMA ModSmall ==
  ASSUME NEW m \in Nat \ {0}, NEW x \in 0..(m - 1)
  PROVE  x % m = x
OBVIOUS

LEMMA ModOver ==
  ASSUME NEW m \in Nat \ {0}, NEW x \in m..(2 * m - 1)
  PROVE  x % m = x - m
OBVIOUS

LEMMA ModUnder ==
  ASSUME NEW m \in Nat \ {0}, NEW x \in (-m)..(-1)
  PROVE  x % m = x + m
OBVIOUS

\* Quotient and remainder exist ...
LEMMA ModQuotient ==
  ASSUME NEW m \in Nat \ {0}, NEW x \in Int
  PROVE  \E r \in 0..(m - 1), k \in Int : x = m * k + r /\ x % m = r
<1>1. x = m * (x \div m) + (x % m) /\ x \div m \in Int
  OBVIOUS
<1> QED BY <1>1, ModRange

\* ... and are unique.
LEMMA ModUnique ==
  ASSUME NEW m \in Nat \ {0}, NEW k \in Int, NEW r \in 0..(m - 1)
  PROVE  (m * k + r) % m = r
OBVIOUS

\* Multiples of the modulus do not matter.
LEMMA ModPeriod ==
  ASSUME NEW m \in Nat \ {0}, NEW x \in Int, NEW k \in Int
  PROVE  (x + m * k) % m = x % m
<1>1. PICK r \in 0..(m - 1), j \in Int : x = m * j + r /\ x % m = r
  BY ModQuotient, Zenon
<1>2. x + m * k = m * (j + k) + r /\ j + k \in Int
  BY <1>1
<1>3. (m * (j + k) + r) % m = r
  BY <1>2, ModUnique
<1> QED BY <1>1, <1>2, <1>3

\* A sum depends only on the remainder of a summand.
LEMMA ModAdd ==
  ASSUME NEW m \in Nat \ {0}, NEW x \in Int, NEW y \in Int
  PROVE  ((x % m) + y) % m = (x + y) % m
<1>1. PICK r \in 0..(m - 1), j \in Int : x = m * j + r /\ x % m = r
  BY ModQuotient, Zenon
<1>2. x + y = (r + y) + m * j /\ r + y \in Int
  BY <1>1
<1>3. ((r + y) + m * j) % m = (r + y) % m
  BY <1>2, ModPeriod
<1> QED BY <1>1, <1>2, <1>3

\* Numbers less than a modulus apart have different remainders.
LEMMA ModDistinct ==
  ASSUME NEW m \in Nat \ {0}, NEW x \in Int, NEW d \in 1..(m - 1)
  PROVE  (x + d) % m # x % m
<1>1. PICK r \in 0..(m - 1) : x % m = r
  BY ModRange
<1>2. (r + d) % m = (x + d) % m
  <2>1. d \in Int
    OBVIOUS
  <2>2. ((x % m) + d) % m = (x + d) % m
    BY <2>1, ModAdd, Zenon
  <2> QED BY <1>1, <2>2
<1>3. CASE r + d \in 0..(m - 1)
  BY <1>1, <1>2, <1>3, ModSmall
<1>4. CASE r + d \in m..(2 * m - 1)
  <2>1. (r + d) % m = r + d - m
    BY <1>4, ModOver
  <2> QED BY <1>1, <1>2, <2>1
<1> QED BY <1>3, <1>4

\* An index modulo a multiple of the ring's size addresses the same cell.
LEMMA ModRing ==
  ASSUME NEW m \in Nat \ {0}, NEW k \in Nat, NEW u \in Nat \ {0}, u = k * m,
         NEW x \in Int
  PROVE  (x % u) % m = x % m
<1>1. PICK r \in 0..(u - 1), j \in Int : x = u * j + r /\ x % u = r
  BY ModQuotient, Zenon
<1>2. x = r + m * (k * j) /\ k * j \in Int /\ r \in Int
  BY <1>1
<1>3. (r + m * (k * j)) % m = r % m
  BY <1>2, ModPeriod, Zenon
<1> QED BY <1>1, <1>2, <1>3

\* The number of cells from index x to index y of a ring that counts modulo m.
LEMMA ModDifference ==
  ASSUME NEW m \in Nat \ {0}, NEW x \in 0..(m - 1), NEW y \in 0..(m - 1)
  PROVE  (y - x) % m = IF x <= y THEN y - x ELSE y - x + m
<1>1. CASE x <= y
  <2>1. y - x \in 0..(m - 1)
    BY <1>1
  <2> QED BY <1>1, <2>1, ModSmall
<1>2. CASE ~(x <= y)
  <2>1. y - x \in (-m)..(-1)
    BY <1>2
  <2> QED BY <1>2, <2>1, ModUnder
<1> QED BY <1>1, <1>2

\* Incrementing such an index.
LEMMA ModIncrement ==
  ASSUME NEW m \in Nat \ {0}, NEW x \in 0..(m - 1)
  PROVE  (x + 1) % m = IF x = m - 1 THEN 0 ELSE x + 1
<1>1. CASE x = m - 1
  <2>1. x + 1 \in m..(2 * m - 1)
    BY <1>1
  <2> QED BY <1>1, <2>1, ModOver
<1>2. CASE x # m - 1
  <2>1. x + 1 \in 0..(m - 1)
    BY <1>2
  <2> QED BY <1>2, <2>1, ModSmall
<1> QED BY <1>1, <1>2

\* An index advanced by at most m.
LEMMA ModShift ==
  ASSUME NEW m \in Nat \ {0}, NEW x \in 0..(m - 1), NEW d \in 0..m
  PROVE  (x + d) % m = IF x + d < m THEN x + d ELSE x + d - m
<1>1. CASE x + d < m
  <2>1. x + d \in 0..(m - 1)
    BY <1>1
  <2> QED BY <1>1, <2>1, ModSmall
<1>2. CASE ~(x + d < m)
  <2>1. x + d \in m..(2 * m - 1)
    BY <1>2
  <2> QED BY <1>2, <2>1, ModOver
<1> QED BY <1>1, <1>2

------------------------------------------------------------------------------
\* A ring that is read at r and written at w, both modulo m, with space for size
\* elements.

\* The tests for a full and for an empty ring.
LEMMA RingTests ==
  ASSUME NEW m \in Nat \ {0}, NEW r \in 0..(m - 1), NEW w \in 0..(m - 1),
         NEW size \in 1..(m - 1)
  PROVE  /\ (w - r) % m \in 0..(m - 1)
         /\ w = (r + size) % m <=> (w - r) % m = size
         /\ r = w <=> (w - r) % m = 0
<1>1. (w - r) % m = IF r <= w THEN w - r ELSE w - r + m
  BY ModDifference
<1>2. (r + size) % m = IF r + size < m THEN r + size ELSE r + size - m
  <2>1. size \in 0..m
    OBVIOUS
  <2> QED BY <2>1, ModShift, Zenon
<1>3. PICK c, f : c = (w - r) % m /\ f = (r + size) % m
  OBVIOUS
<1> QED BY <1>1, <1>2, <1>3

\* An element is put in.
LEMMA RingPut ==
  ASSUME NEW m \in Nat \ {0}, NEW r \in 0..(m - 1), NEW w \in 0..(m - 1),
         (w - r) % m # m - 1
  PROVE  /\ (w + 1) % m \in 0..(m - 1)
         /\ (((w + 1) % m) - r) % m = ((w - r) % m) + 1
<1>1. PICK v \in 0..(m - 1) : v = (w + 1) % m /\ v = IF w = m - 1 THEN 0 ELSE w + 1
  BY ModIncrement
<1>2. PICK c \in 0..(m - 1) : c = (w - r) % m /\ c = IF r <= w THEN w - r ELSE w - r + m
  BY ModDifference
<1>3. PICK d \in 0..(m - 1) : d = (v - r) % m /\ d = IF r <= v THEN v - r ELSE v - r + m
  <2>1. (v - r) % m = IF r <= v THEN v - r ELSE v - r + m
    BY ModDifference, Zenon
  <2> QED BY <2>1
<1>4. d = c + 1
  BY <1>1, <1>2, <1>3
<1> QED BY <1>1, <1>2, <1>3, <1>4, Zenon

\* An element is taken out.
LEMMA RingGet ==
  ASSUME NEW m \in Nat \ {0}, NEW r \in 0..(m - 1), NEW w \in 0..(m - 1), r # w
  PROVE  /\ (r + 1) % m \in 0..(m - 1)
         /\ (w - ((r + 1) % m)) % m = ((w - r) % m) - 1
<1>1. PICK v \in 0..(m - 1) : v = (r + 1) % m /\ v = IF r = m - 1 THEN 0 ELSE r + 1
  BY ModIncrement
<1>2. PICK c \in 0..(m - 1) : c = (w - r) % m /\ c = IF r <= w THEN w - r ELSE w - r + m
  BY ModDifference
<1>3. PICK d \in 0..(m - 1) : d = (w - v) % m /\ d = IF v <= w THEN w - v ELSE w - v + m
  <2>1. (w - v) % m = IF v <= w THEN w - v ELSE w - v + m
    BY ModDifference, Zenon
  <2> QED BY <2>1
<1>4. d = c - 1
  BY <1>1, <1>2, <1>3
<1> QED BY <1>1, <1>2, <1>3, <1>4, Zenon

\* The cells of a buffer of m, in a ring whose counters go modulo u, a multiple
\* of m: the cell of w is found counting from r ...
LEMMA RingCell ==
  ASSUME NEW m \in Nat \ {0}, NEW k \in Nat, NEW u \in Nat \ {0}, u = k * m,
         NEW r \in 0..(u - 1), NEW w \in 0..(u - 1)
  PROVE  (r + ((w - r) % u)) % m = w % m
<1> DEFINE c == (w - r) % u
<1>1. c \in Int /\ w - r \in Int /\ r \in Int /\ c + r \in Int /\ r + c = c + r
  BY ModRange
<1>2. (c + r) % u = ((w - r) + r) % u
  BY <1>1, ModAdd, Zenon
<1>3. (w - r) + r = w
  OBVIOUS
<1>4. w % u = w
  BY ModSmall
<1>5. ((c + r) % u) % m = (c + r) % m
  BY <1>1, ModRing, Zenon
<1> HIDE DEF c
<1>6. (r + c) % m = w % m
  BY <1>1, <1>2, <1>3, <1>4, <1>5, Zenon
<1> QED BY <1>6 DEF c

\* ... and is the same after r has moved on.
LEMMA RingNext ==
  ASSUME NEW m \in Nat \ {0}, NEW k \in Nat, NEW u \in Nat \ {0}, u = k * m,
         NEW r \in 0..(u - 1), NEW j \in Int
  PROVE  (((r + 1) % u) + j) % m = (r + 1 + j) % m
<1> DEFINE v == (r + 1) % u
<1>1. v \in Int /\ r + 1 \in Int
  BY ModRange
<1>2. ((v % m) + j) % m = (v + j) % m
  BY <1>1, ModAdd, Zenon
<1>3. v % m = (r + 1) % m
  BY <1>1, ModRing, Zenon
<1>4. (((r + 1) % m) + j) % m = (r + 1 + j) % m
  BY <1>1, ModAdd, Zenon
<1> HIDE DEF v
<1>5. (v + j) % m = (r + 1 + j) % m
  BY <1>2, <1>3, <1>4, Zenon
<1> QED BY <1>5 DEF v
==============================================================================
