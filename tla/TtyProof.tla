------------------------------- MODULE TtyProof ------------------------------
(***************************************************************************)
(* Proofs about kernel/console.c and kernel/uart.c, for rings of any size  *)
(* and any number of readers and writers: a full input buffer is readable, *)
(* output moves, and nothing is overwritten in either ring.                *)
(***************************************************************************)
EXTENDS Tty, ModularArithmetic, WellFoundedInduction

HandlerLocations == {"idle", "rx", "echo", "echo_send", "start", "send"}
ThreadLocations ==
  {"idle", "read_lock", "read", "read_sleep", "putc", "putc_sleep", "start", "send"}

\* The types of the rings, of what the handler works on and of the processes.
ConsType == cons \in [r : 0..(UINT - 1), w : 0..(UINT - 1), e : 0..(UINT - 1),
                      buf : [0..(INPUT_BUF - 1) -> Keys]]
TxType == tx \in [r : 0..(UINT64 - 1), w : 0..(UINT64 - 1),
                  buf : [0..(TX_BUF - 1) -> Writers \cup {None}]]
HandlerType ==
  /\ lock \in [cons : Readers \cup {"intr", None}, uart : Writers \cup {"intr", None}]
  /\ dev \in [thr : Nat, rx : BOOLEAN, irq : BOOLEAN]
  /\ h \in [pc : HandlerLocations, echo : Nat]
  /\ h.pc = "echo_send" => h.echo > 0
Thread == [pc : ThreadLocations, n : Nat, target : Nat]
ThreadType == th \in [Procs -> Thread] /\ killed \in [Readers -> BOOLEAN]

\* The type of every variable.
TypeOK == ConsType /\ TxType /\ HandlerType /\ ThreadType

\* r, w and e are in this order, and within a buffer's length of each other.
Ordered ==
  /\ Dist(cons.r, cons.w) <= Dist(cons.r, cons.e)
  /\ Dist(cons.r, cons.e) <= INPUT_BUF

\* uart_tx_lock is held throughout uartstart(), which finds a byte to send.
Holding ==
  /\ h.pc \in {"start", "send"} => lock.uart = "intr"
  /\ h.pc = "send" => tx.r # tx.w
  /\ \A p \in Procs : th[p].pc \in {"start", "send"} => p \in Writers /\ lock.uart = p
  /\ \A p \in Procs : th[p].pc = "send" => tx.r # tx.w

\* Besides, the transmit ring is never more than full.
Sending == TxCount <= TX_BUF /\ Holding

\* The inductive invariant.
IInv == TypeOK /\ Ordered /\ FullIsReadable /\ Sending /\ OutputMoves

------------------------------------------------------------------------------
\* Rings.  A ring of m cells has indices that count modulo u, a multiple of m.

\* A number without remainder is a multiple.
LEMMA Divides ==
  ASSUME NEW m \in Nat \ {0}, NEW u \in Nat, u % m = 0
  PROVE  \E k \in Nat : u = k * m
<1>1. PICK r \in 0..(m - 1), k \in Int : u = m * k + r /\ u % m = r
  <2>1. u \in Int
    OBVIOUS
  <2> QED BY <2>1, ModQuotient, Zenon
<1>2. u = k * m
  BY <1>1
<1>3. k >= 0
  BY <1>2
<1> QED
  BY <1>2, <1>3

\* The sizes of both rings.
LEMMA Sizes ==
  /\ INPUT_BUF \in Nat \ {0} /\ UINT \in Nat \ {0} /\ INPUT_BUF < UINT
  /\ TX_BUF \in Nat \ {0} /\ UINT64 \in Nat \ {0} /\ TX_BUF < UINT64
  /\ \E k \in Nat : UINT = k * INPUT_BUF
  /\ \E k \in Nat : UINT64 = k * TX_BUF
<1>1. /\ INPUT_BUF \in Nat \ {0} /\ UINT \in Nat \ {0} /\ INPUT_BUF < UINT
      /\ TX_BUF \in Nat \ {0} /\ UINT64 \in Nat \ {0} /\ TX_BUF < UINT64
      /\ UINT % INPUT_BUF = 0 /\ UINT64 % TX_BUF = 0
  BY SizeAssumption, Zenon
<1> QED
  BY <1>1, Divides, Zenon

\* Two cells of a ring that are less than its size apart.
LEMMA Apart ==
  ASSUME NEW m \in Nat \ {0}, NEW r \in Nat, NEW k \in Nat, NEW l \in Nat, k < l, l < k + m
  PROVE  (r + k) % m # (r + l) % m
<1>1. r + k \in Int /\ l - k \in 1..(m - 1)
  OBVIOUS
<1>2. ((r + k) + (l - k)) % m # (r + k) % m
  BY <1>1, ModDistinct, Zenon
<1>3. (r + k) + (l - k) = r + l
  OBVIOUS
<1> QED
  BY <1>2, <1>3, Zenon

\* The cell that is written next is not one of those in use.
LEMMA PutApart ==
  ASSUME NEW m \in Nat \ {0}, NEW k \in Nat, NEW u \in Nat \ {0}, u = k * m,
         NEW r \in 0..(u - 1), NEW w \in 0..(u - 1), (w - r) % u < m,
         NEW i \in Nat, i < (w - r) % u
  PROVE  (r + i) % m # w % m
<1> DEFINE n == (w - r) % u
<1>1. n \in Nat
  <2>1. w - r \in Int
    OBVIOUS
  <2>2. n \in 0..(u - 1)
    BY <2>1, ModRange, Zenon
  <2> HIDE DEF n
  <2> QED BY <2>2
<1>2. (r + n) % m = w % m
  BY RingCell, Zenon
<1>3. n < m /\ i < n
  BY Zenon
<1> HIDE DEF n
<1>4. r \in Nat /\ n < i + m
  BY <1>1, <1>3
<1>5. (r + i) % m # (r + n) % m
  BY <1>1, <1>3, <1>4, Apart, Zenon
<1> QED
  BY <1>2, <1>5, Zenon

\* The cell that is read is not one of those that stay in use.
LEMMA GetApart ==
  ASSUME NEW m \in Nat \ {0}, NEW k \in Nat, NEW u \in Nat \ {0}, u = k * m,
         NEW r \in 0..(u - 1), NEW w \in 0..(u - 1), r # w, (w - r) % u <= m,
         NEW i \in Nat, i < (w - ((r + 1) % u)) % u
  PROVE  (((r + 1) % u) + i) % m # r % m
<1> DEFINE n == (w - r) % u
           n1 == (w - ((r + 1) % u)) % u
<1>1. n1 = n - 1
  BY RingGet, Zenon
<1>2. n \in Nat
  <2>1. w - r \in Int
    OBVIOUS
  <2>2. n \in 0..(u - 1)
    BY <2>1, ModRange, Zenon
  <2> HIDE DEF n
  <2> QED BY <2>2
<1>3. (((r + 1) % u) + i) % m = (r + 1 + i) % m
  <2>1. i \in Int
    OBVIOUS
  <2> QED BY <2>1, RingNext, Zenon
<1>4. n <= m /\ i < n1
  BY Zenon
<1> HIDE DEF n, n1
<1>5. r \in Nat /\ 0 \in Nat /\ 1 + i \in Nat /\ 0 < 1 + i /\ 1 + i < 0 + m
  BY <1>1, <1>2, <1>4
<1>6. (r + 0) % m # (r + (1 + i)) % m
  BY <1>5, Apart, Zenon
<1>7. r + 0 = r /\ r + (1 + i) = r + 1 + i
  OBVIOUS
<1> QED
  BY <1>3, <1>6, <1>7, Zenon

\* Going back by j from the end e of what is in use.
GoesBack(m, u, r, e, j) ==
  /\ (e + (-j)) % u \in 0..(u - 1)
  /\ ((e + (-j)) % u) % m = (r + (((e - r) % u) - j)) % m
  /\ (((e + (-j)) % u) - r) % u = ((e - r) % u) - j

\* Going back is what it should be.
LEMMA Back ==
  ASSUME NEW m \in Nat \ {0}, NEW k \in Nat, NEW u \in Nat \ {0}, u = k * m,
         NEW r \in 0..(u - 1), NEW e \in 0..(u - 1), NEW j \in 0..((e - r) % u)
  PROVE  GoesBack(m, u, r, e, j)
<1> DEFINE n == (e - r) % u
<1>1. n \in 0..(u - 1)
  <2>1. e - r \in Int
    OBVIOUS
  <2> QED BY <2>1, ModRange, Zenon
<1>2. (r + n) % m = e % m
  BY RingCell, Zenon
<1>3. j \in 0..n
  BY Zenon
<1> HIDE DEF n
<1>4. n \in Nat /\ j \in Nat /\ -j \in Int /\ e + (-j) \in Int /\ r + n \in Int /\ n - j \in 0..(u - 1)
      /\ e \in Int /\ e - r \in Int /\ -r \in Int
  BY <1>1, <1>3
<1>5. (e + (-j)) % u \in 0..(u - 1)
  BY <1>4, ModRange, Zenon
<1>6. ((e + (-j)) % u) % m = (r + (n - j)) % m
  <2>1. ((e + (-j)) % u) % m = (e + (-j)) % m
    BY <1>4, ModRing, Zenon
  <2>2. ((e % m) + (-j)) % m = (e + (-j)) % m
    BY <1>4, ModAdd, Zenon
  <2>3. (((r + n) % m) + (-j)) % m = ((r + n) + (-j)) % m
    BY <1>4, ModAdd, Zenon
  <2>4. (r + n) + (-j) = r + (n - j)
    BY <1>4
  <2> QED BY <1>2, <2>1, <2>2, <2>3, <2>4, Zenon
<1>7. (((e + (-j)) % u) - r) % u = n - j
  <2>1. (((e + (-j)) % u) + (-r)) % u = ((e + (-j)) + (-r)) % u
    BY <1>4, ModAdd, Zenon
  <2>2. (((e - r) % u) + (-j)) % u = ((e - r) + (-j)) % u
    BY <1>4, ModAdd, Zenon
  <2>3. (n - j) % u = n - j
    BY <1>4, ModSmall, Zenon
  <2>4. (e - r) + (-j) = (e + (-j)) + (-r) /\ n + (-j) = n - j
    BY <1>4
  <2>5. ((e + (-j)) % u) + (-r) = ((e + (-j)) % u) - r
    BY <1>4, <1>5, Zenon
  <2>6. (n + (-j)) % u = ((e - r) + (-j)) % u
    BY <2>2, Zenon DEF n
  <2> QED BY <2>1, <2>3, <2>4, <2>5, <2>6, Zenon
<1> QED
  BY <1>5, <1>6, <1>7, Zenon DEF n, GoesBack

\* The distance from w to e, when w is between r and e.
LEMMA Between ==
  ASSUME NEW u \in Nat \ {0}, NEW r \in 0..(u - 1), NEW w \in 0..(u - 1), NEW e \in 0..(u - 1),
         (w - r) % u <= (e - r) % u
  PROVE  (e - w) % u = ((e - r) % u) - ((w - r) % u)
<1>1. (w - r) % u = IF r <= w THEN w - r ELSE w - r + u
  BY ModDifference, Zenon
<1>2. (e - r) % u = IF r <= e THEN e - r ELSE e - r + u
  BY ModDifference, Zenon
<1>3. (e - w) % u = IF w <= e THEN e - w ELSE e - w + u
  BY ModDifference, Zenon
<1> DEFINE a == (w - r) % u
           b == (e - r) % u
           c == (e - w) % u
<1>4. a <= b
  BY Zenon
<1> SUFFICES c = b - a
  BY Zenon
<1> HIDE DEF a, b, c
<1>5. /\ a = IF r <= w THEN w - r ELSE w - r + u
      /\ b = IF r <= e THEN e - r ELSE e - r + u
      /\ c = IF w <= e THEN e - w ELSE e - w + u
  BY <1>1, <1>2, <1>3, Zenon DEF a, b, c
<1> QED
  BY <1>4, <1>5

\* Two different indices are at a distance.
LEMMA Distinct ==
  ASSUME NEW u \in Nat \ {0}, NEW r \in 0..(u - 1), NEW w \in 0..(u - 1), r # w
  PROVE  (w - r) % u >= 1
<1> DEFINE n == (w - r) % u
           r1 == (r + 1) % u
<1>1. r1 \in 0..(u - 1) /\ (w - r1) % u = n - 1
  BY RingGet, Zenon
<1>2. w - r \in Int /\ w - r1 \in Int
  <2> HIDE DEF r1
  <2> QED BY <1>1
<1>3. n \in 0..(u - 1) /\ (w - r1) % u \in 0..(u - 1)
  BY <1>2, ModRange, Zenon
<1> HIDE DEF n, r1
<1>4. n \in Int /\ n - 1 >= 0
  BY <1>1, <1>3
<1> QED
  BY <1>4 DEF n

------------------------------------------------------------------------------
\* The input ring.

\* What a step may do to the input ring.
InputKept == Ordered' /\ FullIsReadable' /\ Kept(cons, cons', INPUT_BUF, UINT)

\* The indices of the input ring.
LEMMA InputIndices ==
  ASSUME TypeOK
  PROVE  /\ cons.r \in 0..(UINT - 1) /\ cons.w \in 0..(UINT - 1) /\ cons.e \in 0..(UINT - 1)
         /\ cons.buf \in [0..(INPUT_BUF - 1) -> Keys]
         /\ Dist(cons.r, cons.w) \in 0..(UINT - 1) /\ Dist(cons.r, cons.e) \in 0..(UINT - 1)
<1>1. /\ cons.r \in 0..(UINT - 1) /\ cons.w \in 0..(UINT - 1) /\ cons.e \in 0..(UINT - 1)
      /\ cons.buf \in [0..(INPUT_BUF - 1) -> Keys]
  BY Zenon DEF TypeOK, ConsType
<1>2. UINT \in Nat \ {0} /\ cons.w - cons.r \in Int /\ cons.e - cons.r \in Int
  BY <1>1, Sizes
<1> QED
  BY <1>1, <1>2, ModRange, Zenon DEF Dist

\* Every cell is one of the buffer.
LEMMA InputCell ==
  ASSUME NEW x \in Int
  PROVE  x % INPUT_BUF \in 0..(INPUT_BUF - 1)
BY Sizes, ModRange, Zenon

\* A step that leaves it alone.
LEMMA InputSame ==
  ASSUME IInv, cons' = cons
  PROVE  InputKept
BY Zenon DEF InputKept, IInv, Ordered, FullIsReadable, Kept, Dist

\* A character is added at e.
LEMMA InputInsert ==
  ASSUME IInv, HasRoom, NEW c \in Keys, insert(c)
  PROVE  InputKept
<1> DEFINE n == Dist(cons.r, cons.e)
           e1 == Plus(cons.e, 1)
<1>1. cons'.r = cons.r /\ cons'.e = e1 /\ cons'.w \in {cons.w, e1}
      /\ (Dist(cons.r, e1) = INPUT_BUF => cons'.w = e1)
      /\ cons'.buf = [cons.buf EXCEPT ![cons.e % INPUT_BUF] = c]
  BY Zenon DEF insert, IInv, TypeOK, ConsType
<1>2. /\ cons.r \in 0..(UINT - 1) /\ cons.w \in 0..(UINT - 1) /\ cons.e \in 0..(UINT - 1)
      /\ cons.buf \in [0..(INPUT_BUF - 1) -> Keys]
      /\ Dist(cons.r, cons.w) \in 0..(UINT - 1) /\ n \in 0..(UINT - 1)
  BY InputIndices, Zenon DEF IInv
<1>3. n < INPUT_BUF /\ Dist(cons.r, cons.w) <= n /\ INPUT_BUF \in Nat \ {0} /\ UINT \in Nat \ {0}
      /\ INPUT_BUF < UINT /\ n # UINT - 1
  BY <1>2, Sizes DEF IInv, HasRoom, Ordered
<1>4. e1 \in 0..(UINT - 1) /\ Dist(cons.r, e1) = n + 1
  BY <1>2, <1>3, RingPut, Zenon DEF Dist, Plus
<1> HIDE DEF n, e1
<1>5. Ordered'
  <2>1. Dist(cons.r, cons.w) <= n + 1 /\ n + 1 <= n + 1 /\ n + 1 <= INPUT_BUF
    BY <1>2, <1>3
  <2>2. Dist(cons'.r, cons'.e) = n + 1 /\ Dist(cons'.r, cons'.w) \in {Dist(cons.r, cons.w), n + 1}
    BY <1>1, <1>4, Zenon
  <2> QED BY <2>1, <2>2, Zenon DEF Ordered, Dist
<1>6. FullIsReadable'
  BY <1>1, Zenon DEF FullIsReadable, Dist
<1>7. Kept(cons, cons', INPUT_BUF, UINT)
  <2> SUFFICES ASSUME NEW i \in 0..(INPUT_BUF - 1), i < (cons.w - cons.r) % UINT
               PROVE  cons'.buf[(cons.r + i) % INPUT_BUF] = cons.buf[(cons.r + i) % INPUT_BUF]
    BY <1>1, Zenon DEF Kept
  <2>1. PICK k \in Nat : UINT = k * INPUT_BUF
    BY Sizes, Zenon
  <2>2. i \in Nat /\ i < (cons.e - cons.r) % UINT /\ (cons.e - cons.r) % UINT < INPUT_BUF
        /\ cons.r + i \in Int
    BY <1>2, <1>3 DEF n, Dist
  <2>3. (cons.r + i) % INPUT_BUF # cons.e % INPUT_BUF
    BY <1>2, <1>3, <2>1, <2>2, PutApart, Zenon
  <2>4. (cons.r + i) % INPUT_BUF \in 0..(INPUT_BUF - 1)
    BY <2>2, InputCell, Zenon
  <2> QED BY <1>1, <1>2, <2>3, <2>4, Zenon
<1> QED
  BY <1>5, <1>6, <1>7, Zenon DEF InputKept

\* Characters after w are erased.
LEMMA InputErase ==
  ASSUME IInv, NEW n \in 0..Dist(cons.w, cons.e), erase(n)
  PROVE  InputKept
<1> DEFINE d == Dist(cons.r, cons.e)
           e1 == Plus(cons.e, -n)
<1>1. cons'.r = cons.r /\ cons'.e = e1 /\ cons'.w = cons.w
      /\ cons'.buf = [i \in 0..(INPUT_BUF - 1) |->
            IF \E j \in 1..n : i = Plus(cons.e, -j) % INPUT_BUF THEN "x" ELSE cons.buf[i]]
  BY Zenon DEF erase, IInv, TypeOK, ConsType
<1>2. /\ cons.r \in 0..(UINT - 1) /\ cons.w \in 0..(UINT - 1) /\ cons.e \in 0..(UINT - 1)
      /\ cons.buf \in [0..(INPUT_BUF - 1) -> Keys]
      /\ Dist(cons.r, cons.w) \in 0..(UINT - 1) /\ d \in 0..(UINT - 1)
  BY InputIndices, Zenon DEF IInv
<1>3. d <= INPUT_BUF /\ Dist(cons.r, cons.w) <= d /\ INPUT_BUF \in Nat \ {0} /\ UINT \in Nat \ {0}
  BY Sizes, Zenon DEF IInv, Ordered
<1>4. Dist(cons.w, cons.e) = d - Dist(cons.r, cons.w)
  BY <1>2, <1>3, Between, Zenon DEF Dist
<1>5. n \in Nat /\ n <= d - Dist(cons.r, cons.w)
  BY <1>2, <1>4
<1>6. PICK k \in Nat : UINT = k * INPUT_BUF
  BY Sizes, Zenon
<1>7. ASSUME NEW j \in 0..n
      PROVE  /\ Dist(cons.r, Plus(cons.e, -j)) = d - j
             /\ Plus(cons.e, -j) % INPUT_BUF = (cons.r + (d - j)) % INPUT_BUF
  <2>1. j \in 0..d
    BY <1>2, <1>5
  <2>2. j \in 0..((cons.e - cons.r) % UINT)
    BY <2>1, Zenon DEF Dist
  <2>3. GoesBack(INPUT_BUF, UINT, cons.r, cons.e, j)
    BY <1>2, <1>3, <1>6, <2>2, Back, Zenon
  <2> QED BY <2>3, Zenon DEF GoesBack, Dist, Plus
<1>8. Dist(cons.r, e1) = d - n
  <2>1. n \in 0..n
    BY <1>5
  <2> QED BY <1>7, <2>1, Zenon
<1> HIDE DEF d, e1
<1>9. Ordered'
  <2>1. Dist(cons.r, cons.w) <= d - n /\ d - n <= INPUT_BUF
    BY <1>2, <1>3, <1>5
  <2> QED BY <1>1, <1>8, <2>1, Zenon DEF Ordered, Dist
<1>10. FullIsReadable'
  <2> SUFFICES ASSUME d - n = INPUT_BUF PROVE cons.w = e1
    BY <1>1, <1>8, Zenon DEF FullIsReadable, Dist
  <2>1. n = 0 /\ d = INPUT_BUF
    BY <1>2, <1>3, <1>5
  <2>2. cons.w = cons.e
    BY <2>1, Zenon DEF IInv, FullIsReadable, d
  <2>3. cons.e + (-n) = cons.e
    BY <1>2, <2>1
  <2>4. cons.e % UINT = cons.e
    BY <1>2, <1>3, ModSmall, Zenon
  <2> QED BY <2>2, <2>3, <2>4, Zenon DEF e1, Plus
<1>11. Kept(cons, cons', INPUT_BUF, UINT)
  <2> SUFFICES ASSUME NEW i \in 0..(INPUT_BUF - 1), i < Dist(cons.r, cons.w)
               PROVE  cons'.buf[(cons.r + i) % INPUT_BUF] = cons.buf[(cons.r + i) % INPUT_BUF]
    BY <1>1 DEF Kept, Dist
  <2>1. cons.r + i \in Int /\ cons.r \in Nat /\ i \in Nat
    BY <1>2
  <2>2. (cons.r + i) % INPUT_BUF \in 0..(INPUT_BUF - 1)
    BY <2>1, InputCell, Zenon
  <2>3. ASSUME NEW j \in 1..n
        PROVE  (cons.r + i) % INPUT_BUF # Plus(cons.e, -j) % INPUT_BUF
    <3>1. j \in 0..n /\ d - j \in Nat /\ i < d - j /\ d - j < i + INPUT_BUF
      BY <1>2, <1>3, <1>5, <2>1
    <3>2. (cons.r + i) % INPUT_BUF # (cons.r + (d - j)) % INPUT_BUF
      BY <1>3, <2>1, <3>1, Apart, Zenon
    <3> QED BY <1>7, <3>1, <3>2, Zenon
  <2> QED BY <1>1, <2>2, <2>3
<1> QED
  BY <1>9, <1>10, <1>11, Zenon DEF InputKept

\* A character is read at r.
LEMMA InputRead ==
  ASSUME IInv, cons.r # cons.w, cons' = Consumed
  PROVE  InputKept
<1> DEFINE n == Dist(cons.r, cons.w)
           d == Dist(cons.r, cons.e)
           r1 == Plus(cons.r, 1)
<1>1. cons'.r = r1 /\ cons'.e = cons.e /\ cons'.w = cons.w
      /\ cons'.buf = [cons.buf EXCEPT ![cons.r % INPUT_BUF] = "x"]
  BY Zenon DEF Consumed, IInv, TypeOK, ConsType
<1>2. /\ cons.r \in 0..(UINT - 1) /\ cons.w \in 0..(UINT - 1) /\ cons.e \in 0..(UINT - 1)
      /\ cons.buf \in [0..(INPUT_BUF - 1) -> Keys]
      /\ n \in 0..(UINT - 1) /\ d \in 0..(UINT - 1)
  BY InputIndices, Zenon DEF IInv
<1>3. n <= d /\ d <= INPUT_BUF /\ INPUT_BUF \in Nat \ {0} /\ UINT \in Nat \ {0}
  BY Sizes, Zenon DEF IInv, Ordered
<1>4. r1 \in 0..(UINT - 1) /\ Dist(r1, cons.w) = n - 1
  BY <1>2, <1>3, RingGet, Zenon DEF Dist, Plus
<1>5. n >= 1
  BY <1>2, <1>3, Distinct, Zenon DEF Dist
<1>6. cons.r # cons.e
  <2> SUFFICES ASSUME cons.r = cons.e PROVE FALSE
    BY Zenon
  <2>1. cons.e - cons.r = 0 /\ 0 \in 0..(UINT - 1)
    BY <1>2, <1>3
  <2>2. d = 0
    BY <1>3, <2>1, ModSmall, Zenon DEF Dist
  <2> HIDE DEF n, d
  <2> QED BY <1>2, <1>3, <1>5, <2>2
<1>7. Dist(r1, cons.e) = d - 1
  BY <1>2, <1>3, <1>6, RingGet, Zenon DEF Dist, Plus
<1>8. Kept(cons, cons', INPUT_BUF, UINT)
  <2> SUFFICES ASSUME NEW i \in 0..(INPUT_BUF - 1), i < (cons.w - r1) % UINT
               PROVE  cons'.buf[(r1 + i) % INPUT_BUF] = cons.buf[(r1 + i) % INPUT_BUF]
    <3> HIDE DEF r1
    <3> QED BY <1>1, Zenon DEF Kept
  <2>1. PICK k \in Nat : UINT = k * INPUT_BUF
    BY Sizes, Zenon
  <2>2. i \in Nat /\ (cons.w - cons.r) % UINT <= INPUT_BUF /\ r1 + i \in Int
    <3>1. n <= INPUT_BUF
      <4> HIDE DEF n, d
      <4> QED BY <1>2, <1>3
    <3>2. i \in Nat /\ r1 + i \in Int
      <4> HIDE DEF r1
      <4> QED BY <1>3, <1>4
    <3> QED BY <3>1, <3>2, Zenon DEF Dist
  <2>3. (r1 + i) % INPUT_BUF # cons.r % INPUT_BUF
    BY <1>2, <1>3, <2>1, <2>2, GetApart, Zenon DEF Plus
  <2>4. (r1 + i) % INPUT_BUF \in 0..(INPUT_BUF - 1)
    BY <2>2, InputCell, Zenon
  <2> HIDE DEF r1
  <2> QED BY <1>1, <1>2, <2>3, <2>4, Zenon
<1> HIDE DEF n, d, r1
<1>9. Ordered' /\ FullIsReadable'
  <2>1. n - 1 <= d - 1 /\ d - 1 < INPUT_BUF /\ d - 1 \in Int /\ INPUT_BUF \in Int
    BY <1>2, <1>3
  <2>2. Dist(cons'.r, cons'.w) = n - 1 /\ Dist(cons'.r, cons'.e) = d - 1
    BY <1>1, <1>4, <1>7, Zenon
  <2> QED BY <2>1, <2>2 DEF Ordered, FullIsReadable, Dist
<1> QED
  BY <1>8, <1>9, Zenon DEF InputKept

\* < on the natural numbers, as a set of pairs, is well founded.
Less == {ss \in Nat \X Nat : ss[1] < ss[2]}
LEMMA LessWellFounded == IsWellFoundedOn(Less, Nat)
BY NatLessThanWellFounded, Zenon DEF OpToRel, Less

\* A set of natural numbers has a least element.
LEMMA Least ==
  ASSUME NEW T \in SUBSET Nat, T # {}
  PROVE  \E t \in T : \A x \in T : t <= x
<1>1. PICK t \in T : \A y \in T : ~ (<<y, t>> \in Less)
  BY LessWellFounded, WFMin, Zenon
<1>2. ASSUME NEW x \in T PROVE t <= x
  <2>1. x \in Nat /\ t \in Nat
    BY Zenon
  <2>2. ~(x < t)
    BY <1>1, <2>1, Zenon DEF Less
  <2> QED BY <2>1, <2>2
<1> QED
  BY <1>2, Zenon

\* ^U does not go back beyond w.
LEMMA ToEraseRange ==
  ASSUME TypeOK
  PROVE  ToErase \in 0..Dist(cons.w, cons.e)
<1> DEFINE D == Dist(cons.w, cons.e)
           Line(k) == \A j \in 1..k : cons.buf[Plus(cons.e, -j) % INPUT_BUF] # "nl"
           ks == {k \in 0..D : Line(k)}
           T == {D - k : k \in ks}
<1>1. D \in Nat
  <2>1. cons.e - cons.w \in Int /\ UINT \in Nat \ {0}
    BY InputIndices, Sizes
  <2>2. Dist(cons.w, cons.e) \in 0..(UINT - 1)
    BY <2>1, ModRange, Zenon DEF Dist
  <2> QED BY <2>1, <2>2
<1>2. 0 \in ks
  <2>1. 1..0 = {}
    OBVIOUS
  <2>2. Line(0)
    BY <2>1, Zenon
  <2> HIDE DEF D, Line
  <2> QED BY <1>1, <2>2
<1>3. ToErase = CHOOSE k \in ks : \A x \in ks : x <= k
  BY Zenon DEF ToErase
<1> HIDE DEF Line, D
<1>4. T \in SUBSET Nat /\ T # {}
  BY <1>1, <1>2
<1>5. PICK t \in T : \A x \in T : t <= x
  BY <1>4, Least, Zenon
<1>6. PICK k \in ks : t = D - k
  BY <1>5, Zenon
<1>7. \A x \in ks : x <= k
  <2> TAKE x \in ks
  <2>1. D - k <= D - x
    BY <1>5, <1>6, Zenon
  <2> QED BY <1>1, <2>1
<1>8. ToErase \in ks
  <2> HIDE DEF ks
  <2> QED BY <1>3, <1>7, Zenon
<1> QED
  BY <1>8, Zenon DEF D

\* What consoleintr() does to the input ring.
LEMMA InputIntr ==
  ASSUME IInv, NEW c \in Keys, consoleintr(c)
  PROVE  InputKept
<1>1. CASE c = "kill"
  <2>1. erase(ToErase)
    BY <1>1, Zenon DEF consoleintr
  <2>2. ToErase \in 0..Dist(cons.w, cons.e)
    BY ToEraseRange, Zenon DEF IInv
  <2> QED BY <2>1, <2>2, InputErase, Zenon
<1>2. CASE c = "erase"
  <2> DEFINE n == IF cons.e = cons.w THEN 0 ELSE 1
  <2>1. erase(n)
    BY <1>2, Zenon DEF consoleintr
  <2>2. UINT \in Nat \ {0} /\ cons.e \in 0..(UINT - 1) /\ cons.w \in 0..(UINT - 1)
        /\ cons.e - cons.w \in Int
    BY Sizes, InputIndices DEF IInv
  <2>3. Dist(cons.w, cons.e) \in 0..(UINT - 1)
    BY <2>2, ModRange, Zenon DEF Dist
  <2>4. cons.w # cons.e => Dist(cons.w, cons.e) >= 1
    BY <2>2, Distinct, Zenon DEF Dist
  <2>5. n \in 0..Dist(cons.w, cons.e)
    BY <2>2, <2>3, <2>4
  <2> HIDE DEF n
  <2> QED BY <2>1, <2>5, InputErase, Zenon
<1>3. CASE c \notin {"kill", "erase"} /\ HasRoom
  <2>1. insert(c)
    BY <1>3, Zenon DEF consoleintr
  <2> QED BY <1>3, <2>1, InputInsert, Zenon
<1>4. CASE c \notin {"kill", "erase"} /\ ~HasRoom
  <2>1. cons' = cons
    BY <1>4, Zenon DEF consoleintr
  <2> QED BY <2>1, InputSame, Zenon
<1> QED
  BY <1>1, <1>2, <1>3, <1>4, Zenon

------------------------------------------------------------------------------
\* The transmit ring.

\* What a step may do to the transmit ring.
OutputKept == (TxCount <= TX_BUF)' /\ Kept(tx, tx', TX_BUF, UINT64)

\* The indices of the transmit ring.
LEMMA OutputIndices ==
  ASSUME IInv
  PROVE  /\ tx.r \in 0..(UINT64 - 1) /\ tx.w \in 0..(UINT64 - 1)
         /\ tx.buf \in [0..(TX_BUF - 1) -> Writers \cup {None}]
         /\ TxCount \in 0..(UINT64 - 1) /\ TxCount <= TX_BUF
<1>1. /\ tx.r \in 0..(UINT64 - 1) /\ tx.w \in 0..(UINT64 - 1)
      /\ tx.buf \in [0..(TX_BUF - 1) -> Writers \cup {None}] /\ TxCount <= TX_BUF
  BY Zenon DEF IInv, TypeOK, TxType, Sending
<1>2. UINT64 \in Nat \ {0} /\ tx.w - tx.r \in Int
  BY <1>1, Sizes
<1> QED
  BY <1>1, <1>2, ModRange, Zenon DEF TxCount

\* Every cell is one of the buffer.
LEMMA OutputCell ==
  ASSUME NEW x \in Int
  PROVE  x % TX_BUF \in 0..(TX_BUF - 1)
BY Sizes, ModRange, Zenon

\* A step that leaves it alone.
LEMMA OutputSame ==
  ASSUME IInv, tx' = tx
  PROVE  OutputKept
BY Zenon DEF OutputKept, IInv, Sending, Kept, TxCount

\* uartputc() adds a byte.
LEMMA OutputPut ==
  ASSUME IInv, ~Full, NEW p,
         tx' = [tx EXCEPT !.buf[tx.w % TX_BUF] = p, !.w = (@ + 1) % UINT64]
  PROVE  OutputKept
<1> DEFINE n == TxCount
           w1 == (tx.w + 1) % UINT64
<1>1. tx'.r = tx.r /\ tx'.w = w1 /\ tx'.buf = [tx.buf EXCEPT ![tx.w % TX_BUF] = p]
  BY Zenon DEF IInv, TypeOK, TxType
<1>2. /\ tx.r \in 0..(UINT64 - 1) /\ tx.w \in 0..(UINT64 - 1)
      /\ tx.buf \in [0..(TX_BUF - 1) -> Writers \cup {None}]
      /\ n \in 0..(UINT64 - 1) /\ n <= TX_BUF
  BY OutputIndices, Zenon
<1>3. n < TX_BUF /\ TX_BUF \in Nat \ {0} /\ UINT64 \in Nat \ {0} /\ n # UINT64 - 1
  BY <1>2, Sizes DEF Full
<1>4. (w1 - tx.r) % UINT64 = n + 1
  BY <1>2, <1>3, RingPut, Zenon DEF TxCount
<1> HIDE DEF n, w1
<1>5. (TxCount <= TX_BUF)'
  <2>1. n + 1 <= TX_BUF
    BY <1>2, <1>3
  <2> QED BY <1>1, <1>4, <2>1, Zenon DEF TxCount
<1>6. Kept(tx, tx', TX_BUF, UINT64)
  <2> SUFFICES ASSUME NEW i \in 0..(TX_BUF - 1), i < (tx.w - tx.r) % UINT64
               PROVE  tx'.buf[(tx.r + i) % TX_BUF] = tx.buf[(tx.r + i) % TX_BUF]
    BY <1>1, Zenon DEF Kept
  <2>1. PICK k \in Nat : UINT64 = k * TX_BUF
    BY Sizes, Zenon
  <2>2. i \in Nat /\ (tx.w - tx.r) % UINT64 < TX_BUF /\ tx.r + i \in Int
    BY <1>2, <1>3 DEF n, TxCount
  <2>3. (tx.r + i) % TX_BUF # tx.w % TX_BUF
    BY <1>2, <1>3, <2>1, <2>2, PutApart, Zenon
  <2>4. (tx.r + i) % TX_BUF \in 0..(TX_BUF - 1)
    BY <2>2, OutputCell, Zenon
  <2> QED BY <1>1, <1>2, <2>3, <2>4
<1> QED
  BY <1>5, <1>6, Zenon DEF OutputKept

\* uartstart() takes one.
LEMMA OutputGet ==
  ASSUME IInv, tx.r # tx.w,
         tx' = [tx EXCEPT !.buf[tx.r % TX_BUF] = None, !.r = (@ + 1) % UINT64]
  PROVE  OutputKept
<1> DEFINE n == TxCount
           r1 == (tx.r + 1) % UINT64
<1>1. tx'.r = r1 /\ tx'.w = tx.w /\ tx'.buf = [tx.buf EXCEPT ![tx.r % TX_BUF] = None]
  BY Zenon DEF IInv, TypeOK, TxType
<1>2. /\ tx.r \in 0..(UINT64 - 1) /\ tx.w \in 0..(UINT64 - 1)
      /\ tx.buf \in [0..(TX_BUF - 1) -> Writers \cup {None}]
      /\ n \in 0..(UINT64 - 1) /\ n <= TX_BUF
  BY OutputIndices, Zenon
<1>3. TX_BUF \in Nat \ {0} /\ UINT64 \in Nat \ {0}
  BY Sizes, Zenon
<1>4. r1 \in 0..(UINT64 - 1) /\ (tx.w - r1) % UINT64 = n - 1
  BY <1>2, <1>3, RingGet, Zenon DEF TxCount
<1> HIDE DEF n
<1>5. (TxCount <= TX_BUF)'
  <2>1. n - 1 <= TX_BUF
    BY <1>2, <1>3
  <2> HIDE DEF r1
  <2> QED BY <1>1, <1>4, <2>1, Zenon DEF TxCount
<1>6. Kept(tx, tx', TX_BUF, UINT64)
  <2> SUFFICES ASSUME NEW i \in 0..(TX_BUF - 1), i < (tx.w - r1) % UINT64
               PROVE  tx'.buf[(r1 + i) % TX_BUF] = tx.buf[(r1 + i) % TX_BUF]
    <3> HIDE DEF r1
    <3> QED BY <1>1 DEF Kept
  <2>1. PICK k \in Nat : UINT64 = k * TX_BUF
    BY Sizes, Zenon
  <2>2. i \in Nat /\ r1 + i \in Int
    <3> HIDE DEF r1
    <3> QED BY <1>3, <1>4
  <2>3. (tx.w - tx.r) % UINT64 <= TX_BUF
    BY <1>2, Zenon DEF n, TxCount
  <2>4. (r1 + i) % TX_BUF # tx.r % TX_BUF
    BY <1>2, <1>3, <2>1, <2>2, <2>3, GetApart, Zenon
  <2>5. (r1 + i) % TX_BUF \in 0..(TX_BUF - 1)
    BY <2>2, OutputCell, Zenon
  <2> HIDE DEF r1
  <2> QED BY <1>1, <1>2, <2>4, <2>5
<1> QED
  BY <1>5, <1>6, Zenon DEF OutputKept

------------------------------------------------------------------------------
\* Every step.

\* Who changes the input ring.
InputActs == \/ \E c \in Keys : consoleintr(c)
             \/ \E p \in Readers : read_eof(p) \/ \E copied \in BOOLEAN : read_byte(p, copied)
LEMMA InputChanges ==
  ASSUME [Next]_vars, ~InputActs
  PROVE  cons' = cons
<1>1. CASE Handler \/ dev_send \/ dev_receive
  BY <1>1, Zenon DEF InputActs, Handler, uartintr, echo_ready, echo_send, echo_done,
       uartintr_tx,
       intr_stop, intr_ready, intr_send, dev_send, dev_receive
<1>2. ASSUME NEW p \in Readers, Reader(p) \/ kill(p) PROVE cons' = cons
  BY <1>2, Zenon DEF InputActs, Reader, read_lock, read_sleep, read_done, kill
<1>3. ASSUME NEW p \in Writers, Writer(p) \/ consolewrite(p) PROVE cons' = cons
  BY <1>3, Zenon DEF Writer, consolewrite_return, uartputc_sleep, uartputc, putc_stop,
       putc_ready, putc_send, consolewrite
<1>4. ASSUME NEW p \in Readers, NEW n \in 1..MaxCount, consoleread(p, n) PROVE cons' = cons
  BY <1>4, Zenon DEF consoleread
<1>5. CASE UNCHANGED vars
  BY <1>5, Zenon DEF vars
<1> QED
  BY <1>1, <1>2, <1>3, <1>4, <1>5, Zenon DEF Next

\* Who changes the transmit ring.
OutputActs == intr_send \/ \E p \in Writers : uartputc(p) \/ putc_send(p)
LEMMA OutputChanges ==
  ASSUME [Next]_vars, ~OutputActs
  PROVE  tx' = tx
<1>1. CASE Handler \/ dev_send \/ dev_receive
  BY <1>1, Zenon DEF OutputActs, Handler, uartintr, consoleintr, echo_ready, echo_send,
       echo_done,
       uartintr_tx, intr_stop, intr_ready, dev_send, dev_receive
<1>2. ASSUME NEW p \in Readers, Reader(p) \/ kill(p) PROVE tx' = tx
  BY <1>2, Zenon DEF Reader, read_lock, read_sleep, read_eof, read_byte, read_done, kill
<1>3. ASSUME NEW p \in Writers, Writer(p) \/ consolewrite(p) PROVE tx' = tx
  BY <1>3, Zenon DEF OutputActs, Writer, consolewrite_return, uartputc_sleep, putc_stop,
       putc_ready, consolewrite
<1>4. ASSUME NEW p \in Readers, NEW n \in 1..MaxCount, consoleread(p, n) PROVE tx' = tx
  BY <1>4, Zenon DEF consoleread
<1>5. CASE UNCHANGED vars
  BY <1>5, Zenon DEF vars
<1> QED
  BY <1>1, <1>2, <1>3, <1>4, <1>5, Zenon DEF Next

\* The input ring.
LEMMA InputStep ==
  ASSUME IInv, [Next]_vars
  PROVE  InputKept
<1>1. ASSUME NEW c \in Keys, consoleintr(c) PROVE InputKept
  BY <1>1, InputIntr, Zenon
<1>2. ASSUME NEW p \in Readers, read_eof(p) PROVE InputKept
  <2>1. cons.r # cons.w /\ (cons' = cons \/ cons' = Consumed)
    BY <1>2, Zenon DEF read_eof
  <2> QED BY <2>1, InputSame, InputRead, Zenon
<1>3. ASSUME NEW p \in Readers, NEW copied \in BOOLEAN, read_byte(p, copied) PROVE InputKept
  <2>1. cons.r # cons.w /\ cons' = Consumed
    BY <1>3, Zenon DEF read_byte
  <2> QED BY <2>1, InputRead, Zenon
<1>4. CASE ~InputActs
  BY <1>4, InputChanges, InputSame, Zenon
<1> QED
  BY <1>1, <1>2, <1>3, <1>4, Zenon DEF InputActs

\* The transmit ring.
LEMMA OutputStep ==
  ASSUME IInv, [Next]_vars
  PROVE  OutputKept
<1>1. ASSUME intr_send PROVE OutputKept
  <2>1. tx.r # tx.w
    BY <1>1, Zenon DEF intr_send, IInv, Sending, Holding
  <2> QED BY <1>1, <2>1, OutputGet, Zenon DEF intr_send, send
<1>2. ASSUME NEW p \in Writers, uartputc(p) PROVE OutputKept
  BY <1>2, OutputPut, Zenon DEF uartputc
<1>3. ASSUME NEW p \in Writers, putc_send(p) PROVE OutputKept
  <2>1. tx.r # tx.w
    BY <1>3, Zenon DEF putc_send, IInv, Sending, Holding, At, Procs
  <2> QED BY <1>3, <2>1, OutputGet, Zenon DEF putc_send, send
<1>4. CASE ~OutputActs
  BY <1>4, OutputChanges, OutputSame, Zenon
<1> QED
  BY <1>1, <1>2, <1>3, <1>4, Zenon DEF OutputActs

\* Every step keeps uart_tx_lock as it should be.
LEMMA HoldingStep ==
  ASSUME IInv, [Next]_vars
  PROVE  Holding'
<1>1. ASSUME uartintr PROVE Holding'
  BY <1>1, ProcsAssumption, Zenon DEF uartintr, IInv, TypeOK, HandlerType, ThreadType,
       Thread, Sending, Holding, Procs, At
<1>2. ASSUME NEW c \in Keys, consoleintr(c) PROVE Holding'
  <2>1. h'.pc = "echo" /\ lock'.uart = lock.uart /\ tx' = tx
    BY <1>2 DEF consoleintr, erase, insert, IInv, TypeOK, HandlerType, ThreadType,
         Thread
  <2>2. \A q \in Procs : th'[q].pc \in {"start", "send"} => th'[q] = th[q]
    <3>1. th' = th \/ th' = Woken
      BY <1>2, Zenon DEF consoleintr, erase, insert
    <3>2. \A q \in Procs : Woken[q].pc \in {"start", "send"} => Woken[q] = th[q]
      BY DEF Woken, At, IInv, TypeOK, HandlerType, ThreadType, Thread
    <3> QED BY <3>1, <3>2, Zenon
  <2> QED BY <2>1, <2>2, Zenon DEF IInv, Sending, Holding
<1>3. ASSUME echo_ready PROVE Holding'
  BY <1>3, ProcsAssumption, Zenon DEF echo_ready, IInv, TypeOK, HandlerType,
       ThreadType, Thread, Sending, Holding, Procs, At
<1>4. ASSUME echo_send PROVE Holding'
  BY <1>4, ProcsAssumption, Zenon DEF echo_send, IInv, TypeOK, HandlerType, ThreadType,
       Thread, Sending, Holding, Procs, At
<1>5. ASSUME echo_done PROVE Holding'
  BY <1>5, ProcsAssumption, Zenon DEF echo_done, IInv, TypeOK, HandlerType, ThreadType,
       Thread, Sending, Holding, Procs, At
<1>6. ASSUME uartintr_tx PROVE Holding'
  BY <1>6, ProcsAssumption, Zenon DEF uartintr_tx, IInv, TypeOK, HandlerType,
       ThreadType, Thread, Sending, Holding, Procs, At
<1>7. ASSUME intr_stop PROVE Holding'
  BY <1>7, ProcsAssumption, Zenon DEF intr_stop, IInv, TypeOK, HandlerType, ThreadType,
       Thread, Sending, Holding, Procs, At
<1>8. ASSUME intr_ready PROVE Holding'
  BY <1>8, ProcsAssumption, Zenon DEF intr_ready, IInv, TypeOK, HandlerType,
       ThreadType, Thread, Sending, Holding, Procs, At
<1>9. ASSUME intr_send PROVE Holding'
  BY <1>9, ProcsAssumption DEF intr_send, send, IInv, TypeOK, HandlerType, ThreadType,
       Thread, Sending, Holding, Procs, At
<1>10. ASSUME dev_send PROVE Holding'
  BY <1>10, ProcsAssumption, Zenon DEF dev_send, IInv, TypeOK, HandlerType, ThreadType,
       Thread, Sending, Holding, Procs, At
<1>11. ASSUME dev_receive PROVE Holding'
  BY <1>11, ProcsAssumption, Zenon DEF dev_receive, IInv, TypeOK, HandlerType,
       ThreadType, Thread, Sending, Holding, Procs, At
<1>12. ASSUME NEW p \in Readers, read_lock(p) PROVE Holding'
  BY <1>12, ProcsAssumption DEF read_lock, Goto, IInv, TypeOK, HandlerType, ThreadType,
       Thread, Sending, Holding, Procs, At
<1>13. ASSUME NEW p \in Readers, read_sleep(p) PROVE Holding'
  BY <1>13, ProcsAssumption DEF read_sleep, Leave, IInv, TypeOK, HandlerType,
       ThreadType, Thread, Sending, Holding, Procs, At, Idle
<1>14. ASSUME NEW p \in Readers, read_eof(p) PROVE Holding'
  BY <1>14, ProcsAssumption, Zenon DEF read_eof, Leave, IInv, TypeOK, HandlerType,
       ThreadType, Thread, Sending, Holding, Procs, At, Idle
<1>15. ASSUME NEW p \in Readers, read_done(p) PROVE Holding'
  BY <1>15, ProcsAssumption, Zenon DEF read_done, Leave, IInv, TypeOK, HandlerType,
       ThreadType, Thread, Sending, Holding, Procs, At, Idle
<1>16. ASSUME NEW p \in Readers, NEW copied \in BOOLEAN, read_byte(p, copied) PROVE Holding'
  <2>1. h' = h /\ lock'.uart = lock.uart /\ tx' = tx
    BY <1>16, Zenon DEF read_byte, Leave, IInv, TypeOK, HandlerType, ThreadType, Thread
  <2>2. \A q \in Procs : th'[q].pc \in {"start", "send"} => th'[q].pc = th[q].pc
    <3>1. CASE copied /\ cons.buf[cons.r % INPUT_BUF] # "nl"
      <4>1. th' = [th EXCEPT ![p] = [th[p] EXCEPT !.n = th[p].n - 1]]
        BY <1>16, <3>1, Zenon DEF read_byte
      <4> QED BY <4>1 DEF IInv, TypeOK, HandlerType, ThreadType, Thread, Procs
    <3>2. CASE ~(copied /\ cons.buf[cons.r % INPUT_BUF] # "nl")
      <4>1. th' = [th EXCEPT ![p] = Idle]
        BY <1>16, <3>2, Zenon DEF read_byte, Leave
      <4> QED BY <4>1, Zenon DEF IInv, TypeOK, HandlerType, ThreadType, Thread, Procs,
                   Idle
    <3> QED BY <3>1, <3>2, Zenon
  <2> QED BY <2>1, <2>2, Zenon DEF IInv, Sending, Holding
<1>17. ASSUME NEW p \in Readers, kill(p) PROVE Holding'
  BY <1>17, ProcsAssumption DEF kill, IInv, TypeOK, HandlerType, ThreadType, Thread,
       Sending, Holding, Procs, At
<1>18. ASSUME NEW p \in Writers, consolewrite_return(p) PROVE Holding'
  BY <1>18, ProcsAssumption, Zenon DEF consolewrite_return, IInv, TypeOK, HandlerType,
       ThreadType, Thread, Sending, Holding, Procs, At, Idle
<1>19. ASSUME NEW p \in Writers, uartputc_sleep(p) PROVE Holding'
  BY <1>19, ProcsAssumption DEF uartputc_sleep, Goto, IInv, TypeOK, HandlerType,
       ThreadType, Thread, Sending, Holding, Procs, At
<1>20. ASSUME NEW p \in Writers, uartputc(p) PROVE Holding'
  BY <1>20, ProcsAssumption DEF uartputc, Goto, IInv, TypeOK, HandlerType, ThreadType,
       Thread, Sending, Holding, Procs, At
<1>21. ASSUME NEW p \in Writers, putc_stop(p) PROVE Holding'
  BY <1>21, ProcsAssumption DEF putc_stop, Goto, IInv, TypeOK, HandlerType, ThreadType,
       Thread, Sending, Holding, Procs, At
<1>22. ASSUME NEW p \in Writers, putc_ready(p) PROVE Holding'
  BY <1>22, ProcsAssumption DEF putc_ready, Goto, IInv, TypeOK, HandlerType,
       ThreadType, Thread, Sending, Holding, Procs, At
<1>23. ASSUME NEW p \in Writers, putc_send(p) PROVE Holding'
  BY <1>23, ProcsAssumption DEF putc_send, send, IInv, TypeOK, HandlerType, ThreadType,
       Thread, Sending, Holding, Procs, At
<1>24. ASSUME NEW p \in Writers, consolewrite(p) PROVE Holding'
  BY <1>24, ProcsAssumption DEF consolewrite, Goto, IInv, TypeOK, HandlerType,
       ThreadType, Thread, Sending, Holding, Procs, At
<1>25. ASSUME NEW p \in Readers, NEW n \in 1..MaxCount, consoleread(p, n) PROVE Holding'
  BY <1>25, ProcsAssumption, Zenon DEF consoleread, IInv, TypeOK, HandlerType,
       ThreadType, Thread, Sending, Holding, Procs, At
<1>26. ASSUME UNCHANGED vars PROVE Holding'
  BY <1>26, ProcsAssumption, Zenon DEF vars, IInv, TypeOK, HandlerType, ThreadType,
       Thread, Sending, Holding, Procs
<1> QED
  BY <1>1, <1>2, <1>3, <1>4, <1>5, <1>6, <1>7, <1>8, <1>9, <1>10, <1>11, <1>12, <1>13,
       <1>14, <1>15, <1>16, <1>17, <1>18, <1>19, <1>20, <1>21, <1>22, <1>23, <1>24,
       <1>25, <1>26, Zenon DEF Next, Handler, Reader, Writer

\* Somebody sends buffered output.
LEMMA MovesStep ==
  ASSUME IInv, [Next]_vars
  PROVE  OutputMoves'
<1>1. ASSUME uartintr PROVE OutputMoves'
  BY <1>1, SizeAssumption, Zenon DEF uartintr, IInv, TypeOK, HandlerType, ThreadType,
       Thread, OutputMoves, Procs, At
<1>2. ASSUME NEW c \in Keys, consoleintr(c) PROVE OutputMoves'
  BY <1>2, SizeAssumption DEF consoleintr, IInv, TypeOK, HandlerType, ThreadType,
       Thread, OutputMoves, Procs, At, erase, insert, Woken
<1>3. ASSUME echo_ready PROVE OutputMoves'
  BY <1>3, SizeAssumption, Zenon DEF echo_ready, IInv, TypeOK, HandlerType, ThreadType,
       Thread, OutputMoves, Procs, At
<1>4. ASSUME echo_send PROVE OutputMoves'
  BY <1>4, SizeAssumption, Zenon DEF echo_send, IInv, TypeOK, HandlerType, ThreadType,
       Thread, OutputMoves, Procs, At
<1>5. ASSUME echo_done PROVE OutputMoves'
  BY <1>5, SizeAssumption, Zenon DEF echo_done, IInv, TypeOK, HandlerType, ThreadType,
       Thread, OutputMoves, Procs, At
<1>6. ASSUME uartintr_tx PROVE OutputMoves'
  BY <1>6, SizeAssumption, Zenon DEF uartintr_tx, IInv, TypeOK, HandlerType,
       ThreadType, Thread, OutputMoves, Procs, At
<1>7. ASSUME intr_stop PROVE OutputMoves'
  BY <1>7, SizeAssumption, Zenon DEF intr_stop, IInv, TypeOK, HandlerType, ThreadType,
       Thread, OutputMoves, Procs, At
<1>8. ASSUME intr_ready PROVE OutputMoves'
  BY <1>8, SizeAssumption, Zenon DEF intr_ready, IInv, TypeOK, HandlerType, ThreadType,
       Thread, OutputMoves, Procs, At
<1>9. ASSUME intr_send PROVE OutputMoves'
  BY <1>9, SizeAssumption, Zenon DEF intr_send, send, IInv, TypeOK, HandlerType,
       ThreadType, Thread, OutputMoves, Procs, At
<1>10. ASSUME dev_send PROVE OutputMoves'
  <2>1. (dev.thr = 1 => dev'.irq) /\ dev'.thr = dev.thr - 1 /\ dev.thr \in Nat /\ dev.thr > 0
    BY <1>10, Zenon DEF dev_send, IInv, TypeOK, HandlerType, ThreadType, Thread
  <2>2. dev'.thr > 0 \/ dev'.irq
    BY <2>1
  <2> QED BY <2>2, Zenon DEF OutputMoves
<1>11. ASSUME dev_receive PROVE OutputMoves'
  BY <1>11, SizeAssumption, Zenon DEF dev_receive, IInv, TypeOK, HandlerType,
       ThreadType, Thread, OutputMoves, Procs, At
<1>12. ASSUME NEW p \in Readers, read_lock(p) PROVE OutputMoves'
  BY <1>12, SizeAssumption, Zenon DEF read_lock, Goto, IInv, TypeOK, HandlerType,
       ThreadType, Thread, OutputMoves, Procs, At
<1>13. ASSUME NEW p \in Readers, read_sleep(p) PROVE OutputMoves'
  BY <1>13, SizeAssumption, Zenon DEF read_sleep, Leave, IInv, TypeOK, HandlerType,
       ThreadType, Thread, OutputMoves, Procs, At, Idle
<1>14. ASSUME NEW p \in Readers, read_eof(p) PROVE OutputMoves'
  BY <1>14, SizeAssumption, Zenon DEF read_eof, Leave, IInv, TypeOK, HandlerType,
       ThreadType, Thread, OutputMoves, Procs, At, Idle
<1>15. ASSUME NEW p \in Readers, read_done(p) PROVE OutputMoves'
  BY <1>15, SizeAssumption, Zenon DEF read_done, Leave, IInv, TypeOK, HandlerType,
       ThreadType, Thread, OutputMoves, Procs, At, Idle
<1>16. ASSUME NEW p \in Readers, NEW copied \in BOOLEAN, read_byte(p, copied) PROVE OutputMoves'
  BY <1>16, SizeAssumption, Zenon DEF read_byte, Leave, IInv, TypeOK, HandlerType,
       ThreadType, Thread, OutputMoves, Procs, At, Idle
<1>17. ASSUME NEW p \in Readers, kill(p) PROVE OutputMoves'
  BY <1>17, SizeAssumption DEF kill, IInv, TypeOK, HandlerType, ThreadType, Thread,
       OutputMoves, Procs, At
<1>18. ASSUME NEW p \in Writers, consolewrite_return(p) PROVE OutputMoves'
  BY <1>18, SizeAssumption, Zenon DEF consolewrite_return, IInv, TypeOK, HandlerType,
       ThreadType, Thread, OutputMoves, Procs, At, Idle
<1>19. ASSUME NEW p \in Writers, uartputc_sleep(p) PROVE OutputMoves'
  BY <1>19, SizeAssumption, Zenon DEF uartputc_sleep, Goto, IInv, TypeOK, HandlerType,
       ThreadType, Thread, OutputMoves, Procs, At
<1>20. ASSUME NEW p \in Writers, uartputc(p) PROVE OutputMoves'
  BY <1>20, SizeAssumption DEF uartputc, Goto, IInv, TypeOK, HandlerType, ThreadType,
       Thread, OutputMoves, Procs, At
<1>21. ASSUME NEW p \in Writers, putc_stop(p) PROVE OutputMoves'
  BY <1>21, SizeAssumption, Zenon DEF putc_stop, Goto, IInv, TypeOK, HandlerType,
       ThreadType, Thread, OutputMoves, Procs, At
<1>22. ASSUME NEW p \in Writers, putc_ready(p) PROVE OutputMoves'
  BY <1>22, SizeAssumption DEF putc_ready, Goto, IInv, TypeOK, HandlerType, ThreadType,
       Thread, OutputMoves, Procs, At
<1>23. ASSUME NEW p \in Writers, putc_send(p) PROVE OutputMoves'
  BY <1>23, SizeAssumption DEF putc_send, send, IInv, TypeOK, HandlerType, ThreadType,
       Thread, OutputMoves, Procs, At
<1>24. ASSUME NEW p \in Writers, consolewrite(p) PROVE OutputMoves'
  BY <1>24, SizeAssumption, Zenon DEF consolewrite, Goto, IInv, TypeOK, HandlerType,
       ThreadType, Thread, OutputMoves, Procs, At
<1>25. ASSUME NEW p \in Readers, NEW n \in 1..MaxCount, consoleread(p, n) PROVE OutputMoves'
  BY <1>25, SizeAssumption, Zenon DEF consoleread, IInv, TypeOK, HandlerType,
       ThreadType, Thread, OutputMoves, Procs, At
<1>26. ASSUME UNCHANGED vars PROVE OutputMoves'
  BY <1>26, SizeAssumption, Zenon DEF vars, IInv, TypeOK, HandlerType, ThreadType,
       Thread, OutputMoves, Procs
<1> QED
  BY <1>1, <1>2, <1>3, <1>4, <1>5, <1>6, <1>7, <1>8, <1>9, <1>10, <1>11, <1>12, <1>13,
       <1>14, <1>15, <1>16, <1>17, <1>18, <1>19, <1>20, <1>21, <1>22, <1>23, <1>24,
       <1>25, <1>26, Zenon DEF Next, Handler, Reader, Writer

\* The types.
LEMMA PlusRange ==
  ASSUME NEW x \in Int, NEW n \in Int
  PROVE  Plus(x, n) \in 0..(UINT - 1)
<1>1. x + n \in Int
  OBVIOUS
<1> QED
  BY <1>1, Sizes, ModRange, Zenon DEF Plus

\* Erasing keeps the type of the input ring.
LEMMA EraseType ==
  ASSUME IInv, NEW n \in Nat, erase(n)
  PROVE  ConsType'
<1>1. Plus(cons.e, -n) \in 0..(UINT - 1)
  <2>1. cons.e \in Int /\ -n \in Int
    BY InputIndices DEF IInv
  <2> QED BY <2>1, PlusRange, Zenon
<1> HIDE DEF Plus
<1>2. [i \in 0..(INPUT_BUF - 1) |->
         IF \E j \in 1..n : i = Plus(cons.e, -j) % INPUT_BUF THEN "x" ELSE cons.buf[i]]
        \in [0..(INPUT_BUF - 1) -> Keys]
  BY Zenon DEF IInv, TypeOK, ConsType, Keys
<1> QED
  BY <1>1, <1>2, Zenon DEF erase, IInv, TypeOK, ConsType

\* Inserting does.
LEMMA InsertType ==
  ASSUME IInv, NEW c \in Keys, insert(c)
  PROVE  ConsType'
<1>1. Plus(cons.e, 1) \in 0..(UINT - 1)
  <2>1. cons.e \in Int /\ 1 \in Int
    BY InputIndices DEF IInv
  <2> QED BY <2>1, PlusRange, Zenon
<1>2. [cons.buf EXCEPT ![cons.e % INPUT_BUF] = c] \in [0..(INPUT_BUF - 1) -> Keys]
  BY Zenon DEF IInv, TypeOK, ConsType
<1> QED
  BY <1>1, <1>2, Zenon DEF insert, IInv, TypeOK, ConsType

\* Reading does.
LEMMA ReadType ==
  ASSUME IInv, cons' = Consumed
  PROVE  ConsType'
<1>1. Plus(cons.r, 1) \in 0..(UINT - 1)
  <2>1. cons.r \in Int /\ 1 \in Int
    BY InputIndices DEF IInv
  <2> QED BY <2>1, PlusRange, Zenon
<1>2. [cons.buf EXCEPT ![cons.r % INPUT_BUF] = "x"] \in [0..(INPUT_BUF - 1) -> Keys]
  BY Zenon DEF IInv, TypeOK, ConsType, Keys
<1> QED
  BY <1>1, <1>2, Zenon DEF Consumed, IInv, TypeOK, ConsType

\* ^U erases some characters, or none.
LEMMA ToEraseNat ==
  ASSUME IInv
  PROVE  ToErase \in Nat
<1>1. ToErase \in 0..Dist(cons.w, cons.e)
  BY ToEraseRange, Zenon DEF IInv
<1>2. cons.e - cons.w \in Int /\ UINT \in Nat \ {0}
  BY InputIndices, Sizes DEF IInv
<1>3. Dist(cons.w, cons.e) \in 0..(UINT - 1)
  BY <1>2, ModRange, Zenon DEF Dist
<1> QED
  BY <1>1, <1>2, <1>3

\* Every step keeps the type of the input ring.
LEMMA ConsTypeStep ==
  ASSUME IInv, [Next]_vars
  PROVE  ConsType'
<1>1. ASSUME NEW c \in Keys, consoleintr(c) PROVE ConsType'
  <2>1. CASE c = "kill"
    <3>1. erase(ToErase)
      BY <1>1, <2>1, Zenon DEF consoleintr
    <3> QED BY <3>1, ToEraseNat, EraseType, Zenon
  <2>2. CASE c = "erase"
    <3> DEFINE n == IF cons.e = cons.w THEN 0 ELSE 1
    <3>1. erase(n) /\ n \in Nat
      BY <1>1, <2>2, Zenon DEF consoleintr
    <3> HIDE DEF n
    <3> QED BY <3>1, EraseType, Zenon
  <2>3. CASE c \notin {"kill", "erase"} /\ HasRoom
    <3>1. insert(c)
      BY <1>1, <2>3, Zenon DEF consoleintr
    <3> QED BY <3>1, InsertType, Zenon
  <2>4. CASE c \notin {"kill", "erase"} /\ ~HasRoom
    <3>1. cons' = cons
      BY <1>1, <2>4, Zenon DEF consoleintr
    <3> QED BY <3>1, Zenon DEF IInv, TypeOK, ConsType
  <2> QED BY <2>1, <2>2, <2>3, <2>4, Zenon
<1>2. ASSUME NEW p \in Readers, read_eof(p) PROVE ConsType'
  <2>1. cons' = cons \/ cons' = Consumed
    BY <1>2, Zenon DEF read_eof
  <2> QED BY <2>1, ReadType, Zenon DEF IInv, TypeOK, ConsType
<1>3. ASSUME NEW p \in Readers, NEW copied \in BOOLEAN, read_byte(p, copied) PROVE ConsType'
  <2>1. cons' = Consumed
    BY <1>3, Zenon DEF read_byte
  <2> QED BY <2>1, ReadType, Zenon
<1>4. CASE ~InputActs
  <2>1. cons' = cons
    BY <1>4, InputChanges, Zenon
  <2> QED BY <2>1, Zenon DEF IInv, TypeOK, ConsType
<1> QED
  BY <1>1, <1>2, <1>3, <1>4, Zenon DEF InputActs

\* uartputc() keeps the type of the transmit ring.
LEMMA TxPutType ==
  ASSUME IInv, NEW p \in Writers,
         tx' = [tx EXCEPT !.buf[tx.w % TX_BUF] = p, !.w = (@ + 1) % UINT64]
  PROVE  TxType'
<1>1. tx.w + 1 \in Int /\ UINT64 \in Nat \ {0}
  BY Sizes, OutputIndices
<1>2. (tx.w + 1) % UINT64 \in 0..(UINT64 - 1)
  BY <1>1, ModRange, Zenon
<1>3. [tx.buf EXCEPT ![tx.w % TX_BUF] = p] \in [0..(TX_BUF - 1) -> Writers \cup {None}]
  BY Zenon DEF IInv, TypeOK, TxType
<1> QED
  BY <1>2, <1>3, Zenon DEF IInv, TypeOK, TxType

\* uartstart() keeps it.
LEMMA TxGetType ==
  ASSUME IInv,
         tx' = [tx EXCEPT !.buf[tx.r % TX_BUF] = None, !.r = (@ + 1) % UINT64]
  PROVE  TxType'
<1>1. tx.r + 1 \in Int /\ UINT64 \in Nat \ {0}
  BY Sizes, OutputIndices
<1>2. (tx.r + 1) % UINT64 \in 0..(UINT64 - 1)
  BY <1>1, ModRange, Zenon
<1>3. [tx.buf EXCEPT ![tx.r % TX_BUF] = None] \in [0..(TX_BUF - 1) -> Writers \cup {None}]
  BY Zenon DEF IInv, TypeOK, TxType
<1> QED
  BY <1>2, <1>3, Zenon DEF IInv, TypeOK, TxType

\* Of the transmit ring.
LEMMA TxTypeStep ==
  ASSUME IInv, [Next]_vars
  PROVE  TxType'
<1>1. ASSUME intr_send PROVE TxType'
  BY <1>1, TxGetType, Zenon DEF intr_send, send
<1>2. ASSUME NEW p \in Writers, uartputc(p) PROVE TxType'
  BY <1>2, TxPutType, Zenon DEF uartputc
<1>3. ASSUME NEW p \in Writers, putc_send(p) PROVE TxType'
  BY <1>3, TxGetType, Zenon DEF putc_send, send
<1>4. CASE ~OutputActs
  <2>1. tx' = tx
    BY <1>4, OutputChanges, Zenon
  <2> QED BY <2>1, Zenon DEF IInv, TypeOK, TxType
<1> QED
  BY <1>1, <1>2, <1>3, <1>4, Zenon DEF OutputActs

\* Of what the handler works on.
LEMMA HandlerTypeStep ==
  ASSUME IInv, [Next]_vars
  PROVE  HandlerType'
<1>1. ASSUME uartintr PROVE HandlerType'
  BY <1>1, Zenon DEF uartintr, IInv, TypeOK, HandlerType, HandlerLocations
<1>2. ASSUME NEW c \in Keys, consoleintr(c) PROVE HandlerType'
  <2>1. \E n \in Nat : h' = [pc |-> "echo", echo |-> n]
    BY <1>2, ToEraseNat, Zenon DEF consoleintr, erase, insert
  <2>2. lock' = [lock EXCEPT !.cons = "intr"] /\ dev' = [dev EXCEPT !.rx = FALSE]
    BY <1>2, Zenon DEF consoleintr
  <2>3. h' \in [pc : HandlerLocations, echo : Nat] /\ h'.pc # "echo_send"
    BY <2>1 DEF HandlerLocations
  <2>4. /\ lock' \in [cons : Readers \cup {"intr", None}, uart : Writers \cup {"intr", None}]
        /\ dev' \in [thr : Nat, rx : BOOLEAN, irq : BOOLEAN]
    BY <2>2, Zenon DEF IInv, TypeOK, HandlerType
  <2> QED BY <2>3, <2>4, Zenon DEF HandlerType
<1>3. ASSUME echo_ready PROVE HandlerType'
  BY <1>3, Zenon DEF echo_ready, IInv, TypeOK, HandlerType, HandlerLocations
<1>4. ASSUME echo_send PROVE HandlerType'
  BY <1>4 DEF echo_send, IInv, TypeOK, HandlerType, HandlerLocations
<1>5. ASSUME echo_done PROVE HandlerType'
  BY <1>5, Zenon DEF echo_done, IInv, TypeOK, HandlerType, HandlerLocations
<1>6. ASSUME uartintr_tx PROVE HandlerType'
  BY <1>6, Zenon DEF uartintr_tx, IInv, TypeOK, HandlerType, HandlerLocations
<1>7. ASSUME intr_stop PROVE HandlerType'
  BY <1>7, Zenon DEF intr_stop, IInv, TypeOK, HandlerType, HandlerLocations
<1>8. ASSUME intr_ready PROVE HandlerType'
  BY <1>8, Zenon DEF intr_ready, IInv, TypeOK, HandlerType, HandlerLocations
<1>9. ASSUME intr_send PROVE HandlerType'
  BY <1>9 DEF intr_send, send, IInv, TypeOK, HandlerType, HandlerLocations
<1>10. ASSUME dev_send PROVE HandlerType'
  <2>1. (dev.irq \/ dev.thr = 1) \in BOOLEAN /\ dev.thr - 1 \in Nat
    BY <1>10 DEF dev_send, IInv, TypeOK, HandlerType
  <2>2. dev' = [dev EXCEPT !.thr = dev.thr - 1, !.irq = dev.irq \/ dev.thr = 1]
    BY <1>10, Zenon DEF dev_send
  <2>3. dev' \in [thr : Nat, rx : BOOLEAN, irq : BOOLEAN]
    <3> DEFINE irq == dev.irq \/ dev.thr = 1
               thr == dev.thr - 1
    <3>1. dev' = [dev EXCEPT !.thr = thr, !.irq = irq] /\ irq \in BOOLEAN /\ thr \in Nat
      BY <2>1, <2>2, Zenon
    <3> HIDE DEF irq, thr
    <3> QED BY <3>1, Zenon DEF IInv, TypeOK, HandlerType
  <2> QED BY <1>10, <2>3, Zenon DEF dev_send, IInv, TypeOK, HandlerType
<1>11. ASSUME dev_receive PROVE HandlerType'
  BY <1>11, Zenon DEF dev_receive, IInv, TypeOK, HandlerType, HandlerLocations
<1>12. ASSUME NEW p \in Readers, read_lock(p) PROVE HandlerType'
  BY <1>12, Zenon DEF read_lock, Goto, IInv, TypeOK, HandlerType, HandlerLocations
<1>13. ASSUME NEW p \in Readers, read_sleep(p) PROVE HandlerType'
  BY <1>13, Zenon DEF read_sleep, Leave, IInv, TypeOK, HandlerType, HandlerLocations
<1>14. ASSUME NEW p \in Readers, read_eof(p) PROVE HandlerType'
  BY <1>14, Zenon DEF read_eof, Leave, IInv, TypeOK, HandlerType, HandlerLocations
<1>15. ASSUME NEW p \in Readers, read_done(p) PROVE HandlerType'
  BY <1>15, Zenon DEF read_done, Leave, IInv, TypeOK, HandlerType, HandlerLocations
<1>16. ASSUME NEW p \in Readers, NEW copied \in BOOLEAN, read_byte(p, copied) PROVE HandlerType'
  BY <1>16 DEF read_byte, Leave, IInv, TypeOK, HandlerType, HandlerLocations
<1>17. ASSUME NEW p \in Readers, kill(p) PROVE HandlerType'
  BY <1>17 DEF kill, IInv, TypeOK, HandlerType, HandlerLocations
<1>18. ASSUME NEW p \in Writers, consolewrite_return(p) PROVE HandlerType'
  BY <1>18 DEF consolewrite_return, IInv, TypeOK, HandlerType, HandlerLocations
<1>19. ASSUME NEW p \in Writers, uartputc_sleep(p) PROVE HandlerType'
  BY <1>19, Zenon DEF uartputc_sleep, Goto, IInv, TypeOK, HandlerType, HandlerLocations
<1>20. ASSUME NEW p \in Writers, uartputc(p) PROVE HandlerType'
  BY <1>20, Zenon DEF uartputc, Goto, IInv, TypeOK, HandlerType, HandlerLocations
<1>21. ASSUME NEW p \in Writers, putc_stop(p) PROVE HandlerType'
  BY <1>21, Zenon DEF putc_stop, Goto, IInv, TypeOK, HandlerType, HandlerLocations
<1>22. ASSUME NEW p \in Writers, putc_ready(p) PROVE HandlerType'
  BY <1>22 DEF putc_ready, Goto, IInv, TypeOK, HandlerType, HandlerLocations
<1>23. ASSUME NEW p \in Writers, putc_send(p) PROVE HandlerType'
  BY <1>23 DEF putc_send, send, IInv, TypeOK, HandlerType, HandlerLocations
<1>24. ASSUME NEW p \in Writers, consolewrite(p) PROVE HandlerType'
  BY <1>24 DEF consolewrite, Goto, IInv, TypeOK, HandlerType, HandlerLocations
<1>25. ASSUME NEW p \in Readers, NEW n \in 1..MaxCount, consoleread(p, n) PROVE HandlerType'
  BY <1>25 DEF consoleread, IInv, TypeOK, HandlerType, HandlerLocations
<1>26. ASSUME UNCHANGED vars PROVE HandlerType'
  BY <1>26 DEF vars, IInv, TypeOK, HandlerType, HandlerLocations
<1> QED
  BY <1>1, <1>2, <1>3, <1>4, <1>5, <1>6, <1>7, <1>8, <1>9, <1>10, <1>11, <1>12, <1>13,
       <1>14, <1>15, <1>16, <1>17, <1>18, <1>19, <1>20, <1>21, <1>22, <1>23, <1>24,
       <1>25, <1>26, Zenon DEF Next, Handler, Reader, Writer

\* Of the processes.
LEMMA ThreadTypeStep ==
  ASSUME IInv, [Next]_vars
  PROVE  ThreadType'
<1>1. ASSUME uartintr PROVE ThreadType'
  BY <1>1, Zenon DEF uartintr, IInv, TypeOK, ThreadType, Thread, ThreadLocations, Procs
<1>2. ASSUME NEW c \in Keys, consoleintr(c) PROVE ThreadType'
  BY <1>2 DEF consoleintr, IInv, TypeOK, ThreadType, Thread, ThreadLocations, Procs,
       At, erase, insert, Woken
<1>3. ASSUME echo_ready PROVE ThreadType'
  BY <1>3, Zenon DEF echo_ready, IInv, TypeOK, ThreadType, Thread, ThreadLocations,
       Procs
<1>4. ASSUME echo_send PROVE ThreadType'
  BY <1>4, Zenon DEF echo_send, IInv, TypeOK, ThreadType, Thread, ThreadLocations, Procs
<1>5. ASSUME echo_done PROVE ThreadType'
  BY <1>5, Zenon DEF echo_done, IInv, TypeOK, ThreadType, Thread, ThreadLocations, Procs
<1>6. ASSUME uartintr_tx PROVE ThreadType'
  BY <1>6, Zenon DEF uartintr_tx, IInv, TypeOK, ThreadType, Thread, ThreadLocations,
       Procs
<1>7. ASSUME intr_stop PROVE ThreadType'
  BY <1>7, Zenon DEF intr_stop, IInv, TypeOK, ThreadType, Thread, ThreadLocations, Procs
<1>8. ASSUME intr_ready PROVE ThreadType'
  BY <1>8, Zenon DEF intr_ready, IInv, TypeOK, ThreadType, Thread, ThreadLocations,
       Procs
<1>9. ASSUME intr_send PROVE ThreadType'
  BY <1>9 DEF intr_send, send, IInv, TypeOK, ThreadType, Thread, ThreadLocations, Procs
<1>10. ASSUME dev_send PROVE ThreadType'
  BY <1>10, Zenon DEF dev_send, IInv, TypeOK, ThreadType, Thread, ThreadLocations, Procs
<1>11. ASSUME dev_receive PROVE ThreadType'
  BY <1>11, Zenon DEF dev_receive, IInv, TypeOK, ThreadType, Thread, ThreadLocations,
       Procs
<1>12. ASSUME NEW p \in Readers, read_lock(p) PROVE ThreadType'
  BY <1>12 DEF read_lock, Goto, IInv, TypeOK, ThreadType, Thread, ThreadLocations, Procs
<1>13. ASSUME NEW p \in Readers, read_sleep(p) PROVE ThreadType'
  BY <1>13 DEF read_sleep, Leave, IInv, TypeOK, ThreadType, Thread, ThreadLocations,
       Procs, Idle
<1>14. ASSUME NEW p \in Readers, read_eof(p) PROVE ThreadType'
  BY <1>14, Zenon DEF read_eof, Leave, IInv, TypeOK, ThreadType, Thread,
       ThreadLocations, Procs, Idle
<1>15. ASSUME NEW p \in Readers, read_done(p) PROVE ThreadType'
  BY <1>15, Zenon DEF read_done, Leave, IInv, TypeOK, ThreadType, Thread,
       ThreadLocations, Procs, Idle
<1>16. ASSUME NEW p \in Readers, NEW copied \in BOOLEAN, read_byte(p, copied) PROVE ThreadType'
  <2>1. CASE copied /\ cons.buf[cons.r % INPUT_BUF] # "nl"
    <3>1. th' = [th EXCEPT ![p] = [th[p] EXCEPT !.n = th[p].n - 1]] /\ killed' = killed
      BY <1>16, <2>1, Zenon DEF read_byte
    <3>2. th[p].n > 0 /\ th[p] \in Thread /\ p \in Procs
      BY <1>16, Zenon DEF read_byte, IInv, TypeOK, ThreadType, Procs
    <3>3. [th[p] EXCEPT !.n = th[p].n - 1] \in Thread
      BY <3>2 DEF Thread
    <3> QED BY <3>1, <3>3, Zenon DEF IInv, TypeOK, ThreadType
  <2>2. CASE ~(copied /\ cons.buf[cons.r % INPUT_BUF] # "nl")
    <3>1. Leave(p, Idle)
      BY <1>16, <2>2, Zenon DEF read_byte
    <3> QED BY <3>1, Zenon DEF Leave, IInv, TypeOK, ThreadType, Thread,
                 ThreadLocations, Procs, Idle
  <2> QED BY <2>1, <2>2, Zenon
<1>17. ASSUME NEW p \in Readers, kill(p) PROVE ThreadType'
  BY <1>17 DEF kill, IInv, TypeOK, ThreadType, Thread, ThreadLocations, Procs, At
<1>18. ASSUME NEW p \in Writers, consolewrite_return(p) PROVE ThreadType'
  BY <1>18, Zenon DEF consolewrite_return, IInv, TypeOK, ThreadType, Thread,
       ThreadLocations, Procs, Idle
<1>19. ASSUME NEW p \in Writers, uartputc_sleep(p) PROVE ThreadType'
  BY <1>19 DEF uartputc_sleep, Goto, IInv, TypeOK, ThreadType, Thread, ThreadLocations,
       Procs
<1>20. ASSUME NEW p \in Writers, uartputc(p) PROVE ThreadType'
  BY <1>20 DEF uartputc, Goto, IInv, TypeOK, ThreadType, Thread, ThreadLocations, Procs
<1>21. ASSUME NEW p \in Writers, putc_stop(p) PROVE ThreadType'
  BY <1>21 DEF putc_stop, Goto, IInv, TypeOK, ThreadType, Thread, ThreadLocations, Procs
<1>22. ASSUME NEW p \in Writers, putc_ready(p) PROVE ThreadType'
  BY <1>22 DEF putc_ready, Goto, IInv, TypeOK, ThreadType, Thread, ThreadLocations,
       Procs
<1>23. ASSUME NEW p \in Writers, putc_send(p) PROVE ThreadType'
  BY <1>23 DEF putc_send, send, IInv, TypeOK, ThreadType, Thread, ThreadLocations, Procs
<1>24. ASSUME NEW p \in Writers, consolewrite(p) PROVE ThreadType'
  BY <1>24 DEF consolewrite, Goto, IInv, TypeOK, ThreadType, Thread, ThreadLocations,
       Procs
<1>25. ASSUME NEW p \in Readers, NEW n \in 1..MaxCount, consoleread(p, n) PROVE ThreadType'
  BY <1>25 DEF consoleread, IInv, TypeOK, ThreadType, Thread, ThreadLocations, Procs
<1>26. ASSUME UNCHANGED vars PROVE ThreadType'
  BY <1>26, Zenon DEF vars, IInv, TypeOK, ThreadType, Thread, ThreadLocations, Procs
<1> QED
  BY <1>1, <1>2, <1>3, <1>4, <1>5, <1>6, <1>7, <1>8, <1>9, <1>10, <1>11, <1>12, <1>13,
       <1>14, <1>15, <1>16, <1>17, <1>18, <1>19, <1>20, <1>21, <1>22, <1>23, <1>24,
       <1>25, <1>26, Zenon DEF Next, Handler, Reader, Writer

------------------------------------------------------------------------------
\* Initially everything is empty.
LEMMA InitInv == Init => IInv
<1> SUFFICES ASSUME Init PROVE IInv
  BY Zenon
<1>1. INPUT_BUF \in Nat \ {0} /\ TX_BUF \in Nat \ {0} /\ UINT \in Nat \ {0} /\ UINT64 \in Nat \ {0}
  BY Sizes, Zenon
<1>2. 0 \in 0..(UINT - 1) /\ 0 \in 0..(UINT64 - 1) /\ 0 - 0 = 0
  BY <1>1
<1>3. 0 % UINT = 0 /\ 0 % UINT64 = 0
  BY <1>1, <1>2, ModSmall, Zenon
<1>4. cons.r = 0 /\ cons.w = 0 /\ cons.e = 0 /\ tx.r = 0 /\ tx.w = 0
  BY Zenon DEF Init
<1>5. Dist(cons.r, cons.w) = 0 /\ Dist(cons.r, cons.e) = 0 /\ TxCount = 0
  BY <1>2, <1>3, <1>4, Zenon DEF Dist, TxCount
<1>6. ConsType /\ TxType
  BY <1>2, Zenon DEF Init, ConsType, TxType, Keys
<1>7. HandlerType /\ ThreadType
  BY Zenon DEF Init, HandlerType, HandlerLocations, ThreadType, Thread,
       ThreadLocations, Idle
<1>8. Ordered /\ FullIsReadable
  BY <1>1, <1>5 DEF Ordered, FullIsReadable
<1>9. Sending /\ OutputMoves
  BY <1>1, <1>4, <1>5 DEF Init, Sending, Holding, OutputMoves, Idle
<1> QED
  BY <1>6, <1>7, <1>8, <1>9, Zenon DEF IInv, TypeOK

\* Every step keeps the invariant, and what is in the rings.
LEMMA Step ==
  ASSUME IInv, [Next]_vars
  PROVE  IInv' /\ Kept(cons, cons', INPUT_BUF, UINT) /\ Kept(tx, tx', TX_BUF, UINT64)
<1>1. InputKept /\ OutputKept
  BY InputStep, OutputStep, Zenon
<1>2. ConsType' /\ TxType' /\ HandlerType' /\ ThreadType'
  BY ConsTypeStep, TxTypeStep, HandlerTypeStep, ThreadTypeStep, Zenon
<1>3. Holding' /\ OutputMoves'
  BY HoldingStep, MovesStep, Zenon
<1>4. Sending'
  BY <1>1, <1>3, Zenon DEF OutputKept, Sending
<1> QED
  BY <1>1, <1>2, <1>3, <1>4, Zenon DEF InputKept, OutputKept, IInv, TypeOK

\* The invariant holds of console.c and uart.c.
THEOREM Invariance == Spec => []IInv
<1>1. IInv /\ [Next]_vars => IInv'
  BY Step, Zenon
<1> QED
  BY InitInv, <1>1, PTL DEF Spec

\* A full input buffer can be read: consoleintr() counts it as a line.
THEOREM InputSafety == Spec => []FullIsReadable
<1>1. IInv => FullIsReadable
  BY Zenon DEF IInv
<1> QED
  BY Invariance, <1>1, PTL

\* Buffered output does not get stuck: somebody is in uartstart(), or an interrupt
\* will come that leads there.
THEOREM OutputSafety == Spec => []OutputMoves
<1>1. IInv => OutputMoves
  BY Zenon DEF IInv
<1> QED
  BY Invariance, <1>1, PTL

\* Neither ring overwrites what was not read or sent yet, also when its indices
\* wrap around.
THEOREM KeptSafety == Spec => NotOverwritten
<1>1. IInv /\ [Next]_vars =>
        [Kept(cons, cons', INPUT_BUF, UINT) /\ Kept(tx, tx', TX_BUF, UINT64)]_vars
  BY Step, Zenon
<1> QED
  BY Invariance, <1>1, PTL DEF Spec, NotOverwritten

==============================================================================
