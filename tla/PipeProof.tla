------------------------------ MODULE PipeProof ------------------------------
(***************************************************************************)
(* Proofs about the pipe of kernel/pipe.c, for any number of processes and *)
(* any PIPESIZE: no wakeup is lost, the page is not used after it is       *)
(* freed, and the pipe implements the bounded queue of module Fifo.        *)
(***************************************************************************)
EXTENDS Pipe, ModularArithmetic

\* Locations of a process that has pi->lock.
Locked == {"w_loop", "w_put", "r_loop", "r_check", "r_copy"}

\* The type of every variable.
TypeOK ==
  /\ lock \in Procs \cup {None}
  /\ data \in [0..(PIPESIZE - 1) -> Bytes]
  /\ nread \in 0..(UINT - 1) /\ nwrite \in 0..(UINT - 1)
  /\ readopen \in BOOLEAN /\ writeopen \in BOOLEAN /\ freed \in BOOLEAN
  /\ ends \in [Procs -> SUBSET {"r", "w"}]
  /\ pc \in [Procs -> {"idle"} \cup Writing \cup Reading \cup Closing]
  /\ i \in [Procs -> Nat] /\ n \in [Procs -> Nat]
  /\ killed \in [Procs -> BOOLEAN]

\* Who has the lock, and that a process in a call has the end it works on open.
InCall == \A p \in Procs :
  /\ lock = p <=> pc[p] \in Locked
  /\ pc[p] \in Writing => "w" \in ends[p]
  /\ pc[p] \in Reading => "r" \in ends[p]

\* readopen and writeopen: an end is open until the process that dropped its
\* last reference has been through pipeclose().
Closer(e) == IF e = "w" THEN "close_w" ELSE "close_r"
IsOpen(e) == IF e = "w" THEN writeopen ELSE readopen
OpenEnds ==
  /\ \A e \in {"r", "w"} :
       IsOpen(e) <=> \E p \in Procs : e \in ends[p] \/ pc[p] = Closer(e)
  /\ \A e \in {"r", "w"}, p \in Procs : pc[p] = Closer(e) =>
       \A q \in Procs : e \notin ends[q] /\ (q # p => pc[q] # Closer(e))
  /\ freed <=> ~readopen /\ ~writeopen

\* The counters, and what a process knows of them where it holds the lock.
Bounded ==
  /\ Count <= PIPESIZE
  /\ \A p \in Procs :
       /\ pc[p] = "w_put" => readopen
       /\ pc[p] = "r_check" => Empty /\ writeopen

\* What sleepers wait for is still so, or somebody who has the lock will wake
\* them before he gives it up.
Asleep == \A p \in Procs :
  /\ pc[p] = "w_sleep" => readopen /\ (Full \/ \E q \in Procs : pc[q] = "r_copy")
  /\ pc[p] = "r_sleep" => writeopen /\
       \/ Empty
       \/ \E w \in Procs : killed[w] \/ pc[w] \in {"w_loop", "w_put"}

\* The inductive invariant.
IInv == TypeOK /\ InCall /\ OpenEnds /\ Bounded /\ Asleep

------------------------------------------------------------------------------
\* The counters.

\* The buffer and the counters have a size, and the counters are larger.
LEMMA Sizes ==
  PIPESIZE \in Nat \ {0} /\ UINT \in Nat \ {0} /\ MaxN \in Nat /\ PIPESIZE < UINT
<1>1. PICK k \in 2..UINT : UINT = k * PIPESIZE
  BY SizeAssumption
<1>2. k * PIPESIZE >= 2 * PIPESIZE
  BY <1>1, SizeAssumption
<1> QED BY <1>1, <1>2, SizeAssumption

\* The bytes in the buffer, and the code's tests on the counters.
LEMMA CountIs ==
  ASSUME TypeOK
  PROVE  /\ Count \in 0..(UINT - 1)
         /\ Full <=> Count = PIPESIZE
         /\ Empty <=> Count = 0
<1>1. UINT \in Nat \ {0} /\ PIPESIZE \in 1..(UINT - 1)
  BY Sizes
<1>2. nread \in 0..(UINT - 1) /\ nwrite \in 0..(UINT - 1)
  BY DEF TypeOK
<1> QED BY <1>1, <1>2, RingTests, Zenon DEF Full, Empty, Count

\* A byte more.
LEMMA CountPut ==
  ASSUME TypeOK, Count <= PIPESIZE, ~Full, nwrite' = (nwrite + 1) % UINT, nread' = nread
  PROVE  nwrite' \in 0..(UINT - 1) /\ Count' = Count + 1 /\ Count < PIPESIZE
<1>1. PICK c \in 0..(UINT - 1) : c = Count
  BY CountIs
<1>2. c < PIPESIZE /\ c # UINT - 1 /\ UINT \in Nat \ {0}
  BY <1>1, CountIs, Sizes
<1>3. nread \in 0..(UINT - 1) /\ nwrite \in 0..(UINT - 1)
  BY DEF TypeOK
<1> QED BY <1>1, <1>2, <1>3, RingPut, Zenon DEF Count

\* A byte less.
LEMMA CountGet ==
  ASSUME TypeOK, ~Empty, nread' = (nread + 1) % UINT, nwrite' = nwrite
  PROVE  nread' \in 0..(UINT - 1) /\ Count' = Count - 1
<1>1. nread \in 0..(UINT - 1) /\ nwrite \in 0..(UINT - 1) /\ nread # nwrite
  BY DEF TypeOK, Empty
<1>2. UINT \in Nat \ {0}
  BY Sizes
<1> QED BY <1>1, <1>2, RingGet, Zenon DEF Count

------------------------------------------------------------------------------
\* Every conjunct of the invariant is kept by every step.

\* The types.
LEMMA TypeStep == IInv /\ [Next]_vars => TypeOK'
<1> SUFFICES ASSUME IInv, [Next]_vars PROVE TypeOK'
  OBVIOUS
<1> USE DEF IInv, TypeOK, pipe, thread, At, Goto, Return, WakeReaders, WakeWriters, Writing, Reading, Closing, Locked
<1>1. ASSUME NEW p \in Procs, NEW m \in 0..MaxN, pipewrite(p, m)
      PROVE  TypeOK'
  BY <1>1, Sizes DEF pipewrite
<1>2. ASSUME NEW p \in Procs, pipewrite_check(p)
      PROVE  TypeOK'
  <2>1. CASE Return(p, pc)
    BY <1>2, <2>1 DEF pipewrite_check
  <2>2. CASE pc' = Goto(p, "w_put") /\ UNCHANGED <<lock, i, n>>
    BY <1>2, <2>2 DEF pipewrite_check
  <2> QED BY <1>2, <2>1, <2>2 DEF pipewrite_check
<1>3. ASSUME NEW p \in Procs, pipewrite_sleep(p)
      PROVE  TypeOK'
  BY <1>3 DEF pipewrite_sleep
<1>4. ASSUME NEW p \in Procs, NEW b \in Bytes, pipewrite_put(p, b)
      PROVE  TypeOK'
  <2>1. nwrite' \in 0..(UINT - 1)
    BY <1>4, CountPut DEF pipewrite_put, Bounded
  <2>2. PICK k : data' = [data EXCEPT ![k] = b]
    BY <1>4 DEF pipewrite_put
  <2> HIDE DEF TypeOK
  <2>3. i[p] + 1 \in Nat
    BY DEF TypeOK
  <2> QED BY <1>4, <2>1, <2>2, <2>3 DEF pipewrite_put, TypeOK
<1>5. ASSUME NEW p \in Procs, pipewrite_return(p)
      PROVE  TypeOK'
  BY <1>5 DEF pipewrite_return
<1>6. ASSUME NEW p \in Procs, wake(p)
      PROVE  TypeOK'
  BY <1>6 DEF wake
<1>7. ASSUME NEW p \in Procs, NEW m \in 0..MaxN, piperead(p, m)
      PROVE  TypeOK'
  BY <1>7, Sizes DEF piperead
<1>8. ASSUME NEW p \in Procs, piperead_loop(p)
      PROVE  TypeOK'
  BY <1>8 DEF piperead_loop
<1>9. ASSUME NEW p \in Procs, piperead_check(p)
      PROVE  TypeOK'
  <2>1. CASE Return(p, pc)
    BY <1>9, <2>1 DEF piperead_check
  <2>2. CASE pc' = Goto(p, "r_sleep") /\ lock' = None /\ UNCHANGED <<i, n>>
    BY <1>9, <2>2 DEF piperead_check
  <2> QED BY <1>9, <2>1, <2>2 DEF piperead_check
<1>10. ASSUME NEW p \in Procs, piperead_get(p)
      PROVE  TypeOK'
  <2>1. nread' \in 0..(UINT - 1)
    BY <1>10, CountGet DEF piperead_get, TakeByte
  <2> QED BY <1>10, <2>1 DEF piperead_get, TakeByte
<1>11. ASSUME NEW p \in Procs, piperead_fault(p)
      PROVE  TypeOK'
  <2>1. nread' \in 0..(UINT - 1)
    BY <1>11, CountGet DEF piperead_fault, TakeByte
  <2> QED BY <1>11, <2>1 DEF piperead_fault, TakeByte
<1>12. ASSUME NEW p \in Procs, piperead_return(p)
      PROVE  TypeOK'
  BY <1>12 DEF piperead_return
<1>13. ASSUME NEW p \in Procs, NEW q \in Procs, fork(p, q)
      PROVE  TypeOK'
  BY <1>13 DEF fork
<1>14. ASSUME NEW p \in Procs, NEW e \in {"r", "w"}, fileclose(p, e)
      PROVE  TypeOK'
  BY <1>14 DEF fileclose
<1>15. ASSUME NEW p \in Procs, pipeclose(p)
      PROVE  TypeOK'
  BY <1>15 DEF pipeclose
<1>16. ASSUME NEW p \in Procs, kill(p)
      PROVE  TypeOK'
  BY <1>16 DEF kill
<1>17. CASE UNCHANGED vars
  BY <1>17 DEF vars, pipe, thread
<1> QED BY <1>1, <1>2, <1>3, <1>4, <1>5, <1>6, <1>7, <1>8, <1>9, <1>10, <1>11, <1>12, <1>13, <1>14, <1>15, <1>16, <1>17, Zenon DEF Next, CallStep

\* A call takes and gives up the lock where the code does.
LEMMA InCallStep == IInv /\ [Next]_vars => InCall'
<1> SUFFICES ASSUME IInv, [Next]_vars PROVE InCall'
  OBVIOUS
<1> USE NoneAssumption DEF IInv, TypeOK, InCall, pipe, thread, At, Goto, Return, WakeReaders, WakeWriters, Writing, Reading, Closing, Locked
<1>1. ASSUME NEW p \in Procs, NEW m \in 0..MaxN, pipewrite(p, m)
      PROVE  InCall'
  BY <1>1 DEF pipewrite
<1>2. ASSUME NEW p \in Procs, pipewrite_check(p)
      PROVE  InCall'
  BY <1>2 DEF pipewrite_check
<1>3. ASSUME NEW p \in Procs, pipewrite_sleep(p)
      PROVE  InCall'
  BY <1>3 DEF pipewrite_sleep
<1>4. ASSUME NEW p \in Procs, NEW b \in Bytes, pipewrite_put(p, b)
      PROVE  InCall'
  BY <1>4 DEF pipewrite_put
<1>5. ASSUME NEW p \in Procs, pipewrite_return(p)
      PROVE  InCall'
  BY <1>5 DEF pipewrite_return
<1>6. ASSUME NEW p \in Procs, wake(p)
      PROVE  InCall'
  BY <1>6 DEF wake
<1>7. ASSUME NEW p \in Procs, NEW m \in 0..MaxN, piperead(p, m)
      PROVE  InCall'
  BY <1>7 DEF piperead
<1>8. ASSUME NEW p \in Procs, piperead_loop(p)
      PROVE  InCall'
  BY <1>8 DEF piperead_loop
<1>9. ASSUME NEW p \in Procs, piperead_check(p)
      PROVE  InCall'
  BY <1>9 DEF piperead_check
<1>10. ASSUME NEW p \in Procs, piperead_get(p)
      PROVE  InCall'
  BY <1>10 DEF piperead_get, TakeByte
<1>11. ASSUME NEW p \in Procs, piperead_fault(p)
      PROVE  InCall'
  BY <1>11 DEF piperead_fault, TakeByte
<1>12. ASSUME NEW p \in Procs, piperead_return(p)
      PROVE  InCall'
  BY <1>12 DEF piperead_return
<1>13. ASSUME NEW p \in Procs, NEW q \in Procs, fork(p, q)
      PROVE  InCall'
  BY <1>13 DEF fork
<1>14. ASSUME NEW p \in Procs, NEW e \in {"r", "w"}, fileclose(p, e)
      PROVE  InCall'
  BY <1>14 DEF fileclose
<1>15. ASSUME NEW p \in Procs, pipeclose(p)
      PROVE  InCall'
  <2>1. UNCHANGED <<lock, ends>> /\ lock = None
    BY <1>15 DEF pipeclose
  <2>2. \A q \in Procs : pc'[q] \in {pc[q], "idle", "r_woken", "w_woken"}
                         /\ (pc'[q] = "r_woken" => pc[q] \in {"r_sleep", "r_woken"})
                         /\ (pc'[q] = "w_woken" => pc[q] \in {"w_sleep", "w_woken"})
    <3>1. CASE pc[p] = "close_w"
      BY <1>15, <3>1 DEF pipeclose
    <3>2. CASE pc[p] = "close_r"
      BY <1>15, <3>2 DEF pipeclose
    <3> QED BY <1>15, <3>1, <3>2 DEF pipeclose
  <2> QED BY <2>1, <2>2
<1>16. ASSUME NEW p \in Procs, kill(p)
      PROVE  InCall'
  BY <1>16 DEF kill
<1>17. CASE UNCHANGED vars
  BY <1>17 DEF vars, pipe, thread
<1> HIDE DEF IInv, TypeOK, InCall, pipe, thread, At, Goto, Return
<1> QED BY <1>1, <1>2, <1>3, <1>4, <1>5, <1>6, <1>7, <1>8, <1>9, <1>10, <1>11, <1>12, <1>13, <1>14, <1>15, <1>16, <1>17, Zenon DEF Next, CallStep

\* A step that opens and closes nothing.
LEMMA OpenEndsFrame ==
  ASSUME TypeOK, OpenEnds, UNCHANGED <<readopen, writeopen, freed, ends>>,
         \A q \in Procs : pc[q] \in Closing \/ pc'[q] \in Closing => pc'[q] = pc[q]
  PROVE  OpenEnds'
BY DEF TypeOK, OpenEnds, IsOpen, Closer, Closing

\* Ends are opened by fork() and closed by fileclose() and pipeclose().
LEMMA OpenEndsStep == IInv /\ [Next]_vars => OpenEnds'
<1> SUFFICES ASSUME IInv, [Next]_vars PROVE OpenEnds'
  OBVIOUS
<1> USE DEF IInv, TypeOK
<1>1. ASSUME NEW p \in Procs, NEW m \in 0..MaxN, pipewrite(p, m)
      PROVE  OpenEnds'
  BY <1>1, OpenEndsFrame DEF pipewrite, pipe, thread, At, Goto, Return, WakeReaders, WakeWriters, Writing, Reading, Closing, Locked
<1>2. ASSUME NEW p \in Procs, pipewrite_check(p)
      PROVE  OpenEnds'
  BY <1>2, OpenEndsFrame DEF pipewrite_check, pipe, thread, At, Goto, Return, WakeReaders, WakeWriters, Writing, Reading, Closing, Locked
<1>3. ASSUME NEW p \in Procs, pipewrite_sleep(p)
      PROVE  OpenEnds'
  BY <1>3, OpenEndsFrame DEF pipewrite_sleep, pipe, thread, At, Goto, Return, WakeReaders, WakeWriters, Writing, Reading, Closing, Locked
<1>4. ASSUME NEW p \in Procs, NEW b \in Bytes, pipewrite_put(p, b)
      PROVE  OpenEnds'
  BY <1>4, OpenEndsFrame DEF pipewrite_put, pipe, thread, At, Goto, Return, WakeReaders, WakeWriters, Writing, Reading, Closing, Locked
<1>5. ASSUME NEW p \in Procs, pipewrite_return(p)
      PROVE  OpenEnds'
  BY <1>5, OpenEndsFrame DEF pipewrite_return, pipe, thread, At, Goto, Return, WakeReaders, WakeWriters, Writing, Reading, Closing, Locked
<1>6. ASSUME NEW p \in Procs, wake(p)
      PROVE  OpenEnds'
  BY <1>6, OpenEndsFrame DEF wake, pipe, thread, At, Goto, Return, WakeReaders, WakeWriters, Writing, Reading, Closing, Locked
<1>7. ASSUME NEW p \in Procs, NEW m \in 0..MaxN, piperead(p, m)
      PROVE  OpenEnds'
  BY <1>7, OpenEndsFrame DEF piperead, pipe, thread, At, Goto, Return, WakeReaders, WakeWriters, Writing, Reading, Closing, Locked
<1>8. ASSUME NEW p \in Procs, piperead_loop(p)
      PROVE  OpenEnds'
  BY <1>8, OpenEndsFrame DEF piperead_loop, pipe, thread, At, Goto, Return, WakeReaders, WakeWriters, Writing, Reading, Closing, Locked
<1>9. ASSUME NEW p \in Procs, piperead_check(p)
      PROVE  OpenEnds'
  BY <1>9, OpenEndsFrame DEF piperead_check, pipe, thread, At, Goto, Return, WakeReaders, WakeWriters, Writing, Reading, Closing, Locked
<1>10. ASSUME NEW p \in Procs, piperead_get(p)
      PROVE  OpenEnds'
  BY <1>10, OpenEndsFrame DEF piperead_get, TakeByte, pipe, thread, At, Goto, Return, WakeReaders, WakeWriters, Writing, Reading, Closing, Locked
<1>11. ASSUME NEW p \in Procs, piperead_fault(p)
      PROVE  OpenEnds'
  BY <1>11, OpenEndsFrame DEF piperead_fault, TakeByte, pipe, thread, At, Goto, Return, WakeReaders, WakeWriters, Writing, Reading, Closing, Locked
<1>12. ASSUME NEW p \in Procs, piperead_return(p)
      PROVE  OpenEnds'
  BY <1>12, OpenEndsFrame DEF piperead_return, pipe, thread, At, Goto, Return, WakeReaders, WakeWriters, Writing, Reading, Closing, Locked
<1>13. ASSUME NEW p \in Procs, NEW q \in Procs, fork(p, q)
      PROVE  OpenEnds'
  BY <1>13 DEF fork, OpenEnds, IsOpen, Closer, pipe, thread
<1>14. ASSUME NEW p \in Procs, NEW e \in {"r", "w"}, fileclose(p, e)
      PROVE  OpenEnds'
  <2> USE DEF OpenEnds, IsOpen, Closer
  <2>1. UNCHANGED <<readopen, writeopen, freed>>
    BY <1>14 DEF fileclose, pipe
  <2>2. /\ pc[p] = "idle" /\ e \in ends[p]
        /\ \A q \in Procs : ends'[q] = IF q = p THEN ends[p] \ {e} ELSE ends[q]
    BY <1>14 DEF fileclose
  <2>3. CASE \E q \in Procs \ {p} : e \in ends[q]
    <3>1. pc' = pc
      BY <1>14, <2>3 DEF fileclose
    <3>2. \A f \in {"r", "w"}, q \in Procs : f \in ends'[q] => f \in ends[q]
      BY <2>2
    <3>3. \A f \in {"r", "w"} : (\E q \in Procs : f \in ends'[q]) <=> (\E q \in Procs : f \in ends[q])
      <4>1. PICK r \in Procs : r # p /\ e \in ends[r]
        BY <2>3
      <4>2. e \in ends'[r]
        BY <2>2, <4>1
      <4>3. \A f \in {"r", "w"}, q \in Procs : f # e => (f \in ends'[q] <=> f \in ends[q])
        BY <2>2
      <4> QED BY <4>1, <4>2, <4>3
    <3>4. \A f \in {"r", "w"} : IsOpen(f)' = IsOpen(f)
      BY <2>1
    <3> HIDE DEF IsOpen, Closer
    <3>5. \A f \in {"r", "w"} : IsOpen(f)' <=> \E q \in Procs : f \in ends'[q] \/ pc'[q] = Closer(f)
      BY <3>1, <3>3, <3>4
    <3>6. \A f \in {"r", "w"}, r \in Procs : pc'[r] = Closer(f) =>
            \A q \in Procs : f \notin ends'[q] /\ (q # r => pc'[q] # Closer(f))
      BY <3>1, <3>2
    <3> QED BY <2>1, <3>5, <3>6 DEF Closer, IsOpen
  <2>4. CASE \A q \in Procs \ {p} : e \notin ends[q]
    <3>1. \A q \in Procs : pc'[q] = IF q = p THEN Closer(e) ELSE pc[q]
      BY <1>14, <2>4 DEF fileclose, Goto
    <3>2. \A q \in Procs : pc[q] # Closer(e)
      BY <2>2
    <3>3. ASSUME NEW f \in {"r", "w"}, f # e, NEW q \in Procs
          PROVE  (f \in ends'[q] <=> f \in ends[q]) /\ (pc'[q] = Closer(f) <=> pc[q] = Closer(f))
      BY <2>2, <3>1, <3>3
    <3>4. IsOpen(e)' /\ pc'[p] = Closer(e)
      BY <2>1, <2>2, <3>1
    <3>5. \A q \in Procs : e \notin ends'[q] /\ (q # p => pc'[q] # Closer(e))
      BY <2>2, <2>4, <3>1, <3>2
    <3>6. \A f \in {"r", "w"} : f # e => IsOpen(f)' = IsOpen(f)
      BY <2>1
    <3> HIDE DEF IsOpen, Closer
    <3>7. ASSUME NEW f \in {"r", "w"}
          PROVE  IsOpen(f)' <=> \E q \in Procs : f \in ends'[q] \/ pc'[q] = Closer(f)
      <4>1. CASE f = e
        BY <3>4, <4>1
      <4>2. CASE f # e
        <5>1. IsOpen(f) <=> \E q \in Procs : f \in ends[q] \/ pc[q] = Closer(f)
          OBVIOUS
        <5>2. \A q \in Procs : (f \in ends'[q] <=> f \in ends[q]) /\ (pc'[q] = Closer(f) <=> pc[q] = Closer(f))
          BY <3>3, <4>2
        <5> QED BY <3>6, <4>2, <5>1, <5>2, Zenon
      <4> QED BY <4>1, <4>2
    <3>8. ASSUME NEW f \in {"r", "w"}, NEW r \in Procs, pc'[r] = Closer(f), NEW q \in Procs
          PROVE  f \notin ends'[q] /\ (q # r => pc'[q] # Closer(f))
      <4>1. CASE f = e
        BY <3>5, <3>8, <4>1
      <4>2. CASE f # e
        <5>1. pc[r] = Closer(f) /\ (f \in ends'[q] <=> f \in ends[q]) /\ (pc'[q] = Closer(f) <=> pc[q] = Closer(f))
          BY <3>3, <3>8, <4>2
        <5> QED BY <5>1
      <4> QED BY <4>1, <4>2
    <3> QED BY <2>1, <3>7, <3>8 DEF Closer, IsOpen
  <2> QED BY <2>3, <2>4
<1>15. ASSUME NEW p \in Procs, pipeclose(p)
      PROVE  OpenEnds'
  <2> USE DEF OpenEnds, IsOpen, Closer
  <2>1. ends' = ends /\ (freed' <=> ~readopen' /\ ~writeopen')
    BY <1>15 DEF pipeclose
  <2>2. CASE pc[p] = "close_w"
    <3>1. ~writeopen' /\ readopen' = readopen
      BY <1>15, <2>2 DEF pipeclose
    <3>2. \A q \in Procs : pc'[q] # "close_w" /\ (pc'[q] = "close_r" <=> pc[q] = "close_r")
      BY <1>15, <2>2 DEF pipeclose, WakeReaders
    <3> QED BY <1>15, <2>1, <2>2, <3>1, <3>2
  <2>3. CASE pc[p] = "close_r"
    <3>1. ~readopen' /\ writeopen' = writeopen
      BY <1>15, <2>3 DEF pipeclose
    <3>2. \A q \in Procs : pc'[q] # "close_r" /\ (pc'[q] = "close_w" <=> pc[q] = "close_w")
      BY <1>15, <2>3 DEF pipeclose, WakeWriters
    <3> QED BY <1>15, <2>1, <2>3, <3>1, <3>2
  <2> QED BY <1>15, <2>2, <2>3 DEF pipeclose, Closing
<1>16. ASSUME NEW p \in Procs, kill(p)
      PROVE  OpenEnds'
  BY <1>16, OpenEndsFrame DEF kill, pipe, thread, At, Goto, Return, WakeReaders, WakeWriters, Writing, Reading, Closing, Locked
<1>17. CASE UNCHANGED vars
  BY <1>17, OpenEndsFrame DEF vars, pipe, thread
<1> QED BY <1>1, <1>2, <1>3, <1>4, <1>5, <1>6, <1>7, <1>8, <1>9, <1>10, <1>11, <1>12, <1>13, <1>14, <1>15, <1>16, <1>17, Zenon DEF Next, CallStep

\* A step that leaves the counters alone.
LEMMA BoundedFrame ==
  ASSUME TypeOK, Bounded, UNCHANGED <<nread, nwrite>>,
         \A q \in Procs : pc'[q] = "w_put" => readopen',
         \A q \in Procs : pc'[q] = "r_check" => Empty /\ writeopen'
  PROVE  Bounded'
BY DEF Bounded, Count, Empty

\* The buffer never holds more than PIPESIZE bytes.
LEMMA BoundedStep == IInv /\ [Next]_vars => Bounded'
<1> SUFFICES ASSUME IInv, [Next]_vars PROVE Bounded'
  OBVIOUS
<1> USE DEF IInv, TypeOK, InCall
<1>1. ASSUME NEW p \in Procs, NEW m \in 0..MaxN, pipewrite(p, m)
      PROVE  Bounded'
  BY <1>1, BoundedFrame DEF pipewrite, Bounded, pipe, thread, At, Goto, Return, WakeReaders, WakeWriters, Writing, Reading, Closing, Locked
<1>2. ASSUME NEW p \in Procs, pipewrite_check(p)
      PROVE  Bounded'
  BY <1>2, BoundedFrame DEF pipewrite_check, Bounded, pipe, thread, At, Goto, Return, WakeReaders, WakeWriters, Writing, Reading, Closing, Locked
<1>3. ASSUME NEW p \in Procs, pipewrite_sleep(p)
      PROVE  Bounded'
  BY <1>3, BoundedFrame DEF pipewrite_sleep, Bounded, pipe, thread, At, Goto, Return, WakeReaders, WakeWriters, Writing, Reading, Closing, Locked
<1>4. ASSUME NEW p \in Procs, NEW b \in Bytes, pipewrite_put(p, b)
      PROVE  Bounded'
  <2>1. Count' <= PIPESIZE
    <3>1. Count' = Count + 1 /\ Count < PIPESIZE /\ Count \in 0..(UINT - 1)
      BY <1>4, CountPut, CountIs DEF pipewrite_put, Bounded
    <3> QED BY <3>1, Sizes
  <2>2. \A q \in Procs : pc'[q] # "w_put" /\ pc'[q] # "r_check"
    BY <1>4 DEF pipewrite_put, At, Goto, InCall, Locked
  <2> QED BY <2>1, <2>2 DEF Bounded
<1>5. ASSUME NEW p \in Procs, pipewrite_return(p)
      PROVE  Bounded'
  BY <1>5, BoundedFrame DEF pipewrite_return, Bounded, pipe, thread, At, Goto, Return, WakeReaders, WakeWriters, Writing, Reading, Closing, Locked
<1>6. ASSUME NEW p \in Procs, wake(p)
      PROVE  Bounded'
  BY <1>6, BoundedFrame DEF wake, Bounded, pipe, thread, At, Goto, Return, WakeReaders, WakeWriters, Writing, Reading, Closing, Locked
<1>7. ASSUME NEW p \in Procs, NEW m \in 0..MaxN, piperead(p, m)
      PROVE  Bounded'
  BY <1>7, BoundedFrame DEF piperead, Bounded, pipe, thread, At, Goto, Return, WakeReaders, WakeWriters, Writing, Reading, Closing, Locked
<1>8. ASSUME NEW p \in Procs, piperead_loop(p)
      PROVE  Bounded'
  BY <1>8, BoundedFrame DEF piperead_loop, Bounded, pipe, thread, At, Goto, Return, WakeReaders, WakeWriters, Writing, Reading, Closing, Locked
<1>9. ASSUME NEW p \in Procs, piperead_check(p)
      PROVE  Bounded'
  BY <1>9, BoundedFrame DEF piperead_check, Bounded, pipe, thread, At, Goto, Return, WakeReaders, WakeWriters, Writing, Reading, Closing, Locked
<1>10. ASSUME NEW p \in Procs, piperead_get(p)
      PROVE  Bounded'
  <2>1. Count' <= PIPESIZE
    <3>1. Count' = Count - 1 /\ Count \in 0..(UINT - 1) /\ Count <= PIPESIZE
      BY <1>10, CountGet, CountIs DEF piperead_get, TakeByte, Bounded
    <3> QED BY <3>1, Sizes
  <2>2. \A q \in Procs : pc'[q] # "w_put" /\ pc'[q] # "r_check"
    BY <1>10 DEF piperead_get, At, Return, InCall, Locked, WakeWriters
  <2> QED BY <2>1, <2>2 DEF Bounded
<1>11. ASSUME NEW p \in Procs, piperead_fault(p)
      PROVE  Bounded'
  <2>1. Count' <= PIPESIZE
    <3>1. Count' = Count - 1 /\ Count \in 0..(UINT - 1) /\ Count <= PIPESIZE
      BY <1>11, CountGet, CountIs DEF piperead_fault, TakeByte, Bounded
    <3> QED BY <3>1, Sizes
  <2>2. \A q \in Procs : pc'[q] # "w_put" /\ pc'[q] # "r_check"
    BY <1>11 DEF piperead_fault, At, Return, InCall, Locked, WakeWriters
  <2> QED BY <2>1, <2>2 DEF Bounded
<1>12. ASSUME NEW p \in Procs, piperead_return(p)
      PROVE  Bounded'
  BY <1>12, BoundedFrame DEF piperead_return, Bounded, pipe, thread, At, Goto, Return, WakeReaders, WakeWriters, Writing, Reading, Closing, Locked
<1>13. ASSUME NEW p \in Procs, NEW q \in Procs, fork(p, q)
      PROVE  Bounded'
  BY <1>13, BoundedFrame DEF fork, Bounded, pipe, thread, At, Goto, Return, WakeReaders, WakeWriters, Writing, Reading, Closing, Locked
<1>14. ASSUME NEW p \in Procs, NEW e \in {"r", "w"}, fileclose(p, e)
      PROVE  Bounded'
  BY <1>14, BoundedFrame DEF fileclose, Bounded, pipe, thread, At, Goto, Return, WakeReaders, WakeWriters, Writing, Reading, Closing, Locked
<1>15. ASSUME NEW p \in Procs, pipeclose(p)
      PROVE  Bounded'
  <2>1. \A q \in Procs : pc'[q] # "w_put" /\ pc'[q] # "r_check"
    BY <1>15, NoneAssumption DEF pipeclose, InCall, Locked, WakeWriters, WakeReaders
  <2> QED BY <1>15, <2>1, BoundedFrame DEF pipeclose
<1>16. ASSUME NEW p \in Procs, kill(p)
      PROVE  Bounded'
  BY <1>16, BoundedFrame DEF kill, Bounded, pipe, thread, At, Goto, Return, WakeReaders, WakeWriters, Writing, Reading, Closing, Locked
<1>17. CASE UNCHANGED vars
  BY <1>17, BoundedFrame DEF vars, pipe, thread, Bounded
<1> QED BY <1>1, <1>2, <1>3, <1>4, <1>5, <1>6, <1>7, <1>8, <1>9, <1>10, <1>11, <1>12, <1>13, <1>14, <1>15, <1>16, <1>17, Zenon DEF Next, CallStep

\* A step that leaves the pipe alone, puts nobody to sleep, and whoever is to
\* wake the sleepers goes on.
LEMMA AsleepFrame ==
  ASSUME TypeOK, Asleep, UNCHANGED <<nread, nwrite, readopen, writeopen>>,
         \A q \in Procs : killed[q] => killed'[q],
         \A q \in Procs : pc'[q] \in {"w_sleep", "r_sleep"} => pc'[q] = pc[q],
         \A q \in Procs : pc[q] = "r_copy" => pc'[q] = "r_copy",
         \A q \in Procs : pc[q] \in {"w_loop", "w_put"} => pc'[q] \in {"w_loop", "w_put"}
  PROVE  Asleep'
BY DEF Asleep, Full, Empty

\* Whoever changes what others sleep for wakes them before it gives up the lock.
LEMMA AsleepStep == IInv /\ [Next]_vars => Asleep'
<1> SUFFICES ASSUME IInv, [Next]_vars PROVE Asleep'
  OBVIOUS
<1> USE DEF IInv, TypeOK
<1>1. ASSUME NEW p \in Procs, NEW m \in 0..MaxN, pipewrite(p, m)
      PROVE  Asleep'
  BY <1>1, AsleepFrame DEF pipewrite, Bounded, pipe, thread, At, Goto, Return, WakeReaders, WakeWriters, Writing, Reading, Closing, Locked
<1>2. ASSUME NEW p \in Procs, pipewrite_check(p)
      PROVE  Asleep'
  <2>1. CASE pc' = Goto(p, "w_put")
    BY <1>2, <2>1, AsleepFrame DEF pipewrite_check, pipe, At, Goto
  <2>2. CASE (~readopen \/ killed[p]) /\ Return(p, pc)
    <3>1. \A q \in Procs : pc[q] = "r_sleep" => readopen
      BY DEF InCall, OpenEnds, IsOpen, Reading
    <3>2. UNCHANGED <<nread, nwrite, readopen, writeopen, killed>>
      BY <1>2 DEF pipewrite_check, pipe
    <3>3. \A q \in Procs : pc'[q] = IF q = p THEN "idle" ELSE pc[q]
      BY <2>2 DEF Return
    <3>4. pc[p] = "w_loop"
      BY <1>2 DEF pipewrite_check, At
    <3> QED BY <2>2, <3>1, <3>2, <3>3, <3>4 DEF Asleep, Full, Empty
  <2> QED BY <1>2, <2>1, <2>2 DEF pipewrite_check
<1>3. ASSUME NEW p \in Procs, pipewrite_sleep(p)
      PROVE  Asleep'
  <2>1. UNCHANGED <<nread, nwrite, readopen, writeopen, killed>>
    BY <1>3 DEF pipewrite_sleep, pipe
  <2>2. pc[p] = "w_put" /\ Full /\ readopen
    BY <1>3 DEF pipewrite_sleep, At, Bounded
  <2>3. \A q \in Procs : pc'[q] # "r_sleep"
    BY <1>3 DEF pipewrite_sleep, WakeReaders
  <2>4. \A q \in Procs : pc'[q] = "w_sleep" => readopen' /\ Full'
    BY <1>3, <2>1, <2>2 DEF pipewrite_sleep, WakeReaders, Asleep, InCall, At, Locked, Full
  <2> QED BY <2>3, <2>4 DEF Asleep
<1>4. ASSUME NEW p \in Procs, NEW b \in Bytes, pipewrite_put(p, b)
      PROVE  Asleep'
  <2>1. UNCHANGED <<nread, readopen, writeopen, killed>> /\ ~Full
    BY <1>4 DEF pipewrite_put
  <2>2. \A q \in Procs : pc'[q] = IF q = p THEN "w_loop" ELSE pc[q]
    BY <1>4 DEF pipewrite_put, Goto
  <2>3. \A q \in Procs : pc[q] # "r_copy" /\ pc[q] # "w_sleep"
    BY <1>4, <2>1 DEF pipewrite_put, Asleep, InCall, At, Locked
  <2> QED BY <2>1, <2>2, <2>3 DEF Asleep
<1>5. ASSUME NEW p \in Procs, pipewrite_return(p)
      PROVE  Asleep'
  <2>1. UNCHANGED <<nread, nwrite, readopen, writeopen, killed>>
    BY <1>5 DEF pipewrite_return, pipe
  <2>2. \A q \in Procs : pc'[q] # "r_sleep" /\ (pc'[q] = "w_sleep" => pc[q] = "w_sleep")
    BY <1>5 DEF pipewrite_return, Return, WakeReaders
  <2>3. \A q \in Procs : pc[q] # "r_copy"
    BY <1>5 DEF pipewrite_return, InCall, At, Locked
  <2> QED BY <2>1, <2>2, <2>3 DEF Asleep, Full
<1>6. ASSUME NEW p \in Procs, wake(p)
      PROVE  Asleep'
  BY <1>6, AsleepFrame DEF wake, Bounded, pipe, thread, At, Goto, Return, WakeReaders, WakeWriters, Writing, Reading, Closing, Locked
<1>7. ASSUME NEW p \in Procs, NEW m \in 0..MaxN, piperead(p, m)
      PROVE  Asleep'
  BY <1>7, AsleepFrame DEF piperead, Bounded, pipe, thread, At, Goto, Return, WakeReaders, WakeWriters, Writing, Reading, Closing, Locked
<1>8. ASSUME NEW p \in Procs, piperead_loop(p)
      PROVE  Asleep'
  BY <1>8, AsleepFrame DEF piperead_loop, Bounded, pipe, thread, At, Goto, Return, WakeReaders, WakeWriters, Writing, Reading, Closing, Locked
<1>9. ASSUME NEW p \in Procs, piperead_check(p)
      PROVE  Asleep'
  <2>1. UNCHANGED <<nread, nwrite, readopen, writeopen, killed>>
    BY <1>9 DEF piperead_check, pipe
  <2>2. pc[p] = "r_check" /\ Empty /\ writeopen
    BY <1>9 DEF piperead_check, At, Bounded
  <2>3. \A q \in Procs : pc[q] # "r_copy" /\ pc[q] \notin {"w_loop", "w_put"}
    BY <1>9 DEF piperead_check, InCall, At, Locked
  <2>4. \A q \in Procs : q # p => pc'[q] = pc[q]
    BY <1>9 DEF piperead_check, Return, Goto
  <2>5. pc'[p] # "w_sleep"
    BY <1>9 DEF piperead_check, Return, Goto
  <2> QED BY <2>1, <2>2, <2>3, <2>4, <2>5 DEF Asleep, Full, Empty
<1>10. ASSUME NEW p \in Procs, piperead_get(p)
      PROVE  Asleep'
  <2>1. UNCHANGED <<nwrite, readopen, writeopen, killed, pc>> /\ pc[p] = "r_copy" /\ ~Empty
    BY <1>10 DEF piperead_get, TakeByte, At
  <2>2. \A q \in Procs : pc[q] \notin {"w_loop", "w_put"}
    BY <1>10 DEF piperead_get, InCall, At, Locked
  <2> QED BY <2>1, <2>2 DEF Asleep
<1>11. ASSUME NEW p \in Procs, piperead_fault(p)
      PROVE  Asleep'
  <2>1. UNCHANGED <<nwrite, readopen, writeopen, killed>> /\ ~Empty
    BY <1>11 DEF piperead_fault, TakeByte, pipe
  <2>2. \A q \in Procs : pc[q] \notin {"w_loop", "w_put"}
    BY <1>11 DEF piperead_fault, InCall, At, Locked
  <2>3. \A q \in Procs : pc'[q] # "w_sleep" /\ (pc'[q] = "r_sleep" => pc[q] = "r_sleep")
    BY <1>11 DEF piperead_fault, Return, WakeWriters
  <2> QED BY <1>11, <2>1, <2>2, <2>3 DEF Asleep, piperead_fault, pipe, Empty
<1>12. ASSUME NEW p \in Procs, piperead_return(p)
      PROVE  Asleep'
  <2>1. UNCHANGED <<nwrite, readopen, writeopen, killed>>
    BY <1>12 DEF piperead_return, TakeByte, pipe
  <2>2. \A q \in Procs : pc[q] \notin {"w_loop", "w_put"}
    BY <1>12 DEF piperead_return, InCall, At, Locked
  <2>3. \A q \in Procs : pc'[q] # "w_sleep" /\ (pc'[q] = "r_sleep" => pc[q] = "r_sleep")
    BY <1>12 DEF piperead_return, Return, WakeWriters
  <2> QED BY <1>12, <2>1, <2>2, <2>3 DEF Asleep, piperead_return, pipe, Empty
<1>13. ASSUME NEW p \in Procs, NEW q \in Procs, fork(p, q)
      PROVE  Asleep'
  BY <1>13, AsleepFrame DEF fork, Bounded, pipe, thread, At, Goto, Return, WakeReaders, WakeWriters, Writing, Reading, Closing, Locked
<1>14. ASSUME NEW p \in Procs, NEW e \in {"r", "w"}, fileclose(p, e)
      PROVE  Asleep'
  BY <1>14, AsleepFrame DEF fileclose, Bounded, pipe, thread, At, Goto, Return, WakeReaders, WakeWriters, Writing, Reading, Closing, Locked
<1>15. ASSUME NEW p \in Procs, pipeclose(p)
      PROVE  Asleep'
  <2>1. UNCHANGED <<nread, nwrite, killed>>
    BY <1>15 DEF pipeclose
  <2>2. \A q \in Procs : pc[q] \notin Locked
    BY <1>15, NoneAssumption DEF pipeclose, InCall
  <2>3. CASE pc[p] = "close_w"
    <3>1. readopen' = readopen /\ \A q \in Procs :
            pc'[q] # "r_sleep" /\ (pc'[q] = "w_sleep" => pc[q] = "w_sleep")
      BY <1>15, <2>3 DEF pipeclose, WakeReaders
    <3> QED BY <2>1, <2>2, <3>1 DEF Asleep, Full, Locked
  <2>4. CASE pc[p] = "close_r"
    <3>1. writeopen' = writeopen /\ \A q \in Procs :
            pc'[q] # "w_sleep" /\ (pc'[q] = "r_sleep" => pc[q] = "r_sleep")
      BY <1>15, <2>4 DEF pipeclose, WakeWriters
    <3> QED BY <2>1, <2>2, <3>1 DEF Asleep, Empty, Locked
  <2> QED BY <1>15, <2>3, <2>4 DEF pipeclose, Closing
<1>16. ASSUME NEW p \in Procs, kill(p)
      PROVE  Asleep'
  BY <1>16, AsleepFrame DEF kill, Bounded, pipe, thread, At, Goto, Return, WakeReaders, WakeWriters, Writing, Reading, Closing, Locked
<1>17. CASE UNCHANGED vars
  BY <1>17, AsleepFrame DEF vars, pipe, thread
<1> QED BY <1>1, <1>2, <1>3, <1>4, <1>5, <1>6, <1>7, <1>8, <1>9, <1>10, <1>11, <1>12, <1>13, <1>14, <1>15, <1>16, <1>17, Zenon DEF Next, CallStep

------------------------------------------------------------------------------
\* The theorems.

\* pipealloc() makes it true.
LEMMA InitInv == Init => IInv
<1> SUFFICES ASSUME Init PROVE IInv
  OBVIOUS
<1>1. TypeOK
  <2>1. 0 \in 0..(UINT - 1)
    BY Sizes
  <2>2. (CHOOSE b \in Bytes : TRUE) \in Bytes
    BY BytesAssumption
  <2> QED BY <2>1, <2>2 DEF Init, TypeOK
<1>2. InCall
  BY NoneAssumption DEF Init, InCall, Locked, Writing, Reading
<1>3. OpenEnds
  BY ProcsAssumption DEF Init, OpenEnds, IsOpen, Closer
<1>4. Bounded /\ Asleep
  <2>1. Count = 0
    BY <1>1, CountIs DEF Init, Empty
  <2> QED BY <2>1, Sizes DEF Init, Bounded, Asleep
<1> QED BY <1>1, <1>2, <1>3, <1>4 DEF IInv

\* The invariant holds in every state of kernel/pipe.c, for any number of
\* processes, any buffer and any width of the counters that is a multiple of it.
THEOREM Invariance == Spec => []IInv
<1>1. Init => IInv
  BY InitInv
<1>2. IInv /\ [Next]_vars => IInv'
  BY TypeStep, InCallStep, OpenEndsStep, BoundedStep, AsleepStep DEF IInv
<1> QED BY <1>1, <1>2, PTL DEF Spec

\* No wakeup is lost: while pi->lock is free, a writer sleeps only on a full
\* buffer that may still be read, and a reader only on an empty one that may
\* still be written, or after a writer was killed.
THEOREM WakeupSafety == Spec => []NoLostWakeup
<1>1. IInv => NoLostWakeup
  BY NoneAssumption DEF IInv, TypeOK, InCall, Asleep, NoLostWakeup, Locked
<1> QED BY <1>1, Invariance, PTL

\* The page that pipeclose() gave to kfree() is used by nobody, now or later.
THEOREM FreeSafety == Spec => []NoUseAfterFree
<1>1. IInv => NoUseAfterFree
  <2> SUFFICES ASSUME IInv, freed PROVE NoUseAfterFree
    BY DEF NoUseAfterFree
  <2>1. \A p \in Procs : "r" \notin ends[p] /\ "w" \notin ends[p] /\ pc[p] \notin Closing
    BY DEF IInv, TypeOK, OpenEnds, IsOpen, Closer, Closing
  <2>2. ASSUME NEW p \in Procs PROVE ends[p] = {}
    <3>1. ends[p] \subseteq {"r", "w"}
      BY DEF IInv, TypeOK
    <3> QED BY <2>1, <3>1
  <2>3. \A p \in Procs : pc[p] = "idle"
    BY <2>1 DEF IInv, TypeOK, InCall
  <2>4. lock = None
    BY <2>3 DEF IInv, TypeOK, InCall, Locked
  <2> QED BY <2>2, <2>3, <2>4 DEF NoUseAfterFree
<1> QED BY <1>1, Invariance, PTL

------------------------------------------------------------------------------
\* The pipe implements the queue of module Fifo.

\* The queue that the refinement mapping shows.
Contents == [k \in 1..Count |-> data[(nread + k - 1) % PIPESIZE]]

\* A sequence is a function ...
LEMMA SeqIsFunction ==
  ASSUME NEW S, NEW s \in Seq(S)
  PROVE  s = [k \in 1..Len(s) |-> s[k]]
<1>1. s \in [1..Len(s) -> S]
  OBVIOUS
<1> QED BY <1>1

\* ... with one element more ...
LEMMA SeqPut ==
  ASSUME NEW S, NEW c \in Nat, NEW f \in [1..c -> S], NEW b \in S
  PROVE  /\ Len(f) = c
         /\ [k \in 1..(c + 1) |-> IF k = c + 1 THEN b ELSE f[k]] = Append(f, b)
<1>1. f \in Seq(S) /\ Len(f) = c
  OBVIOUS
<1>2. Append(f, b) \in Seq(S) /\ Len(Append(f, b)) = c + 1
  BY <1>1
<1>3. Append(f, b) = [k \in 1..(c + 1) |-> Append(f, b)[k]]
  BY <1>2, SeqIsFunction
<1>4. \A k \in 1..(c + 1) : Append(f, b)[k] = IF k = c + 1 THEN b ELSE f[k]
  BY <1>1
<1> QED BY <1>1, <1>3, <1>4

\* ... and with one less.
LEMMA SeqGet ==
  ASSUME NEW S, NEW c \in Nat \ {0}, NEW f \in [1..c -> S]
  PROVE  /\ f # <<>> /\ f[1] = Head(f)
         /\ [k \in 1..(c - 1) |-> f[k + 1]] = Tail(f)
<1>1. f \in Seq(S) /\ Len(f) = c /\ f # <<>>
  OBVIOUS
<1>2. Tail(f) \in Seq(S) /\ Len(Tail(f)) = c - 1
  BY <1>1
<1>3. Tail(f) = [k \in 1..(c - 1) |-> Tail(f)[k]]
  BY <1>2, SeqIsFunction
<1>4. \A k \in 1..(c - 1) : Tail(f)[k] = f[k + 1]
  BY <1>1
<1>5. f[1] = Head(f)
  BY <1>1
<1> QED BY <1>1, <1>3, <1>4, <1>5

\* The contents are a sequence of at most PIPESIZE bytes.
LEMMA ContentsType ==
  ASSUME TypeOK
  PROVE  Count \in Nat /\ Contents \in [1..Count -> Bytes]
<1>1. Count \in 0..(UINT - 1)
  BY CountIs
<1>2. ASSUME NEW k \in 1..Count PROVE data[(nread + k - 1) % PIPESIZE] \in Bytes
  <2>1. nread + k - 1 \in Int /\ PIPESIZE \in Nat \ {0}
    BY <1>1, Sizes DEF TypeOK
  <2>2. (nread + k - 1) % PIPESIZE \in 0..(PIPESIZE - 1)
    BY <2>1, ModRange, Zenon
  <2> QED BY <2>2 DEF TypeOK
<1> QED BY <1>1, <1>2 DEF Contents

\* pipewrite() puts its byte behind the others.
LEMMA PutStep ==
  ASSUME IInv, NEW p \in Procs, NEW b \in Bytes, pipewrite_put(p, b)
  PROVE  Contents' = Append(Contents, b) /\ Len(Contents) < PIPESIZE
<1> DEFINE c == Count
           N == PIPESIZE
<1>1. TypeOK /\ Contents \in [1..c -> Bytes] /\ c \in Nat
  BY ContentsType DEF IInv
<1>2. Count' = c + 1 /\ c < N
  BY <1>1, CountPut DEF pipewrite_put, IInv, Bounded
<1>3. N \in Nat \ {0} /\ UINT \in Nat \ {0} /\ nread \in 0..(UINT - 1) /\ nwrite \in 0..(UINT - 1)
  BY <1>1, Sizes DEF TypeOK
<1>4. (nread + c) % N = nwrite % N
  <2>1. PICK m \in Nat : UINT = m * PIPESIZE
    BY SizeAssumption
  <2> QED BY <1>3, <2>1, RingCell, Zenon DEF Count
<1>5. ASSUME NEW k \in 1..c PROVE (nread + k - 1) % N # nwrite % N
  <2> HIDE DEF c, N
  <2>1. nread + k - 1 \in Int /\ c - k + 1 \in 1..(N - 1) /\ (nread + k - 1) + (c - k + 1) = nread + c
    BY <1>1, <1>2, <1>3 DEF N
  <2>2. ((nread + k - 1) + (c - k + 1)) % N # (nread + k - 1) % N
    BY <1>3, <2>1, ModDistinct, Zenon
  <2> QED BY <1>4, <2>1, <2>2, Zenon
<1>6. nread' = nread /\ data' = [data EXCEPT ![nwrite % N] = b]
  BY DEF pipewrite_put
<1>7. nwrite % N \in 0..(N - 1)
  BY <1>3, ModRange
<1>8. ASSUME NEW k \in 1..(c + 1)
      PROVE  data'[(nread' + k - 1) % N] = IF k = c + 1 THEN b ELSE Contents[k]
  <2> DEFINE cell == (nread + k - 1) % N
             w == nwrite % N
  <2>1. CASE k = c + 1
    <3>1. nread + k - 1 = nread + c
      BY <1>1, <1>3, <2>1
    <3>2. cell = w
      BY <3>1, <1>4
    <3>3. data'[w] = b
      <4> HIDE DEF w
      <4> QED BY <1>1, <1>6, <1>7 DEF TypeOK, w
    <3> QED BY <1>6, <2>1, <3>2, <3>3
  <2>2. CASE k # c + 1
    <3>1. k \in 1..c
      BY <1>1, <2>2
    <3>2. cell # w
      BY <3>1, <1>5
    <3>3. nread + k - 1 \in Int
      BY <1>3
    <3>4. cell \in 0..(N - 1)
      BY <1>3, <3>3, ModRange, Zenon
    <3>5. data'[cell] = data[cell]
      <4> HIDE DEF cell, w
      <4> QED BY <1>1, <1>6, <3>2, <3>4 DEF TypeOK, w
    <3>6. Contents[k] = data[cell]
      BY <3>1 DEF Contents
    <3> QED BY <1>6, <2>2, <3>5, <3>6
  <2> QED BY <2>1, <2>2
<1>9. Contents' = [k \in 1..(c + 1) |-> IF k = c + 1 THEN b ELSE Contents[k]]
  <2>1. Contents' = [k \in 1..(c + 1) |-> data'[(nread' + k - 1) % N]]
    BY <1>2 DEF Contents
  <2> HIDE DEF c, N
  <2> QED BY <1>8, <2>1
<1> HIDE DEF c
<1> QED BY <1>1, <1>2, <1>9, SeqPut

\* piperead() takes the first byte.
LEMMA GetStep ==
  ASSUME IInv, ~Empty, TakeByte
  PROVE  Contents # <<>> /\ out' = Head(Contents) /\ Contents' = Tail(Contents)
<1> DEFINE c == Count
           N == PIPESIZE
<1>1. TypeOK /\ Contents \in [1..c -> Bytes] /\ c \in Nat \ {0}
  BY ContentsType, CountIs DEF IInv
<1>2. Count' = c - 1
  BY <1>1, CountGet DEF TakeByte
<1>3. N \in Nat \ {0} /\ UINT \in Nat \ {0} /\ nread \in 0..(UINT - 1)
  BY <1>1, Sizes DEF TypeOK
<1>4. data' = data /\ nread' = (nread + 1) % UINT /\ out' = data[nread % N]
  BY DEF TakeByte
<1>5. ASSUME NEW k \in 1..(c - 1)
      PROVE  data'[(nread' + k - 1) % N] = Contents[k + 1]
  <2>1. PICK m \in Nat : UINT = m * PIPESIZE
    BY SizeAssumption
  <2>2. k - 1 \in Int /\ nread + 1 + (k - 1) = nread + (k + 1) - 1 /\ k + 1 \in 1..c
    BY <1>1, <1>3
  <2>3. (nread' + (k - 1)) % N = (nread + 1 + (k - 1)) % N
    BY <1>3, <1>4, <2>1, <2>2, RingNext, Zenon
  <2>4. nread' + k - 1 = nread' + (k - 1)
    <3>1. nread' \in Int
      BY <1>1, CountGet DEF TakeByte
    <3> QED BY <3>1
  <2>5. Contents[k + 1] = data[(nread + (k + 1) - 1) % N]
    BY <2>2 DEF Contents
  <2>6. data'[(nread' + k - 1) % N] = data[(nread' + (k - 1)) % N]
    BY <1>4, <2>4, Zenon
  <2>7. (nread' + (k - 1)) % N = (nread + (k + 1) - 1) % N
    BY <2>2, <2>3, Zenon
  <2> QED BY <2>5, <2>6, <2>7, Zenon
<1>6. Contents' = [k \in 1..(c - 1) |-> Contents[k + 1]]
  <2>1. Contents' = [k \in 1..(c - 1) |-> data'[(nread' + k - 1) % N]]
    BY <1>2 DEF Contents
  <2> HIDE DEF c, N
  <2> QED BY <1>5, <2>1
<1>7. out' = Contents[1]
  <2>1. nread + 1 - 1 = nread /\ 1 \in 1..c
    BY <1>1, <1>3
  <2>2. Contents[1] = data[(nread + 1 - 1) % N]
    BY <2>1 DEF Contents
  <2> QED BY <1>4, <2>1, <2>2, Zenon
<1> HIDE DEF c
<1> QED BY <1>1, <1>6, <1>7, SeqGet

\* A step on the pipe's locks and sleepers only is not seen.
LEMMA QueueStutters ==
  ASSUME UNCHANGED <<pipe, out>>
  PROVE  UNCHANGED <<Contents, out, readopen, writeopen>>
BY DEF pipe, Contents, Count

\* Every step of the code is a step of the queue, or is not seen.
LEMMA QueueStep ==
  ASSUME IInv, [Next]_vars
  PROVE  \/ \E b \in Bytes : /\ readopen /\ writeopen /\ Len(Contents) < PIPESIZE
                             /\ Contents' = Append(Contents, b)
                             /\ UNCHANGED <<out, readopen, writeopen>>
         \/ /\ readopen /\ Contents # <<>>
            /\ out' = Head(Contents) /\ Contents' = Tail(Contents)
            /\ UNCHANGED <<readopen, writeopen>>
         \/ readopen /\ readopen' = FALSE /\ UNCHANGED <<Contents, out, writeopen>>
         \/ writeopen /\ writeopen' = FALSE /\ UNCHANGED <<Contents, out, readopen>>
         \/ UNCHANGED <<Contents, out, readopen, writeopen>>
<1> DEFINE Stutter == UNCHANGED <<Contents, out, readopen, writeopen>>
           Get == /\ readopen /\ Contents # <<>>
                  /\ out' = Head(Contents) /\ Contents' = Tail(Contents)
                  /\ UNCHANGED <<readopen, writeopen>>
<1>0. \A r \in Procs : /\ "w" \in ends[r] => writeopen
                       /\ "r" \in ends[r] => readopen
  BY DEF IInv, OpenEnds, IsOpen
<1>1. ASSUME NEW p \in Procs, NEW m \in 0..MaxN, pipewrite(p, m)
      PROVE  Stutter
  BY <1>1, QueueStutters DEF pipewrite
<1>2. ASSUME NEW p \in Procs, pipewrite_check(p)
      PROVE  Stutter
  BY <1>2, QueueStutters DEF pipewrite_check
<1>3. ASSUME NEW p \in Procs, pipewrite_sleep(p)
      PROVE  Stutter
  BY <1>3, QueueStutters DEF pipewrite_sleep
<1>4. ASSUME NEW p \in Procs, NEW b \in Bytes, pipewrite_put(p, b)
      PROVE  /\ readopen /\ writeopen /\ Len(Contents) < PIPESIZE
             /\ Contents' = Append(Contents, b)
             /\ UNCHANGED <<out, readopen, writeopen>>
  <2>1. readopen /\ writeopen
    BY <1>0, <1>4 DEF IInv, InCall, Bounded, pipewrite_put, At, Writing
  <2> QED BY <1>4, <2>1, PutStep DEF pipewrite_put
<1>5. ASSUME NEW p \in Procs, pipewrite_return(p)
      PROVE  Stutter
  BY <1>5, QueueStutters DEF pipewrite_return
<1>6. ASSUME NEW p \in Procs, wake(p)
      PROVE  Stutter
  BY <1>6, QueueStutters DEF wake
<1>7. ASSUME NEW p \in Procs, NEW m \in 0..MaxN, piperead(p, m)
      PROVE  Stutter
  BY <1>7, QueueStutters DEF piperead
<1>8. ASSUME NEW p \in Procs, piperead_loop(p)
      PROVE  Stutter
  BY <1>8, QueueStutters DEF piperead_loop
<1>9. ASSUME NEW p \in Procs, piperead_check(p)
      PROVE  Stutter
  BY <1>9, QueueStutters DEF piperead_check
<1>10. ASSUME NEW p \in Procs, piperead_get(p)
      PROVE  Get
  <2>1. readopen /\ ~Empty /\ TakeByte
    BY <1>0, <1>10 DEF IInv, InCall, piperead_get, At, Reading
  <2> QED BY <2>1, GetStep DEF TakeByte
<1>11. ASSUME NEW p \in Procs, piperead_fault(p)
      PROVE  Get
  <2>1. readopen /\ ~Empty /\ TakeByte
    BY <1>0, <1>11 DEF IInv, InCall, piperead_fault, At, Reading
  <2> QED BY <2>1, GetStep DEF TakeByte
<1>12. ASSUME NEW p \in Procs, piperead_return(p)
      PROVE  Stutter
  BY <1>12, QueueStutters DEF piperead_return
<1>13. ASSUME NEW p \in Procs, NEW q \in Procs, fork(p, q)
      PROVE  Stutter
  BY <1>13, QueueStutters DEF fork
<1>14. ASSUME NEW p \in Procs, NEW e \in {"r", "w"}, fileclose(p, e)
      PROVE  Stutter
  BY <1>14, QueueStutters DEF fileclose
<1>15. ASSUME NEW p \in Procs, pipeclose(p)
      PROVE  \/ readopen /\ readopen' = FALSE /\ UNCHANGED <<Contents, out, writeopen>>
             \/ writeopen /\ writeopen' = FALSE /\ UNCHANGED <<Contents, out, readopen>>
  <2>1. UNCHANGED <<Contents, out>>
    BY <1>15 DEF pipeclose, Contents, Count
  <2>2. CASE pc[p] = "close_w"
    BY <1>15, <2>1, <2>2 DEF pipeclose, IInv, OpenEnds, IsOpen, Closer
  <2>3. CASE pc[p] = "close_r"
    BY <1>15, <2>1, <2>3 DEF pipeclose, IInv, OpenEnds, IsOpen, Closer
  <2> QED BY <1>15, <2>2, <2>3 DEF pipeclose, Closing
<1>16. ASSUME NEW p \in Procs, kill(p)
      PROVE  Stutter
  BY <1>16, QueueStutters DEF kill
<1>17. CASE UNCHANGED vars
  BY <1>17, QueueStutters DEF vars
<1> HIDE DEF Stutter, Get
<1> QED BY <1>1, <1>2, <1>3, <1>4, <1>5, <1>6, <1>7, <1>8, <1>9, <1>10, <1>11, <1>12, <1>13, <1>14, <1>15, <1>16, <1>17 DEF Next, CallStep, Stutter, Get

\* The pipe implements the bounded queue of module Fifo: what is read is what
\* was written, in the order it was written, across every wrap of the counters
\* and every sleep, kill, failed copy and close.
THEOREM Refinement == Spec => PipeIsFifo
<1>1. Init => Queue!Init
  <2> SUFFICES ASSUME Init PROVE Queue!Init
    OBVIOUS
  <2>1. TypeOK
    BY InitInv DEF IInv
  <2>2. Count = 0 /\ Contents \in [1..Count -> Bytes]
    BY <2>1, CountIs, ContentsType DEF Init, Empty
  <2>3. Contents = <<>>
    BY <2>2
  <2> QED BY <2>3 DEF Init, Queue!Init, Contents
<1>2. IInv /\ [Next]_vars => [Queue!Next]_Queue!vars
  BY QueueStep DEF Contents, Queue!Next, Queue!vars, Queue!Put, Queue!Get,
                   Queue!CloseRead, Queue!CloseWrite
<1> QED BY <1>1, <1>2, Invariance, PTL DEF Spec, PipeIsFifo, Queue!Spec
==============================================================================
