------------------------------ MODULE LogProof -------------------------------
(***************************************************************************)
(* Proof that IInv of Log is inductive: types, who may be where, the shape *)
(* of the log in memory and of the header on disk, pins, where the contents *)
(* of a block are, and the space that begin_op() reserves.  There is one   *)
(* lemma for each conjunct and each group of actions of Next.  Then the    *)
(* theorems that follow from it, and the proof that the log of kernel/log.c *)
(* implements TxnDisk: write_head() of commit() is the step that makes a   *)
(* group of operations durable, and no other disk write, of the log or of  *)
(* recovery, and no crash changes what a reboot would find.                *)
(***************************************************************************)
EXTENDS Log, FiniteSetTheorems, TLAPS

------------------------------------------------------------------------------
\* Facts about sequences and about the loops over the log.

\* What log_write() does to log.lh when it appends a block.
LEMMA AppendFacts ==
  ASSUME NEW S, NEW s \in Seq(S), NEW e \in S
  PROVE  /\ Append(s, e) \in Seq(S)
         /\ Len(Append(s, e)) = Len(s) + 1
         /\ \A k \in 1..Len(s) : Append(s, e)[k] = s[k]
         /\ Append(s, e)[Len(s) + 1] = e
OBVIOUS

\* The empty log is a log.
LEMMA EmptyFacts ==
  ASSUME NEW S
  PROVE  <<>> \in Seq(S) /\ Len(<<>>) = 0
OBVIOUS

\* A log that is not empty has a first block.
LEMMA NonemptyFacts ==
  ASSUME NEW S, NEW s \in Seq(S), s # <<>>
  PROVE  Len(s) \in Nat /\ 1 <= Len(s)
OBVIOUS

\* There are finitely many operations in progress.
LEMMA ActiveFinite == IsFiniteSet(Active) /\ Cardinality(Active) \in Nat
<1>1. Active \subseteq Procs
  BY Zenon DEF Active
<1>2. IsFiniteSet(Active)
  BY <1>1, ProcsAssumption, FS_Subset, Zenon
<1> QED
  BY <1>2, FS_CardinalityType, Zenon

\* A process in a loop is at a block of the log.
LEMMA AtBlock ==
  ASSUME TypeOK, LogShape, NEW p \in Procs,
         pc[p] \in {"write_log", "install", "recover"}
  PROVE  /\ tail[p] \in 1..Len(lh) /\ tail[p] \in 1..(nlog - 1)
         /\ lh[tail[p]] \in Blocks /\ slot[tail[p]] \in OnDisk
<1>1. tail[p] \in Nat \ {0} /\ tail[p] <= Len(lh) /\ Len(lh) < nlog
  BY Zenon DEF TypeOK, LogShape
<1>2. Len(lh) \in Nat /\ nlog \in Nat
  BY SizeAssumption DEF TypeOK
<1>3. tail[p] \in 1..Len(lh) /\ tail[p] \in 1..(nlog - 1)
  BY <1>1, <1>2
<1> QED
  BY <1>3 DEF TypeOK

\* The block that install_trans() is about to unpin is pinned.
LEMMA PinnedAtTail ==
  ASSUME TypeOK, LogShape, PinsBalanced, Exclusive,
         NEW p \in Procs, pc[p] = "install"
  PROVE  pin[lh[tail[p]]] = 1
<1>1. tail[p] \in 1..Len(lh) /\ lh[tail[p]] \in Blocks
  BY AtBlock, Zenon
<1>2. pc[InitProc] \notin Recovery
  BY Zenon DEF Exclusive, Commit
<1>3. ~Installed(tail[p])
  <2>1. \A q \in Procs : pc[q] \in {"install", "clear"} => q = p
    BY Zenon DEF Exclusive, CommitAlone, Commit
  <2> QED
    BY <2>1 DEF Installed, TypeOK
<1> QED
  BY <1>1, <1>2, <1>3, Zenon DEF PinsBalanced

------------------------------------------------------------------------------
\* Types.

\* The initial state is well typed.
LEMMA InitType ==
  ASSUME Init
  PROVE  TypeOK
<1> DEFINE d == CHOOSE x \in Data : TRUE
<1>1. d \in Data
  BY DataAssumption, Zenon
<1>2. slot \in [1..(nlog - 1) -> {d}]
  BY Zenon DEF Init
<1> HIDE DEF d
<1>3. slot \in [1..(nlog - 1) -> OnDisk] /\ home \in [Blocks -> OnDisk]
  BY <1>1, <1>2, Zenon DEF Init, OnDisk
<1>4. cache \in [Blocks -> OnDisk \cup {NotCached}] /\ pin \in [Blocks -> Nat]
  BY Zenon DEF Init
<1>5. /\ pc \in [Procs -> Locations] /\ tail \in [Procs -> Nat \ {0}]
      /\ wrote \in [Procs -> SUBSET Blocks]
  BY DEF Init, Locations, Recovery
<1>6. hdr \in Seq(Blocks) /\ lh \in Seq(Blocks)
  BY EmptyFacts, Zenon DEF Init
<1> QED
  BY <1>3, <1>4, <1>5, <1>6, Zenon DEF Init, TypeOK

\* begin_op(), log_write() and end_op() keep the types.
LEMMA TypeCall ==
  ASSUME TypeOK, Reserved, NEW p \in Procs, Call(p)
  PROVE  TypeOK'
<1>1. CASE begin_op(p)
  BY <1>1 DEF begin_op, TypeOK, Locations, disk, bufs
<1>2. CASE begin_op_sleep(p)
  BY <1>2, Zenon DEF begin_op_sleep, TypeOK, Locations, disk, bufs, log
<1>3. ASSUME NEW b \in Blocks, NEW v \in Data, log_write(p, b, v)
      PROVE  TypeOK'
  <2>1. lh' \in Seq(Blocks)
    <3>1. Append(lh, b) \in Seq(Blocks)
      BY AppendFacts, Zenon DEF TypeOK
    <3> QED
      BY <1>3, <3>1, Zenon DEF log_write, TypeOK
  <2>2. pin' \in [Blocks -> Nat]
    <3>1. [pin EXCEPT ![b] = @ + 1] \in [Blocks -> Nat]
      BY DEF TypeOK
    <3> QED
      BY <1>3, <3>1, Zenon DEF log_write, TypeOK
  <2>3. cache' \in [Blocks -> OnDisk \cup {NotCached}]
    BY <1>3, Zenon DEF log_write, TypeOK, OnDisk
  <2>4. wrote' \in [Procs -> SUBSET Blocks]
    BY <1>3 DEF log_write, TypeOK
  <2> QED
    BY <1>3, <2>1, <2>2, <2>3, <2>4, Zenon DEF log_write, TypeOK, disk
<1>4. ASSUME NEW b \in Blocks, log_write_panic(p, b)
      PROVE  TypeOK'
  BY <1>4, Zenon DEF log_write_panic, TypeOK, disk, bufs, log, thread
<1>5. pc[p] = "op" => outstanding \in Nat /\ outstanding >= 1
  <2>1. pc[p] = "op" => Cardinality(Active) # 0
    BY ActiveFinite, FS_EmptySet DEF Active
  <2> QED
    BY <2>1, ActiveFinite DEF Reserved
<1>6. CASE end_op(p)
  <2>1. pc' \in [Procs -> Locations]
    BY <1>6, Zenon DEF end_op, Woken, TypeOK, Locations
  <2>2. outstanding' \in Nat
    BY <1>5, <1>6 DEF end_op
  <2> QED
    BY <1>6, <2>1, <2>2, Zenon DEF end_op, EndOpPanic, TypeOK, disk, bufs
<1>7. CASE end_op_last(p)
  <2>1. pc' \in [Procs -> Locations] /\ tail' \in [Procs -> Nat \ {0}]
    BY <1>7 DEF end_op_last, TypeOK, Locations, Commit
  <2> QED
    BY <1>7, <2>1, Zenon DEF end_op_last, EndOpPanic, TypeOK, disk, bufs
<1> QED
  BY <1>1, <1>2, <1>3, <1>4, <1>6, <1>7, Zenon DEF Call

\* The types after a turn of a loop.
LEMMA TypeAdvance ==
  ASSUME TypeOK, NEW p \in Procs, NEW l \in Locations, NEW m \in Locations,
         Advance(p, l, m)
  PROVE  pc' \in [Procs -> Locations] /\ tail' \in [Procs -> Nat \ {0}]
<1>1. tail[p] \in Nat \ {0} /\ Len(lh) \in Nat
  BY DEF TypeOK
<1> QED
  BY <1>1 DEF Advance, TypeOK

\* The steps of commit() keep the types; bunpin() never goes below zero.
LEMMA TypeCommit ==
  ASSUME TypeOK, LogShape, PinsBalanced, Exclusive,
         NEW p \in Procs, CommitStep(p)
  PROVE  TypeOK'
<1>0. /\ {"write_log", "write_head", "install", "clear", "idle"} \subseteq Locations
      /\ "committed" \in Locations
  BY Zenon DEF Locations, Commit
<1>1. CASE write_log(p)
  <2>1. pc' \in [Procs -> Locations] /\ tail' \in [Procs -> Nat \ {0}]
    BY <1>0, <1>1, TypeAdvance, Zenon DEF write_log
  <2>2. Contents(lh[tail[p]]) \in OnDisk
    BY <1>1, AtBlock, DataAssumption, Zenon DEF write_log, Contents, TypeOK
  <2>3. slot' \in [1..(nlog - 1) -> OnDisk]
    BY <1>1, <2>2, Zenon DEF write_log, TypeOK
  <2> QED
    BY <1>1, <2>1, <2>3, Zenon DEF write_log, TypeOK, bufs, log
<1>2. CASE write_head(p)
  BY <1>0, <1>2, Zenon DEF write_head, TypeOK, bufs, log
<1>3. CASE install_trans(p)
  <2>1. pc' \in [Procs -> Locations] /\ tail' \in [Procs -> Nat \ {0}]
    BY <1>0, <1>3, TypeAdvance, Zenon DEF install_trans
  <2>2. lh[tail[p]] \in Blocks /\ slot[tail[p]] \in OnDisk
    BY <1>3, AtBlock, Zenon DEF install_trans
  <2>3. pin[lh[tail[p]]] = 1
    BY <1>3, <2>2, PinnedAtTail, Zenon DEF install_trans
  <2>4. pin' \in [Blocks -> Nat]
    BY <1>3, <2>2, <2>3 DEF install_trans, TypeOK
  <2>5. /\ home' \in [Blocks -> OnDisk]
        /\ cache' \in [Blocks -> OnDisk \cup {NotCached}]
    BY <1>3, <2>2, Zenon DEF install_trans, InstallBlock, TypeOK
  <2> QED
    BY <1>3, <2>1, <2>4, <2>5, Zenon DEF install_trans, TypeOK, log
<1>4. CASE clear(p)
  BY <1>0, <1>4, EmptyFacts, Zenon DEF clear, TypeOK, bufs
<1>5. CASE end_op_done(p)
  <2>1. pc' \in [Procs -> Locations]
    BY <1>5, Zenon DEF end_op_done, Woken, TypeOK, Locations
  <2> QED
    BY <1>5, <2>1, Zenon DEF end_op_done, TypeOK, disk, bufs
<1> QED
  BY <1>1, <1>2, <1>3, <1>4, <1>5, Zenon DEF CommitStep

\* The steps of recover_from_log() keep the types.
LEMMA TypeRecovery ==
  ASSUME TypeOK, LogShape, NEW p \in Procs, RecoveryStep(p)
  PROVE  TypeOK'
<1>0. {"recover", "recover_clear", "idle"} \subseteq Locations
  BY Zenon DEF Locations, Recovery
<1>1. CASE read_head(p)
  BY <1>0, <1>1, Zenon DEF read_head, TypeOK, disk, bufs
<1>2. CASE recover(p)
  <2>1. pc' \in [Procs -> Locations] /\ tail' \in [Procs -> Nat \ {0}]
    BY <1>0, <1>2, TypeAdvance, Zenon DEF recover
  <2>2. lh[tail[p]] \in Blocks /\ slot[tail[p]] \in OnDisk
    BY <1>2, AtBlock, Zenon DEF recover
  <2>3. /\ home' \in [Blocks -> OnDisk]
        /\ cache' \in [Blocks -> OnDisk \cup {NotCached}]
    BY <1>2, <2>2, Zenon DEF recover, InstallBlock, TypeOK
  <2> QED
    BY <1>2, <2>1, <2>3, Zenon DEF recover, TypeOK, log
<1>3. CASE recover_clear(p)
  BY <1>0, <1>3, EmptyFacts, Zenon DEF recover_clear, TypeOK, bufs
<1> QED
  BY <1>1, <1>2, <1>3, Zenon DEF RecoveryStep

\* A reboot keeps the types.
LEMMA TypeCrash ==
  ASSUME TypeOK, LogShape, CrashStep
  PROVE  TypeOK'
<1>0. Torn \in OnDisk
  BY Zenon DEF OnDisk
<1>1. slot' \in [1..(nlog - 1) -> OnDisk] /\ home' \in [Blocks -> OnDisk]
  <2>1. CASE Crash
    BY <2>1, Zenon DEF Crash, TypeOK
  <2>2. ASSUME NEW p \in Procs, CrashInWriteLog(p)
        PROVE  slot' \in [1..(nlog - 1) -> OnDisk] /\ home' \in [Blocks -> OnDisk]
    BY <1>0, <2>2, Zenon DEF CrashInWriteLog, TypeOK
  <2>3. ASSUME NEW p \in Procs, CrashInInstall(p)
        PROVE  slot' \in [1..(nlog - 1) -> OnDisk] /\ home' \in [Blocks -> OnDisk]
    BY <1>0, <2>3, Zenon DEF CrashInInstall, TypeOK
  <2> QED
    BY <2>1, <2>2, <2>3, Zenon DEF CrashStep
<1>2. Reboot
  BY Zenon DEF CrashStep, Crash, CrashInWriteLog, CrashInInstall
<1>3. /\ pc' \in [Procs -> Locations] /\ tail' \in [Procs -> Nat \ {0}]
      /\ wrote' \in [Procs -> SUBSET Blocks] /\ pin' \in [Blocks -> Nat]
      /\ cache' \in [Blocks -> OnDisk \cup {NotCached}]
  BY <1>2 DEF Reboot, Locations, Recovery
<1> QED
  BY <1>1, <1>2, <1>3, EmptyFacts, Zenon DEF Reboot, TypeOK

\* Reading a block in and recycling its buffer keep the types.
LEMMA TypeBuffer ==
  ASSUME TypeOK, NEW b \in Blocks, bread(b) \/ recycle(b)
  PROVE  TypeOK'
<1>1. cache' \in [Blocks -> OnDisk \cup {NotCached}]
  BY Zenon DEF bread, recycle, TypeOK
<1>2. UNCHANGED <<disk, pin, log, thread, panicked>>
  BY Zenon DEF bread, recycle
<1> QED
  BY <1>1, <1>2, Zenon DEF TypeOK, disk, log, thread

------------------------------------------------------------------------------
\* Who may be where.

\* At boot only the first process runs, and it recovers.
LEMMA InitExclusive ==
  ASSUME Init
  PROVE  Exclusive
BY Zenon DEF Init, Exclusive, CommitAlone, Commit, Recovery

\* The last end_op() becomes the only committer; begin_op() waits for it.
LEMMA ExclusiveCall ==
  ASSUME TypeOK, Exclusive, Reserved, NEW p \in Procs, Call(p)
  PROVE  Exclusive'
<1> USE DEF Exclusive, CommitAlone, Commit, Recovery
<1>1. CASE begin_op(p)
  BY <1>1 DEF begin_op, Up, MustWait, TypeOK
<1>2. CASE begin_op_sleep(p)
  BY <1>2 DEF begin_op_sleep, Up, TypeOK, log
<1>3. ASSUME NEW b \in Blocks, NEW v \in Data, log_write(p, b, v)
      PROVE  Exclusive'
  BY <1>3 DEF log_write
<1>4. ASSUME NEW b \in Blocks, log_write_panic(p, b)
      PROVE  Exclusive'
  BY <1>4 DEF log_write_panic, log, thread
<1>5. CASE end_op(p)
  <2>1. \A q \in Procs : pc'[q] = IF q = p THEN "idle" ELSE
           IF pc[q] = "sleeping" THEN "woken" ELSE pc[q]
    BY <1>5, Zenon DEF end_op, Woken, TypeOK
  <2> QED
    BY <1>5, <2>1, ProcsAssumption, Zenon DEF end_op, Up
<1>6. CASE end_op_last(p)
  <2>1. \A q \in Procs : pc[q] = "op" => q = p
    <3>1. outstanding = 1 /\ p \in Active
      BY <1>6, Zenon DEF end_op_last, Active
    <3>2. Cardinality(Active) = 1
      BY <3>1, Zenon DEF Reserved
    <3>3. PICK x : Active = {x}
      BY <3>2, ActiveFinite, FS_Singleton, Zenon
    <3> QED
      BY <3>1, <3>3, Zenon DEF Active
  <2> QED
    BY <1>6, <2>1 DEF end_op_last, Up, TypeOK
<1> QED
  BY <1>1, <1>2, <1>3, <1>4, <1>5, <1>6, Zenon DEF Call

\* The committer stays the only one until log.committing is reset.
LEMMA ExclusiveCommit ==
  ASSUME TypeOK, Exclusive, NEW p \in Procs, CommitStep(p)
  PROVE  Exclusive'
<1> USE DEF Exclusive, CommitAlone, Commit, Recovery
<1>1. ASSUME NEW l \in Commit, pc[p] \in Commit,
             pc' = [pc EXCEPT ![p] = l], UNCHANGED committing
      PROVE  Exclusive'
  BY <1>1, ProcsAssumption DEF TypeOK
<1>2. CASE write_log(p)
  BY <1>1, <1>2, Zenon DEF write_log, Advance, log
<1>3. CASE write_head(p)
  BY <1>1, <1>3, Zenon DEF write_head, log
<1>4. CASE install_trans(p)
  BY <1>1, <1>4, Zenon DEF install_trans, Advance, log
<1>5. CASE clear(p)
  BY <1>1, <1>5, Zenon DEF clear
<1>6. CASE end_op_done(p)
  <2>1. \A q \in Procs : pc'[q] = IF q = p THEN "idle" ELSE
           IF pc[q] = "sleeping" THEN "woken" ELSE pc[q]
    BY <1>6 DEF end_op_done, Woken, TypeOK
  <2> QED
    BY <1>6, <2>1, ProcsAssumption, Zenon DEF end_op_done, Up
<1> QED
  BY <1>2, <1>3, <1>4, <1>5, <1>6, Zenon DEF CommitStep

\* Recovery is the work of the first process alone.
LEMMA ExclusiveRecovery ==
  ASSUME TypeOK, Exclusive, NEW p \in Procs, RecoveryStep(p)
  PROVE  Exclusive'
<1> USE DEF Exclusive, CommitAlone, Commit, Recovery
<1>1. ASSUME NEW l \in Recovery \cup {"idle"}, pc[p] \in Recovery,
             pc' = [pc EXCEPT ![p] = l], UNCHANGED committing
      PROVE  Exclusive'
  BY <1>1, ProcsAssumption DEF TypeOK
<1>2. CASE read_head(p)
  BY <1>1, <1>2, Zenon DEF read_head
<1>3. CASE recover(p)
  BY <1>1, <1>3, Zenon DEF recover, Advance, log
<1>4. CASE recover_clear(p)
  BY <1>1, <1>4, Zenon DEF recover_clear
<1> QED
  BY <1>2, <1>3, <1>4, Zenon DEF RecoveryStep

\* After a reboot only the first process runs.
LEMMA ExclusiveCrash ==
  ASSUME CrashStep
  PROVE  Exclusive'
<1>1. Reboot
  BY Zenon DEF CrashStep, Crash, CrashInWriteLog, CrashInInstall
<1> QED
  BY <1>1, Zenon DEF Reboot, Exclusive, CommitAlone, Commit, Recovery

------------------------------------------------------------------------------
\* The shape of the log.

\* The log is empty at boot.
LEMMA InitShape ==
  ASSUME Init
  PROVE  LogShape
BY EmptyFacts, SizeAssumption DEF Init, LogShape, Injective, Recovery

\* log_write() adds a block once; the last end_op() starts the commit.
LEMMA ShapeCall ==
  ASSUME TypeOK, Exclusive, LogShape, Reserved, NEW p \in Procs, Call(p)
  PROVE  LogShape'
<1>1. CASE begin_op(p)
  BY <1>1, ProcsAssumption DEF begin_op, Up, LogShape, Injective, TypeOK, disk, Recovery
<1>2. CASE begin_op_sleep(p)
  BY <1>2, ProcsAssumption DEF begin_op_sleep, Up, LogShape, Injective, TypeOK, disk,
     log, Recovery
<1>3. ASSUME NEW b \in Blocks, NEW v \in Data, log_write(p, b, v)
      PROVE  LogShape'
  <2>1. /\ pc[p] = "op" /\ pc' = pc /\ tail' = tail /\ hdr' = hdr
        /\ committing' = committing
        /\ \A q \in Procs : pc[q] \notin Commit \cup Recovery
    BY <1>3, Zenon DEF log_write, MayWrite, Up, disk, Exclusive, CommitAlone
  <2>2. Injective(lh') /\ Len(lh') < nlog
    <3>1. CASE b \in Logged
      BY <1>3, <3>1, Zenon DEF log_write, LogShape
    <3>2. CASE b \notin Logged
      <4>1. lh' = Append(lh, b) /\ lh \in Seq(Blocks) /\ Len(lh) \in Nat
        BY <1>3, <3>2 DEF log_write, TypeOK
      <4>2. Len(lh) < nlog - 1
        BY <1>3, <4>1, SizeAssumption DEF log_write, LogFull
      <4>3. \A k \in 1..Len(lh) : lh[k] # b
        BY <3>2, Zenon DEF Logged
      <4> QED
        BY <4>1, <4>2, <4>3, AppendFacts, SizeAssumption DEF LogShape, Injective
    <3> QED
      BY <3>1, <3>2, Zenon
  <2> QED
    BY <2>1, <2>2, Zenon DEF LogShape, Commit, Recovery
<1>4. ASSUME NEW b \in Blocks, log_write_panic(p, b)
      PROVE  LogShape'
  BY <1>4 DEF log_write_panic, LogShape, Injective, disk, log, thread
<1>5. CASE end_op(p)
  <2>1. \A q \in Procs : pc'[q] = IF q = p THEN "idle" ELSE
           IF pc[q] = "sleeping" THEN "woken" ELSE pc[q]
    BY <1>5, Zenon DEF end_op, Woken, TypeOK
  <2>2. \E q \in Procs : q # p /\ pc[q] = "op"
    <3>1. p \in Active /\ Active # {p}
      BY <1>5, FS_Singleton, Zenon DEF end_op, Active, Reserved
    <3> QED
      BY <3>1, Zenon DEF Active
  <2>3. pc[InitProc] \notin Recovery /\ pc[p] = "op"
    BY <1>5, Zenon DEF end_op, Up
  <2>4. hdr = <<>> \/ \E q \in Procs : pc[q] \in {"install", "clear"}
    BY <1>5, <2>3, Zenon DEF end_op, LogShape, disk
  <2>5. UNCHANGED <<hdr, lh, tail>>
    BY <1>5, Zenon DEF end_op, disk
  <2>6. /\ \E q \in Procs : pc'[q] = "op"
        /\ hdr = <<>> \/ \E q \in Procs : pc'[q] \in {"install", "clear"}
    BY <2>1, <2>2, <2>3, <2>4
  <2>7. \A q \in Procs : pc'[q] \in {"idle", "woken", pc[q]}
    BY <2>1, Zenon
  <2> QED
    BY <2>5, <2>6, <2>7, Zenon DEF LogShape, Injective
<1>6. CASE end_op_last(p)
  <2>1. lh # <<>> => 1 <= Len(lh)
    BY NonemptyFacts, Zenon DEF TypeOK
  <2> QED
    BY <1>6, <2>1 DEF end_op_last, LogShape, Injective, disk, TypeOK, Exclusive,
       CommitAlone, Commit
<1> QED
  BY <1>1, <1>2, <1>3, <1>4, <1>5, <1>6, Zenon DEF Call

\* Where a loop over the log goes next.
LEMMA AdvanceFacts ==
  ASSUME TypeOK, NEW p \in Procs, NEW l, NEW m, Advance(p, l, m),
         tail[p] \in 1..Len(lh)
  PROVE  /\ \A q \in Procs \ {p} : pc'[q] = pc[q] /\ tail'[q] = tail[q]
         /\ \/ /\ pc'[p] = l /\ tail'[p] = tail[p] + 1
               /\ tail[p] + 1 \in 1..Len(lh)
            \/ pc'[p] = m /\ tail'[p] = 1 /\ tail[p] = Len(lh)
<1>1. tail[p] \in Nat /\ Len(lh) \in Nat
  BY DEF TypeOK
<1> QED
  BY <1>1 DEF Advance, TypeOK

\* Nobody else is committing or recovering.
LEMMA Alone ==
  ASSUME TypeOK, Exclusive, NEW p \in Procs, pc[p] \in Commit \cup Recovery
  PROVE  /\ \A q \in Procs \ {p} : pc[q] \notin Commit \cup Recovery \cup {"op"}
         /\ pc[p] \in Commit => committing /\ pc[InitProc] \notin Recovery
         /\ pc[p] \in Recovery => ~committing /\ p = InitProc
BY ProcsAssumption, Zenon DEF Exclusive, CommitAlone, Commit, Recovery

\* The log is empty, in memory and on disk, and nobody is in a loop over it.
LEMMA ShapeEmpty ==
  ASSUME lh' = <<>>, hdr' = <<>>,
         \A q \in Procs : pc'[q] \notin {"write_log", "write_head", "install",
                                         "recover", "read_head"}
  PROVE  LogShape'
<1>1. Injective(<<>>) /\ Len(<<>>) < nlog
  BY EmptyFacts, SizeAssumption DEF Injective
<1> QED
  BY <1>1, Zenon DEF LogShape

\* The loops of commit() stay within the log, and the header on disk is
\* either empty or the log in memory.
LEMMA ShapeCommit ==
  ASSUME TypeOK, Exclusive, LogShape, NEW p \in Procs, CommitStep(p)
  PROVE  LogShape'
<1>0. /\ pc[p] \in Commit /\ committing /\ pc[InitProc] \notin Recovery
      /\ \A q \in Procs \ {p} : pc[q] \notin Commit \cup Recovery \cup {"op"}
  BY Alone, Zenon DEF CommitStep, write_log, write_head, install_trans, clear,
       end_op_done, Commit
<1>1. CASE write_log(p)
  <2>1. tail[p] \in 1..Len(lh) /\ tail[p] \in Nat /\ Len(lh) \in Nat
    BY <1>1, AtBlock DEF write_log, TypeOK
  <2>2. lh # <<>>
    BY <2>1, EmptyFacts
  <2>3. Advance(p, "write_log", "write_head") /\ UNCHANGED <<hdr, lh, committing>>
    BY <1>1, Zenon DEF write_log, log
  <2>4. \/ pc'[p] = "write_log" /\ tail'[p] <= Len(lh)
        \/ pc'[p] = "write_head" /\ tail'[p] = 1
    BY <2>1, <2>3, AdvanceFacts
  <2>5. \A q \in Procs \ {p} : pc'[q] = pc[q]
    BY <2>1, <2>3, AdvanceFacts, Zenon
  <2>6. hdr = <<>>
    BY <1>0, <1>1, Zenon DEF write_log, LogShape, Commit
  <2>7. \A q \in Procs \ {p} : pc'[q] \notin Commit \cup Recovery
    BY <1>0, <2>5, Zenon
  <2> QED
    BY <1>0, <2>2, <2>3, <2>4, <2>6, <2>7, Zenon DEF LogShape, Commit, Recovery
<1>2. CASE write_head(p)
  <2>1. 1 <= Len(lh)
    BY <1>2, NonemptyFacts, Zenon DEF write_head, TypeOK, LogShape
  <2>2. /\ hdr' = lh /\ UNCHANGED <<lh, committing, tail>> /\ tail[p] = 1
    BY <1>2, Zenon DEF write_head, log, LogShape
  <2>3. pc'[p] = "install" /\ \A q \in Procs \ {p} : pc'[q] = pc[q]
    BY <1>2, Zenon DEF write_head, TypeOK
  <2>4. \A q \in Procs \ {p} : pc'[q] \notin Commit \cup Recovery
    BY <1>0, <2>3, Zenon
  <2> QED
    BY <1>0, <2>1, <2>2, <2>3, <2>4, Zenon DEF LogShape, Commit, Recovery
<1>3. CASE install_trans(p)
  <2>1. tail[p] \in 1..Len(lh) /\ tail[p] \in Nat /\ Len(lh) \in Nat
    BY <1>3, AtBlock DEF install_trans, TypeOK
  <2>2. Advance(p, "install", "clear") /\ UNCHANGED <<hdr, lh, committing>>
    BY <1>3, Zenon DEF install_trans, log
  <2>3. hdr = lh
    BY <1>3, Zenon DEF install_trans, LogShape
  <2>4. (pc'[p] = "install" /\ tail'[p] <= Len(lh)) \/ pc'[p] = "clear"
    BY <2>1, <2>2, AdvanceFacts
  <2>5. \A q \in Procs \ {p} : pc'[q] = pc[q]
    BY <2>1, <2>2, AdvanceFacts, Zenon
  <2>6. \A q \in Procs \ {p} : pc'[q] \notin Commit \cup Recovery
    BY <1>0, <2>5, Zenon
  <2> QED
    BY <1>0, <2>2, <2>3, <2>4, <2>6, Zenon DEF LogShape, Commit, Recovery
<1>4. CASE clear(p)
  <2>1. lh' = <<>> /\ hdr' = <<>> /\ pc' = [pc EXCEPT ![p] = "committed"]
    BY <1>4, Zenon DEF clear
  <2>2. \A q \in Procs : pc'[q] \notin {"write_log", "write_head", "install",
                                        "recover", "read_head"}
    BY <1>0, <2>1, Zenon DEF TypeOK, Commit, Recovery
  <2> QED
    BY <2>1, <2>2, ShapeEmpty, Zenon
<1>5. CASE end_op_done(p)
  <2>1. \A q \in Procs : pc'[q] = IF q = p THEN "idle" ELSE
           IF pc[q] = "sleeping" THEN "woken" ELSE pc[q]
    BY <1>5, Zenon DEF end_op_done, Woken, TypeOK
  <2>2. lh = <<>> /\ hdr = <<>>
    BY <1>0, <1>5, Zenon DEF end_op_done, LogShape, Commit
  <2>3. lh' = <<>> /\ hdr' = <<>>
    BY <1>5, <2>2, Zenon DEF end_op_done, disk
  <2>4. \A q \in Procs : pc'[q] \notin {"write_log", "write_head", "install",
                                        "recover", "read_head"}
    BY <1>0, <2>1 DEF Commit, Recovery
  <2> QED
    BY <2>3, <2>4, ShapeEmpty, Zenon
<1> QED
  BY <1>1, <1>2, <1>3, <1>4, <1>5, Zenon DEF CommitStep

\* recover_from_log() installs the header that it read.
LEMMA ShapeRecovery ==
  ASSUME TypeOK, Exclusive, LogShape, NEW p \in Procs, RecoveryStep(p)
  PROVE  LogShape'
<1>0. /\ pc[p] \in Recovery /\ ~committing /\ p = InitProc
      /\ \A q \in Procs \ {p} : pc[q] \notin Commit \cup Recovery \cup {"op"}
  BY Alone, Zenon DEF RecoveryStep, read_head, recover, recover_clear, Recovery
<1>1. CASE read_head(p)
  <2>1. hdr # <<>> => 1 <= Len(hdr)
    BY NonemptyFacts, Zenon DEF TypeOK
  <2>2. lh' = hdr /\ UNCHANGED <<hdr, committing, tail>> /\ tail[p] = 1
    BY <1>1, Zenon DEF read_head, disk, LogShape
  <2>3. pc'[p] = IF hdr = <<>> THEN "recover_clear" ELSE "recover"
    BY <1>1, Zenon DEF read_head, TypeOK
  <2>4. \A q \in Procs \ {p} : pc'[q] \notin Commit \cup Recovery
    BY <1>0, <1>1, Zenon DEF read_head, TypeOK
  <2> QED
    BY <1>0, <2>1, <2>2, <2>3, <2>4, Zenon DEF LogShape, Commit, Recovery
<1>2. CASE recover(p)
  <2>1. tail[p] \in 1..Len(lh) /\ tail[p] \in Nat /\ Len(lh) \in Nat
    BY <1>2, AtBlock DEF recover, TypeOK
  <2>2. Advance(p, "recover", "recover_clear") /\ UNCHANGED <<hdr, lh, committing>>
    BY <1>2, Zenon DEF recover, log
  <2>3. hdr = lh
    BY <1>2, Zenon DEF recover, LogShape
  <2>4. (pc'[p] = "recover" /\ tail'[p] <= Len(lh)) \/ pc'[p] = "recover_clear"
    BY <2>1, <2>2, AdvanceFacts
  <2>5. \A q \in Procs \ {p} : pc'[q] = pc[q]
    BY <2>1, <2>2, AdvanceFacts, Zenon
  <2>6. \A q \in Procs \ {p} : pc'[q] \notin Commit \cup Recovery
    BY <1>0, <2>5, Zenon
  <2> QED
    BY <1>0, <2>2, <2>3, <2>4, <2>6, Zenon DEF LogShape, Commit, Recovery
<1>3. CASE recover_clear(p)
  <2>1. lh' = <<>> /\ hdr' = <<>> /\ pc' = [pc EXCEPT ![p] = "idle"]
    BY <1>3, Zenon DEF recover_clear
  <2>2. \A q \in Procs : pc'[q] \notin {"write_log", "write_head", "install",
                                        "recover", "read_head"}
    BY <1>0, <2>1 DEF TypeOK, Commit, Recovery
  <2> QED
    BY <2>1, <2>2, ShapeEmpty, Zenon
<1> QED
  BY <1>1, <1>2, <1>3, Zenon DEF RecoveryStep

\* A reboot forgets the log in memory and keeps the header.
LEMMA ShapeCrash ==
  ASSUME LogShape, CrashStep
  PROVE  LogShape'
<1>1. Reboot
  BY Zenon DEF CrashStep, Crash, CrashInWriteLog, CrashInInstall
<1> QED
  BY <1>1, EmptyFacts, SizeAssumption, ProcsAssumption
     DEF Reboot, LogShape, Injective, Recovery

\* The buffer cache does not touch the log.
LEMMA ShapeBuffer ==
  ASSUME LogShape, Exclusive, NEW b \in Blocks, bread(b) \/ recycle(b)
  PROVE  LogShape' /\ Exclusive'
<1>1. UNCHANGED <<disk, log, thread>>
  BY Zenon DEF bread, recycle
<1> QED
  BY <1>1 DEF LogShape, Injective, Exclusive, CommitAlone, disk, log, thread

------------------------------------------------------------------------------
\* Pins.

\* Nothing is pinned at boot.
LEMMA InitPins ==
  ASSUME Init
  PROVE  PinsBalanced
BY EmptyFacts DEF Init, PinsBalanced

\* log_write() pins a block when it adds it to the log, and only then.
LEMMA PinsCall ==
  ASSUME TypeOK, Exclusive, LogShape, PinsBalanced, NEW p \in Procs, Call(p)
  PROVE  PinsBalanced'
<1>1. ASSUME Up, pc[p] \in {"idle", "woken", "op"},
             \A q \in Procs : \/ pc'[q] = pc[q] /\ tail'[q] = tail[q]
                              \/ /\ pc[q] \notin {"install", "clear"} \cup Recovery
                                 /\ pc'[q] \notin {"install", "clear"} \cup Recovery,
             UNCHANGED <<lh, pin>>
      PROVE  PinsBalanced'
  <2>1. \A k : Installed(k)' <=> Installed(k)
    BY <1>1, Zenon DEF Installed
  <2>2. pc[InitProc] \notin Recovery /\ pc'[InitProc] \notin Recovery
    BY <1>1, ProcsAssumption, Zenon DEF Up
  <2> QED
    BY <1>1, <2>1, <2>2, Zenon DEF PinsBalanced
<1>2. CASE begin_op(p)
  BY <1>1, <1>2, Zenon DEF begin_op, TypeOK, bufs, Recovery
<1>3. CASE begin_op_sleep(p)
  BY <1>1, <1>3, Zenon DEF begin_op_sleep, TypeOK, bufs, log, Recovery
<1>4. ASSUME NEW b \in Blocks, NEW v \in Data, log_write(p, b, v)
      PROVE  PinsBalanced'
  <2>1. /\ pc' = pc /\ tail' = tail /\ pc[InitProc] \notin Recovery
        /\ \A q \in Procs : pc[q] \notin {"install", "clear"}
    BY <1>4, Zenon DEF log_write, MayWrite, Up, Exclusive, CommitAlone, Commit
  <2>2. \A k : ~Installed(k) /\ ~Installed(k)'
    BY <2>1, Zenon DEF Installed
  <2>3. CASE b \in Logged
    BY <1>4, <2>1, <2>2, <2>3 DEF log_write, PinsBalanced
  <2>4. CASE b \notin Logged
    <3>1. \A k \in 1..Len(lh) : lh[k] # b
      BY <2>4, Zenon DEF Logged
    <3>2. lh' = Append(lh, b) /\ pin' = [pin EXCEPT ![b] = @ + 1]
      BY <1>4, <2>4, Zenon DEF log_write
    <3>3. /\ Len(lh) \in Nat /\ Len(lh') = Len(lh) + 1 /\ lh'[Len(lh) + 1] = b
          /\ \A k \in 1..Len(lh) : lh'[k] = lh[k]
      BY <3>2, AppendFacts DEF TypeOK
    <3>4. pin[b] = 0
      BY <3>1, Zenon DEF PinsBalanced
    <3>5. ASSUME NEW c \in Blocks
          PROVE  (\E k \in 1..Len(lh') : lh'[k] = c)
                   <=> (c = b \/ \E k \in 1..Len(lh) : lh[k] = c)
      BY <3>3
    <3>6. \A c \in Blocks : pin'[c] = IF c = b THEN 1 ELSE pin[c]
      BY <3>2, <3>4 DEF TypeOK
    <3> QED
      BY <2>1, <2>2, <3>5, <3>6 DEF PinsBalanced
  <2> QED
    BY <2>3, <2>4, Zenon
<1>5. ASSUME NEW b \in Blocks, log_write_panic(p, b)
      PROVE  PinsBalanced'
  BY <1>5 DEF log_write_panic, PinsBalanced, Installed, bufs, log, thread
<1>6. CASE end_op(p)
  BY <1>1, <1>6 DEF end_op, Woken, TypeOK, bufs, Recovery
<1>7. CASE end_op_last(p)
  BY <1>1, <1>7, Zenon DEF end_op_last, TypeOK, bufs, Recovery
<1> QED
  BY <1>2, <1>3, <1>4, <1>5, <1>6, <1>7, Zenon DEF Call

\* install_trans() unpins each block once.
LEMMA PinsCommit ==
  ASSUME TypeOK, Exclusive, LogShape, PinsBalanced, NEW p \in Procs, CommitStep(p)
  PROVE  PinsBalanced'
<1>0. /\ pc[p] \in Commit /\ committing /\ pc[InitProc] \notin Recovery
      /\ \A q \in Procs \ {p} : pc[q] \notin Commit \cup Recovery \cup {"op"}
  BY Alone, Zenon DEF CommitStep, write_log, write_head, install_trans, clear,
       end_op_done, Commit
<1>1. \A q \in Procs \ {p} : pc[q] \notin {"install", "clear"}
  BY <1>0, Zenon DEF Commit
<1>2. CASE write_log(p)
  <2>1. tail[p] \in 1..Len(lh)
    BY <1>2, AtBlock, Zenon DEF write_log
  <2>2. Advance(p, "write_log", "write_head") /\ UNCHANGED <<lh, pin>>
    BY <1>2, Zenon DEF write_log, log, bufs
  <2>3. /\ \A q \in Procs \ {p} : pc'[q] = pc[q] /\ tail'[q] = tail[q]
        /\ pc'[p] \in {"write_log", "write_head"}
    BY <2>1, <2>2, AdvanceFacts, Zenon
  <2>4. \A k : ~Installed(k) /\ ~Installed(k)'
    BY <1>1, <1>2, <2>3, Zenon DEF Installed, write_log
  <2>5. pc'[InitProc] \notin Recovery
    BY <1>0, <2>3, ProcsAssumption, Zenon DEF Recovery
  <2> QED
    BY <1>0, <2>2, <2>4, <2>5 DEF PinsBalanced
<1>3. CASE write_head(p)
  <2>1. \A q \in Procs : pc'[q] = IF q = p THEN "install" ELSE pc[q]
    BY <1>3, Zenon DEF write_head, TypeOK
  <2>2. tail' = tail /\ tail[p] = 1 /\ UNCHANGED <<lh, pin>>
    BY <1>3, Zenon DEF write_head, LogShape, bufs, log
  <2>3. \A k \in 1..Len(lh) : ~Installed(k) /\ ~Installed(k)'
    BY <1>1, <1>3, <2>1, <2>2 DEF Installed, write_head
  <2>4. pc'[InitProc] \notin Recovery
    BY <1>0, <2>1, ProcsAssumption, Zenon DEF Recovery
  <2> QED
    BY <1>0, <2>2, <2>3, <2>4 DEF PinsBalanced
<1>4. CASE install_trans(p)
  <2>1. tail[p] \in 1..Len(lh) /\ tail[p] \in Nat /\ Len(lh) \in Nat
    BY <1>4, AtBlock DEF install_trans, TypeOK
  <2>2. Advance(p, "install", "clear") /\ lh' = lh
    BY <1>4, Zenon DEF install_trans, log
  <2>3. \A k \in 1..Len(lh) : Installed(k) <=> k < tail[p]
    BY <1>1, <1>4, Zenon DEF Installed, install_trans
  <2>4. \A k \in 1..Len(lh) : Installed(k)' <=> k <= tail[p]
    <3>1. \A q \in Procs \ {p} : pc'[q] \notin {"install", "clear"}
      BY <1>1, <2>1, <2>2, AdvanceFacts, Zenon
    <3>2. \/ pc'[p] = "install" /\ tail'[p] = tail[p] + 1
          \/ pc'[p] = "clear" /\ tail[p] = Len(lh)
      BY <2>1, <2>2, AdvanceFacts, Zenon
    <3> QED
      BY <2>1, <3>1, <3>2 DEF Installed
  <2>5. pin[lh[tail[p]]] = 1
    BY <1>4, PinnedAtTail, Zenon DEF install_trans
  <2>6. \A c \in Blocks : pin'[c] = IF c = lh[tail[p]] THEN 0 ELSE pin[c]
    BY <1>4, <2>5 DEF install_trans, TypeOK
  <2>7. \A k \in 1..Len(lh) : lh[k] = lh[tail[p]] => k = tail[p]
    BY <2>1, Zenon DEF LogShape, Injective
  <2>8. pc'[InitProc] \notin Recovery
    BY <1>0, <2>1, <2>2, AdvanceFacts, ProcsAssumption DEF Recovery
  <2>9. ASSUME NEW c \in Blocks
        PROVE  (\E k \in 1..Len(lh) : lh[k] = c /\ ~Installed(k)')
                 <=> /\ c # lh[tail[p]]
                     /\ \E k \in 1..Len(lh) : lh[k] = c /\ ~Installed(k)
    BY <2>1, <2>3, <2>4, <2>7
  <2> QED
    BY <1>0, <2>2, <2>6, <2>8, <2>9 DEF PinsBalanced
<1>5. CASE clear(p)
  <2>1. \A k : Installed(k)
    BY <1>5, Zenon DEF clear, Installed
  <2>2. lh' = <<>> /\ pin' = pin
    BY <1>5, Zenon DEF clear, bufs
  <2> QED
    BY <2>1, <2>2, EmptyFacts DEF PinsBalanced
<1>6. CASE end_op_done(p)
  <2>1. lh = <<>> /\ lh' = <<>> /\ pin' = pin
    BY <1>6, Zenon DEF end_op_done, LogShape, bufs
  <2> QED
    BY <2>1, EmptyFacts DEF PinsBalanced
<1> QED
  BY <1>2, <1>3, <1>4, <1>5, <1>6, Zenon DEF CommitStep

\* Recovery pins and unpins nothing.
LEMMA PinsRecovery ==
  ASSUME TypeOK, Exclusive, LogShape, PinsBalanced, NEW p \in Procs, RecoveryStep(p)
  PROVE  PinsBalanced'
<1>0. pc[p] \in Recovery /\ p = InitProc
  BY Alone, Zenon DEF RecoveryStep, read_head, recover, recover_clear, Recovery
<1>1. \A b \in Blocks : pin[b] = 0
  BY <1>0, Zenon DEF PinsBalanced
<1>2. CASE read_head(p)
  BY <1>0, <1>1, <1>2, Zenon DEF read_head, PinsBalanced, bufs, TypeOK, Recovery
<1>3. CASE recover(p)
  <2>1. pc'[p] \in Recovery /\ pin' = pin
    BY <1>3, AtBlock, AdvanceFacts DEF recover, Recovery
  <2> QED
    BY <1>0, <1>1, <2>1, Zenon DEF PinsBalanced
<1>4. CASE recover_clear(p)
  BY <1>1, <1>4, EmptyFacts DEF recover_clear, PinsBalanced, bufs
<1> QED
  BY <1>2, <1>3, <1>4, Zenon DEF RecoveryStep

\* A reboot forgets the pins.
LEMMA PinsCrash ==
  ASSUME CrashStep
  PROVE  PinsBalanced'
<1>1. Reboot
  BY Zenon DEF CrashStep, Crash, CrashInWriteLog, CrashInInstall
<1> QED
  BY <1>1, EmptyFacts DEF Reboot, PinsBalanced

\* The buffer cache does not touch the pins.
LEMMA PinsBuffer ==
  ASSUME PinsBalanced, NEW b \in Blocks, bread(b) \/ recycle(b)
  PROVE  PinsBalanced'
<1>1. UNCHANGED <<pin, log, thread>>
  BY Zenon DEF bread, recycle
<1> QED
  BY <1>1 DEF PinsBalanced, Installed, log, thread

------------------------------------------------------------------------------
\* Where the contents of a block are.

\* At boot every block is in its home, and nothing is cached.
LEMMA InitCopies ==
  ASSUME Init
  PROVE  Copies
<1>1. \A b \in Blocks : home[b] # Torn
  BY DataAssumption, Zenon DEF Init
<1> QED
  BY <1>1, EmptyFacts, DataAssumption DEF Init, Copies

\* While the log is being copied or not yet being committed, every logged
\* block is pinned, and so cached.
LEMMA LoggedCached ==
  ASSUME TypeOK, Exclusive, PinsBalanced, Copies, pc[InitProc] \notin Recovery,
         NEW k \in 1..Len(lh), ~Installed(k)
  PROVE  lh[k] \in Blocks /\ pin[lh[k]] = 1 /\ cache[lh[k]] # NotCached
<1>1. lh[k] \in Blocks
  BY DEF TypeOK
<1>2. pin[lh[k]] = 1
  BY <1>1, Zenon DEF PinsBalanced
<1> QED
  BY <1>1, <1>2 DEF Copies

\* log_write() changes a pinned buffer and no disk block.
LEMMA CopiesCall ==
  ASSUME TypeOK, Exclusive, LogShape, PinsBalanced, Copies, NEW p \in Procs, Call(p)
  PROVE  Copies'
<1>1. ASSUME pc[p] \in {"idle", "woken", "op"}, Up,
             \A q \in Procs : \/ pc'[q] = pc[q] /\ tail'[q] = tail[q]
                              \/ pc'[q] \in {"idle", "woken", "op", "sleeping", "committed"}
                              \/ pc'[q] = "write_log" /\ tail'[q] = 1,
             UNCHANGED <<disk, bufs, lh>>
      PROVE  Copies'
  <2>1. pc[InitProc] \notin Recovery
    BY <1>1, Zenon DEF Up
  <2>2. UNCHANGED <<hdr, slot, home, cache, pin, lh>>
    BY <1>1, Zenon DEF disk, bufs
  <2>3. \A b \in Blocks : home[b] # Torn
    BY <2>1, Zenon DEF Copies
  <2>4. ASSUME NEW q \in Procs
        PROVE
    /\ pc'[q] = "write_log" => \A k \in 1..(tail'[q] - 1) : slot[k] = cache[lh[k]]
    /\ pc'[q] = "write_head" => \A k \in 1..Len(lh) : slot[k] = cache[lh[k]]
    /\ pc'[q] = "install" => \A k \in tail'[q]..Len(lh) : slot[k] = cache[lh[k]]
    /\ pc'[q] \in {"install", "recover"} =>
         \A k \in 1..(tail'[q] - 1) : home[lh[k]] = slot[k]
    /\ pc'[q] \in {"clear", "recover_clear"} =>
         \A k \in 1..Len(lh) : home[lh[k]] = slot[k]
    <3>1. CASE pc'[q] = pc[q] /\ tail'[q] = tail[q]
      BY <3>1, Zenon DEF Copies
    <3>2. CASE pc'[q] = "write_log" /\ tail'[q] = 1
      BY <3>2
    <3>3. CASE pc'[q] \in {"idle", "woken", "op", "sleeping", "committed"}
      BY <3>3, Zenon
    <3> QED
      BY <1>1, <3>1, <3>2, <3>3, Zenon
  <2>5. \A b \in Blocks :
           /\ cache'[b] # Torn /\ home'[b] # Torn
           /\ cache'[b] = home'[b] \/ cache'[b] = NotCached \/ pin'[b] > 0
           /\ pin'[b] > 0 => cache'[b] # NotCached
    BY <2>2, <2>3, Zenon DEF Copies
  <2>6. \A k \in 1..Len(hdr') : slot'[k] # Torn
    BY <2>2, Zenon DEF Copies
  <2> QED
    BY <2>2, <2>4, <2>5, <2>6, Zenon DEF Copies
<1>2. CASE begin_op(p)
  BY <1>1, <1>2, Zenon DEF begin_op, TypeOK
<1>3. CASE begin_op_sleep(p)
  BY <1>1, <1>3, Zenon DEF begin_op_sleep, TypeOK, log
<1>4. ASSUME NEW b \in Blocks, NEW v \in Data, log_write(p, b, v)
      PROVE  Copies'
  <2>1. /\ pc' = pc /\ pc[InitProc] \notin Recovery /\ UNCHANGED disk
        /\ \A q \in Procs : pc[q] \notin Commit \cup Recovery
    BY <1>4, Zenon DEF log_write, MayWrite, Up, Exclusive, CommitAlone
  <2>2. cache' = [cache EXCEPT ![b] = v] /\ v # Torn /\ v # NotCached
    BY <1>4, DataAssumption, Zenon DEF log_write
  <2>3. pin'[b] > 0
    <3>1. CASE b \in Logged
      <4>1. PICK k \in 1..Len(lh) : lh[k] = b
        BY <3>1, Zenon DEF Logged
      <4>2. ~Installed(k)
        BY <2>1, Zenon DEF Installed, Commit
      <4> QED
        BY <1>4, <2>1, <3>1, <4>1, <4>2 DEF log_write, PinsBalanced
    <3>2. CASE b \notin Logged
      BY <1>4, <3>2 DEF log_write, TypeOK
    <3> QED
      BY <3>1, <3>2, Zenon
  <2>4. ASSUME NEW c \in Blocks
        PROVE  /\ cache'[c] # Torn
               /\ home'[c] = Torn => c \in InHdr' /\ pc'[InitProc] \in Recovery
               /\ cache'[c] = home'[c] \/ cache'[c] = NotCached \/ pin'[c] > 0
               /\ pin'[c] > 0 => cache'[c] # NotCached
    <3>1. CASE c = b
      BY <2>1, <2>2, <2>3, <3>1 DEF Copies, TypeOK, disk, InHdr
    <3>2. CASE c # b
      <4>1. cache'[c] = cache[c] /\ pin'[c] = pin[c]
        BY <1>4, <2>2, <3>2, Zenon DEF log_write, TypeOK
      <4> QED
        BY <2>1, <4>1 DEF Copies, disk, InHdr
    <3> QED
      BY <3>1, <3>2, Zenon
  <2> QED
    BY <2>1, <2>4, Zenon DEF Copies, disk, Commit, Recovery
<1>5. ASSUME NEW b \in Blocks, log_write_panic(p, b)
      PROVE  Copies'
  BY <1>5 DEF log_write_panic, Copies, InHdr, disk, bufs, log, thread
<1>6. CASE end_op(p)
  BY <1>1, <1>6, Zenon DEF end_op, Woken, TypeOK
<1>7. CASE end_op_last(p)
  BY <1>1, <1>7, Zenon DEF end_op_last, TypeOK
<1> QED
  BY <1>2, <1>3, <1>4, <1>5, <1>6, <1>7, Zenon DEF Call

\* write_log() copies the buffers to the log, install_trans() the log to the
\* homes, and the log is cleared when all blocks are home.
LEMMA CopiesCommit ==
  ASSUME TypeOK, Exclusive, LogShape, PinsBalanced, Copies,
         NEW p \in Procs, CommitStep(p)
  PROVE  Copies'
<1>0. /\ pc[p] \in Commit /\ committing /\ pc[InitProc] \notin Recovery
      /\ \A q \in Procs \ {p} : pc[q] \notin Commit \cup Recovery \cup {"op"}
  BY Alone, Zenon DEF CommitStep, write_log, write_head, install_trans, clear,
       end_op_done, Commit
<1>1. \A b \in Blocks : home[b] # Torn
  BY <1>0, Zenon DEF Copies
<1>2. CASE write_log(p)
  <2>1. tail[p] \in 1..Len(lh) /\ tail[p] \in 1..(nlog - 1) /\ tail[p] \in Nat
    BY <1>2, AtBlock, Zenon DEF write_log, TypeOK
  <2>2. Advance(p, "write_log", "write_head")
    BY <1>2, Zenon DEF write_log
  <2>3. UNCHANGED <<hdr, home, cache, pin, lh>>
    BY <1>2, Zenon DEF write_log, bufs, log
  <2>4. hdr = <<>>
    BY <1>0, <1>2, Zenon DEF write_log, LogShape, Commit
  <2>5. ~Installed(tail[p])
    BY <1>0, <1>2, Zenon DEF Installed, write_log, Commit
  <2>6. slot' = [slot EXCEPT ![tail[p]] = cache[lh[tail[p]]]]
    BY <1>0, <1>2, <2>1, <2>5, LoggedCached, Zenon DEF write_log, Contents
  <2>7. \A k \in 1..tail[p] : slot'[k] = cache[lh[k]]
    <3>1. \A k \in 1..(tail[p] - 1) : slot[k] = cache[lh[k]]
      BY <1>2, Zenon DEF Copies, write_log
    <3>2. slot'[tail[p]] = cache[lh[tail[p]]]
      BY <2>1, <2>6, Zenon DEF TypeOK
    <3>3. \A k \in 1..(tail[p] - 1) : slot'[k] = slot[k]
      BY <2>1, <2>6 DEF TypeOK
    <3> QED
      BY <2>1, <3>1, <3>2, <3>3
  <2>8. \/ pc'[p] = "write_log" /\ tail'[p] = tail[p] + 1
        \/ pc'[p] = "write_head" /\ tail[p] = Len(lh)
    BY <2>1, <2>2, AdvanceFacts
  <2>9. \A q \in Procs \ {p} : pc'[q] \notin Commit \cup Recovery
    BY <1>0, <2>1, <2>2, AdvanceFacts
  <2>10. \A b \in Blocks :
           /\ cache'[b] # Torn /\ home'[b] # Torn
           /\ cache'[b] = home'[b] \/ cache'[b] = NotCached \/ pin'[b] > 0
           /\ pin'[b] > 0 => cache'[b] # NotCached
    BY <1>1, <2>3, Zenon DEF Copies
  <2>11. 1..Len(hdr') = {}
    BY <2>3, <2>4, EmptyFacts
  <2>12. /\ pc'[p] = "write_log" => \A k \in 1..(tail'[p] - 1) : slot'[k] = cache'[lh'[k]]
         /\ pc'[p] = "write_head" => \A k \in 1..Len(lh') : slot'[k] = cache'[lh'[k]]
         /\ pc'[p] \notin {"install", "recover", "clear", "recover_clear"}
    BY <2>1, <2>3, <2>7, <2>8
  <2> QED
    BY <2>9, <2>10, <2>11, <2>12, Zenon DEF Copies, Commit, Recovery
<1>3. CASE write_head(p)
  <2>1. /\ UNCHANGED <<slot, home, cache, pin, lh, tail>> /\ hdr' = lh /\ tail[p] = 1
        /\ pc' = [pc EXCEPT ![p] = "install"]
    BY <1>3, Zenon DEF write_head, bufs, log, LogShape
  <2>2. \A k \in 1..Len(lh) : slot[k] = cache[lh[k]] /\ lh[k] \in Blocks
    BY <1>3 DEF Copies, write_head, TypeOK
  <2>3. \A k \in 1..Len(hdr') : slot'[k] # Torn
    BY <2>1, <2>2 DEF Copies
  <2>4. \A b \in Blocks :
           /\ cache'[b] # Torn /\ home'[b] # Torn
           /\ cache'[b] = home'[b] \/ cache'[b] = NotCached \/ pin'[b] > 0
           /\ pin'[b] > 0 => cache'[b] # NotCached
    BY <1>1, <2>1, Zenon DEF Copies
  <2>5. \A q \in Procs \ {p} : pc'[q] \notin Commit \cup Recovery
    BY <1>0, <2>1, Zenon DEF TypeOK
  <2>6. pc'[p] = "install" /\ \A k \in 1..Len(lh') : slot'[k] = cache'[lh'[k]]
    BY <2>1, <2>2, Zenon DEF TypeOK
  <2>7. /\ \A k \in tail'[p]..Len(lh') : slot'[k] = cache'[lh'[k]]
        /\ \A k \in 1..(tail'[p] - 1) : home'[lh'[k]] = slot'[k]
    BY <2>1, <2>6
  <2> QED
    BY <2>3, <2>4, <2>5, <2>6, <2>7, Zenon DEF Copies, Commit, Recovery
<1>4. CASE install_trans(p)
  <2>1. tail[p] \in 1..Len(lh) /\ tail[p] \in Nat /\ Len(lh) \in Nat
        /\ lh[tail[p]] \in Blocks
    BY <1>4, AtBlock DEF install_trans, TypeOK
  <2>2. Advance(p, "install", "clear") /\ UNCHANGED <<hdr, slot, lh>> /\ hdr = lh
    BY <1>4, Zenon DEF install_trans, log, LogShape
  <2>3. slot[tail[p]] # Torn
    BY <2>1, <2>2, Zenon DEF Copies
  <2>4. \A b \in Blocks :
          /\ home'[b] = IF b = lh[tail[p]] THEN slot[tail[p]] ELSE home[b]
          /\ cache'[b] = IF b = lh[tail[p]] THEN slot[tail[p]] ELSE cache[b]
          /\ b # lh[tail[p]] => pin'[b] = pin[b]
    BY <1>4, Zenon DEF install_trans, InstallBlock, TypeOK
  <2>5. slot[tail[p]] # NotCached
    BY <1>4, AtBlock, DataAssumption, Zenon DEF install_trans, OnDisk
  <2>6. \A b \in Blocks :
           /\ cache'[b] # Torn /\ home'[b] # Torn
           /\ cache'[b] = home'[b] \/ cache'[b] = NotCached \/ pin'[b] > 0
           /\ pin'[b] > 0 => cache'[b] # NotCached
    BY <1>1, <2>3, <2>4, <2>5, Zenon DEF Copies
  <2>7. \A k \in 1..Len(lh) : lh[k] \in Blocks /\ (lh[k] = lh[tail[p]] => k = tail[p])
    BY <2>1 DEF LogShape, Injective, TypeOK
  <2>8. \A k \in 1..tail[p] : home'[lh[k]] = slot[k]
    <3>1. \A k \in 1..(tail[p] - 1) : home[lh[k]] = slot[k]
      BY <1>4, Zenon DEF Copies, install_trans
    <3>2. \A k \in 1..tail[p] : k \in 1..Len(lh) /\ (k # tail[p] => k \in 1..(tail[p] - 1))
      BY <2>1
    <3> QED
      BY <2>4, <2>7, <3>1, <3>2
  <2>9. \A k \in (tail[p] + 1)..Len(lh) : slot[k] = cache'[lh[k]]
    <3>1. \A k \in tail[p]..Len(lh) : slot[k] = cache[lh[k]]
      BY <1>4, Zenon DEF Copies, install_trans
    <3>2. \A k \in (tail[p] + 1)..Len(lh) :
            k \in 1..Len(lh) /\ k \in tail[p]..Len(lh) /\ k # tail[p]
      BY <2>1
    <3> QED
      BY <2>4, <2>7, <3>1, <3>2
  <2>10. \/ pc'[p] = "install" /\ tail'[p] = tail[p] + 1
         \/ pc'[p] = "clear" /\ tail[p] = Len(lh)
    BY <2>1, <2>2, AdvanceFacts
  <2>11. \A q \in Procs \ {p} : pc'[q] \notin Commit \cup Recovery
    BY <1>0, <2>1, <2>2, AdvanceFacts
  <2>12. \A k \in 1..Len(hdr') : slot'[k] # Torn
    BY <2>2, Zenon DEF Copies
  <2>13. /\ pc'[p] = "install" => /\ \A k \in tail'[p]..Len(lh') : slot'[k] = cache'[lh'[k]]
                                  /\ \A k \in 1..(tail'[p] - 1) : home'[lh'[k]] = slot'[k]
         /\ pc'[p] = "clear" => \A k \in 1..Len(lh') : home'[lh'[k]] = slot'[k]
         /\ pc'[p] \in {"install", "clear"}
    BY <2>1, <2>2, <2>8, <2>9, <2>10
  <2> QED
    BY <2>6, <2>11, <2>12, <2>13, Zenon DEF Copies, Commit, Recovery
<1>5. CASE clear(p)
  <2>1. /\ UNCHANGED <<home, slot, cache, pin>> /\ hdr' = <<>>
        /\ \A q \in Procs : pc'[q] \notin (Commit \ {"committed"}) \cup Recovery
    BY <1>0, <1>5, Zenon DEF clear, bufs, TypeOK, Commit, Recovery
  <2>2. 1..Len(hdr') = {}
    BY <2>1, EmptyFacts
  <2> QED
    BY <1>1, <2>1, <2>2, Zenon DEF Copies, Commit, Recovery
<1>6. CASE end_op_done(p)
  <2>1. UNCHANGED <<hdr, home, slot, cache, pin>>
    BY <1>6, Zenon DEF end_op_done, bufs, disk
  <2>2. \A q \in Procs : pc'[q] \notin Commit \cup Recovery
    BY <1>0, <1>6 DEF end_op_done, Woken, TypeOK, Commit, Recovery
  <2> QED
    BY <1>1, <2>1, <2>2, Zenon DEF Copies, Commit, Recovery
<1> QED
  BY <1>2, <1>3, <1>4, <1>5, <1>6, Zenon DEF CommitStep

\* Recovery installs the blocks that the header names, and so repairs every
\* torn one.
LEMMA CopiesRecovery ==
  ASSUME TypeOK, Exclusive, LogShape, PinsBalanced, Copies,
         NEW p \in Procs, RecoveryStep(p)
  PROVE  Copies'
<1>0. /\ pc[p] \in Recovery /\ p = InitProc
      /\ \A q \in Procs \ {p} : pc[q] \notin Commit \cup Recovery \cup {"op"}
  BY Alone, Zenon DEF RecoveryStep, read_head, recover, recover_clear, Recovery
<1>1. CASE read_head(p)
  <2>1. /\ UNCHANGED <<hdr, slot, home, cache, pin, tail>> /\ lh' = hdr /\ tail[p] = 1
        /\ pc'[p] = IF hdr = <<>> THEN "recover_clear" ELSE "recover"
        /\ \A q \in Procs \ {p} : pc'[q] = pc[q]
    BY <1>1, Zenon DEF read_head, disk, bufs, LogShape, TypeOK
  <2>2. pc'[InitProc] \in Recovery
    BY <1>0, <2>1, Zenon DEF Recovery
  <2>3. hdr = <<>> => 1..Len(lh') = {}
    <3>1. hdr = <<>> => Len(lh') = 0
      BY <2>1, EmptyFacts, Zenon
    <3> QED
      BY <3>1
  <2>4. \A q \in Procs \ {p} : pc'[q] \notin Commit \cup Recovery
    BY <1>0, <2>1, Zenon
  <2>5. /\ pc'[p] = "recover" => \A k \in 1..(tail'[p] - 1) : home'[lh'[k]] = slot'[k]
        /\ pc'[p] = "recover_clear" => \A k \in 1..Len(lh') : home'[lh'[k]] = slot'[k]
        /\ pc'[p] \in {"recover", "recover_clear"}
    BY <2>1, <2>3
  <2>6. \A b \in Blocks :
           /\ cache'[b] # Torn
           /\ home'[b] = Torn => b \in InHdr' /\ pc'[InitProc] \in Recovery
           /\ cache'[b] = home'[b] \/ cache'[b] = NotCached \/ pin'[b] > 0
           /\ pin'[b] > 0 => cache'[b] # NotCached
    BY <2>1, <2>2 DEF Copies, InHdr
  <2>7. \A k \in 1..Len(hdr') : slot'[k] # Torn
    BY <2>1, Zenon DEF Copies
  <2> QED
    BY <2>4, <2>5, <2>6, <2>7, Zenon DEF Copies, Commit, Recovery
<1>2. CASE recover(p)
  <2>1. tail[p] \in 1..Len(lh) /\ tail[p] \in Nat /\ Len(lh) \in Nat
        /\ lh[tail[p]] \in Blocks
    BY <1>2, AtBlock DEF recover, TypeOK
  <2>2. /\ Advance(p, "recover", "recover_clear") /\ hdr = lh
        /\ UNCHANGED <<hdr, slot, lh, pin>>
    BY <1>2, Zenon DEF recover, log, LogShape
  <2>3. slot[tail[p]] # Torn
    BY <2>1, <2>2, Zenon DEF Copies
  <2>4. \A b \in Blocks :
          /\ home'[b] = IF b = lh[tail[p]] THEN slot[tail[p]] ELSE home[b]
          /\ cache'[b] = IF b = lh[tail[p]] THEN slot[tail[p]] ELSE cache[b]
    BY <1>2, Zenon DEF recover, InstallBlock, TypeOK
  <2>5. slot[tail[p]] # NotCached
    BY <1>2, AtBlock, DataAssumption, Zenon DEF recover, OnDisk
  <2>6. \/ pc'[p] = "recover" /\ tail'[p] = tail[p] + 1
        \/ pc'[p] = "recover_clear" /\ tail[p] = Len(lh)
    BY <2>1, <2>2, AdvanceFacts, Zenon
  <2>7. \A q \in Procs \ {p} : pc'[q] \notin Commit \cup Recovery
    BY <1>0, <2>1, <2>2, AdvanceFacts, Zenon
  <2>8. \A b \in Blocks :
           /\ cache'[b] # Torn
           /\ home'[b] = Torn => b \in InHdr' /\ pc'[InitProc] \in Recovery
           /\ cache'[b] = home'[b] \/ cache'[b] = NotCached \/ pin'[b] > 0
           /\ pin'[b] > 0 => cache'[b] # NotCached
    <3>1. InHdr' = InHdr /\ pc'[InitProc] \in Recovery
      BY <1>0, <2>2, <2>6, Zenon DEF InHdr, Recovery
    <3>2. \A b \in Blocks :
            /\ cache[b] # Torn
            /\ home[b] = Torn => b \in InHdr
            /\ cache[b] = home[b] \/ cache[b] = NotCached \/ pin[b] > 0
            /\ pin[b] > 0 => cache[b] # NotCached
      BY Zenon DEF Copies
    <3>3. pin' = pin
      BY <2>2, Zenon
    <3> SUFFICES ASSUME NEW b \in Blocks
                 PROVE  /\ cache'[b] # Torn
                        /\ home'[b] = Torn => b \in InHdr'
                        /\ \/ cache'[b] = home'[b] \/ cache'[b] = NotCached
                           \/ pin'[b] > 0
                        /\ pin'[b] > 0 => cache'[b] # NotCached
      BY <3>1, Zenon
    <3>4. CASE b = lh[tail[p]]
      <4>1. cache'[b] = slot[tail[p]] /\ home'[b] = slot[tail[p]]
        BY <2>4, <3>4, Zenon
      <4> QED
        BY <2>3, <2>5, <4>1, Zenon
    <3>5. CASE b # lh[tail[p]]
      <4>1. cache'[b] = cache[b] /\ home'[b] = home[b]
        BY <2>4, <3>5, Zenon
      <4> QED
        BY <3>1, <3>2, <3>3, <4>1, Zenon
    <3> QED
      BY <3>4, <3>5, Zenon
  <2>9. \A k \in 1..Len(lh) : lh[k] \in Blocks /\ (lh[k] = lh[tail[p]] => k = tail[p])
    BY <2>1 DEF LogShape, Injective, TypeOK
  <2>10. \A k \in 1..tail[p] : home'[lh[k]] = slot[k]
    <3>1. \A k \in 1..(tail[p] - 1) : home[lh[k]] = slot[k]
      BY <1>2, Zenon DEF Copies, recover
    <3>2. \A k \in 1..tail[p] : k \in 1..Len(lh) /\ (k # tail[p] => k \in 1..(tail[p] - 1))
      BY <2>1
    <3> QED
      BY <2>4, <2>9, <3>1, <3>2
  <2>11. /\ pc'[p] = "recover" => \A k \in 1..(tail'[p] - 1) : home'[lh'[k]] = slot'[k]
         /\ pc'[p] = "recover_clear" => \A k \in 1..Len(lh') : home'[lh'[k]] = slot'[k]
         /\ pc'[p] \in {"recover", "recover_clear"}
    BY <2>1, <2>2, <2>6, <2>10
  <2>12. \A k \in 1..Len(hdr') : slot'[k] # Torn
    BY <2>2, Zenon DEF Copies
  <2> QED
    BY <2>7, <2>8, <2>11, <2>12 DEF Copies, Commit, Recovery
<1>3. CASE recover_clear(p)
  <2>1. /\ UNCHANGED <<home, slot, cache, pin>> /\ hdr' = <<>> /\ hdr = lh
        /\ pc' = [pc EXCEPT ![p] = "idle"]
    BY <1>3, Zenon DEF recover_clear, bufs, LogShape
  <2>2. \A q \in Procs : pc'[q] \notin Commit \cup Recovery
    BY <1>0, <2>1, Zenon DEF TypeOK, Commit, Recovery
  <2>3. \A b \in Blocks : home[b] # Torn
    <3>1. \A k \in 1..Len(hdr) : home[hdr[k]] = slot[k] /\ slot[k] # Torn
      BY <1>3, <2>1, Zenon DEF recover_clear, Copies
    <3>2. \A b \in InHdr : home[b] # Torn
      BY <3>1, Zenon DEF InHdr
    <3> QED
      BY <3>2, Zenon DEF Copies
  <2>4. 1..Len(hdr') = {}
    BY <2>1, EmptyFacts
  <2> QED
    BY <2>1, <2>2, <2>3, <2>4, Zenon DEF Copies, Commit, Recovery
<1> QED
  BY <1>1, <1>2, <1>3, Zenon DEF RecoveryStep

\* A crash tears only a log block that no header names, or the home of a
\* block whose copy in the log is named by the header.
LEMMA CopiesCrash ==
  ASSUME TypeOK, Exclusive, LogShape, Copies, CrashStep
  PROVE  Copies'
<1>1. Reboot
  BY Zenon DEF CrashStep, Crash, CrashInWriteLog, CrashInInstall
<1>2. /\ \A q \in Procs : pc'[q] \in {"read_head", "idle"}
      /\ pc'[InitProc] \in Recovery /\ hdr' = hdr
      /\ \A b \in Blocks : cache'[b] = NotCached /\ pin'[b] = 0
  BY <1>1, ProcsAssumption, Zenon DEF Reboot, Recovery
<1>3. \A k \in 1..Len(hdr') : slot'[k] # Torn
  <2>1. CASE UNCHANGED slot
    BY <1>2, <2>1, Zenon DEF Copies
  <2>2. ASSUME NEW p \in Procs, CrashInWriteLog(p)
        PROVE  1..Len(hdr') = {}
    <3>1. pc[p] = "write_log"
      BY <2>2, Zenon DEF CrashInWriteLog
    <3>2. hdr = <<>>
      BY <3>1, Alone, Zenon DEF LogShape, Commit, Recovery
    <3> QED
      BY <1>2, <3>2, EmptyFacts
  <2> QED
    BY <2>1, <2>2, Zenon DEF CrashStep, Crash, CrashInInstall
<1>4. \A b \in Blocks : home'[b] = Torn => b \in InHdr'
  <2>1. CASE UNCHANGED home
    BY <1>2, <2>1 DEF Copies, InHdr
  <2>2. ASSUME NEW p \in Procs, CrashInInstall(p), NEW b \in Blocks, home'[b] = Torn
        PROVE  b \in InHdr'
    <3>1. pc[p] \in {"install", "recover"} /\ hdr = lh
      BY <2>2, Zenon DEF CrashInInstall, LogShape
    <3>2. tail[p] \in 1..Len(hdr)
      BY <3>1, AtBlock, Zenon
    <3>3. CASE b = hdr[tail[p]]
      BY <1>2, <3>2, <3>3, Zenon DEF InHdr
    <3>4. CASE b # hdr[tail[p]]
      BY <1>2, <2>2, <3>1, <3>4 DEF CrashInInstall, Copies, InHdr, TypeOK
    <3> QED
      BY <3>3, <3>4, Zenon
  <2> QED
    BY <2>1, <2>2, Zenon DEF CrashStep, Crash, CrashInWriteLog
<1>5. ASSUME NEW b \in Blocks
      PROVE  /\ cache'[b] # Torn
             /\ home'[b] = Torn => b \in InHdr' /\ pc'[InitProc] \in Recovery
             /\ cache'[b] = home'[b] \/ cache'[b] = NotCached \/ pin'[b] > 0
             /\ pin'[b] > 0 => cache'[b] # NotCached
  <2>1. cache'[b] = NotCached /\ pin'[b] = 0 /\ NotCached # Torn
    BY <1>2, DataAssumption, Zenon
  <2> QED
    BY <1>2, <1>4, <2>1
<1>6. \A q \in Procs : pc'[q] \notin {"write_log", "write_head", "install", "recover",
                                     "clear", "recover_clear"}
  BY <1>2, Zenon
<1> QED
  BY <1>3, <1>5, <1>6, Zenon DEF Copies

\* Recycling never takes a buffer that differs from its home.
LEMMA CopiesBuffer ==
  ASSUME TypeOK, Exclusive, LogShape, PinsBalanced, Copies,
         NEW b \in Blocks, bread(b) \/ recycle(b)
  PROVE  Copies'
<1>1. /\ UNCHANGED <<hdr, slot, home, pin, lh, pc, tail>>
      /\ pc[InitProc] \notin Recovery
  BY Zenon DEF bread, recycle, disk, log, thread, Up
<1>2. \A c \in Blocks : cache'[c] = cache[c] \/ (c = b /\ cache'[c] \in {NotCached, home[c]})
  BY Zenon DEF bread, recycle, TypeOK
<1>3. pin[b] = 0
  BY DEF bread, recycle, Copies, PinsBalanced
<1>4. \A c \in Blocks :
         /\ cache'[c] # Torn /\ home'[c] # Torn
         /\ cache'[c] = home'[c] \/ cache'[c] = NotCached \/ pin'[c] > 0
         /\ pin'[c] > 0 => cache'[c] # NotCached
  BY <1>1, <1>2, <1>3, DataAssumption DEF Copies
<1>5. ASSUME NEW k \in 1..Len(lh), ~Installed(k)
      PROVE  cache'[lh[k]] = cache[lh[k]]
  <2>1. lh[k] \in Blocks /\ pin[lh[k]] = 1
    BY <1>1, <1>5, LoggedCached, Zenon
  <2>2. lh[k] # b
    BY <1>3, <2>1
  <2> QED
    BY <1>2, <2>1, <2>2, Zenon
<1>6. ASSUME NEW q \in Procs, pc[q] = "install", NEW k \in tail[q]..Len(lh)
      PROVE  cache'[lh[k]] = cache[lh[k]]
  <2>1. \A r \in Procs : pc[r] \in {"install", "clear"} => r = q
    BY <1>6, Zenon DEF Exclusive, CommitAlone, Commit
  <2>2. tail[q] \in Nat \ {0} /\ Len(lh) \in Nat
    BY DEF TypeOK
  <2>3. ~Installed(k)
    <3>1. ~(k < tail[q])
      BY <1>6, <2>2
    <3> QED
      BY <1>6, <2>1, <3>1, Zenon DEF Installed
  <2> QED
    BY <1>5, <2>2, <2>3
<1>7. ASSUME NEW q \in Procs, pc[q] \in {"write_log", "write_head"}
      PROVE  \A k \in 1..Len(lh) : cache'[lh[k]] = cache[lh[k]]
  <2>1. \A r \in Procs : pc[r] \notin {"install", "clear"}
    BY <1>7, Zenon DEF Exclusive, CommitAlone, Commit
  <2> QED
    BY <1>5, <2>1, Zenon DEF Installed
<1>8. ASSUME NEW q \in Procs
      PROVE
    /\ pc[q] = "write_log" => \A k \in 1..(tail[q] - 1) : slot[k] = cache'[lh[k]]
    /\ pc[q] = "write_head" => \A k \in 1..Len(lh) : slot[k] = cache'[lh[k]]
    /\ pc[q] = "install" => \A k \in tail[q]..Len(lh) : slot[k] = cache'[lh[k]]
  <2>1. CASE pc[q] = "write_log"
    <3>1. tail[q] \in 1..Len(lh) /\ Len(lh) \in Nat
      BY <2>1, AtBlock DEF TypeOK
    <3>2. \A k \in 1..(tail[q] - 1) : slot[k] = cache[lh[k]]
      BY <2>1, Zenon DEF Copies
    <3>3. \A k \in 1..(tail[q] - 1) : k \in 1..Len(lh)
      BY <3>1
    <3> QED
      BY <1>7, <2>1, <3>2, <3>3, Zenon
  <2>2. CASE pc[q] = "write_head"
    BY <1>7, <2>2, Zenon DEF Copies
  <2>3. CASE pc[q] = "install"
    <3>1. tail[q] \in 1..Len(lh) /\ Len(lh) \in Nat
      BY <2>3, AtBlock DEF TypeOK
    <3>2. \A k \in tail[q]..Len(lh) : slot[k] = cache[lh[k]]
      BY <2>3, Zenon DEF Copies
    <3> QED
      BY <1>6, <2>3, <3>2, Zenon
  <2> QED
    BY <2>1, <2>2, <2>3, Zenon
<1>9. ASSUME NEW q \in Procs
      PROVE
    /\ pc[q] \in {"install", "recover"} =>
         \A k \in 1..(tail[q] - 1) : home[lh[k]] = slot[k]
    /\ pc[q] \in {"clear", "recover_clear"} =>
         \A k \in 1..Len(lh) : home[lh[k]] = slot[k]
  BY Zenon DEF Copies
<1>10. \A k \in 1..Len(hdr) : slot[k] # Torn
  BY Zenon DEF Copies
<1> QED
  BY <1>1, <1>4, <1>8, <1>9, <1>10, Zenon DEF Copies

------------------------------------------------------------------------------
\* The space that begin_op() reserves.

\* There are finitely many blocks left to write.
LEMMA TokensFinite ==
  /\ IsFiniteSet(Tokens) /\ Cardinality(Tokens) \in Nat
  /\ Cardinality(Tokens) <= Cardinality(Active) * OpBlocks
<1>1. OpBlocks \in Nat
  BY SizeAssumption
<1>2. IsFiniteSet(1..OpBlocks) /\ Cardinality(1..OpBlocks) = OpBlocks
  BY <1>1, FS_Interval
<1>3. /\ IsFiniteSet(Active \X (1..OpBlocks))
      /\ Cardinality(Active \X (1..OpBlocks)) = Cardinality(Active) * OpBlocks
  BY <1>2, ActiveFinite, FS_Product, Zenon
<1>4. Tokens \in SUBSET (Active \X (1..OpBlocks))
  BY Zenon DEF Tokens
<1> QED
  BY <1>3, <1>4, FS_Subset, FS_CardinalityType, Zenon

\* Reserving for one more operation keeps clear of the log's capacity.
LEMMA ReservedSpace ==
  ASSUME NEW n \in Nat, NEW out \in Nat, NEW cap \in Int, NEW t \in Nat,
         n + (out + 1) * MAXOPBLOCKS <= LOGSIZE, t <= (out + 1) * OpBlocks,
         OpBlocks < cap, LOGSIZE - 2 * (MAXOPBLOCKS - OpBlocks) < cap,
         out = 0 => n = 0
  PROVE  n + t < cap
<1> DEFINE r == MAXOPBLOCKS - OpBlocks
<1>1. OpBlocks \in Nat /\ r \in Nat /\ MAXOPBLOCKS = OpBlocks + r /\ LOGSIZE \in Nat
  BY SizeAssumption
<1>2. CASE out = 0
  BY <1>1, <1>2
<1>3. CASE out # 0
  <2>1. PICK m \in Nat : out = m + 1
    <3>1. out - 1 \in Nat /\ out = (out - 1) + 1
      BY <1>3
    <3> QED
      BY <3>1, Zenon
  <2>2. (out + 1) * MAXOPBLOCKS = (out + 1) * OpBlocks + (m * r + 2 * r)
    BY <1>1, <2>1
  <2>3. m * r \in Nat /\ (out + 1) * OpBlocks \in Nat
    BY <1>1
  <2>4. n + (out + 1) * OpBlocks + 2 * r <= LOGSIZE
    <3> DEFINE x == (out + 1) * OpBlocks
               y == m * r
               z == (out + 1) * MAXOPBLOCKS
    <3>1. x \in Nat /\ y \in Nat /\ z = x + (y + 2 * r) /\ n + z <= LOGSIZE
      BY <2>2, <2>3, Zenon
    <3> HIDE DEF x, y, z, r
    <3>2. n + x + 2 * r <= LOGSIZE
      BY <1>1, <3>1
    <3> QED
      BY <3>2, Zenon DEF x
  <2> DEFINE x == (out + 1) * OpBlocks
  <2>5. n + x + 2 * r <= LOGSIZE /\ x \in Nat /\ t <= x /\ LOGSIZE - 2 * r < cap
    BY <2>3, <2>4, Zenon
  <2> HIDE DEF x, r
  <2> QED
    BY <1>1, <2>5
<1> QED
  BY <1>2, <1>3, Zenon

\* Nothing is reserved at boot.
LEMMA InitReserved ==
  ASSUME Init
  PROVE  Reserved
<1>1. Active = {} /\ pc[InitProc] \in Recovery
  BY ProcsAssumption, Zenon DEF Init, Active, Recovery
<1> QED
  BY <1>1, FS_EmptySet, Zenon DEF Init, Reserved

\* Nothing but the log and the operations in progress matters.
LEMMA ReservedSame ==
  ASSUME TypeOK, Reserved, Active' \subseteq Active, outstanding' = Cardinality(Active'),
         UNCHANGED <<lh, wrote>>, pc[InitProc] \notin Recovery
  PROVE  Reserved'
<1>1. Tokens' \in SUBSET Tokens
  BY Zenon DEF Tokens
<1>2. Cardinality(Tokens') <= Cardinality(Tokens) /\ Cardinality(Tokens') \in Nat
      /\ Cardinality(Tokens) \in Nat
  BY <1>1, TokensFinite, FS_Subset, FS_CardinalityType, Zenon
<1>3. \A q \in Active' : wrote'[q] \subseteq Logged'
  BY Zenon DEF Reserved, Logged
<1>4. ASSUME OpsFitLog, NEW cap \in {LOGSIZE, nlog - 1}
      PROVE  Len(lh') + Cardinality(Tokens') < cap
  <2>1. Len(lh) + Cardinality(Tokens) < cap /\ Len(lh) \in Nat /\ cap \in Int
    BY <1>4, SizeAssumption DEF Reserved, TypeOK
  <2> QED
    BY <1>2, <2>1
<1> QED
  BY <1>3, <1>4, Zenon DEF Reserved, OpsFitLog

\* begin_op() admits an operation only if all its blocks fit.
LEMMA ReservedBegin ==
  ASSUME TypeOK, Exclusive, LogShape, Reserved, NEW p \in Procs, begin_op(p)
  PROVE  Reserved'
<1>1. /\ pc[p] # "op" /\ pc' = [pc EXCEPT ![p] = "op"] /\ pc[InitProc] \notin Recovery
      /\ wrote' = [wrote EXCEPT ![p] = {}] /\ outstanding' = outstanding + 1
      /\ lh' = lh /\ ~committing
  BY Zenon DEF begin_op, Up, MustWait
<1>2. Active' = Active \cup {p} /\ p \notin Active
  BY <1>1 DEF Active, TypeOK
<1>3. Cardinality(Active') = outstanding + 1 /\ outstanding' = Cardinality(Active')
  BY <1>1, <1>2, ActiveFinite, FS_AddElement, Zenon DEF Reserved
<1>4. \A q \in Active' : wrote'[q] \subseteq Logged'
  BY <1>1, <1>2 DEF Reserved, Logged, Active, TypeOK
<1>5. Cardinality(Tokens') \in Nat /\ Cardinality(Tokens') <= (outstanding + 1) * OpBlocks
  <2>1. IsFiniteSet(Active')
    BY <1>2, ActiveFinite, FS_AddElement, Zenon
  <2>2. IsFiniteSet(1..OpBlocks) /\ Cardinality(1..OpBlocks) = OpBlocks
    BY SizeAssumption, FS_Interval
  <2>3. /\ IsFiniteSet(Active' \X (1..OpBlocks))
        /\ Cardinality(Active' \X (1..OpBlocks)) = (outstanding + 1) * OpBlocks
    BY <1>3, <2>1, <2>2, FS_Product, Zenon
  <2>4. Tokens' \in SUBSET (Active' \X (1..OpBlocks))
    BY Zenon DEF Tokens
  <2> QED
    BY <2>3, <2>4, FS_Subset, FS_CardinalityType
<1>6. outstanding = 0 => Len(lh) = 0
  <2>1. outstanding = 0 => \A q \in Procs : pc[q] # "op"
    BY ActiveFinite, FS_EmptySet, Zenon DEF Reserved, Active
  <2> QED
    BY <1>1, <2>1, EmptyFacts, Zenon DEF LogShape
<1>7. Len(lh) + (outstanding + 1) * MAXOPBLOCKS <= LOGSIZE
  <2>1. ~(Len(lh) + (outstanding + 1) * MAXOPBLOCKS > LOGSIZE)
    BY Zenon DEF begin_op, MustWait
  <2>2. (outstanding + 1) * MAXOPBLOCKS \in Int /\ Len(lh) \in Int /\ LOGSIZE \in Int
    BY SizeAssumption DEF TypeOK
  <2> QED
    BY <2>1, <2>2
<1>8. ASSUME OpsFitLog, NEW cap \in {LOGSIZE, nlog - 1}
      PROVE  Len(lh') + Cardinality(Tokens') < cap
  <2>1. cap \in Int /\ OpBlocks < cap /\ LOGSIZE - 2 * (MAXOPBLOCKS - OpBlocks) < cap
    BY <1>8, SizeAssumption DEF OpsFitLog
  <2>2. Len(lh) \in Nat /\ outstanding \in Nat
    BY DEF TypeOK
  <2> QED
    BY <1>1, <1>5, <1>6, <1>7, <2>1, <2>2, ReservedSpace, Zenon
<1> QED
  BY <1>3, <1>4, <1>8, Zenon DEF Reserved, OpsFitLog

\* log_write() uses up one of the blocks that begin_op() reserved.
LEMMA ReservedWrite ==
  ASSUME TypeOK, Reserved, NEW p \in Procs, NEW b \in Blocks, NEW v \in Data,
         log_write(p, b, v)
  PROVE  Reserved'
<1>1. /\ pc' = pc /\ outstanding' = outstanding /\ pc[InitProc] \notin Recovery
      /\ wrote' = [wrote EXCEPT ![p] = @ \cup {b}] /\ pc[p] = "op"
      /\ Cardinality(wrote[p] \cup {b}) <= OpBlocks
  BY Zenon DEF log_write, MayWrite, Up
<1>2. Active' = Active /\ p \in Active
  BY <1>1, Zenon DEF Active
<1>3. Logged' = Logged \cup {b}
  <2>1. CASE b \in Logged
    BY <2>1, Zenon DEF log_write, Logged
  <2>2. CASE b \notin Logged
    <3>1. lh' = Append(lh, b)
      BY <2>2, Zenon DEF log_write
    <3>2. lh \in Seq(Blocks)
      BY Zenon DEF TypeOK
    <3>3. /\ Len(lh) \in Nat /\ Len(lh') = Len(lh) + 1 /\ lh'[Len(lh) + 1] = b
          /\ \A k \in 1..Len(lh) : lh'[k] = lh[k]
      BY <3>1, <3>2, AppendFacts
    <3> QED
      BY <3>3 DEF Logged
  <2> QED
    BY <2>1, <2>2, Zenon
<1>4. \A q \in Active' : wrote'[q] \subseteq Logged'
  BY <1>1, <1>2, <1>3, Zenon DEF Reserved, Active, TypeOK
<1>5. CASE b \in wrote[p]
  <2>1. wrote' = wrote
    BY <1>1, <1>5 DEF TypeOK
  <2>2. b \in Logged
    BY <1>2, <1>5, Zenon DEF Reserved
  <2>3. lh' = lh
    BY <2>2, Zenon DEF log_write
  <2> QED
    BY <1>1, <1>2, <2>1, <2>3, ReservedSame, Zenon DEF Reserved
<1>6. CASE b \notin wrote[p]
  <2> DEFINE c == Cardinality(wrote[p])
  <2>1. IsFiniteSet(wrote[p]) /\ c \in Nat
    <3>1. wrote[p] \in SUBSET Blocks
      BY Zenon DEF TypeOK
    <3> QED
      BY <3>1, BlocksAssumption, FS_Subset, FS_CardinalityType, Zenon
  <2>2. Cardinality(wrote'[p]) = c + 1 /\ c + 1 <= OpBlocks
    <3>1. wrote'[p] = wrote[p] \cup {b}
      BY <1>1, Zenon DEF TypeOK
    <3>2. Cardinality(wrote[p] \cup {b}) = c + 1
      BY <1>6, <2>1, FS_AddElement, Zenon
    <3> QED
      BY <1>1, <3>1, <3>2, Zenon
  <2>3. \A q \in Procs \ {p} : wrote'[q] = wrote[q]
    BY <1>1, Zenon DEF TypeOK
  <2>4. <<p, c + 1>> \in Tokens /\ Tokens' = Tokens \ {<<p, c + 1>>}
    <3>1. <<p, c + 1>> \in Tokens
      BY <1>2, <2>1, <2>2, SizeAssumption DEF Tokens
    <3>2. ASSUME NEW t
          PROVE  t \in Tokens' <=> t \in Tokens /\ t # <<p, c + 1>>
      <4>1. CASE t \in Active \X (1..OpBlocks) /\ t[1] = p
        BY <1>2, <2>1, <2>2, <4>1, SizeAssumption DEF Tokens
      <4>2. CASE t \in Active \X (1..OpBlocks) /\ t[1] # p
        BY <1>2, <2>3, <4>2 DEF Tokens, Active
      <4>3. CASE t \notin Active \X (1..OpBlocks)
        BY <1>2, <4>3, Zenon DEF Tokens
      <4> QED
        BY <4>1, <4>2, <4>3, Zenon
    <3> QED
      BY <3>1, <3>2, Zenon
  <2>5. /\ Cardinality(Tokens') = Cardinality(Tokens) - 1
        /\ Cardinality(Tokens) \in Nat
    BY <2>4, TokensFinite, FS_RemoveElement, Zenon
  <2>6. Len(lh') \in Nat /\ Len(lh') <= Len(lh) + 1 /\ Len(lh) \in Nat
    <3>1. lh' = lh \/ lh' = Append(lh, b)
      BY Zenon DEF log_write
    <3> QED
      BY <3>1, AppendFacts DEF TypeOK
  <2>7. ASSUME OpsFitLog, NEW cap \in {LOGSIZE, nlog - 1}
        PROVE  Len(lh') + Cardinality(Tokens') < cap
    <3>1. Len(lh) + Cardinality(Tokens) < cap /\ cap \in Int
      BY <1>1, <2>7, SizeAssumption DEF Reserved
    <3> QED
      BY <2>5, <2>6, <3>1
  <2>8. outstanding' = Cardinality(Active')
    BY <1>1, <1>2, Zenon DEF Reserved
  <2> QED
    BY <1>4, <2>7, <2>8, Zenon DEF Reserved, OpsFitLog
<1> QED
  BY <1>5, <1>6, Zenon

\* The calls keep what they reserve.
LEMMA ReservedCall ==
  ASSUME TypeOK, Exclusive, LogShape, Reserved, NEW p \in Procs, Call(p)
  PROVE  Reserved'
<1>1. CASE begin_op(p)
  BY <1>1, ReservedBegin, Zenon
<1>2. CASE begin_op_sleep(p)
  <2>1. Active' = Active /\ outstanding' = outstanding /\ pc[InitProc] \notin Recovery
    BY <1>2, Zenon DEF begin_op_sleep, Up, Active, TypeOK, log
  <2>2. UNCHANGED <<lh, wrote>>
    BY <1>2, Zenon DEF begin_op_sleep, log
  <2> QED
    BY <2>1, <2>2, ReservedSame, Zenon DEF Reserved
<1>3. ASSUME NEW b \in Blocks, NEW v \in Data, log_write(p, b, v)
      PROVE  Reserved'
  BY <1>3, ReservedWrite, Zenon
<1>4. ASSUME NEW b \in Blocks, log_write_panic(p, b)
      PROVE  Reserved'
  <2>1. UNCHANGED <<pc, lh, outstanding, wrote>> /\ pc[InitProc] \notin Recovery
    BY <1>4, Zenon DEF log_write_panic, MayWrite, Up, log, thread
  <2>2. Active' = Active
    BY <2>1, Zenon DEF Active
  <2> QED
    BY <2>1, <2>2, ReservedSame, Zenon DEF Reserved
<1>5. CASE end_op(p) \/ end_op_last(p)
  <2>1. /\ outstanding' = outstanding - 1 /\ UNCHANGED <<lh, wrote>>
        /\ pc[p] = "op" /\ pc[InitProc] \notin Recovery
    BY <1>5 DEF end_op, end_op_last, Up
  <2>2. \A q \in Procs : pc'[q] = "op" <=> pc[q] = "op" /\ q # p
    <3>1. CASE end_op(p)
      BY <3>1, Zenon DEF end_op, Woken, TypeOK
    <3>2. CASE end_op_last(p)
      BY <3>2, Zenon DEF end_op_last, TypeOK
    <3> QED
      BY <1>5, <3>1, <3>2, Zenon
  <2>3. Active' = Active \ {p} /\ p \in Active
    BY <2>1, <2>2, Zenon DEF Active
  <2>4. outstanding' = Cardinality(Active')
    BY <2>1, <2>3, ActiveFinite, FS_RemoveElement, Zenon DEF Reserved
  <2> QED
    BY <2>1, <2>3, <2>4, ReservedSame, Zenon
<1> QED
  BY <1>1, <1>2, <1>3, <1>4, <1>5, Zenon DEF Call

\* An empty log with no operation in progress.
LEMMA ReservedEmpty ==
  ASSUME Active' = {}, outstanding' = 0, lh' = <<>>
  PROVE  Reserved'
<1>1. Tokens' = {}
  BY Zenon DEF Tokens
<1>2. Cardinality(Tokens') = 0 /\ Cardinality(Active') = 0 /\ Len(lh') = 0
  BY <1>1, FS_EmptySet, EmptyFacts, Zenon
<1>3. ASSUME OpsFitLog, NEW cap \in {LOGSIZE, nlog - 1}
      PROVE  Len(lh') + Cardinality(Tokens') < cap
  <2>1. OpBlocks < cap /\ OpBlocks \in Nat /\ cap \in Int
    BY <1>3, SizeAssumption DEF OpsFitLog
  <2> QED
    BY <1>2, <2>1
<1> QED
  BY <1>2, <1>3, Zenon DEF Reserved, OpsFitLog

\* Commit, recovery, crashes and the buffer cache reserve nothing.
LEMMA ReservedRest ==
  ASSUME TypeOK, Exclusive, LogShape, Reserved,
         \/ \E p \in Procs : CommitStep(p) \/ RecoveryStep(p)
         \/ \E b \in Blocks : bread(b) \/ recycle(b)
         \/ CrashStep
  PROVE  Reserved'
<1>1. ASSUME NEW p \in Procs, CommitStep(p)
      PROVE  Reserved'
  <2>1. /\ pc[p] \in Commit /\ pc[InitProc] \notin Recovery /\ pc[p] # "op"
        /\ \A q \in Procs \ {p} : pc[q] # "op"
    BY <1>1, Alone, Zenon DEF CommitStep, write_log, write_head, install_trans, clear,
       end_op_done, Commit
  <2>2. Active = {} /\ outstanding = 0
    BY <2>1, FS_EmptySet, Zenon DEF Active, Reserved
  <2>3. \A q \in Procs : pc'[q] # "op"
    <3>1. CASE write_log(p)
      BY <2>1, <3>1, Zenon DEF write_log, Advance, TypeOK
    <3>2. CASE install_trans(p)
      BY <2>1, <3>2, Zenon DEF install_trans, Advance, TypeOK
    <3>3. CASE write_head(p)
      BY <2>1, <3>3, Zenon DEF write_head, TypeOK
    <3>4. CASE clear(p)
      BY <2>1, <3>4, Zenon DEF clear, TypeOK
    <3>5. CASE end_op_done(p)
      BY <2>1, <3>5, Zenon DEF end_op_done, Woken, TypeOK
    <3> QED
      BY <1>1, <3>1, <3>2, <3>3, <3>4, <3>5, Zenon DEF CommitStep
  <2>4. Active' = {} /\ outstanding' = 0
    BY <1>1, <2>2, <2>3, Zenon DEF Active, CommitStep, write_log, write_head,
         install_trans, clear, end_op_done, log
  <2>5. CASE lh' = lh /\ wrote' = wrote
    BY <2>1, <2>2, <2>4, <2>5, FS_EmptySet, ReservedSame, Zenon
  <2>6. CASE lh' = <<>>
    BY <2>4, <2>6, ReservedEmpty, Zenon
  <2> QED
    BY <1>1, <2>5, <2>6, Zenon DEF CommitStep, write_log, write_head, install_trans,
         clear,
       end_op_done, log
<1>2. ASSUME NEW p \in Procs, RecoveryStep(p)
      PROVE  Reserved'
  <2>1. /\ pc[p] \in Recovery /\ p = InitProc /\ pc[p] # "op"
        /\ \A q \in Procs \ {p} : pc[q] # "op"
    BY <1>2, Alone, Zenon DEF RecoveryStep, read_head, recover, recover_clear, Recovery
  <2>2. Active = {} /\ outstanding = 0
    BY <2>1, FS_EmptySet, Zenon DEF Active, Reserved
  <2>3. /\ outstanding' = 0
        /\ \A q \in Procs \ {p} : pc'[q] # "op"
        /\ \/ pc'[p] \in Recovery
           \/ lh' = <<>> /\ pc'[p] = "idle"
    <3>1. CASE read_head(p)
      BY <2>1, <2>2, <3>1, Zenon DEF read_head, TypeOK, Recovery
    <3>2. CASE recover(p)
      BY <2>1, <2>2, <3>2, Zenon DEF recover, Advance, TypeOK, log, Recovery
    <3>3. CASE recover_clear(p)
      BY <2>1, <2>2, <3>3, Zenon DEF recover_clear, TypeOK
    <3> QED
      BY <1>2, <3>1, <3>2, <3>3, Zenon DEF RecoveryStep
  <2>4. Active' = {}
    BY <2>3, Zenon DEF Active, Recovery
  <2> QED
    BY <2>1, <2>3, <2>4, ReservedEmpty, FS_EmptySet, Zenon DEF Reserved
<1>3. ASSUME NEW b \in Blocks, bread(b) \/ recycle(b)
      PROVE  Reserved'
  <2>1. UNCHANGED <<pc, lh, outstanding, wrote>> /\ pc[InitProc] \notin Recovery
    BY <1>3, Zenon DEF bread, recycle, Up, log, thread
  <2>2. Active' = Active
    BY <2>1, Zenon DEF Active
  <2> QED
    BY <2>1, <2>2, ReservedSame, Zenon DEF Reserved
<1>4. CASE CrashStep
  <2>1. Reboot
    BY <1>4, Zenon DEF CrashStep, Crash, CrashInWriteLog, CrashInInstall
  <2>2. Active' = {} /\ outstanding' = 0 /\ lh' = <<>>
    BY <2>1, Zenon DEF Reboot, Active
  <2> QED
    BY <2>2, ReservedEmpty, Zenon
<1> QED
  BY <1>1, <1>2, <1>3, <1>4, Zenon

------------------------------------------------------------------------------
\* Panics.

\* No panic but that of a full log is possible, and not even that one when
\* operations keep to OpsFitLog.
LEMMA PanicStep ==
  ASSUME IInv, Next
  PROVE  /\ panicked' \in {"no", "too_big_a_transaction"}
         /\ OpsFitLog => panicked' = "no"
<1> DEFINE Q == /\ panicked' \in {"no", "too_big_a_transaction"}
                /\ OpsFitLog => panicked' = "no"
<1>1. ASSUME panicked' = panicked
      PROVE  Q
  BY <1>1, Zenon DEF IInv, NoPanic
<1>2. ASSUME NEW p \in Procs, NEW b \in Blocks, log_write_panic(p, b)
      PROVE  Q
  <2>1. MayWrite(p, b) /\ pc[p] = "op" /\ pc[InitProc] \notin Recovery
    BY <1>2, Zenon DEF log_write_panic, MayWrite, Up
  <2>2. outstanding >= 1
    <3>1. Active # {}
      BY <2>1, Zenon DEF Active
    <3> QED
      BY <3>1, ActiveFinite, FS_EmptySet DEF IInv, Reserved
  <2>3. outstanding \in Nat /\ Len(lh) \in Nat
    BY DEF IInv, TypeOK
  <2>4. LogFull
    BY <1>2, <2>2, <2>3 DEF log_write_panic
  <2>5. OpsFitLog => ~LogFull
    <3>1. ASSUME OpsFitLog, NEW cap \in {LOGSIZE, nlog - 1}
          PROVE  ~(Len(lh) >= cap)
      <4>1. Len(lh) + Cardinality(Tokens) < cap /\ cap \in Int
        BY <2>1, <3>1, SizeAssumption DEF IInv, Reserved
      <4> QED
        BY <2>3, <4>1, TokensFinite
    <3> QED
      BY <3>1, Zenon DEF LogFull
  <2> QED
    BY <1>2, <2>4, <2>5, Zenon DEF log_write_panic
<1>3. ASSUME NEW p \in Procs, end_op(p) \/ end_op_last(p)
      PROVE  Q
  <2>1. pc[p] = "op"
    BY <1>3, Zenon DEF end_op, end_op_last
  <2>2. ~committing
    BY <2>1, Zenon DEF IInv, Exclusive
  <2> QED
    BY <1>3, <2>2, Zenon DEF end_op, end_op_last, EndOpPanic
<1>4. CASE CrashStep
  <2>1. Reboot
    BY <1>4, Zenon DEF CrashStep, Crash, CrashInWriteLog, CrashInInstall
  <2> QED
    BY <2>1, Zenon DEF Reboot
<1>5. ASSUME NEW p \in Procs, Call(p)
      PROVE  Q
  BY <1>1, <1>2, <1>3, <1>5, Zenon DEF Call, begin_op, begin_op_sleep, log_write
<1>6. ASSUME NEW p \in Procs, CommitStep(p) \/ RecoveryStep(p)
      PROVE  Q
  BY <1>1, <1>6, Zenon DEF CommitStep, RecoveryStep, write_log, write_head,
       install_trans, clear, end_op_done, read_head, recover, recover_clear
<1>7. ASSUME NEW b \in Blocks, bread(b) \/ recycle(b)
      PROVE  Q
  BY <1>1, <1>7, Zenon DEF bread, recycle
<1> QED
  BY <1>4, <1>5, <1>6, <1>7, Zenon DEF Next

------------------------------------------------------------------------------
\* The theorems.

\* The invariant holds initially.
LEMMA InitInv == Init => IInv
BY InitType, InitExclusive, InitShape, InitPins, InitCopies, InitReserved, Zenon
   DEF IInv, NoPanic, Init

\* Every step preserves the invariant.
LEMMA NextInv ==
  ASSUME IInv, Next
  PROVE  IInv'
<1> USE DEF IInv
<1>1. panicked' \in {"no", "too_big_a_transaction"} /\ NoPanic'
  BY PanicStep, Zenon DEF NoPanic, OpsFitLog
<1>2. ASSUME NEW p \in Procs, Call(p)
      PROVE  IInv'
  BY <1>1, <1>2, TypeCall, ExclusiveCall, ShapeCall, PinsCall, CopiesCall,
       ReservedCall, Zenon
<1>3. ASSUME NEW p \in Procs, CommitStep(p)
      PROVE  IInv'
  BY <1>1, <1>3, TypeCommit, ExclusiveCommit, ShapeCommit, PinsCommit, CopiesCommit,
       ReservedRest, Zenon
<1>4. ASSUME NEW p \in Procs, RecoveryStep(p)
      PROVE  IInv'
  BY <1>1, <1>4, TypeRecovery, ExclusiveRecovery, ShapeRecovery, PinsRecovery,
       CopiesRecovery, ReservedRest, Zenon
<1>5. ASSUME NEW b \in Blocks, bread(b) \/ recycle(b)
      PROVE  IInv'
  BY <1>1, <1>5, TypeBuffer, ShapeBuffer, PinsBuffer, CopiesBuffer, ReservedRest, Zenon
<1>6. CASE CrashStep
  BY <1>1, <1>6, TypeCrash, ExclusiveCrash, ShapeCrash, PinsCrash, CopiesCrash,
       ReservedRest, Zenon
<1> QED
  BY <1>2, <1>3, <1>4, <1>5, <1>6, Zenon DEF Next

\* A stuttering step preserves the invariant.
LEMMA StutterInv ==
  ASSUME IInv, UNCHANGED vars
  PROVE  IInv'
<1>1. UNCHANGED <<hdr, slot, home, cache, pin, lh, outstanding, committing, pc, tail,
                  wrote, panicked>>
  BY Zenon DEF vars, disk, bufs, log, thread
<1>2. TypeOK' /\ Exclusive' /\ LogShape'
  <2>1. TypeOK'
    BY <1>1, Zenon DEF IInv, TypeOK
  <2>2. Exclusive'
    BY <1>1, Zenon DEF IInv, Exclusive, CommitAlone
  <2>3. LogShape'
    BY <1>1 DEF IInv, LogShape, Injective
  <2> QED
    BY <2>1, <2>2, <2>3, Zenon
<1>3. PinsBalanced' /\ Copies'
  <2>1. PinsBalanced'
    BY <1>1 DEF IInv, PinsBalanced, Installed
  <2>2. Copies'
    BY <1>1 DEF IInv, Copies, InHdr
  <2> QED
    BY <2>1, <2>2, Zenon
<1>4. Active' = Active /\ Logged' = Logged
  BY <1>1, Zenon DEF Active, Logged
<1>5. Tokens' = Tokens
  BY <1>1, <1>4, Zenon DEF Tokens
<1>6. Reserved'
  BY <1>1, <1>4, <1>5, Zenon DEF IInv, Reserved, OpsFitLog
<1> QED
  BY <1>1, <1>2, <1>3, <1>6, Zenon DEF IInv, NoPanic, OpsFitLog

\* The inductive invariant holds in every reachable state, whatever crashes.
THEOREM Invariance == Spec => []IInv
<1>1. IInv /\ [Next]_vars => IInv'
  BY NextInv, StutterInv, Zenon
<1> QED
  BY <1>1, InitInv, PTL DEF Spec

\* The log stays consistent, for every size of it and number of processes.
THEOREM Consistent == Spec => []LogInv
<1>1. IInv => LogInv
  BY Zenon DEF IInv, LogInv
<1> QED
  BY <1>1, Invariance, PTL

\* Every variable keeps its type.
THEOREM TypeCorrect == Spec => []TypeOK
<1>1. IInv => TypeOK
  BY Zenon DEF IInv
<1> QED
  BY <1>1, Invariance, PTL

\* log_write() and end_op() never panic when operations write less than what
\* begin_op() reserves, for every size of the log and number of processes.
THEOREM NeverPanics == Spec => []NoPanic
<1>1. IInv => NoPanic
  BY Zenon DEF IInv
<1> QED
  BY <1>1, Invariance, PTL

\* write_log() copies blocks that nobody is changing, and one process commits.
THEOREM CommitsAlone == Spec => []CommitAlone
<1>1. IInv => CommitAlone
  BY Zenon DEF IInv, Exclusive
<1> QED
  BY <1>1, Invariance, PTL

\* Pins are balanced, so an uninstalled block is never recycled by bget().
THEOREM PinsHold == Spec => [](PinsBalanced /\ UnwrittenIsPinned)
<1>1. IInv => PinsBalanced /\ UnwrittenIsPinned
  BY Zenon DEF IInv, Copies, UnwrittenIsPinned
<1> QED
  BY <1>1, Invariance, PTL

------------------------------------------------------------------------------
\* Write-ahead.

\* The process that is copying blocks to the log is alone, and the header on
\* disk is still empty; one that installs them has written the header.
LEMMA HeaderAt ==
  ASSUME IInv, NEW p \in Procs
  PROVE  /\ pc[p] \in {"write_log", "write_head"} => hdr = <<>>
         /\ pc[p] \in {"install", "recover"} =>
              /\ hdr = lh /\ tail[p] \in 1..Len(lh) /\ lh[tail[p]] \in Blocks
<1>1. ASSUME pc[p] \in {"write_log", "write_head"}
      PROVE  hdr = <<>>
  <2>1. pc[p] \in Commit
    BY <1>1, Zenon DEF Commit
  <2>2. \A q \in Procs : pc[q] \in Commit => p = q
    BY <2>1, Zenon DEF IInv, Exclusive, CommitAlone
  <2>3. \A q \in Procs : pc[q] \notin {"install", "clear"}
    BY <1>1, <2>2, Zenon DEF Commit
  <2>4. pc[InitProc] \notin Recovery
    BY <2>1, Zenon DEF IInv, Exclusive
  <2> QED
    BY <2>3, <2>4, Zenon DEF IInv, LogShape
<1>2. ASSUME pc[p] \in {"install", "recover"}
      PROVE  hdr = lh /\ tail[p] \in 1..Len(lh) /\ lh[tail[p]] \in Blocks
  <2>1. hdr = lh /\ tail[p] <= Len(lh)
    BY <1>2, Zenon DEF IInv, LogShape
  <2>2. tail[p] \in Nat \ {0} /\ lh \in Seq(Blocks)
    BY Zenon DEF IInv, TypeOK
  <2> QED
    BY <2>1, <2>2
<1> QED
  BY <1>1, <1>2, Zenon

\* Only install_trans() and a crash in it change a home location, and the
\* header on disk names that location.
LEMMA HomeStep ==
  ASSUME IInv, Next, NEW b \in Blocks, home'[b] # home[b]
  PROVE  \E i \in 1..Len(hdr) : hdr[i] = b
<1>1. ASSUME NEW p \in Procs, pc[p] \in {"install", "recover"}, NEW v,
             home' = [home EXCEPT ![lh[tail[p]]] = v]
      PROVE  \E i \in 1..Len(hdr) : hdr[i] = b
  <2>1. hdr = lh /\ tail[p] \in 1..Len(lh)
    BY <1>1, HeaderAt, Zenon
  <2>2. home \in [Blocks -> OnDisk]
    BY Zenon DEF IInv, TypeOK
  <2>3. b = lh[tail[p]]
    BY <1>1, <2>2, Zenon
  <2> QED
    BY <2>1, <2>3, Zenon
<1>2. ASSUME NEW p \in Procs, Call(p)
      PROVE  home' = home
  BY <1>2, Zenon DEF Call, begin_op, begin_op_sleep, log_write, log_write_panic,
       end_op, end_op_last, disk
<1>3. ASSUME NEW p \in Procs, CommitStep(p) \/ RecoveryStep(p)
      PROVE  \E i \in 1..Len(hdr) : hdr[i] = b
  <2>1. install_trans(p) \/ recover(p)
    BY <1>3, Zenon DEF CommitStep, RecoveryStep, write_log, write_head, clear,
         end_op_done, read_head, recover_clear, disk
  <2> QED
    BY <1>1, <2>1, Zenon DEF install_trans, recover, InstallBlock
<1>4. ASSUME NEW c \in Blocks, bread(c) \/ recycle(c)
      PROVE  home' = home
  BY <1>4, Zenon DEF bread, recycle, disk
<1>5. CASE CrashStep
  <2>1. PICK p \in Procs : CrashInInstall(p)
    BY <1>5, Zenon DEF CrashStep, Crash, CrashInWriteLog
  <2> QED
    BY <1>1, <2>1, Zenon DEF CrashInInstall
<1> QED
  BY <1>2, <1>3, <1>4, <1>5, Zenon DEF Next

\* No home location is overwritten unless the header on disk names it, in
\* recovery and in the crash of either loop too.
THEOREM WritesAhead == Spec => WriteAhead
<1> DEFINE A == \A b \in Blocks : home'[b] # home[b] =>
                                    \E i \in 1..Len(hdr) : hdr[i] = b
<1>1. IInv /\ [Next]_vars => [A]_vars
  BY HomeStep, Zenon
<1> QED
  BY <1>1, Invariance, PTL DEF Spec, WriteAhead

------------------------------------------------------------------------------
\* The refinement.

\* The contents that recovery with header h, log blocks s and homes m leads to.
Image(h, s, m) == [b \in Blocks |->
  IF \E i \in 1..Len(h) : h[i] = b
  THEN s[CHOOSE i \in 1..Len(h) : h[i] = b]
  ELSE m[b]]

\* A block named by the header comes from its log block, another from its home.
LEMMA ImageAt ==
  ASSUME NEW h \in Seq(Blocks), Injective(h), NEW s, NEW m
  PROVE  /\ \A k \in 1..Len(h) : Image(h, s, m)[h[k]] = s[k]
         /\ \A b \in Blocks : (\A k \in 1..Len(h) : h[k] # b) => Image(h, s, m)[b] = m[b]
<1>1. ASSUME NEW k \in 1..Len(h)
      PROVE  Image(h, s, m)[h[k]] = s[k]
  <2>1. h[k] \in Blocks
    OBVIOUS
  <2>2. (CHOOSE i \in 1..Len(h) : h[i] = h[k]) = k
    <3>1. \E i \in 1..Len(h) : h[i] = h[k]
      BY Zenon
    <3>2. \A i \in 1..Len(h) : h[i] = h[k] => i = k
      BY Zenon DEF Injective
    <3> QED
      BY <3>1, <3>2, Zenon
  <2> QED
    BY <2>1, <2>2, Zenon DEF Image
<1> QED
  BY <1>1, Zenon DEF Image

\* What a reboot leads to, in this state.
LEMMA RecoveredAt ==
  ASSUME IInv
  PROVE  /\ Recovered = [b \in Blocks |-> Recovered[b]]
         /\ \A k \in 1..Len(hdr) : Recovered[hdr[k]] = slot[k]
         /\ \A b \in Blocks : b \notin InHdr => Recovered[b] = home[b]
<1>1. hdr \in Seq(Blocks) /\ Injective(hdr)
  BY Zenon DEF IInv, TypeOK, LogShape
<1>2. Recovered = Image(hdr, slot, home)
  BY Zenon DEF Recovered, Image
<1>3. /\ \A k \in 1..Len(hdr) : Recovered[hdr[k]] = slot[k]
      /\ \A b \in Blocks : (\A k \in 1..Len(hdr) : hdr[k] # b) => Recovered[b] = home[b]
  BY <1>1, <1>2, ImageAt
<1>4. Recovered = [b \in Blocks |-> Recovered[b]]
  BY Zenon DEF Recovered
<1> QED
  BY <1>3, <1>4, Zenon DEF InHdr

\* The same in the next state.
LEMMA RecoveredNext ==
  ASSUME IInv'
  PROVE  /\ Recovered' = [b \in Blocks |-> Recovered'[b]]
         /\ \A k \in 1..Len(hdr') : Recovered'[hdr'[k]] = slot'[k]
         /\ \A b \in Blocks : b \notin InHdr' => Recovered'[b] = home'[b]
<1>1. hdr' \in Seq(Blocks) /\ Injective(hdr')
  BY Zenon DEF IInv, TypeOK, LogShape
<1>2. Recovered' = Image(hdr', slot', home')
  BY Zenon DEF Recovered, Image
<1>3. /\ \A k \in 1..Len(hdr') : Recovered'[hdr'[k]] = slot'[k]
      /\ \A b \in Blocks :
           (\A k \in 1..Len(hdr') : hdr'[k] # b) => Recovered'[b] = home'[b]
  BY <1>1, <1>2, ImageAt
<1>4. Recovered' = [b \in Blocks |-> Recovered'[b]]
  BY Zenon DEF Recovered
<1> QED
  BY <1>3, <1>4, Zenon DEF InHdr

\* Writing log blocks while the header is empty, or a crash then.
LEMMA DurableLog ==
  ASSUME IInv, IInv', hdr = <<>>, hdr' = <<>>, home' = home
  PROVE  Recovered' = Recovered
<1>1. InHdr = {} /\ InHdr' = {}
  BY EmptyFacts DEF InHdr
<1>2. \A b \in Blocks : Recovered'[b] = Recovered[b]
  BY <1>1, RecoveredAt, RecoveredNext, Zenon
<1> QED
  BY <1>2, RecoveredAt, RecoveredNext, Zenon

\* Writing the home of a block that the header names, or a crash then.
LEMMA DurableInstall ==
  ASSUME IInv, IInv', hdr' = hdr, slot' = slot,
         NEW p \in Procs, pc[p] \in {"install", "recover"}, NEW v,
         home' = [home EXCEPT ![lh[tail[p]]] = v]
  PROVE  Recovered' = Recovered
<1>1. lh[tail[p]] \in InHdr /\ home \in [Blocks -> OnDisk]
  BY HeaderAt, Zenon DEF InHdr, IInv, TypeOK
<1>2. InHdr' = InHdr
  BY Zenon DEF InHdr
<1>3. ASSUME NEW b \in Blocks
      PROVE  Recovered'[b] = Recovered[b]
  <2>1. CASE b \in InHdr
    <3>1. PICK k \in 1..Len(hdr) : hdr[k] = b
      BY <2>1, Zenon DEF InHdr
    <3> QED
      BY <3>1, RecoveredAt, RecoveredNext
  <2>2. CASE b \notin InHdr
    <3>1. home'[b] = home[b]
      BY <1>1, <2>2, Zenon
    <3> QED
      BY <1>2, <2>2, <3>1, RecoveredAt, RecoveredNext, Zenon
  <2> QED
    BY <2>1, <2>2, Zenon
<1> QED
  BY <1>3, RecoveredAt, RecoveredNext, Zenon

\* Clearing the header once every block it names is in its home.
LEMMA DurableClear ==
  ASSUME IInv, IInv', NEW p \in Procs, pc[p] \in {"clear", "recover_clear"},
         hdr' = <<>>, home' = home
  PROVE  Recovered' = Recovered
<1>1. hdr = lh /\ \A k \in 1..Len(lh) : home[lh[k]] = slot[k]
  BY Zenon DEF IInv, LogShape, Copies
<1>2. InHdr' = {}
  BY EmptyFacts DEF InHdr
<1>3. ASSUME NEW b \in Blocks
      PROVE  Recovered[b] = home[b]
  <2>1. CASE b \in InHdr
    <3>1. PICK k \in 1..Len(hdr) : hdr[k] = b
      BY <2>1, Zenon DEF InHdr
    <3> QED
      BY <1>1, <3>1, RecoveredAt
  <2>2. CASE b \notin InHdr
    BY <2>2, RecoveredAt, Zenon
  <2> QED
    BY <2>1, <2>2, Zenon
<1>4. \A b \in Blocks : Recovered'[b] = Recovered[b]
  BY <1>2, <1>3, RecoveredNext, Zenon
<1> QED
  BY <1>4, RecoveredAt, RecoveredNext, Zenon

------------------------------------------------------------------------------
\* What the file system calls see.

\* Outside of recovery the view is what bread() returns.
LEMMA ViewUp ==
  ASSUME pc[InitProc] \notin Recovery
  PROVE  View = [b \in Blocks |-> Contents(b)]
BY Zenon DEF View

\* Contents of a block that has no uninstalled write are those of its home.
LEMMA ViewUnpinned ==
  ASSUME IInv, NEW b \in Blocks, pin[b] = 0
  PROVE  Contents(b) = home[b]
BY DEF IInv, Copies, Contents

\* A step that leaves the buffers' contents and the homes alone, outside of
\* recovery before and after, does not change the view.
LEMMA ViewSame ==
  ASSUME pc[InitProc] \notin Recovery, pc'[InitProc] \notin Recovery,
         \A b \in Blocks : Contents(b)' = Contents(b)
  PROVE  View' = View
BY Zenon DEF View

\* begin_op(), log_write(), end_op() and their variants.
LEMMA RefineCall ==
  ASSUME IInv, IInv', NEW p \in Procs, Call(p)
  PROVE  [Txn!Next]_(Txn!vars)
<1>1. /\ hdr' = hdr /\ slot' = slot /\ home' = home
      /\ pc[p] \in {"idle", "woken", "op"} /\ pc[InitProc] \notin Recovery
  BY Zenon DEF Call, begin_op, begin_op_sleep, log_write, log_write_panic, MayWrite, Up,
     end_op, end_op_last, disk
<1>2. Recovered' = Recovered
  BY <1>1, Zenon DEF Recovered
<1>3. pc \in [Procs -> Locations] /\ cache \in [Blocks -> OnDisk \cup {NotCached}]
  BY Zenon DEF IInv, TypeOK
<1>4. ASSUME cache' = cache, pc'[InitProc] \notin Recovery
      PROVE  View' = View
  <2>1. \A b \in Blocks : Contents(b)' = Contents(b)
    BY <1>1, <1>4, Zenon DEF Contents
  <2> QED
    BY <1>1, <1>4, <2>1, ViewSame, Zenon
<1>5. CASE begin_op(p)
  <2>1. pc' = [pc EXCEPT ![p] = "op"] /\ cache' = cache /\ pc[p] # "op"
    BY <1>5, Zenon DEF begin_op, bufs
  <2>2. Active' = Active \cup {p} /\ p \notin Active
    BY <1>3, <2>1, Zenon DEF Active
  <2>3. pc'[InitProc] \notin Recovery
    BY <1>1, <1>3, <2>1 DEF Recovery
  <2>4. Txn!Begin(p)
    BY <1>2, <1>4, <2>1, <2>2, <2>3, Zenon DEF Txn!Begin
  <2> QED
    BY <2>4, Zenon DEF Txn!Next
<1>6. CASE begin_op_sleep(p)
  <2>1. pc' = [pc EXCEPT ![p] = "sleeping"] /\ cache' = cache /\ pc[p] # "op"
    BY <1>6, Zenon DEF begin_op_sleep, bufs
  <2>2. Active' = Active
    BY <1>3, <2>1, Zenon DEF Active
  <2>3. pc'[InitProc] \notin Recovery
    BY <1>1, <1>3, <2>1 DEF Recovery
  <2> QED
    BY <1>2, <1>4, <2>1, <2>2, <2>3, Zenon DEF Txn!vars
<1>7. ASSUME NEW b \in Blocks, NEW v \in Data, log_write(p, b, v)
      PROVE  [Txn!Next]_(Txn!vars)
  <2>1. pc' = pc /\ cache' = [cache EXCEPT ![b] = v] /\ pc[p] = "op"
    BY <1>7, Zenon DEF log_write, MayWrite
  <2>2. Active' = Active /\ p \in Active
    BY <2>1, Zenon DEF Active
  <2>3. \A c \in Blocks : Contents(c)' = IF c = b THEN v ELSE Contents(c)
    BY <1>1, <1>3, <2>1, DataAssumption, Zenon DEF Contents
  <2>4. View' = [View EXCEPT ![b] = v]
    <3>1. View = [c \in Blocks |-> Contents(c)]
      BY <1>1, ViewUp, Zenon
    <3>2. View' = [c \in Blocks |-> Contents(c)']
      BY <1>1, <2>1, Zenon DEF View
    <3> QED
      BY <2>3, <3>1, <3>2, Zenon
  <2>5. Txn!Write(p, b, v)
    BY <1>2, <2>2, <2>4, Zenon DEF Txn!Write
  <2> QED
    BY <2>5, Zenon DEF Txn!Next
<1>8. ASSUME NEW b \in Blocks, log_write_panic(p, b)
      PROVE  [Txn!Next]_(Txn!vars)
  <2>1. pc' = pc /\ cache' = cache
    BY <1>8, Zenon DEF log_write_panic, bufs, thread
  <2>2. Active' = Active
    BY <2>1, Zenon DEF Active
  <2> QED
    BY <1>1, <1>2, <1>4, <2>1, <2>2, Zenon DEF Txn!vars
<1>9. CASE end_op(p) \/ end_op_last(p)
  <2>1. cache' = cache /\ pc[p] = "op"
    BY <1>9, Zenon DEF end_op, end_op_last, bufs
  <2>2. /\ pc'[p] \notin Recovery \cup {"op"}
        /\ \A q \in Procs \ {p} : pc'[q] = pc[q] \/ (pc[q] = "sleeping" /\ pc'[q] = "woken")
    BY <1>3, <1>9, Zenon DEF end_op, end_op_last, Woken, Recovery
  <2>3. Active' = Active \ {p} /\ p \in Active
    BY <2>1, <2>2, Zenon DEF Active
  <2>4. pc'[InitProc] \notin Recovery
    BY <1>1, <2>2, ProcsAssumption, Zenon DEF Recovery
  <2>5. Txn!End(p)
    BY <1>2, <1>4, <2>1, <2>3, <2>4, Zenon DEF Txn!End
  <2> QED
    BY <2>5, Zenon DEF Txn!Next
<1> QED
  BY <1>5, <1>6, <1>7, <1>8, <1>9, Zenon DEF Call

\* The header write of commit() makes the view durable: every logged block is
\* in the log, and every other one is in its home.
LEMMA RefineWriteHead ==
  ASSUME IInv, IInv', NEW p \in Procs, write_head(p)
  PROVE  Txn!Commit
<1>1. /\ pc[p] = "write_head" /\ hdr' = lh /\ pc' = [pc EXCEPT ![p] = "install"]
      /\ slot' = slot /\ home' = home /\ cache' = cache
  BY Zenon DEF write_head, bufs
<1>2. /\ pc \in [Procs -> Locations] /\ lh \in Seq(Blocks) /\ TypeOK /\ Exclusive
      /\ PinsBalanced /\ Copies
  BY Zenon DEF IInv, TypeOK
<1>3. /\ \A q \in Procs \ {p} : pc[q] \notin Commit \cup Recovery \cup {"op"}
      /\ pc[InitProc] \notin Recovery
  BY <1>1, <1>2, Alone, Zenon DEF Commit
<1>4. \A k \in 1..Len(lh) : ~Installed(k)
  BY <1>1, <1>3, Zenon DEF Installed, Commit
<1>5. Active = {} /\ Active' = {}
  BY <1>1, <1>2, <1>3, Zenon DEF Active
<1>6. ASSUME NEW b \in Blocks
      PROVE  Recovered'[b] = Contents(b)
  <2>1. CASE \E k \in 1..Len(lh) : lh[k] = b
    <3>1. PICK k \in 1..Len(lh) : lh[k] = b
      BY <2>1, Zenon
    <3>2. cache[b] # NotCached
      BY <1>2, <1>3, <1>4, <3>1, LoggedCached, Zenon
    <3>3. slot[k] = cache[b]
      BY <1>1, <1>2, <3>1, Zenon DEF Copies
    <3>4. Recovered'[b] = slot[k]
      BY <1>1, <3>1, RecoveredNext, Zenon
    <3> QED
      BY <3>2, <3>3, <3>4, Zenon DEF Contents
  <2>2. CASE ~\E k \in 1..Len(lh) : lh[k] = b
    <3>1. pin[b] = 0
      BY <1>2, <2>2, Zenon DEF PinsBalanced
    <3>2. b \notin InHdr'
      BY <1>1, <2>2, Zenon DEF InHdr
    <3> QED
      BY <1>1, <3>1, <3>2, ViewUnpinned, RecoveredNext, Zenon
  <2> QED
    BY <2>1, <2>2, Zenon
<1>7. View = [b \in Blocks |-> Contents(b)]
  BY <1>3, ViewUp, Zenon
<1>8. Recovered' = View
  BY <1>6, <1>7, RecoveredNext, Zenon
<1>9. View' = View
  <2>1. \A b \in Blocks : Contents(b)' = Contents(b)
    BY <1>1, Zenon DEF Contents
  <2>2. pc'[InitProc] \notin Recovery
    BY <1>1, <1>2, <1>3 DEF Recovery
  <2> QED
    BY <1>3, <2>1, <2>2, ViewSame, Zenon
<1> QED
  BY <1>5, <1>8, <1>9, Zenon DEF Txn!Commit

\* The other steps of commit() change nothing that TxnDisk shows.
LEMMA RefineCommit ==
  ASSUME IInv, IInv', NEW p \in Procs, CommitStep(p)
  PROVE  [Txn!Next]_(Txn!vars)
<1>0. /\ TypeOK /\ Exclusive /\ LogShape /\ PinsBalanced /\ Copies
      /\ pc \in [Procs -> Locations] /\ cache \in [Blocks -> OnDisk \cup {NotCached}]
      /\ home \in [Blocks -> OnDisk]
  BY Zenon DEF IInv, TypeOK
<1>1. /\ pc[p] \in Commit /\ pc[InitProc] \notin Recovery
      /\ \A q \in Procs \ {p} : pc[q] \notin Commit \cup Recovery \cup {"op"}
  BY <1>0, Alone, Zenon DEF CommitStep, write_log, write_head, install_trans, clear,
       end_op_done, Commit
<1>2. ASSUME pc'[p] \in Commit \cup {"idle"}, Recovered' = Recovered,
             \A q \in Procs \ {p} : pc'[q] = pc[q] \/ pc'[q] = "woken",
             \A b \in Blocks : Contents(b)' = Contents(b)
      PROVE  [Txn!Next]_(Txn!vars)
  <2>1. Active = {} /\ Active' = {}
    BY <1>1, <1>2, Zenon DEF Active, Commit
  <2>2. pc'[InitProc] \notin Recovery
    BY <1>1, <1>2, ProcsAssumption, Zenon DEF Commit, Recovery
  <2>3. View' = View
    BY <1>1, <1>2, <2>2, ViewSame, Zenon
  <2> QED
    BY <1>2, <2>1, <2>3, Zenon DEF Txn!vars
<1>3. CASE write_log(p)
  <2>1. /\ pc[p] = "write_log" /\ hdr' = hdr /\ home' = home /\ cache' = cache
        /\ Advance(p, "write_log", "write_head")
    BY <1>3, Zenon DEF write_log, bufs
  <2>2. hdr = <<>>
    BY <2>1, HeaderAt, Zenon
  <2>3. Recovered' = Recovered
    BY <2>1, <2>2, DurableLog, Zenon
  <2>4. \A b \in Blocks : Contents(b)' = Contents(b)
    BY <2>1, Zenon DEF Contents
  <2>5. /\ pc'[p] \in {"write_log", "write_head"}
        /\ \A q \in Procs \ {p} : pc'[q] = pc[q]
    BY <1>0, <2>1, Zenon DEF Advance
  <2> QED
    BY <1>2, <2>3, <2>4, <2>5, Zenon DEF Commit
<1>4. CASE write_head(p)
  BY <1>4, RefineWriteHead, Zenon DEF Txn!Next
<1>5. CASE install_trans(p)
  <2>1. /\ pc[p] = "install" /\ hdr' = hdr /\ slot' = slot
        /\ home' = [home EXCEPT ![lh[tail[p]]] = slot[tail[p]]]
        /\ cache' = [cache EXCEPT ![lh[tail[p]]] = slot[tail[p]]]
        /\ Advance(p, "install", "clear")
    BY <1>5, Zenon DEF install_trans, InstallBlock
  <2>2. Recovered' = Recovered
    BY <2>1, DurableInstall, Zenon
  <2>3. tail[p] \in 1..Len(lh) /\ lh[tail[p]] \in Blocks
    BY <1>0, <2>1, AtBlock, Zenon
  <2>4. pin[lh[tail[p]]] = 1
    BY <1>0, <2>1, PinnedAtTail, Zenon
  <2>5. cache[lh[tail[p]]] # NotCached
    BY <1>0, <2>3, <2>4 DEF Copies
  <2>6. slot[tail[p]] = cache[lh[tail[p]]]
    BY <1>0, <2>1, <2>3 DEF Copies
  <2>7. \A b \in Blocks : Contents(b)' = Contents(b)
    BY <1>0, <2>1, <2>3, <2>5, <2>6, Zenon DEF Contents
  <2>8. /\ pc'[p] \in {"install", "clear"}
        /\ \A q \in Procs \ {p} : pc'[q] = pc[q]
    BY <1>0, <2>1, Zenon DEF Advance
  <2> QED
    BY <1>2, <2>2, <2>7, <2>8, Zenon DEF Commit
<1>6. CASE clear(p)
  <2>1. /\ pc[p] = "clear" /\ hdr' = <<>> /\ home' = home /\ cache' = cache
        /\ pc' = [pc EXCEPT ![p] = "committed"]
    BY <1>6, Zenon DEF clear, bufs
  <2>2. Recovered' = Recovered
    BY <2>1, DurableClear, Zenon
  <2>3. \A b \in Blocks : Contents(b)' = Contents(b)
    BY <2>1, Zenon DEF Contents
  <2>4. pc'[p] = "committed" /\ \A q \in Procs \ {p} : pc'[q] = pc[q]
    BY <1>0, <2>1, Zenon
  <2> QED
    BY <1>2, <2>2, <2>3, <2>4, Zenon DEF Commit
<1>7. CASE end_op_done(p)
  <2>1. /\ hdr' = hdr /\ slot' = slot /\ home' = home /\ cache' = cache
        /\ pc' = Woken([pc EXCEPT ![p] = "idle"])
    BY <1>7, Zenon DEF end_op_done, disk, bufs
  <2>2. Recovered' = Recovered
    BY <2>1, Zenon DEF Recovered
  <2>3. \A b \in Blocks : Contents(b)' = Contents(b)
    BY <2>1, Zenon DEF Contents
  <2>4. pc'[p] = "idle" /\ \A q \in Procs \ {p} : pc'[q] = pc[q] \/ pc'[q] = "woken"
    BY <1>0, <2>1, Zenon DEF Woken
  <2> QED
    BY <1>2, <2>2, <2>3, <2>4, Zenon
<1> QED
  BY <1>3, <1>4, <1>5, <1>6, <1>7, Zenon DEF CommitStep

\* During recovery the view is already what recovery leads to.
LEMMA RefineRecovery ==
  ASSUME IInv, IInv', NEW p \in Procs, RecoveryStep(p)
  PROVE  [Txn!Next]_(Txn!vars)
<1>0. /\ TypeOK /\ Exclusive /\ PinsBalanced /\ pc \in [Procs -> Locations]
  BY Zenon DEF IInv, TypeOK
<1>1. /\ pc[p] \in Recovery /\ p = InitProc
      /\ \A q \in Procs \ {p} : pc[q] \notin Commit \cup Recovery \cup {"op"}
  BY <1>0, Alone, Zenon DEF RecoveryStep, read_head, recover, recover_clear, Recovery
<1>2. ASSUME \A q \in Procs \ {p} : pc'[q] = pc[q], pc'[p] # "op"
      PROVE  Active = {} /\ Active' = {}
  BY <1>1, <1>2, Zenon DEF Active, Recovery
<1>3. View = Recovered
  BY <1>1, Zenon DEF View
<1>4. ASSUME \A q \in Procs \ {p} : pc'[q] = pc[q], pc'[p] \in Recovery,
             Recovered' = Recovered
      PROVE  [Txn!Next]_(Txn!vars)
  <2>1. View' = Recovered'
    BY <1>1, <1>4, Zenon DEF View
  <2>2. pc'[p] # "op"
    BY <1>4, Zenon DEF Recovery
  <2> QED
    BY <1>2, <1>3, <1>4, <2>1, <2>2, Zenon DEF Txn!vars
<1>5. CASE read_head(p)
  <2>1. Recovered' = Recovered
    BY <1>5, Zenon DEF read_head, disk, Recovered
  <2>2. pc'[p] \in Recovery /\ \A q \in Procs \ {p} : pc'[q] = pc[q]
    BY <1>0, <1>5, Zenon DEF read_head, Recovery
  <2> QED
    BY <1>4, <2>1, <2>2, Zenon
<1>6. CASE recover(p)
  <2>1. /\ pc[p] = "recover" /\ hdr' = hdr /\ slot' = slot
        /\ home' = [home EXCEPT ![lh[tail[p]]] = slot[tail[p]]]
        /\ Advance(p, "recover", "recover_clear")
    BY <1>6, Zenon DEF recover, InstallBlock
  <2>2. Recovered' = Recovered
    BY <2>1, DurableInstall, Zenon
  <2>3. pc'[p] \in Recovery /\ \A q \in Procs \ {p} : pc'[q] = pc[q]
    BY <1>0, <2>1, Zenon DEF Advance, Recovery
  <2> QED
    BY <1>4, <2>2, <2>3, Zenon
<1>7. CASE recover_clear(p)
  <2>1. /\ pc[p] = "recover_clear" /\ hdr' = <<>> /\ home' = home /\ cache' = cache
        /\ pin' = pin /\ pc' = [pc EXCEPT ![p] = "idle"]
    BY <1>7, Zenon DEF recover_clear, bufs
  <2>2. Recovered' = Recovered
    BY <2>1, DurableClear, Zenon
  <2>3. pc'[p] = "idle" /\ \A q \in Procs \ {p} : pc'[q] = pc[q]
    BY <1>0, <2>1, Zenon
  <2>4. InHdr' = {}
    BY <2>1, EmptyFacts DEF InHdr
  <2>5. ASSUME NEW b \in Blocks
        PROVE  Contents(b)' = Recovered'[b]
    <3>1. pin[b] = 0
      BY <1>0, <1>1, Zenon DEF PinsBalanced
    <3>2. Contents(b) = home[b]
      BY <3>1, ViewUnpinned, Zenon
    <3>3. Contents(b)' = Contents(b)
      BY <2>1, Zenon DEF Contents
    <3> QED
      BY <2>1, <2>4, <3>2, <3>3, RecoveredNext, Zenon
  <2>6. View' = [b \in Blocks |-> Contents(b)']
    BY <1>1, <2>3, Zenon DEF View, Recovery
  <2>7. View' = View
    BY <1>3, <2>2, <2>5, <2>6, RecoveredNext, Zenon
  <2> QED
    BY <1>2, <2>2, <2>3, <2>7, Zenon DEF Txn!vars
<1> QED
  BY <1>5, <1>6, <1>7, Zenon DEF RecoveryStep

\* A crash, torn write included, leaves what was durable.
LEMMA RefineCrash ==
  ASSUME IInv, IInv', CrashStep
  PROVE  Txn!Crash
<1>1. Reboot
  BY Zenon DEF CrashStep, Crash, CrashInWriteLog, CrashInInstall
<1>2. hdr' = hdr /\ pc'[InitProc] = "read_head" /\ Active' = {}
  BY <1>1, ProcsAssumption, Zenon DEF Reboot, Active
<1>3. View' = Recovered'
  BY <1>2, Zenon DEF View, Recovery
<1>4. CASE Crash
  BY <1>2, <1>3, <1>4, Zenon DEF Crash, Recovered, Txn!Crash
<1>5. ASSUME NEW p \in Procs, CrashInWriteLog(p)
      PROVE  Txn!Crash
  <2>1. hdr = <<>> /\ home' = home
    BY <1>5, HeaderAt, Zenon DEF CrashInWriteLog
  <2>2. Recovered' = Recovered
    BY <1>2, <2>1, DurableLog, Zenon
  <2> QED
    BY <1>2, <1>3, <2>2, Zenon DEF Txn!Crash
<1>6. ASSUME NEW p \in Procs, CrashInInstall(p)
      PROVE  Txn!Crash
  <2>1. Recovered' = Recovered
    BY <1>2, <1>6, DurableInstall, Zenon DEF CrashInInstall
  <2> QED
    BY <1>2, <1>3, <2>1, Zenon DEF Txn!Crash
<1> QED
  BY <1>4, <1>5, <1>6, Zenon DEF CrashStep

\* Reading a block in and recycling its buffer are not visible.
LEMMA RefineBuffer ==
  ASSUME IInv, IInv', NEW b \in Blocks, bread(b) \/ recycle(b)
  PROVE  [Txn!Next]_(Txn!vars)
<1>1. /\ hdr' = hdr /\ slot' = slot /\ home' = home /\ pc' = pc
      /\ pc[InitProc] \notin Recovery
  BY Zenon DEF bread, recycle, disk, thread, Up
<1>2. Recovered' = Recovered /\ Active' = Active
  BY <1>1, Zenon DEF Recovered, Active
<1>3. /\ cache \in [Blocks -> OnDisk \cup {NotCached}]
      /\ home[b] # NotCached
  BY DataAssumption, Zenon DEF IInv, TypeOK, OnDisk
<1>4. \A c \in Blocks : Contents(c)' = Contents(c)
  <2>1. CASE bread(b)
    BY <1>1, <1>3, <2>1, Zenon DEF bread, Contents
  <2>2. CASE recycle(b)
    <3>1. Contents(b) = home[b]
      BY <2>2, ViewUnpinned, Zenon DEF recycle
    <3>2. cache' = [cache EXCEPT ![b] = NotCached]
      BY <2>2, Zenon DEF recycle
    <3> QED
      BY <1>1, <1>3, <3>1, <3>2, Zenon DEF Contents
  <2> QED
    BY <2>1, <2>2, Zenon
<1>5. View' = View
  BY <1>1, <1>4, ViewSame, Zenon
<1> QED
  BY <1>2, <1>5, Zenon DEF Txn!vars

\* A freshly made disk with an empty log.
LEMMA RefineInit == Init => Txn!Init
<1> SUFFICES ASSUME Init
             PROVE  Txn!Init
  BY Zenon
<1>1. hdr = <<>> /\ home \in [Blocks -> Data] /\ pc[InitProc] = "read_head"
  BY ProcsAssumption, Zenon DEF Init
<1>2. Recovered = home
  BY <1>1, EmptyFacts DEF Recovered
<1>3. View = Recovered
  BY <1>1, Zenon DEF View, Recovery
<1>4. Active = {}
  BY Zenon DEF Init, Active
<1> QED
  BY <1>1, <1>2, <1>3, <1>4, Zenon DEF Txn!Init

\* Every step of the log is a step of TxnDisk, or invisible there.
LEMMA RefineNext ==
  ASSUME IInv, IInv', Next
  PROVE  [Txn!Next]_(Txn!vars)
<1>1. ASSUME NEW p \in Procs, Call(p) \/ CommitStep(p) \/ RecoveryStep(p)
      PROVE  [Txn!Next]_(Txn!vars)
  BY <1>1, RefineCall, RefineCommit, RefineRecovery, Zenon
<1>2. ASSUME NEW b \in Blocks, bread(b) \/ recycle(b)
      PROVE  [Txn!Next]_(Txn!vars)
  BY <1>2, RefineBuffer, Zenon
<1>3. CASE CrashStep
  BY <1>3, RefineCrash, Zenon DEF Txn!Next
<1> QED
  BY <1>1, <1>2, <1>3, Zenon DEF Next

\* The log implements TxnDisk: whatever the interleaving of operations, the
\* size of the log and the points at which the machine crashes, the disk that
\* recovery leaves is the one of the last committed group.
THEOREM Refinement == Spec => CrashAtomic
<1>1. IInv /\ IInv' /\ [Next]_vars => [Txn!Next]_(Txn!vars)
  <2>1. ASSUME UNCHANGED vars
        PROVE  UNCHANGED Txn!vars
    BY <2>1, Zenon DEF vars, disk, bufs, thread, Txn!vars, Recovered, View, Contents,
         Active
  <2> QED
    BY <2>1, RefineNext, Zenon
<1> QED
  BY <1>1, RefineInit, Invariance, PTL DEF Spec, CrashAtomic, Txn!Spec
==============================================================================
