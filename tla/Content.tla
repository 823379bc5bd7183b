------------------------------- MODULE Content -------------------------------
(***************************************************************************)
(* The contents of files: block allocation, bmap(), itrunc(), readi() and  *)
(* writei() of kernel/fs.c, under fileread() and filewrite() of            *)
(* kernel/file.c and the O_TRUNC of sys_open().                            *)
(*                                                                         *)
(* bitmap    the blocks in use                                             *)
(* blk[b]    the BSIZE cells of block b; a cell holds a byte, or a block   *)
(*           number in an indirect block (so NINDIRECT = BSIZE)            *)
(* inode[i]  size and addrs (the last one is the indirect block)           *)
(* file[f]   the inode and the offset of an open file; processes share it  *)
(* lock[i]   the inode's sleep-lock                                        *)
(* th[p]     the write() that p executes: file, length, bytes done before  *)
(*           this transaction (i) and in it (tot), blocks logged so far    *)
(*                                                                         *)
(* Every byte written to inode i has the value i, and 0 is a byte that was *)
(* never written.  A step is one block of writei(), or what a call does    *)
(* under ilock() when it only reads.                                       *)
(***************************************************************************)
EXTENDS Integers, FiniteSets

CONSTANTS Procs,        \* processes
          Files,        \* struct files
          NInodes,      \* inodes are 1..NInodes
          NBlocks,      \* data blocks are 1..NBlocks
          BPB,          \* blocks that a bitmap block describes
          BSIZE,        \* cells of a block
          NDIRECT,      \* direct blocks of an inode
          MAXOPBLOCKS,  \* blocks that one transaction may write
          UINT,         \* offsets count modulo UINT
          Opens,        \* the open() calls made, as <<file, inode, O_TRUNC>>
          Reads,        \* the read() calls made, as <<process, file, length>>
          Writes,       \* the write() calls made, as <<process, file, length>>
          None          \* no process, no file

ASSUME SizeAssumption ==
  /\ {NInodes, NBlocks, BPB, BSIZE, NDIRECT} \subseteq Nat \ {0}
  /\ MAXOPBLOCKS \in Nat /\ MAXOPBLOCKS >= 6
  /\ UINT \in Nat /\ UINT > 2 * (NDIRECT + BSIZE) * BSIZE
  /\ Opens \subseteq Files \X (1..NInodes) \X BOOLEAN
  /\ Reads \cup Writes \subseteq Procs \X Files \X Int

VARIABLES bitmap, blk, inode, file, lock, th, panicked

vars == <<bitmap, blk, inode, file, lock, th, panicked>>

NINDIRECT == BSIZE
MAXFILE   == NDIRECT + NINDIRECT
Inodes    == 1..NInodes
Blocks    == 1..NBlocks
Cells     == 0..(BSIZE - 1)
ZeroBlock == [c \in Cells |-> 0]
NoFile    == [ip |-> 0, off |-> 0]
Idle      == [pc |-> "idle", f |-> None, n |-> 0, i |-> 0, tot |-> 0, err |-> FALSE, log |-> {}]

\* Faulty Max: no room for writes that are not aligned.
Max_aligned == ((MAXOPBLOCKS - 1 - 1) \div 2) * BSIZE

\* The most that filewrite() writes in one transaction.
Max == ((MAXOPBLOCKS - 1 - 1 - 2) \div 2) * BSIZE

Init ==
  /\ bitmap = {} /\ blk = [b \in Blocks |-> ZeroBlock]
  /\ inode = [i \in Inodes |-> [size |-> 0, addrs |-> [a \in 0..NDIRECT |-> 0]]]
  /\ file = [f \in Files |-> NoFile]
  /\ lock = [i \in Inodes |-> None]
  /\ th = [p \in Procs |-> Idle]
  /\ panicked = "no"

Least2(a, b) == IF a < b THEN a ELSE b
At(p, l) == th[p].pc = l /\ panicked = "no"
Panic(why) == panicked' = why /\ UNCHANGED <<bitmap, blk, inode, file, lock, th>>

------------------------------------------------------------------------------
\* Blocks.  A "state" s has the bitmap, the blocks and the set of blocks that
\* the transaction has logged.

FreeBlocks(s) == Blocks \ s.bitmap

\* The scan of balloc().
FirstFree(s) == CHOOSE b \in FreeBlocks(s) : \A x \in FreeBlocks(s) : b <= x
BBLOCK(b) == <<"bitmap", (b - 1) \div BPB>>

\* balloc(), when there is a free block: mark it, zero it.
balloc(s) ==
  LET b == FirstFree(s) IN
  [bitmap |-> s.bitmap \cup {b}, blk |-> [s.blk EXCEPT ![b] = ZeroBlock],
   log |-> s.log \cup {BBLOCK(b), <<"data", b>>}]

\* Which blocks bmap(bn) has to allocate: the first (direct or indirect), and
\* the one that an indirect block names.
bmap_needs(s, ad, bn) ==
  IF bn < NDIRECT THEN <<ad[bn] = 0, FALSE>>
  ELSE <<ad[NDIRECT] = 0, ad[NDIRECT] = 0 \/ s.blk[ad[NDIRECT]][bn - NDIRECT] = 0>>

\* bmap(): the state after it, with the new addrs and the block found (0 when
\* balloc() panics for want of blocks).
bmap(s, ad, bn) ==
  LET need == bmap_needs(s, ad, bn)
      k  == Least2(bn, NDIRECT)
      s1 == IF need[1] THEN balloc(s) ELSE s
      a1 == IF need[1] THEN [ad EXCEPT ![k] = FirstFree(s)] ELSE ad
      s2 == IF need[2] THEN balloc(s1) ELSE s1
      s3 == IF need[2]
            THEN [s2 EXCEPT !.blk[a1[k]][bn - NDIRECT] = FirstFree(s1),
                            !.log = @ \cup {<<"data", a1[k]>>}]
            ELSE s2
      short == Cardinality(FreeBlocks(s)) < Cardinality({x \in {1, 2} : need[x]})
  IN IF short THEN [s |-> s, addrs |-> ad, b |-> 0]
     ELSE [s |-> s3, addrs |-> a1,
           b |-> IF bn < NDIRECT THEN a1[bn] ELSE s3.blk[a1[NDIRECT]][bn - NDIRECT]]

\* The blocks that inode i refers to, as a set of <<where, block>>.
DataRefs(i) ==
  {<<bn, inode[i].addrs[bn]>> : bn \in 0..(NDIRECT - 1)} \cup
  (IF inode[i].addrs[NDIRECT] = 0 THEN {}
   ELSE {<<NDIRECT + c, blk[inode[i].addrs[NDIRECT]][c]>> : c \in Cells})
Refs(i) == {r \in DataRefs(i) \cup {<<MAXFILE, inode[i].addrs[NDIRECT]>>} : r[2] # 0}

------------------------------------------------------------------------------
\* open(), with or without O_TRUNC, into a struct file that nobody uses.

\* Faulty itrunc: forgets the blocks that the indirect block names.
itrunc_direct(i) ==
  /\ IF \E a \in 0..NDIRECT : inode[i].addrs[a] # 0 /\ inode[i].addrs[a] \notin bitmap
     THEN panicked' = "bfree" ELSE UNCHANGED panicked
  /\ bitmap' = bitmap \ {inode[i].addrs[a] : a \in 0..NDIRECT}
  /\ inode' = [inode EXCEPT ![i] = [size |-> 0, addrs |-> [a \in 0..NDIRECT |-> 0]]]

\* itrunc(): bfree() panics for a block that is free, or freed twice.
itrunc(i) ==
  /\ IF \E r \in Refs(i) : r[2] \notin bitmap \/ \E q \in Refs(i) : q # r /\ q[2] = r[2]
     THEN panicked' = "bfree" ELSE UNCHANGED panicked
  /\ bitmap' = bitmap \ {r[2] : r \in Refs(i)}
  /\ inode' = [inode EXCEPT ![i] = [size |-> 0, addrs |-> [a \in 0..NDIRECT |-> 0]]]

sys_open(f, i, trunc) ==
  /\ panicked = "no" /\ \A p \in Procs : th[p].f # f
  /\ lock[i] = None
  /\ file' = [file EXCEPT ![f] = [ip |-> i, off |-> 0]]
  /\ IF trunc THEN itrunc(i) ELSE UNCHANGED <<bitmap, inode, panicked>>
  /\ UNCHANGED <<blk, lock, th>>

------------------------------------------------------------------------------
\* read().

\* What readi(off, n) returns, with n an unsigned number, when copyout() works.
readi(i, off, n) ==
  LET end == (off + n) % UINT IN
  IF off > inode[i].size \/ end < off THEN 0
  ELSE IF end > inode[i].size THEN inode[i].size - off ELSE n

\* fileread() of an inode.  When copyout() fails nothing changes.
fileread(p, f, n) ==
  LET i == file[f].ip IN
  /\ At(p, "idle") /\ i # 0 /\ lock[i] = None
  /\ file' = [file EXCEPT ![f].off = @ + readi(i, @, n % UINT)]
  /\ UNCHANGED <<bitmap, blk, inode, lock, th, panicked>>

------------------------------------------------------------------------------
\* write().

filewrite(p, f, n) ==
  /\ At(p, "idle") /\ file[f].ip # 0
  /\ th' = [th EXCEPT ![p] = [Idle EXCEPT !.pc = "loop", !.f = f, !.n = n]]
  /\ UNCHANGED <<bitmap, blk, inode, file, lock, panicked>>

N1(p) == Least2(th[p].n - th[p].i, Max)
Off(p) == file[th[p].f].off
Ip(p) == file[th[p].f].ip

\* The loop is over; begin_op(), ilock(), and the checks of writei().
filewrite_return(p) ==
  /\ At(p, "loop") /\ th[p].i >= th[p].n
  /\ th' = [th EXCEPT ![p] = Idle]
  /\ UNCHANGED <<bitmap, blk, inode, file, lock, panicked>>

writei_bad(i, off, n) ==
  \/ off > inode[i].size \/ (off + n) % UINT < off
  \/ off + n > MAXFILE * BSIZE

filewrite_fail(p) ==
  /\ At(p, "loop") /\ th[p].i < th[p].n /\ lock[Ip(p)] = None
  /\ writei_bad(Ip(p), Off(p), N1(p))
  /\ th' = [th EXCEPT ![p] = Idle]
  /\ UNCHANGED <<bitmap, blk, inode, file, lock, panicked>>

filewrite_begin(p) ==
  /\ At(p, "loop") /\ th[p].i < th[p].n /\ lock[Ip(p)] = None
  /\ ~writei_bad(Ip(p), Off(p), N1(p))
  /\ lock' = [lock EXCEPT ![Ip(p)] = p]
  /\ th' = [th EXCEPT ![p].pc = "writei", ![p].tot = 0, ![p].log = {}]
  /\ UNCHANGED <<bitmap, blk, inode, file, panicked>>

\* One block of the loop: copyin() puts got cells, fewer than asked when it fails.
writei(p, got) ==
  LET i == Ip(p)
      off == Off(p) + th[p].tot
      m == Least2(N1(p) - th[p].tot, BSIZE - (off % BSIZE))
      r == bmap([bitmap |-> bitmap, blk |-> blk, log |-> th[p].log], inode[i].addrs, off \div BSIZE)
      put == [c \in Cells |-> IF c >= (off % BSIZE) /\ c < (off % BSIZE) + got
                              THEN i ELSE r.s.blk[r.b][c]]
  IN
  /\ At(p, "writei") /\ th[p].tot < N1(p) /\ ~th[p].err /\ got <= m
  /\ IF off \div BSIZE >= MAXFILE THEN Panic("bmap")
     ELSE IF r.b = 0 THEN Panic("balloc")
     ELSE /\ bitmap' = r.s.bitmap
          /\ blk' = [r.s.blk EXCEPT ![r.b] = put]
          /\ inode' = [inode EXCEPT ![i].addrs = r.addrs]
          /\ th' = [th EXCEPT ![p].tot = IF got = m THEN @ + m ELSE @,
                              ![p].err = got < m,
                              ![p].log = IF got = m THEN r.s.log \cup {<<"data", r.b>>} ELSE r.s.log]
          /\ UNCHANGED <<file, lock, panicked>>

\* Faulty writei_end: the size is that of a write that did not fail.
writei_end_full(p) ==
  LET i == Ip(p)
      end == Off(p) + N1(p)
  IN
  /\ At(p, "writei") /\ (th[p].err \/ th[p].tot = N1(p))
  /\ inode' = [inode EXCEPT ![i].size = IF end > @ THEN end ELSE @]
  /\ file' = [file EXCEPT ![th[p].f].off = @ + th[p].tot]
  /\ lock' = [lock EXCEPT ![i] = None]
  /\ th' = [th EXCEPT ![p] = IF th[p].err THEN Idle
                              ELSE [@ EXCEPT !.pc = "loop", !.i = @ + th[p].tot, !.tot = 0, !.log = {}]]
  /\ UNCHANGED <<bitmap, blk, panicked>>

\* The end of writei() and the rest of the loop of filewrite().
writei_end(p) ==
  LET i == Ip(p)
      end == Off(p) + th[p].tot
  IN
  /\ At(p, "writei") /\ (th[p].err \/ th[p].tot = N1(p))
  /\ inode' = [inode EXCEPT ![i].size = IF end > @ THEN end ELSE @]
  /\ file' = [file EXCEPT ![th[p].f].off = @ + th[p].tot]
  /\ lock' = [lock EXCEPT ![i] = None]
  /\ th' = [th EXCEPT ![p] = IF th[p].err THEN Idle
                              ELSE [@ EXCEPT !.pc = "loop", !.i = @ + th[p].tot, !.tot = 0, !.log = {}]]
  /\ UNCHANGED <<bitmap, blk, panicked>>

------------------------------------------------------------------------------
\* panic() loops for ever.
Halted == panicked # "no" /\ UNCHANGED vars

Step(p) ==
  \/ filewrite_return(p) \/ filewrite_fail(p) \/ filewrite_begin(p)
  \/ \E got \in 0..BSIZE : writei(p, got)
  \/ writei_end(p)

Next ==
  \/ \E c \in Opens : sys_open(c[1], c[2], c[3])
  \/ \E c \in Reads : fileread(c[1], c[2], c[3])
  \/ \E c \in Writes : filewrite(c[1], c[2], c[3])
  \/ \E p \in Procs : Step(p)
  \/ Halted

Spec == Init /\ [][Next]_vars

------------------------------------------------------------------------------
\* Properties.

\* All references to blocks, as <<inode, where, block>>.
AllRefs == UNION {{<<i, r[1], r[2]>> : r \in Refs(i)} : i \in Inodes}

\* The bitmap is exact, on the error paths of writei() too: a block in use has one
\* place in one file, so that no two files share one, none is lost, and neither
\* bfree() nor bmap() panics (fs.c:98, 375-405).
BlocksExact ==
  /\ panicked \in {"no", "balloc"}
  /\ bitmap = {x[3] : x \in AllRefs}
  /\ \A x, y \in AllRefs : x[3] = y[3] => x = y

\* The value of byte number pos of inode i, 0 if no block is there.
Byte(i, pos) ==
  LET bn == pos \div BSIZE
      ad == inode[i].addrs
      b == IF bn < NDIRECT THEN ad[bn]
           ELSE IF ad[NDIRECT] = 0 THEN 0 ELSE blk[ad[NDIRECT]][bn - NDIRECT]
  IN IF b = 0 THEN 0 ELSE blk[b][pos % BSIZE]

\* Every byte below the size is one that was written to this file.  So readi()
\* never shows an old block's contents, and its bmap() finds every block: it does
\* not allocate, which it could not outside a transaction (fs.c:467, file.c:122).
VisibleIsOwn == \A i \in Inodes : \A pos \in 0..(inode[i].size - 1) : Byte(i, pos) = i

\* What a step of filewrite() logs fits a transaction: the limit that filewrite()
\* puts on each writei() is small enough (file.c:150-156).
TxnFits == \A p \in Procs :
  Cardinality(th[p].log \cup {<<"inode", 0>>}) <= MAXOPBLOCKS
==============================================================================
