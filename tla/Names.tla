-------------------------------- MODULE Names --------------------------------
(***************************************************************************)
(* The inode table and the directories of kernel/fs.c, under the system    *)
(* calls of kernel/sysfile.c that work on path names.                      *)
(*                                                                         *)
(* disk[i]  type and nlink of inode i on disk (type "free": not allocated) *)
(* ents[i]  the entries <<name, inum>> of directory i                      *)
(* itab[k]  slot k of the inode table, lock[k] its sleep-lock              *)
(* cwd, fd  the slots of each process's working directory and open file    *)
(* th[p]    the call that p executes: where it is, the rest of the path,   *)
(*          the inode that namex() has reached (w), the call's dp and ip,  *)
(*          and the inode that iput() is dropping (put, then goto after)   *)
(*                                                                         *)
(* A step goes from one ilock() or iput() to the next.  What a call does   *)
(* between begin_op() and end_op() is one transaction of module Log, so a  *)
(* crash finds the disk as it was while no call was in progress.           *)
(***************************************************************************)
EXTENDS Integers, Sequences, FiniteSets

CONSTANTS Procs,      \* processes
          Names,      \* file names other than "." and ".."
          Calls,      \* Calls[p]: the calls that p makes, <<operation, path, path>>
          NINODES,    \* inodes on disk are 1..NINODES - 1, and 1 is the root
          NINODE,     \* the sizes of the inode table, one is chosen at first
          None        \* no process

ASSUME SizeAssumption == NINODES \in Nat \ {0, 1} /\ NINODE \subseteq Nat \ {0} /\ NINODE # {}

VARIABLES disk, ents, itab, lock, cwd, fd, th, panicked

fs   == <<disk, ents>>
vars == <<fs, itab, lock, cwd, fd, th, panicked>>

ROOTINO == 1
Inums   == 1..(NINODES - 1)
Slots   == DOMAIN itab
Empty   == [inum |-> 0, ref |-> 0, valid |-> FALSE, type |-> "free", nlink |-> 0]
Idle    == [pc |-> "idle", op |-> "none", path |-> <<>>, new |-> <<>>,
            w |-> 0, dp |-> 0, ip |-> 0, put |-> 0, after |-> "idle"]

RootOnly(n) == [k \in 1..n |-> IF k = 1
  THEN [Empty EXCEPT !.inum = ROOTINO, !.ref = Cardinality(Procs)] ELSE Empty]

Init ==
  /\ disk = [i \in Inums |-> IF i = ROOTINO THEN [type |-> "dir", nlink |-> 1]
                                            ELSE [type |-> "free", nlink |-> 0]]
  /\ ents = [i \in Inums |-> IF i = ROOTINO THEN {<<".", i>>, <<"..", i>>} ELSE {}]
  /\ \E n \in NINODE : itab = RootOnly(n)
  /\ lock = [k \in Slots |-> None]
  /\ cwd = [p \in Procs |-> 1] /\ fd = [p \in Procs |-> 0]
  /\ th = [p \in Procs |-> Idle]
  /\ panicked = "no"

------------------------------------------------------------------------------
\* The inode table.  Operators on a table t; what a slot of reference count
\* zero holds is of no interest and is left out.

Least(S) == CHOOSE x \in S : \A y \in S : x <= y
SlotsOf(t, i) == {k \in Slots : t[k].ref > 0 /\ t[k].inum = i}
Recyclable(t) == {k \in Slots : t[k].ref = 0}

\* The slot iget() returns for inode i, 0 when it panics.
iget_slot(t, i) ==
  IF SlotsOf(t, i) # {} THEN Least(SlotsOf(t, i))
  ELSE IF Recyclable(t) # {} THEN Least(Recyclable(t)) ELSE 0

iget(t, i) ==
  LET k == iget_slot(t, i) IN
  IF t[k].ref > 0 THEN [t EXCEPT ![k].ref = @ + 1]
  ELSE [t EXCEPT ![k] = [Empty EXCEPT !.inum = i, !.ref = 1]]

idup(t, k) == [t EXCEPT ![k].ref = @ + 1]

Drop(t, k) == IF t[k].ref = 1 THEN [t EXCEPT ![k] = Empty] ELSE [t EXCEPT ![k].ref = @ - 1]

\* ilock() once it has the lock: read the inode if the slot is not valid.
Loaded(k) ==
  IF itab[k].valid THEN itab
  ELSE [itab EXCEPT ![k].valid = TRUE, ![k].type = disk[itab[k].inum].type,
                    ![k].nlink = disk[itab[k].inum].nlink]
NoType(k) == Loaded(k)[k].type = "free"

\* iupdate() of slot k of table t.
iupdate(d, t, k) == [d EXCEPT ![t[k].inum] = [type |-> t[k].type, nlink |-> t[k].nlink]]

\* Directory entries.
Find(i, name) == {e \in ents[i] : e[1] = name}
Found(i, name) == (CHOOSE e \in Find(i, name) : TRUE)[2]

\* Faulty isdirempty: looks at files only.
isdirempty_files(i) == \A e \in ents[i] : e[1] \in {".", ".."} \/ disk[e[2]].type = "dir"
isdirempty(i) == \A e \in ents[i] : e[1] \in {".", ".."}

------------------------------------------------------------------------------
At(p, l) == th[p].pc = l /\ panicked = "no"
MayLock(k) == lock[k] = None
Go(p, r) == th' = [th EXCEPT ![p] = r]
Then(p, l) == IF l = "idle" THEN Idle ELSE [th[p] EXCEPT !.pc = l]
\* r goes on with iput(k), then at l.
Put(r, k, l) == [r EXCEPT !.pc = "iput", !.put = k, !.after = l]
Panic(why) == panicked' = why /\ UNCHANGED <<fs, itab, lock, cwd, fd, th>>

\* nameiparent() is what the operation needs of the path, not namei().
WantsParent(r) == r.op \in {"create", "mkdir", "mknod", "unlink"} \/ (r.op = "link" /\ r.ip # 0)

\* namex() starts at the root or at the working directory; k is where.
Start(p, r, k) ==
  LET rest == IF r.path # <<>> /\ Head(r.path) = "/" THEN Tail(r.path) ELSE r.path
      s == [r EXCEPT !.w = k, !.path = rest, !.pc = "namex"]
  IN IF rest # <<>> THEN s
     ELSE IF WantsParent(r) THEN Put([s EXCEPT !.w = 0], k, IF r.op = "link" THEN "link_undo" ELSE "idle")
     ELSE [s EXCEPT !.pc = "found"]

\* Begin namex() for the call record r.
namex_start(p, r) ==
  IF r.path # <<>> /\ Head(r.path) = "/"
  THEN IF iget_slot(itab, ROOTINO) = 0 THEN Panic("iget")
       ELSE /\ itab' = iget(itab, ROOTINO)
            /\ Go(p, Start(p, r, iget_slot(itab, ROOTINO)))
            /\ UNCHANGED <<fs, lock, cwd, fd, panicked>>
  ELSE /\ itab' = idup(itab, cwd[p])
       /\ Go(p, Start(p, r, cwd[p]))
       /\ UNCHANGED <<fs, lock, cwd, fd, panicked>>

\* A system call: begin_op(), then the path.
syscall(p, c) ==
  /\ At(p, "idle")
  /\ namex_start(p, [Idle EXCEPT !.op = c[1], !.path = c[2], !.new = c[3]])

\* The walk has failed at w: a link() still has to take back its nlink++.
Failed(p) == Put([th[p] EXCEPT !.w = 0], th[p].w, IF th[p].op = "link" /\ th[p].ip # 0
                                                  THEN "link_undo" ELSE "idle")

\* One element of the path, with w locked.
namex(p) ==
  LET r == th[p]
      k == r.w
      t == Loaded(k)
      i == t[k].inum
      last == Len(r.path) = 1
      n == iget_slot(t, Found(i, Head(r.path)))
  IN
  /\ At(p, "namex") /\ MayLock(k)
  /\ IF NoType(k) THEN Panic("ilock")
     ELSE IF t[k].type = "dir" /\ WantsParent(r) /\ last
     THEN /\ itab' = t
          /\ Go(p, [r EXCEPT !.pc = "parent", !.w = 0, !.dp = k])
          /\ UNCHANGED <<fs, lock, cwd, fd, panicked>>
     ELSE IF t[k].type # "dir" \/ Find(i, Head(r.path)) = {}
     THEN /\ itab' = t /\ Go(p, Failed(p))
          /\ UNCHANGED <<fs, lock, cwd, fd, panicked>>
     ELSE IF n = 0 THEN Panic("iget")
     ELSE /\ itab' = iget(t, Found(i, Head(r.path)))
          /\ Go(p, Put([r EXCEPT !.w = n, !.path = Tail(@)], k,
                       IF last THEN "found" ELSE "namex"))
          /\ UNCHANGED <<fs, lock, cwd, fd, panicked>>

------------------------------------------------------------------------------
\* iput() of th[p].put.

\* Faulty LastUnlinked: asks for the lock where it should ask for references.
LastUnlinked_lock(k) == lock[k] = None /\ itab[k].valid /\ itab[k].nlink = 0

LastUnlinked(k) == itab[k].ref = 1 /\ itab[k].valid /\ itab[k].nlink = 0

iput(p) ==
  /\ At(p, "iput") /\ ~LastUnlinked(th[p].put)
  /\ itab' = Drop(itab, th[p].put)
  /\ Go(p, [Then(p, th[p].after) EXCEPT !.put = 0, !.after = "idle"])
  /\ UNCHANGED <<fs, lock, cwd, fd, panicked>>

iput_lock(p) ==
  /\ At(p, "iput") /\ LastUnlinked(th[p].put) /\ MayLock(th[p].put)
  /\ lock' = [lock EXCEPT ![th[p].put] = p]
  /\ Go(p, [th[p] EXCEPT !.pc = "iput_free"])
  /\ UNCHANGED <<fs, itab, cwd, fd, panicked>>

\* itrunc(), type = 0 and iupdate(): from here on ialloc() may take the inode.
iput_free(p) ==
  LET k == th[p].put
      t == [itab EXCEPT ![k].type = "free"]
  IN
  /\ At(p, "iput_free")
  /\ itab' = t /\ disk' = iupdate(disk, t, k)
  /\ ents' = [ents EXCEPT ![itab[k].inum] = {}]
  /\ Go(p, [th[p] EXCEPT !.pc = "iput_valid"])
  /\ UNCHANGED <<lock, cwd, fd, panicked>>

iput_valid(p) ==
  /\ At(p, "iput_valid")
  /\ itab' = [itab EXCEPT ![th[p].put].valid = FALSE]
  /\ lock' = [lock EXCEPT ![th[p].put] = None]
  /\ Go(p, [th[p] EXCEPT !.pc = "iput_drop"])
  /\ UNCHANGED <<fs, cwd, fd, panicked>>

iput_drop(p) ==
  /\ At(p, "iput_drop")
  /\ itab' = Drop(itab, th[p].put)
  /\ Go(p, [Then(p, th[p].after) EXCEPT !.put = 0, !.after = "idle"])
  /\ UNCHANGED <<fs, lock, cwd, fd, panicked>>

------------------------------------------------------------------------------
\* create(), for open(O_CREATE), mkdir() and mknod().

CreateType(op) == CASE op = "create" -> "file" [] op = "mkdir" -> "dir" [] op = "mknod" -> "dev"
FreeInums == {i \in Inums : disk[i].type = "free"}
NewName(p) == Head(th[p].path)

ialloc(d, i, type) == [d EXCEPT ![i] = [type |-> type, nlink |-> 0]]

\* Faulty create_found: dp stays locked until the inode is locked.
create_found_locked(p) ==
  LET r == th[p]
      t == Loaded(r.dp)
      i == Found(t[r.dp].inum, NewName(p))
  IN
  /\ itab' = iget(t, i)
  /\ lock' = [lock EXCEPT ![r.dp] = p]
  /\ Go(p, [r EXCEPT !.ip = iget_slot(t, i), !.pc = "create_exists"])
  /\ UNCHANGED <<fs, cwd, fd, panicked>>

\* The name exists: unlock and put dp first.
create_found(p) ==
  LET r == th[p]
      t == Loaded(r.dp)
      i == Found(t[r.dp].inum, NewName(p))
  IN
  /\ itab' = iget(t, i)
  /\ Go(p, Put([r EXCEPT !.dp = 0, !.ip = iget_slot(t, i)], r.dp, "create_exists"))
  /\ UNCHANGED <<fs, lock, cwd, fd, panicked>>

\* ilock(dp), dirlookup(), ialloc().
create(p) ==
  LET r == th[p]
      t == Loaded(r.dp)
      i == Least(FreeInums)
  IN
  /\ At(p, "parent") /\ r.op \in {"create", "mkdir", "mknod"} /\ MayLock(r.dp)
  /\ IF NoType(r.dp) THEN Panic("ilock")
     ELSE IF t[r.dp].type # "dir" THEN Panic("dirlookup")
     ELSE IF Find(t[r.dp].inum, NewName(p)) # {}
     THEN IF iget_slot(t, Found(t[r.dp].inum, NewName(p))) = 0 THEN Panic("iget") ELSE create_found(p)
     ELSE IF FreeInums = {} THEN Panic("ialloc")
     ELSE IF iget_slot(t, i) = 0 THEN Panic("iget")
     ELSE /\ disk' = ialloc(disk, i, CreateType(r.op))
          /\ ents' = [ents EXCEPT ![i] = {}]
          /\ itab' = iget(t, i)
          /\ lock' = [lock EXCEPT ![r.dp] = p]
          /\ Go(p, [r EXCEPT !.ip = iget_slot(t, i), !.pc = "create_new"])
          /\ UNCHANGED <<cwd, fd, panicked>>

\* ilock(ip) of an existing inode: only open() may use it.
create_exists(p) ==
  LET r == th[p]
      t == Loaded(r.ip)
  IN
  /\ At(p, "create_exists") /\ MayLock(r.ip)
  /\ IF NoType(r.ip) THEN Panic("ilock")
     ELSE IF r.op = "create" /\ t[r.ip].type # "dir"
     THEN /\ itab' = t /\ lock' = [lock EXCEPT ![r.ip] = p]
          /\ Go(p, [r EXCEPT !.pc = "opened"])
          /\ UNCHANGED <<fs, cwd, fd, panicked>>
     ELSE /\ itab' = t
          /\ Go(p, Put([r EXCEPT !.ip = 0], r.ip, "idle"))
          /\ UNCHANGED <<fs, lock, cwd, fd, panicked>>

\* ilock(ip) of the new inode; link it, and its parent as "..".
create_new(p) ==
  LET r == th[p]
      l == Loaded(r.ip)
      isdir == CreateType(r.op) = "dir"
      t == [l EXCEPT ![r.ip].nlink = 1, ![r.dp].nlink = IF isdir THEN @ + 1 ELSE @]
      i == t[r.ip].inum
      d == t[r.dp].inum
  IN
  /\ At(p, "create_new") /\ MayLock(r.ip)
  /\ IF NoType(r.ip) THEN Panic("ilock")
     ELSE /\ itab' = t
          /\ disk' = iupdate(iupdate(disk, t, r.ip), t, r.dp)
          /\ ents' = [ents EXCEPT ![i] = IF isdir THEN {<<".", i>>, <<"..", d>>} ELSE {},
                                  ![d] = @ \cup {<<NewName(p), i>>}]
          /\ lock' = [lock EXCEPT ![r.ip] = p, ![r.dp] = None]
          /\ Go(p, Put([r EXCEPT !.dp = 0], r.dp, "opened"))
          /\ UNCHANGED <<cwd, fd, panicked>>

\* The inode is locked.  open() wants a struct file and a descriptor, which
\* may fail; mkdir() and mknod() are done.
opened(p) ==
  LET k == th[p].ip IN
  /\ At(p, "opened")
  /\ lock' = [lock EXCEPT ![k] = None]
  /\ \/ /\ th[p].op \in {"create", "open"} /\ fd[p] = 0
        /\ fd' = [fd EXCEPT ![p] = k]
        /\ Go(p, Idle)
     \/ Go(p, Put([th[p] EXCEPT !.ip = 0], k, "idle")) /\ UNCHANGED fd
  /\ UNCHANGED <<fs, itab, cwd, panicked>>

------------------------------------------------------------------------------
\* open() without O_CREATE, close(), chdir().

sys_open(p) ==
  LET r == th[p] IN
  /\ At(p, "found") /\ r.op = "open" /\ MayLock(r.w)
  /\ IF NoType(r.w) THEN Panic("ilock")
     ELSE /\ itab' = Loaded(r.w)
          /\ lock' = [lock EXCEPT ![r.w] = p]
          /\ Go(p, [r EXCEPT !.pc = "opened", !.w = 0, !.ip = r.w])
          /\ UNCHANGED <<fs, cwd, fd, panicked>>

sys_close(p) ==
  /\ At(p, "idle") /\ fd[p] # 0
  /\ fd' = [fd EXCEPT ![p] = 0]
  /\ Go(p, Put([Idle EXCEPT !.op = "close"], fd[p], "idle"))
  /\ UNCHANGED <<fs, itab, lock, cwd, panicked>>

\* Faulty sys_chdir: forgets to put the old directory.
sys_chdir_leak(p) ==
  LET r == th[p] IN
  /\ At(p, "found") /\ r.op = "chdir" /\ MayLock(r.w)
  /\ IF NoType(r.w) THEN Panic("ilock")
     ELSE /\ itab' = Loaded(r.w)
          /\ IF Loaded(r.w)[r.w].type = "dir"
             THEN Go(p, Idle) /\ cwd' = [cwd EXCEPT ![p] = r.w]
             ELSE Go(p, Failed(p)) /\ UNCHANGED cwd
          /\ UNCHANGED <<fs, lock, fd, panicked>>

\* p->cwd is set after the iput(); until then nothing reads it.
sys_chdir(p) ==
  LET r == th[p] IN
  /\ At(p, "found") /\ r.op = "chdir" /\ MayLock(r.w)
  /\ IF NoType(r.w) THEN Panic("ilock")
     ELSE /\ itab' = Loaded(r.w)
          /\ IF Loaded(r.w)[r.w].type = "dir"
             THEN Go(p, Put([r EXCEPT !.w = 0], cwd[p], "idle")) /\ cwd' = [cwd EXCEPT ![p] = r.w]
             ELSE Go(p, Failed(p)) /\ UNCHANGED cwd
          /\ UNCHANGED <<fs, lock, fd, panicked>>

------------------------------------------------------------------------------
\* unlink().

\* ilock(dp) and dirlookup().
unlink(p) ==
  LET r == th[p]
      t == Loaded(r.dp)
      e == Find(t[r.dp].inum, NewName(p))
      i == Found(t[r.dp].inum, NewName(p))
  IN
  /\ At(p, "parent") /\ r.op = "unlink" /\ MayLock(r.dp)
  /\ IF NoType(r.dp) THEN Panic("ilock")
     ELSE IF t[r.dp].type # "dir" THEN Panic("dirlookup")
     ELSE IF NewName(p) \in {".", ".."} \/ e = {}
     THEN /\ itab' = t
          /\ Go(p, Put([r EXCEPT !.dp = 0], r.dp, "idle"))
          /\ UNCHANGED <<fs, lock, cwd, fd, panicked>>
     ELSE IF iget_slot(t, i) = 0 THEN Panic("iget")
     ELSE /\ itab' = iget(t, i)
          /\ lock' = [lock EXCEPT ![r.dp] = p]
          /\ Go(p, [r EXCEPT !.ip = iget_slot(t, i), !.pc = "unlink_ip"])
          /\ UNCHANGED <<fs, cwd, fd, panicked>>

\* ilock(ip); erase the entry.
unlink_ip(p) ==
  LET r == th[p]
      l == Loaded(r.ip)
      i == l[r.ip].inum
      d == l[r.dp].inum
      isdir == l[r.ip].type = "dir"
      t == [l EXCEPT ![r.dp].nlink = IF isdir THEN @ - 1 ELSE @]
  IN
  /\ At(p, "unlink_ip") /\ MayLock(r.ip)
  /\ IF NoType(r.ip) THEN Panic("ilock")
     ELSE IF l[r.ip].nlink < 1 THEN Panic("unlink")
     ELSE IF isdir /\ ~isdirempty(i)
     THEN /\ itab' = l
          /\ Go(p, Put([r EXCEPT !.ip = 0], r.ip, "unlink_bad"))
          /\ UNCHANGED <<fs, lock, cwd, fd, panicked>>
     ELSE /\ itab' = t
          /\ disk' = iupdate(disk, t, r.dp)
          /\ ents' = [ents EXCEPT ![d] = @ \ {<<NewName(p), i>>}]
          /\ lock' = [lock EXCEPT ![r.ip] = p, ![r.dp] = None]
          /\ Go(p, Put([r EXCEPT !.dp = 0], r.dp, "unlink_done"))
          /\ UNCHANGED <<cwd, fd, panicked>>

unlink_bad(p) ==
  /\ At(p, "unlink_bad")
  /\ lock' = [lock EXCEPT ![th[p].dp] = None]
  /\ Go(p, Put([th[p] EXCEPT !.dp = 0], th[p].dp, "idle"))
  /\ UNCHANGED <<fs, itab, cwd, fd, panicked>>

unlink_done(p) ==
  LET k == th[p].ip
      t == [itab EXCEPT ![k].nlink = @ - 1]
  IN
  /\ At(p, "unlink_done")
  /\ itab' = t /\ disk' = iupdate(disk, t, k)
  /\ lock' = [lock EXCEPT ![k] = None]
  /\ Go(p, Put([th[p] EXCEPT !.ip = 0], k, "idle"))
  /\ UNCHANGED <<ents, cwd, fd, panicked>>

------------------------------------------------------------------------------
\* link().

\* Faulty link: no nlink++.
link_uncounted(p) ==
  LET r == th[p]
      k == r.w
      t == Loaded(k)
  IN
  /\ At(p, "found") /\ r.op = "link" /\ MayLock(k)
  /\ IF NoType(k) THEN Panic("ilock")
     ELSE IF t[k].type = "dir"
     THEN /\ itab' = Loaded(k) /\ Go(p, Failed(p))
          /\ UNCHANGED <<fs, lock, cwd, fd, panicked>>
     ELSE /\ itab' = t /\ disk' = iupdate(disk, t, k)
          /\ Go(p, [r EXCEPT !.w = 0, !.ip = k, !.path = r.new, !.new = <<>>, !.pc = "link_new"])
          /\ UNCHANGED <<ents, lock, cwd, fd, panicked>>

\* ilock(ip), nlink++ and iupdate(), then the second path.
link(p) ==
  LET r == th[p]
      k == r.w
      t == [Loaded(k) EXCEPT ![k].nlink = @ + 1]
  IN
  /\ At(p, "found") /\ r.op = "link" /\ MayLock(k)
  /\ IF NoType(k) THEN Panic("ilock")
     ELSE IF t[k].type = "dir"
     THEN /\ itab' = Loaded(k) /\ Go(p, Failed(p))
          /\ UNCHANGED <<fs, lock, cwd, fd, panicked>>
     ELSE /\ itab' = t /\ disk' = iupdate(disk, t, k)
          /\ Go(p, [r EXCEPT !.w = 0, !.ip = k, !.path = r.new, !.new = <<>>, !.pc = "link_new"])
          /\ UNCHANGED <<ents, lock, cwd, fd, panicked>>

link_new(p) ==
  /\ At(p, "link_new")
  /\ namex_start(p, th[p])

\* ilock(dp) and dirlink().
link_entry(p) ==
  LET r == th[p]
      t == Loaded(r.dp)
      d == t[r.dp].inum
      e == Find(d, NewName(p))
  IN
  /\ At(p, "parent") /\ r.op = "link" /\ MayLock(r.dp)
  /\ IF NoType(r.dp) THEN Panic("ilock")
     ELSE IF t[r.dp].type # "dir" THEN Panic("dirlookup")
     ELSE IF e # {} /\ iget_slot(t, Found(d, NewName(p))) = 0 THEN Panic("iget")
     ELSE IF e # {}
     THEN /\ itab' = iget(t, Found(d, NewName(p)))
          /\ lock' = [lock EXCEPT ![r.dp] = p]
          /\ Go(p, Put(r, iget_slot(t, Found(d, NewName(p))), "link_exists"))
          /\ UNCHANGED <<fs, cwd, fd, panicked>>
     ELSE /\ itab' = t
          /\ ents' = [ents EXCEPT ![d] = @ \cup {<<NewName(p), t[r.ip].inum>>}]
          /\ Go(p, Put([r EXCEPT !.dp = 0], r.dp, "link_done"))
          /\ UNCHANGED <<disk, lock, cwd, fd, panicked>>

link_exists(p) ==
  /\ At(p, "link_exists")
  /\ lock' = [lock EXCEPT ![th[p].dp] = None]
  /\ Go(p, Put([th[p] EXCEPT !.dp = 0], th[p].dp, "link_undo"))
  /\ UNCHANGED <<fs, itab, cwd, fd, panicked>>

link_done(p) ==
  /\ At(p, "link_done")
  /\ Go(p, Put([th[p] EXCEPT !.ip = 0], th[p].ip, "idle"))
  /\ UNCHANGED <<fs, itab, lock, cwd, fd, panicked>>

\* The label bad.
link_undo(p) ==
  LET k == th[p].ip
      t == [Loaded(k) EXCEPT ![k].nlink = @ - 1]
  IN
  /\ At(p, "link_undo") /\ MayLock(k)
  /\ itab' = t /\ disk' = iupdate(disk, t, k)
  /\ Go(p, Put([th[p] EXCEPT !.ip = 0], k, "idle"))
  /\ UNCHANGED <<ents, lock, cwd, fd, panicked>>

------------------------------------------------------------------------------
\* A crash while no call is in progress, and the reboot; init starts processes
\* in the root directory.
Crash ==
  /\ \A p \in Procs : At(p, "idle")
  /\ itab' = RootOnly(Cardinality(Slots))
  /\ cwd' = [p \in Procs |-> 1] /\ fd' = [p \in Procs |-> 0]
  /\ UNCHANGED <<fs, lock, th, panicked>>

\* panic() loops for ever.
Halted == panicked # "no" /\ UNCHANGED vars

Step(p) ==
  \/ namex(p) \/ iput(p) \/ iput_lock(p) \/ iput_free(p) \/ iput_valid(p) \/ iput_drop(p)
  \/ create(p) \/ create_exists(p) \/ create_new(p) \/ opened(p)
  \/ sys_open(p) \/ sys_close(p) \/ sys_chdir(p)
  \/ unlink(p) \/ unlink_ip(p) \/ unlink_bad(p) \/ unlink_done(p)
  \/ link(p) \/ link_new(p) \/ link_entry(p) \/ link_exists(p) \/ link_done(p) \/ link_undo(p)

Next ==
  \/ \E p \in Procs : Step(p)
  \/ \E p \in Procs : \E c \in Calls[p] : syscall(p, c)
  \/ Crash
  \/ Halted

Spec == Init /\ [][Next]_vars

------------------------------------------------------------------------------
\* Properties.

\* The reference count of a slot is the number of pointers to it, in working
\* directories, open files and calls in progress: every path through the system
\* calls, the failing ones included, puts what it got (sysfile.c:118-413).
RefExact == \A k \in Slots : itab[k].ref =
    Cardinality({p \in Procs : cwd[p] = k}) + Cardinality({p \in Procs : fd[p] = k})
  + Cardinality({p \in Procs : th[p].w = k}) + Cardinality({p \in Procs : th[p].dp = k})
  + Cardinality({p \in Procs : th[p].ip = k}) + Cardinality({p \in Procs : th[p].put = k})

\* A working directory or an open file is not freed, even when it is unlinked
\* (fs.c:337), so that ilock() finds an inode of some type (fs.c:311) and dirlookup()
\* a directory (fs.c:536): calls panic only when the disk is full (fs.c:214) or the
\* inode table is (fs.c:263).  This is for calls whose paths do not use "..": the ".."
\* of a directory that was removed may name an inode that was freed since, and
\* ilock() panics on it.
HeldIsAllocated ==
  /\ panicked \in {"no", "ialloc", "iget"}
  /\ \A p \in Procs : \A k \in {cwd[p], fd[p]} \ {0} : disk[itab[k].inum].type # "free"

\* Closed under the names in its directories, and the tree below the root: what
\* all closed sets have.
Closed(S) == \A d \in S : \A e \in ents[d] : e[1] \in Names => e[2] \in S
Tree == LET C == {S \in SUBSET Inums : ROOTINO \in S /\ Closed(S)}
        IN {i \in Inums : \A S \in C : i \in S}

\* The names of inode i: entries of directories in the tree, except ".".
NamesOf(i) == {x \in Tree \X (Names \cup {".."}) : <<x[2], i>> \in ents[x[1]]}

\* A name never leads to a free inode, and unlinking all names but one does not
\* free it either: an inode has a link for each of its names (sysfile.c:184-284).
NoDangling == \A i \in Inums : NamesOf(i) # {} =>
  disk[i].type # "free" /\ disk[i].nlink >= Cardinality(NamesOf(i))

\* An unlink() takes one inode out of the tree, and no other step takes any: a
\* directory with something in it keeps its name (sysfile.c:213).
NoSubtreeLost == [][\A i \in Tree \ Tree' : \E p \in Procs :
  th[p].pc = "unlink_ip" /\ itab[th[p].ip].inum = i]_vars

\* The lock that p waits for.
WaitsFor(p) ==
  CASE th[p].pc \in {"namex", "found"} -> th[p].w
    [] th[p].pc = "parent" -> th[p].dp
    [] th[p].pc \in {"create_new", "create_exists", "unlink_ip", "link_undo"} -> th[p].ip
    [] OTHER -> 0

\* No process waits for a lock whose holder waits, directly or through others,
\* for a lock of its own (sysfile.c:201-209, 250-264).
NoLockCycle == \A S \in SUBSET Procs : S # {} =>
  ~ \A p \in S : WaitsFor(p) # 0 /\ lock[WaitsFor(p)] \in S
==============================================================================
