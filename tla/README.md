# TLA+ specifications of xv6-riscv

Specifications of the kernel under `src/kernel` and of the shell under
`src/user`, model-checked with TLC on small instances. The safety of the log, the
process table, the pipes, the buffer cache, the disk driver, the terminal and the
memory of processes is also proved with TLAPS, for all sizes.

## The parts and how they interact

System calls enter through traps and run as kernel threads of processes, which
the schedulers of the CPUs switch between. File system calls work on inodes and
directories, inside transactions of the log; the log uses the buffer cache, and
the buffer cache the disk driver. Pipes, the terminal and the disk let processes
sleep until another process or an interrupt wakes them. The shell and init build
on fork, exec, wait, the file descriptors and the pipes.

| part | source | module |
|---|---|---|
| write-ahead log | `log.c` | `Log`; its promise: `TxnDisk` |
| process table, scheduler, sleep and wakeup, fork, exit, wait, kill | `proc.c` | `Proc` |
| pipes | `pipe.c`, `file.c` | `Pipe`; its promise: `Fifo` |
| buffer cache, sleep-locks | `bio.c`, `sleeplock.c` | `Bcache` |
| disk driver | `virtio_disk.c` | `Virtio` |
| inode table, directories, path names | `fs.c`, `sysfile.c` | `Names` |
| blocks and contents of files | `fs.c`, `file.c`, `sysfile.c` | `Content` |
| pages, page tables, exec, sbrk | `vm.c`, `kalloc.c`, `exec.c`, `proc.c` | `Vm` |
| console and uart | `console.c`, `uart.c` | `Tty` |
| traps, spinlocks, clock, sleep and kill | `trap.c`, `spinlock.c`, `plic.c`, `sysproc.c`, `proc.c` | `Trap` |
| parser of the shell | `user/sh.c` | `ShParse` |
| shell, init, cat, echo, file table, descriptors | `user/*.c`, `file.c`, `sysfile.c`, `pipe.c` | `Sh` |

Each module begins with a comment that says which variable stands for which
field, and how long a step is. Actions have the names of the functions they
model; a function that can be seen half-way by somebody else is several actions
(`begin_op`, `begin_op_sleep`), and a function that runs under one lock is one.
A name with a suffix that follows the words "Faulty ..." in its comment is a
plausible mistake in the action after it, kept to see that a property notices.

Modules are joined where the code's layers meet:

- `Log` has the pins and the recycling of `bio.c` in it, since they decide what a
  crash loses. Disk writes are one step each; `Virtio` shows that a call of
  `virtio_disk_rw()` returns exactly when its transfer is over.
- `Names` and `Content` take a transaction as atomic, which is what `Log` is
  proved to provide. `Names` lets crashes happen between transactions; `Content` has
  no crash, so nothing is said of the contents of files after one. `Content` counts
  the blocks it logs and `TxnFits` compares them with the `MAXOPBLOCKS` that `Log`
  reserves.
- `Pipe`, `Bcache`, `Virtio` and `Tty` take `sleep()` as one step that gives up
  the lock and sleeps; `Proc` has the two locks of `sleep()` in it and shows
  that no wakeup is lost in between. `Trap` shows that interrupts stay off
  while a CPU holds a spinlock, on which `Proc` relies.
- `Sh` extends `ShParse` and has pipes as a count of bytes and two ends.

## Runs

`MC*.tla` and `*.cfg` hold the instances. Deadlock is checked except in
`pipe` (all processes may have closed the pipe), `bcache` (the cache may be
panicked) and `sh` (the user may have stopped typing).

| run | checks |
|---|---|
| `log_crash` | `CrashAtomic`: the log implements `TxnDisk`, with a crash between or inside any two disk writes, recovery included. `WriteAhead`: a home block changes only while the header on disk names it. `PinsBalanced`: a logged block is pinned once until it is installed. |
| `log_space` | `NoPanic`: operations that write less than `begin_op()` reserves do not fill the log, however many run at once. `LogInv`: one committer at a time, and the log in memory, the header, the pins and the copies of a block agree. `SleeperWoken`: nobody sleeps in `begin_op()` for ever. |
| `proc` | `OneCPU`: a process runs on one CPU, and is not picked while its stack is in use. `FreedIsOffCPU`: `wait()` frees no slot that still runs. `NoLostExit`: a parent does not sleep in `wait()` past the exit of a child. `NoOrphan`, `InitReaps`: every process has a parent that can wait, and init reaps what it inherits. `ExitEnds`: no `exit()` gets stuck. |
| `pipe` | `PipeIsFifo`: the pipe implements `Fifo`, across the wrap of its counters. `NoLostWakeup`, `CloseReleases`: nobody sleeps with work to do, and closing an end releases the other. `NoUseAfterFree`: the page is freed when nobody is in a call. |
| `bcache` | `OneBuffer`: a block has one buffer. `ChangedByHolder`: what `bread()` finds changes only by the holder of the buffer, so recycling loses nothing. `CallsReturn`: no deadlock when callers keep to the lock order. |
| `virtio` | `ChainsDisjoint`: descriptors are neither shared nor lost. `DoneAgrees`: a call returns exactly when its transfer is over. `CallsReturn`: every queued request returns, and who sleeps for descriptors is woken to try again (another process may be faster, so getting them is not promised). |
| `names` | `RefExact`: `ip->ref` is the number of pointers to the slot, on every path. `HeldIsAllocated`: what is held is not freed. `NoDangling`: no name leads to a free inode, and links cover names. `NoSubtreeLost`: no directory with something in it is removed. `NoLockCycle`: inode locks are taken without cycles. The panics of `ialloc()` and `iget()`, for a full disk and a full inode table, are reached, and the properties hold up to them. |
| `content` | `BlocksExact`: each block is owned once, and the bitmap says so. `VisibleIsOwn`: a file shows only bytes written to it. `TxnFits`: a transaction of `filewrite()` logs at most `MAXOPBLOCKS` blocks. |
| `vm` | `PagesExact`: each page has exactly one owner, on every error exit of fork, exec and sbrk. `SizeIsMapped`: what is mapped is what `p->sz` says. |
| `tty` | `FullIsReadable`: a full input ring can be read (that its reader is woken is not part of it). `NotOverwritten`: cells of the rings survive until they are read. `OutputMoves`: buffered output has somebody who will send it. |
| `trap` | `NoPanic`: no panic of `acquire`, `release`, `pop_off`, `sched` and the trap handlers: a trap goes to the handler of its mode, whatever step of `usertrap()` and `usertrapret()` a CPU is at. `InterruptsExact`: interrupts are on or off as the code needs, after switches between CPUs too. |
| `sh` | `ParseExact`: the parser agrees with the grammar. `FilesExact`: references to files and pipe ends are exact on every error path. `LineEnds`: whatever is typed, its processes end and the prompt comes back, if the user gives programs that read the console their input, and unless init itself cannot fork. |

### Bounds

| run | instance | why it is enough for the cases of interest |
|---|---|---|
| `log_crash` | 2 processes, 3 blocks, `MAXOPBLOCKS` 1, `LOGSIZE` = `nlog` = 3, one block per operation, blocks and processes symmetric | a transaction of two operations and two blocks, absorption, a block outside of it, a crash at each write of both |
| `log_space` | 3 processes, 3 blocks of one value, `MAXOPBLOCKS` 2, `LOGSIZE` = `nlog` = 4, one block per operation | two operations fit and the third must wait, sometimes for space and sometimes for a commit; without the reservation the log would fill |
| `proc` | 2 CPUs, 3 slots, pids to 4, pid 2 is killed | init, a child and its child; a slot is reused; fork finds no slot |
| `pipe` | 2 processes, 2 bytes, counters modulo 4, reads and writes of up to 2 | full, empty, wrapped around; both ends shared, then closed in any order |
| `bcache` | 2 processes, 3 blocks, 2 buffers, 1 pin, 2 buffers locked at once | recycling while another process is between its two locks; no buffer left |
| `virtio` | 3 processes with a buffer each, 6 descriptors, indices modulo 6 | two requests fit, the third must wait; indices wrap |
| `names` | 2 processes, names `a` and `b`, 3 inodes, 2 or 3 slots | a directory is removed while it is worked in, as working directory and through a path; a file has two links; the disk is full, and with 2 slots the table |
| `content` | 2 processes, 2 open files, 2 inodes, 4 blocks of 2 cells, 1 direct block, `MAXOPBLOCKS` 6 | indirect blocks, writes of several transactions, unaligned writes, a full disk |
| `vm` | 3 processes, 14 pages, 4 user pages, 2 per table, sizes of half pages | `kalloc()` fails at each call of fork, exec and sbrk |
| `tty` | 1 reader, 1 writer, rings of 2, indices modulo 4 | both rings full, empty and wrapped; echo against writer |
| `trap` | 2 CPUs, 2 processes, `ticks` modulo 4 | a thread changes CPUs between `sleep()` and its return; sleeps across the wrap |
| `sh` | every line of up to 3 tokens, all of 4 over a smaller alphabet, 15 longer ones; 6 processes, 5 files, 3, 4 or 5 descriptors, 1 byte of pipe, 1 line | pipelines of three in blocks; each table runs full in the middle of a line; `pipe()` gets no descriptor, one, or both |

`vm` and `trap` use a view. In `Vm` pages are interchangeable, so a state in
which each has one owner is given by who owns one. In `Trap` only the ticks since
a process went to sleep matter, and `intena` only while `noff > 0` or until
`sched()` returns. `names` and `trap` take their calls from a list for each process
(`MCCalls`), chosen so that the calls of one meet those of the other.

### Fairness

Liveness is checked in six runs. Each assumes that a process that can go on is
scheduled again, which the round-robin loop of `scheduler()` and the timer
interrupt give. Strong fairness is used for steps that need a lock others take
again and again (`Proc`, `Pipe`, `Bcache`, and the calls of `Virtio`): spinlocks
of xv6 are not fair by construction, so this is an assumption on the
hardware's atomic swap, and for sleep-locks on the scheduler. `Log` assumes that an
operation ends, `Bcache` that a holder releases its buffer, `Virtio` that
the device answers, `Proc` that init calls `wait()` in its loop and a killed process
traps. In `Sh` the processes are weakly fair. The user need not
type: that a program's read of the console returns is not assumed of the
specification but is the premise of `LineEnds`.

## Proofs

Each component that is proved has a module of its own, which extends the
component's module: `LogProof`, `ProcProof`, `PipeProof`, `BcacheProof`,
`VirtioProof`, `TtyProof`, `VmProof`. `ModularArithmetic` holds the lemmas
about remainders that indices which wrap around need. The theorems hold for any
number of processes, blocks, buffers, pages, slots and CPUs and any sizes that
fulfil the assumptions of the modules. In each module `IInv` is an inductive
invariant, theorem `Invariance` says that it always holds, and the others
are derived from it. There is a lemma for each action, or for each conjunct
of the invariant with one step per action.

| module | theorem | says |
|---|---|---|
| `LogProof` | `TypeCorrect` | `[]TypeOK` |
| | `NeverPanics` | `[]NoPanic`: the reservation of `begin_op()` suffices |
| | `Consistent` | `[]LogInv`: committer, log, header, pins and copies agree |
| | `CommitsAlone` | one committer, and no operation in progress beside it |
| | `PinsHold` | pins are balanced, and an unwritten buffer is pinned |
| | `WritesAhead` | `WriteAhead`, an action property |
| | `Refinement` | `CrashAtomic`: the log implements `TxnDisk` |
| `ProcProof` | `CPUSafety`, `FreeSafety`, `ExitSafety`, `ParentSafety` | `[]OneCPU`, `[]FreedIsOffCPU`, `[]NoLostExit`, `[]NoOrphan` |
| `PipeProof` | `WakeupSafety`, `FreeSafety` | `[]NoLostWakeup`, `[]NoUseAfterFree` |
| | `Refinement` | `PipeIsFifo`: the pipe implements `Fifo` |
| `BcacheProof` | `BufferSafety`, `HolderChanges` | `[]OneBuffer`, and `ChangedByHolder` |
| | `BlockExclusion` | two processes never hold buffers of the same block |
| `VirtioProof` | `DescriptorSafety`, `TransferDone` | `[]ChainsDisjoint`, and `DoneAgrees` |
| `TtyProof` | `InputSafety`, `OutputSafety` | `[]FullIsReadable`, `[]OutputMoves` |
| | `KeptSafety` | `NotOverwritten`, an action property |
| `VmProof` | `PagesNeverLost`, `SizeAlwaysMapped` | `[]PagesExact`, `[]SizeIsMapped` |

What is wanted is seldom inductive as it stands.

- `Log`. The abstract disk is what recovery would make of the concrete one
  (`Recovered`); `write_head()` of `commit()` is the step that makes a group durable,
  and every other disk write, torn or not, maps to a stutter. That a commit is
  atomic needs that log blocks hold what the cache holds for the part already
  copied (`Copies`), which needs that nobody writes meanwhile (`Exclusive`) and that
  the header, the list in memory and the loop variables agree (`LogShape`). That
  the log does not fill needs an account of the blocks that operations in
  progress may still log (`Reserved`), which is what the test in `begin_op()`
  maintains. The run `log_space` checks all of `IInv` but this account, as `LogInv`;
  the account shows there as `NoPanic`.
- `Proc`. A CPU runs the process of its `cpu->proc`, or holds its lock while it
  switches (`Switching`). The location of a thread says what state its process is
  in and whether it has `wait_lock` (`Located`), and who is making a child
  (`Children`). Then a process that has run has a living parent (`Parents`), also in
  the middle of `reparent()`, and a sleeping parent has no zombie unless it is
  init and about to be woken (`Exits`).
- `Pipe`. Who is where with the lock (`InCall`), who still refers to an end
  (`OpenEnds`), how full the buffer is across the wrap of the counters
  (`Bounded`), and that what a sleeper waits for is still so, or somebody who has
  the lock will wake it (`Asleep`). The refinement maps the cells between `nread`
  and `nwrite` to the queue of `Fifo`.
- `Bcache`. `refcnt` is the number of processes that refer to the buffer, and one for a
  pin (`Counted`, over cardinalities); the list has every buffer once
  (`Listed`, a permutation that `MoveToFront` keeps); an unpinned valid buffer agrees
  with the disk (`Clean`), so recycling changes nothing that can be seen.
- `Virtio`. The parts of the rings between producer and consumer hold no
  descriptor twice (`Rings`), a waiting process owns a chain of three that nobody
  else owns (`Chains`), each request is in one place (`Progress`), and buffer and disk
  differ until the device has been there (`Transfer`). That the rings have room
  follows from counting: each request in progress uses three descriptors and
  one cell.
- `Tty`. The three indices of the input ring stay in order and within its size
  (`Ordered`), `uartstart()` has the lock and something to send (`Holding`). That
  erasing a line stops at its beginning uses the least distance at which a newline is
  found, which is a well-founded minimum.
- `Vm`. `PagesExact` alone says nothing of what a page table maps, and `SizeIsMapped`
  nothing of a call in progress. The invariant adds where each call is and what it has
  (`Control`), how far its loop over pages is and that its sizes fit (`Sizes`), that
  nobody else has the page table it works on (`Unshared`), and what each table
  maps at each location (`Tables`): the whole pages below the loop variable of
  `uvmalloc()` and `uvmcopy()`, only the trampoline while `proc_pagetable()` is under
  way, nothing in a page that is no table. `Exact` states `PagesExact` for a set of
  page tables and a set of other owners, so that there is one lemma for each operation
  on memory (`MapUser`, `UvmunmapExact`, `FreewalkExact`...) and each step of a call
  only has to say what becomes of these two sets. The panics follow, since each
  is for an entry that `Tables` says is there, or is not.

The assumptions are the named `ASSUME`s of the modules, which TLC evaluates in the
runs. `NoPanic` of `Log` is about operations that log at most `OpBlocks` blocks,
under `OpsFitLog`. `SizeAssumption` of `Vm` asks for the five pages that `userinit()`
takes, and for user memory of at least the two pages that a stack needs.

Only model-checked are

- liveness, in the six runs that check it: it needs fairness and `ENABLED`,
  which the prover does not reach;
- `ParseExact`, since the parser and the grammar of `ShParse` are recursive
  operators, and what they compute for every line needs induction over lines;
- `FilesExact` of `Sh`, whose module extends `ShParse`;
- the modules `Names`, `Content` and `Trap`. Nothing in them is out of the prover's
  reach, but their inductive invariants have not been worked out: `Names` and
  `Content` count references and blocks over all calls in progress, and `Trap` follows
  interrupts through two CPUs. They are checked on the instances above.

## What the code does that a reader may not expect

Met while modelling; the properties are stated so that they hold beside these.

- `begin_op()` lets operations reserve `LOGSIZE` blocks (`log.c:133`), but the log
  of `mkfs` has `nlog = LOGSIZE` blocks with the header among them, and `log_write()`
  panics when `log.size - 1` are used, before it looks for absorption (`log.c:220`).
  Three operations that log all of their `MAXOPBLOCKS` blocks would reach that
  panic. `OpsFitLog` says what avoids it.
- `wait()` tests `p->killed` without `p->lock` (`proc.c:420`): a `kill()` between
  the test and `sleep()` is noticed only when a child exits.
- `kill(0)` finds a free slot and marks it (`proc.c:585`). `allocproc()` does not
  reset `killed`, so the next process in that slot is born killed.
- A killed writer returns from `pipewrite()` without a wakeup (`pipe.c:84`), so
  readers may sleep with bytes in the buffer until the next write or close.
- The `..` of a removed directory may name an inode that has been freed, and
  `ilock()` panics on it (`fs.c:311`). Paths of the run `names` have no `..`.
- `writei()` does not log a block whose copy stopped half-way (`fs.c:500`): what was
  copied is in the cache only. It lies beyond the size or in a block the file owns, so
  `VisibleIsOwn` holds.
- Someone who types without pause keeps `uartintr()` in its loop, and output waits.

## Not modelled

- `copyin`, `copyout`, `copyinstr`, the kernel page table and the fetching of
  system call arguments: they change no state that the modules share, or run once.
  Their failure is a choice in `Content`, `Pipe` and `Sh`.
- Registers and trampolines: below the level of the modules; `swtch()` is a change of
  the running thread. An exception of a user program kills it in `Trap`; exceptions
  in the kernel and interrupts that `devintr()` does not know are left out.
- Crashes in `Content`. In `Sh`, init's `exec()` of the shell does not fail, and a read of
  the console takes a whole line. In `Vm` the page table has two levels.
- `readsb`, `fsinit`, `stati`, `fstat`, boot code and device initialisation: they
  read, or run once before there is concurrency. `mkfs` is a host tool.
- `printf.c`, `string.c`, `ulib.c`: formatting and loops over bytes.
- `umalloc.c` and `grep.c`: sequential code on private memory. What matters there
  is arithmetic on addresses and characters, which the abstraction to small sets
  would remove.
- `ramdisk.c`: not part of the build.
- Splitting of a line into tokens by `gettoken()`, and the built-in `cd` of the shell.
- The other user programs are short sequences of system calls; `usertests.c`,
  `forktest.c`, `grind.c` and `stressfs.c` are tests.
- Weak memory: the barriers in `spinlock.c` and `virtio_disk.c` are taken to work.
