---------------------------------- MODULE Sh ----------------------------------
(***************************************************************************)
(* The shell and the file descriptors it works with: init and sh           *)
(* (user/init.c, user/sh.c), two programs it runs (user/cat.c and          *)
(* user/echo.c), the file table (kernel/file.c), the descriptors and       *)
(* sys_pipe() of kernel/sysfile.c and the ends of the pipes                *)
(* (kernel/pipe.c; module Pipe models their locking and sleeping).         *)
(*                                                                         *)
(* A user process is the sequence of system calls it has still to make,    *)
(* its script: a call is a tuple whose first element is its name, and a    *)
(* step of the process is the first call of its script.  fork, open and    *)
(* pipe fail when the process, file or descriptor table is full; fork,     *)
(* exec and pipe may find no memory, and a file to be opened may be        *)
(* missing.  (init's exec of sh does not fail.)                            *)
(***************************************************************************)
EXTENDS ShParse, FiniteSetsExt, TLC

CONSTANTS NPROC, NFILE, PIPESIZE,
          NOFILE,     \* the numbers of descriptors, one is chosen at first
          Typed,      \* the lines a user may type
          MaxLines,   \* bound: how many lines, ends of input included
          Input       \* bound: the bytes of a file, and those typed for a program that reads the console

ASSUME ShAssumption ==
  /\ NPROC \in Nat \ {0, 1} /\ NFILE \in Nat \ {0}
  /\ NOFILE \subseteq Nat \ {0, 1, 2} /\ NOFILE # {}
  /\ PIPESIZE \in Nat \ {0} /\ MaxLines \in Nat /\ Input \in Nat

Procs == 1..NPROC
Files == 1..NFILE
Pipes == 1..NFILE
INIT == 1                   \* the process init
EndOfInput == <<"^D">>

VARIABLES
  proc,   \* per process: state, parent, script, ofile (descriptor to file, 0: none), and the
          \* variables p (of runcmd), fd (of cat) and pid (of init)
  file,   \* ftable
  pipe,   \* the pages used as struct pipe: readopen, writeopen, n bytes
  panicked,  \* the function that called panic(), or "no"
  lines   \* how many lines have been typed

vars == <<proc, file, pipe, panicked, lines>>

Fds == DOMAIN proc[INIT].ofile
Closed(n) == [d \in 0..(n - 1) |-> 0]
Unused(n) == [state |-> "UNUSED", parent |-> 0, script |-> <<>>, ofile |-> Closed(n),
              p |-> <<0, 0>>, fd |-> 0, pid |-> 0]
FD_NONE == [ref |-> 0, type |-> "none", pipe |-> 0, readable |-> FALSE, writable |-> FALSE, left |-> 0]
Inode(r, w) == [ref |-> 1, type |-> "inode", pipe |-> 0, readable |-> r, writable |-> w, left |-> Input]
Device == [Inode(TRUE, TRUE) EXCEPT !.type = "device"]
PipeEnd(i, w) == [ref |-> 1, type |-> "pipe", pipe |-> i, readable |-> ~w, writable |-> w, left |-> 0]
NoPipe == [readopen |-> FALSE, writeopen |-> FALSE, n |-> 0]

------------------------------------------------------------------------------
\* The scripts of the programs.

ExitCall == <<<<"exit">>>>

Sh == <<<<"sh_main">>>>
Prompt == <<<<"getcmd">>>>
Init_main == <<<<"fork", Sh>>, <<"init_wait">>>>

\* Descriptors kept in variables of a process: p[0] and p[1] of runcmd(), fd of cat.
P0 == -1
P1 == -2
FD == -3

\* One side of a pipeline: an end of the pipe replaces descriptor d.
PipeSide(d, end, cmd) == <<<<"close", d>>, <<"dup", end>>, <<"close", P0>>, <<"close", P1>>, <<"run", cmd>>>>

\* Faulty PipeParent: it keeps the write end of the pipe.
PipeParent_open == <<<<"close", P0>>, <<"wait">>, <<"wait">>, <<"exit">>>>

PipeParent == <<<<"close", P0>>, <<"close", P1>>, <<"wait">>, <<"wait">>, <<"exit">>>>

runcmd(cmd) ==
  CASE cmd[1] = "EXEC"  -> IF cmd[2] = <<>> THEN ExitCall ELSE <<<<"exec", cmd[2]>>, <<"exit">>>>
    [] cmd[1] = "REDIR" -> <<<<"close", cmd[4]>>, <<"open", cmd[4] = 1>>, <<"run", cmd[2]>>>>
    [] cmd[1] = "LIST"  -> <<<<"fork", <<<<"run", cmd[2]>>>>>>, <<"wait">>, <<"run", cmd[3]>>>>
    [] cmd[1] = "PIPE"  -> <<<<"pipe">>, <<"fork", PipeSide(1, P1, cmd[2])>>,
                             <<"fork", PipeSide(0, P0, cmd[3])>>>> \o PipeParent
    [] cmd[1] = "BACK"  -> <<<<"fork", <<<<"run", cmd[2]>>>>>>, <<"exit">>>>

\* A call of runcmd() is not a system call: it is replaced by those it makes.
Then(script) == IF script # <<>> /\ Head(script)[1] = "run" THEN runcmd(Head(script)[2]) ELSE script

cat_files(n) ==
  [i \in 1..(3 * n) |-> CASE i % 3 = 1 -> <<"open", FALSE>> [] i % 3 = 2 -> <<"read", FD>> [] i % 3 = 0 -> <<"close", FD>>]
cat_main(argv) == IF Len(argv) = 1 THEN <<<<"read", 0>>, <<"exit">>>> ELSE cat_files(Len(argv) - 1) \o ExitCall

\* Two writes for every argument; their results are not looked at.
echo_main(argv) == [i \in 1..(2 * (Len(argv) - 1)) |-> <<"write", 1, FALSE>>] \o ExitCall

------------------------------------------------------------------------------
\* The file table.  k is the triple of the file table, the pipes and panicked.

Kernel == [file |-> file, pipe |-> pipe, panicked |-> panicked]
SetKernel(k) == file' = k.file /\ pipe' = k.pipe /\ panicked' = k.panicked

FreeFiles(k) == {f \in Files : k.file[f].ref = 0}

filedup(k, f) ==
  IF k.file[f].ref < 1 THEN [k EXCEPT !.panicked = "filedup"] ELSE [k EXCEPT !.file[f].ref = @ + 1]

pipeclose(k, i, writable) ==
  LET pi == IF writable THEN [k.pipe[i] EXCEPT !.writeopen = FALSE] ELSE [k.pipe[i] EXCEPT !.readopen = FALSE]
  IN [k EXCEPT !.pipe[i] = IF pi.readopen \/ pi.writeopen THEN pi ELSE NoPipe]

fileclose(k, f) ==
  LET ff == k.file[f]
      k1 == [k EXCEPT !.file[f] = FD_NONE]
  IN IF ff.ref < 1 THEN [k EXCEPT !.panicked = "fileclose"]
     ELSE IF ff.ref > 1 THEN [k EXCEPT !.file[f].ref = @ - 1]
     ELSE IF ff.type = "pipe" THEN pipeclose(k1, ff.pipe, ff.writable) ELSE k1

\* filealloc() of a slot, which the caller fills with ff.
filealloc(k, f, ff) == [k EXCEPT !.file[f] = ff]

FreeFds(ofile) == {d \in Fds : ofile[d] = 0}
fdalloc(ofile, f) == [ofile EXCEPT ![Min(FreeFds(ofile))] = f]

------------------------------------------------------------------------------
Init ==
  /\ \E n \in NOFILE : proc = [q \in Procs |->
       IF q = INIT THEN [Unused(n) EXCEPT !.state = "RUNNABLE", !.script = Init_main,
                                          !.ofile = [d \in DOMAIN @ |-> IF d <= 2 THEN 1 ELSE 0]]
       ELSE Unused(n)]
  /\ file = [f \in Files |-> IF f = 1 THEN [Device EXCEPT !.ref = 3] ELSE FD_NONE]
  /\ pipe = [i \in Pipes |-> NoPipe]
  /\ panicked = "no"
  /\ lines = 0

freeproc == Unused(Cardinality(Fds))

At(q, call) == panicked = "no" /\ proc[q].state = "RUNNABLE" /\ Head(proc[q].script)[1] = call
Call(q) == Head(proc[q].script)
Rest(q) == Then(Tail(proc[q].script))

Fd(q, d) == CASE d = P0 -> proc[q].p[1] [] d = P1 -> proc[q].p[2] [] d = FD -> proc[q].fd [] OTHER -> d
File(q, d) == proc[q].ofile[Fd(q, d)]

Goto(q, script) == proc' = [proc EXCEPT ![q].script = script]
SameKernel == UNCHANGED <<file, pipe, panicked>>

\* The shell opens the console until it gets a descriptor from 3 on, which it closes.
sh_main(q) ==
  LET free == FreeFiles(Kernel)
      fds == FreeFds(proc[q].ofile)
  IN /\ At(q, "sh_main")
     /\ IF free = {} \/ fds = {} THEN Goto(q, Prompt) /\ SameKernel
        ELSE /\ proc' = [proc EXCEPT ![q].fd = Min(fds), ![q].ofile = fdalloc(@, Min(free)),
                    ![q].script = IF Min(fds) < 3 THEN @ ELSE <<<<"close", FD>>>> \o Prompt]
             /\ SetKernel(filealloc(Kernel, Min(free), Device))
     /\ UNCHANGED lines

\* The user types a line, or ends the input, at the prompt.  The call of
\* parsecmd() that the child will make carries its result.  (The command cd, which
\* the shell runs itself, touches no descriptor and is left out.)
getcmd(q) ==
  /\ At(q, "getcmd") /\ lines < MaxLines
  /\ lines' = lines + 1
  /\ \E l \in Typed :
       Goto(q, IF l = EndOfInput THEN ExitCall
               ELSE <<<<"fork", <<<<"parsecmd", l, parsecmd(l)>>>>>>, <<"wait">>>> \o Prompt)
  /\ SameKernel

\* The child of the shell parses the line and runs the command.
parse(q) ==
  LET c == Call(q)[3] IN
  /\ At(q, "parsecmd")
  /\ Goto(q, IF c = Panic THEN ExitCall ELSE runcmd(c))
  /\ SameKernel /\ UNCHANGED lines

\* The child takes the first free slot and gets a reference to every open file; when
\* there is no slot or no memory, init and fork1() of the shell exit.
fork(q) ==
  LET free == {c \in Procs : proc[c].state = "UNUSED"}
      open == {d \in Fds : proc[q].ofile[d] # 0}
  IN /\ At(q, "fork")
     /\ \/ Goto(q, ExitCall) /\ SameKernel
        \/ /\ free # {}
           /\ proc' = [proc EXCEPT ![q].script = Rest(q), ![q].pid = Min(free),
                                   ![Min(free)] = [proc[q] EXCEPT !.parent = q, !.script = Then(Call(q)[2])]]
           /\ SetKernel(FoldSet(LAMBDA d, k : filedup(k, proc[q].ofile[d]), Kernel, open))
     /\ UNCHANGED lines

\* cat and echo are the programs there are; exec() of another name fails, and any may
\* for want of memory.
exec(q) ==
  LET argv == Call(q)[2] IN
  /\ At(q, "exec")
  /\ \/ argv[1] = "cat" /\ Goto(q, cat_main(argv))
     \/ argv[1] = "echo" /\ Goto(q, echo_main(argv))
     \/ Goto(q, Rest(q))
  /\ SameKernel /\ UNCHANGED lines

\* A descriptor that is not open is an error, which no program here looks at.
sys_close(q) ==
  LET d == Fd(q, Call(q)[2]) IN
  /\ At(q, "close")
  /\ proc' = [proc EXCEPT ![q].script = Rest(q), ![q].ofile[d] = 0]
  /\ IF proc[q].ofile[d] = 0 THEN SameKernel ELSE SetKernel(fileclose(Kernel, proc[q].ofile[d]))
  /\ UNCHANGED lines

sys_dup(q) ==
  LET f == File(q, Call(q)[2]) IN
  /\ At(q, "dup")
  /\ IF f = 0 \/ FreeFds(proc[q].ofile) = {} THEN Goto(q, Rest(q)) /\ SameKernel
     ELSE /\ proc' = [proc EXCEPT ![q].script = Rest(q), ![q].ofile = fdalloc(@, f)]
          /\ SetKernel(filedup(Kernel, f))
  /\ UNCHANGED lines

\* A file to be read may be missing; after any failure the program exits.
sys_open(q) ==
  LET write == Call(q)[2]
      free == FreeFiles(Kernel)
      fds == FreeFds(proc[q].ofile)
  IN /\ At(q, "open")
     /\ \/ /\ ~write \/ free = {} \/ fds = {}
           /\ Goto(q, ExitCall) /\ SameKernel
        \/ /\ free # {} /\ fds # {}
           /\ proc' = [proc EXCEPT ![q].script = Rest(q), ![q].fd = Min(fds), ![q].ofile = fdalloc(@, Min(free))]
           /\ SetKernel(filealloc(Kernel, Min(free), Inode(~write, write)))
     /\ UNCHANGED lines

\* pipealloc(): two files and a page, or nothing.
pipealloc(k, f0, f1, i) ==
  [filealloc(filealloc(k, f0, PipeEnd(i, FALSE)), f1, PipeEnd(i, TRUE))
     EXCEPT !.pipe[i] = [readopen |-> TRUE, writeopen |-> TRUE, n |-> 0]]

\* bad: of pipealloc(), when it has taken the files fs.
PipeallocBad(k, fs) ==
  FoldSet(LAMBDA f, k1 : fileclose(k1, f), FoldSet(LAMBDA f, k1 : filealloc(k1, f, [FD_NONE EXCEPT !.ref = 1]), k, fs), fs)

\* The first n elements of a set of numbers, or all of them.
FirstOf(S, n) == {x \in S : Cardinality({y \in S : y < x}) < n}

\* ofile when the files fs have got the descriptors fds, of which there are at most two.
Given(ofile, fs, fds) ==
  CASE fds = {} -> ofile
    [] Cardinality(fds) = 1 -> fdalloc(ofile, Min(fs))
    [] OTHER -> fdalloc(fdalloc(ofile, Min(fs)), Max(fs))

\* Faulty TakenBack: fd0 stays when there is no fd1.
TakenBack_both(ofile, fds) ==
  [d \in DOMAIN ofile |-> IF d \in fds /\ Cardinality(fds) = 2 THEN 0 ELSE ofile[d]]

TakenBack(ofile, fds) == [d \in DOMAIN ofile |-> IF d \in fds THEN 0 ELSE ofile[d]]

\* It fails in pipealloc(), or when there are not two descriptors, or in copyout().
sys_pipe(q) ==
  LET fs == FirstOf(FreeFiles(Kernel), 2)
      fds == FirstOf(FreeFds(proc[q].ofile), 2)
      i == Min({j \in Pipes : ~pipe[j].readopen /\ ~pipe[j].writeopen})
      k == pipealloc(Kernel, Min(fs), Max(fs), i)
      ofile == Given(proc[q].ofile, fs, fds)
  IN /\ At(q, "pipe")
     /\ \/ SetKernel(PipeallocBad(Kernel, fs)) /\ Goto(q, ExitCall)
        \/ /\ Cardinality(fs) = 2 /\ Cardinality(fds) = 2
           /\ SetKernel(k)
           /\ proc' = [proc EXCEPT ![q].script = Rest(q), ![q].p = <<Min(fds), Max(fds)>>, ![q].ofile = ofile]
        \/ /\ Cardinality(fs) = 2
           /\ SetKernel(fileclose(fileclose(k, Min(fs)), Max(fs)))
           /\ proc' = [proc EXCEPT ![q].script = ExitCall, ![q].ofile = TakenBack(ofile, fds)]
     /\ UNCHANGED lines

\* cat: read() what there is, write() it to descriptor 1, until the end of the file.
Copied(q, n) == IF n = 0 THEN Rest(q) ELSE <<<<"write", n, TRUE>>>> \o proc[q].script

sys_read(q) ==
  LET f == File(q, Call(q)[2])
      pi == pipe[file[f].pipe]
  IN /\ At(q, "read")
     /\ IF f = 0 \/ ~file[f].readable THEN Goto(q, ExitCall) /\ UNCHANGED <<file, pipe>>
        ELSE \/ /\ file[f].type = "inode"
                /\ Goto(q, Copied(q, file[f].left))
                /\ file' = [file EXCEPT ![f].left = 0] /\ UNCHANGED pipe
             \/ /\ file[f].type = "pipe"
                /\ pi.n > 0 \/ ~pi.writeopen
                /\ Goto(q, Copied(q, pi.n))
                /\ pipe' = [pipe EXCEPT ![file[f].pipe].n = 0] /\ UNCHANGED file
     /\ UNCHANGED <<panicked, lines>>

ReadsConsole(q) ==
  At(q, "read") /\ \E f \in {File(q, Call(q)[2])} \ {0} : file[f].type = "device" /\ file[f].readable

\* read() of the console returns when the user has typed something, or ended the input.
consoleread(q) ==
  LET f == File(q, Call(q)[2]) IN
  /\ ReadsConsole(q)
  /\ \E n \in {0, file[f].left} :
       /\ Goto(q, Copied(q, n))
       /\ file' = [file EXCEPT ![f].left = @ - n]
  /\ UNCHANGED <<pipe, panicked, lines>>

\* write() of n bytes to descriptor 1; after an error cat exits, echo goes on.
sys_write(q) ==
  LET n == Call(q)[2]
      f == File(q, 1)
      i == file[f].pipe
      m == Min({n, PIPESIZE - pipe[i].n})
  IN /\ At(q, "write")
     /\ \/ /\ f = 0 \/ ~file[f].writable \/ (file[f].type = "pipe" /\ ~pipe[i].readopen)
           /\ Goto(q, IF Call(q)[3] THEN ExitCall ELSE Rest(q)) /\ UNCHANGED pipe
        \/ /\ f # 0 /\ file[f].writable /\ file[f].type \in {"inode", "device"}
           /\ Goto(q, Rest(q)) /\ UNCHANGED pipe
        \/ /\ f # 0 /\ file[f].writable /\ file[f].type = "pipe"
           /\ pipe[i].readopen /\ pipe[i].n < PIPESIZE
           /\ pipe' = [pipe EXCEPT ![i].n = @ + m]
           /\ Goto(q, IF m = n THEN Rest(q) ELSE <<<<"write", n - m, Call(q)[3]>>>> \o Tail(proc[q].script))
     /\ UNCHANGED <<file, panicked, lines>>

\* exit() closes every file and gives the children to init; init itself may not exit.
exit(q) ==
  LET open == {d \in Fds : proc[q].ofile[d] # 0} IN
  /\ At(q, "exit")
  /\ IF q = INIT THEN panicked' = "exit" /\ UNCHANGED <<proc, file, pipe>>
     ELSE /\ proc' = [c \in Procs |->
               IF c = q THEN [freeproc EXCEPT !.state = "ZOMBIE", !.parent = proc[q].parent]
               ELSE [proc[c] EXCEPT !.parent = IF @ = q THEN INIT ELSE @]]
          /\ SetKernel(FoldSet(LAMBDA d, k : fileclose(k, proc[q].ofile[d]), Kernel, open))
  /\ UNCHANGED lines

Children(q) == {c \in Procs : proc[c].parent = q}
Zombies(q) == {c \in Children(q) : proc[c].state = "ZOMBIE"}

wait(q) ==
  /\ At(q, "wait")
  /\ Children(q) # {} => Zombies(q) # {}
  /\ proc' = [c \in Procs |-> IF c = q THEN [proc[q] EXCEPT !.script = Rest(q)]
                              ELSE IF Zombies(q) # {} /\ c = Min(Zombies(q)) THEN freeproc ELSE proc[c]]
  /\ SameKernel /\ UNCHANGED lines

\* init reaps every orphan, and starts a new shell when the shell has exited.
init_wait ==
  LET wpid == Min(Zombies(INIT)) IN
  /\ At(INIT, "init_wait") /\ Zombies(INIT) # {}
  /\ proc' = [proc EXCEPT ![wpid] = freeproc,
                          ![INIT].script = IF wpid = proc[INIT].pid THEN Init_main ELSE @]
  /\ SameKernel /\ UNCHANGED lines

Step(q) ==
  \/ sh_main(q) \/ parse(q) \/ fork(q) \/ exec(q) \/ exit(q) \/ wait(q) \/ (q = INIT /\ init_wait)
  \/ sys_open(q) \/ sys_close(q) \/ sys_dup(q) \/ sys_pipe(q) \/ sys_read(q) \/ sys_write(q)

Next == \E q \in Procs : getcmd(q) \/ consoleread(q) \/ Step(q)

\* The scheduler runs every process that can go on; the user need not type.
Spec == Init /\ [][Next]_vars /\ \A q \in Procs : WF_vars(Step(q))

------------------------------------------------------------------------------
\* parsecmd() accepts exactly the lines of the grammar, gives each the command
\* that the grammar gives it, and no line has two meanings: '&' binds a whole
\* pipeline, ';' is the weakest, the last redirection of a command is opened first.
ParseExact ==
  \A q \in Procs : At(q, "parsecmd") =>
    LET c == Call(q)[3] IN Lines(Call(q)[2]) = IF c = Panic THEN {} ELSE {c}

\* f->ref counts the descriptors that hold the file, and an end of a pipe is
\* open just as long as a file is that end: fork(), exit(), dup() and the error
\* paths of pipealloc() and sys_pipe() neither lose a reference nor keep one, and
\* filedup() and fileclose() do not panic.
FilesExact ==
  /\ panicked \in {"no", "exit"}
  /\ \A f \in Files :
       file[f].ref = Cardinality({x \in Procs \X Fds : proc[x[1]].ofile[x[2]] = f})
  /\ \A i \in Pipes, w \in BOOLEAN :
       (IF w THEN pipe[i].writeopen ELSE pipe[i].readopen)
         <=> \E f \in Files : file[f].type = "pipe" /\ file[f].pipe = i /\ file[f].writable = w

\* A shell is at its prompt, and nothing is left of the lines before.
Settled ==
  /\ \E q \in Procs : At(q, "getcmd")
  /\ \A q \in Procs :
       \/ proc[q].state = "UNUSED"
       \/ At(q, "getcmd")
       \/ At(q, "init_wait") /\ Zombies(q) = {}

\* When the user gives the programs the input that they ask for, then whatever is
\* typed, all of its processes end and a shell is back at its prompt: in a pipeline
\* every process closes the ends it does not use, so a reader sees the end of the file
\* and a writer a closed pipe, even when a fork(), pipe() or open() in the middle fails;
\* nobody waits for a child that is not there (sh.c:80-135).  Only when init itself
\* cannot fork the system stops, as its exit() is a panic (init.c:31, proc.c:345).
LineEnds ==
  (\A q \in Procs : []<>~ReadsConsole(q)) => []<>(Settled \/ panicked = "exit")
==============================================================================
